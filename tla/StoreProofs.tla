----------------------------- MODULE StoreProofs -----------------------------
(***************************************************************************)
(* For any number of web processes and of trainings: what is served was    *)
(* evaluated, the files of the directory follow one another in the order   *)
(* they are saved, and a process keeps the model it once had.              *)
(***************************************************************************)
EXTENDS ModelStore, TLAPS

Saving == stage \in {"open", "write"}

TypeOK ==
  /\ written \in [Files -> Nat]
  /\ torn \subseteq Files
  /\ stage \in {"idle", "split", "fit", "evaluate", "open", "write"}
  /\ version \in Nat
  /\ records \in Samples
  /\ place \in 1 .. 3
  /\ evaluated \subseteq 1 .. version
  /\ pc \in [Web -> {"idle", "classify", "predict"}]
  /\ classifier \in [Web -> Nat]
  /\ features \in [Web -> BOOLEAN]
  /\ last \in [Web -> {"none", "rules", "ensemble", "refused"}]

\* The versions trained are numbered from 1.
Numbered == stage # "idle" => version # 0

\* What is being saved, and what was ever saved, was evaluated.
OnlyEvaluated ==
  /\ Saving => version \in evaluated
  /\ \A f \in Files : written[f] # 0 => written[f] \in evaluated

\* A training leaves each file at the version of the one saved before it or
\* behind it; the files before the one being saved are its own.
SavedInOrder ==
  /\ written["model_metadata"] <= written["feature_pipeline"]
  /\ written["feature_pipeline"] <= written["failure_classifier"]
  /\ written["failure_classifier"] <= version
  /\ Saving => \A i \in 1 .. 3 : i < place => written[SaveOrder[i]] = version

\* A process that predicts has a model, and one that did so has all it needs
\* to do so again, whether the model took the record or refused it.
KeepsModel ==
  \A w \in Web :
    /\ pc[w] = "predict" => classifier[w] # 0
    /\ last[w] \in {"ensemble", "refused"} => classifier[w] # 0 /\ features[w]

\* The files a training has still to save are those of earlier ones; the ones
\* it has saved are finished; and a model that is torn is one that a training
\* later than the metadata was saving.
OwnFiles ==
  /\ stage \in {"split", "fit", "evaluate"} => \A f \in Files : written[f] < version
  /\ Saving => \A i \in 1 .. 3 :
       /\ i >= place => written[SaveOrder[i]] < version
       /\ i < place => SaveOrder[i] \notin torn
  /\ "failure_classifier" \in torn => written["model_metadata"] < version

StoreInv ==
  /\ TypeOK /\ Numbered /\ OwnFiles
  /\ OnlyEvaluated /\ SavedInOrder
  /\ KeepsModel /\ EvaluatedIsServed

-----------------------------------------------------------------------------
(* One step.                                                               *)

LEMMA InitInv == Init => StoreInv
<1>. SUFFICES ASSUME Init
              PROVE  StoreInv
  OBVIOUS
<1>. USE DEF Init
<1>1. TypeOK /\ Numbered
  BY DEF TypeOK, Numbered, Files, Samples
<1>2. OnlyEvaluated /\ SavedInOrder /\ OwnFiles
  BY DEF OnlyEvaluated, SavedInOrder, OwnFiles, Saving, Files
<1>3. KeepsModel /\ EvaluatedIsServed
  BY DEF KeepsModel, EvaluatedIsServed
<1>. QED
  BY <1>1, <1>2, <1>3 DEF StoreInv

\* The steps of a training before it saves anything, and its end.
LEMMA PrepareStep ==
  ASSUME StoreInv, Train \/ Split \/ Fit \/ Evaluate \/ Kill
  PROVE  StoreInv'
<1>1. UNCHANGED <<written, torn, pc, classifier, features, last>>
  BY DEF Train, Split, Fit, Evaluate, Kill, storeVars, webVars
<1>2. /\ version' \in Nat /\ version <= version'
      /\ evaluated \subseteq evaluated' /\ evaluated' \subseteq 1 .. version'
      /\ stage' \in {"idle", "split", "fit", "evaluate", "open"}
      /\ stage' # "idle" => version' # 0
      /\ records' \in Samples /\ place' \in 1 .. 3
      /\ stage' = "open" => version' \in evaluated' /\ place' = 1
  <2>. USE DEF StoreInv, TypeOK, Numbered
  <2>1. CASE Train
    BY <2>1 DEF Train, Sample, Samples
  <2>2. CASE Split
    BY <2>2 DEF Split
  <2>3. CASE Fit
    BY <2>3 DEF Fit
  <2>4. CASE Evaluate
    <3>1. version \in Nat /\ version # 0 /\ version \in 1 .. version
      BY <2>4 DEF Evaluate
    <3>2. /\ version' = version /\ records' = records
          /\ \/ stage' = "idle" /\ evaluated' = evaluated /\ place' = place
             \/ /\ stage' = "open" /\ evaluated' = evaluated \cup {version}
                /\ place' = 1
      BY <2>4 DEF Evaluate
    <3>3. evaluated \subseteq evaluated' /\ evaluated' \subseteq 1 .. version'
      BY <3>1, <3>2
    <3>4. /\ stage' \in {"idle", "open"} /\ place' \in 1 .. 3
          /\ stage' = "open" => version' \in evaluated' /\ place' = 1
      BY <3>1, <3>2
    <3>. QED
      BY <3>1, <3>2, <3>3, <3>4
  <2>5. CASE Kill
    BY <2>5 DEF Kill
  <2>. QED
    BY <2>1, <2>2, <2>3, <2>4, <2>5
<1>3. TypeOK' /\ Numbered'
  BY <1>1, <1>2 DEF StoreInv, TypeOK, Numbered
<1>4. OnlyEvaluated'
  BY <1>1, <1>2 DEF StoreInv, OnlyEvaluated, Saving
<1>5. SavedInOrder'
  <2>1. /\ written["failure_classifier"] \in Nat /\ version \in Nat
        /\ written["failure_classifier"] <= version
    BY DEF StoreInv, TypeOK, SavedInOrder, Files
  <2>2. written'["failure_classifier"] <= version'
    BY <1>1, <1>2, <2>1
  <2>. QED
    BY <1>1, <1>2, <2>2 DEF StoreInv, SavedInOrder, Saving
<1>6. KeepsModel' /\ EvaluatedIsServed'
  BY <1>1, <1>2 DEF StoreInv, KeepsModel, EvaluatedIsServed
<1>7. OwnFiles'
  <2>1. /\ \A f \in Files : written[f] \in Nat /\ written[f] <= version
        /\ version \in Nat /\ OwnFiles /\ torn' = torn /\ written' = written
        /\ SaveOrder[1] \in Files /\ SaveOrder[2] \in Files /\ SaveOrder[3] \in Files
        /\ "model_metadata" \in Files
    BY <1>1 DEF StoreInv, TypeOK, SavedInOrder, Files, SaveOrder
  <2>2. \/ stage' = "split" /\ version' = version + 1
        \/ /\ stage \in {"split", "fit"} /\ stage' \in {"fit", "evaluate"}
           /\ version' = version
        \/ stage' = "idle" /\ version' = version
        \/ stage = "evaluate" /\ stage' = "open" /\ version' = version /\ place' = 1
    BY DEF Train, Split, Fit, Evaluate, Kill
  <2>3. CASE stage' = "split" /\ version' = version + 1
    <3>1. \A f \in Files : written'[f] < version'
      BY <2>1, <2>3
    <3>. QED
      BY <2>1, <2>3, <3>1 DEF OwnFiles, Saving
  <2>4. CASE stage = "evaluate" /\ stage' = "open" /\ version' = version /\ place' = 1
    <3>1. \A f \in Files : written'[f] < version'
      BY <2>1, <2>4 DEF OwnFiles
    <3>2. \A i \in 1 .. 3 : SaveOrder[i] \in Files /\ ~ (i < place')
      BY <2>1, <2>4
    <3>. QED
      BY <2>1, <2>4, <3>1, <3>2 DEF OwnFiles, Saving
  <2>. QED
    BY <2>1, <2>2, <2>3, <2>4 DEF OwnFiles, Saving
<1>. QED
  BY <1>3, <1>4, <1>5, <1>6, <1>7 DEF StoreInv

\* A file is truncated, or finished.
LEMMA SaveStep ==
  ASSUME StoreInv, OpenFile \/ CloseFile
  PROVE  StoreInv'
<1>1. UNCHANGED <<version, records, evaluated, pc, classifier, features, last>>
  BY DEF OpenFile, CloseFile, webVars
<1>2. Saving /\ place \in 1 .. 3 /\ SaveOrder[place] \in Files /\ version \in Nat
  BY DEF OpenFile, CloseFile, Saving, StoreInv, TypeOK, SaveOrder, Files
<1>3. version # 0 /\ version \in evaluated
  BY <1>2 DEF StoreInv, Numbered, OnlyEvaluated, Saving
<1>4. CASE OpenFile
  <2>1. /\ UNCHANGED <<written, place>> /\ stage' = "write" /\ Saving'
        /\ torn' \subseteq Files
    BY <1>2, <1>4 DEF OpenFile, Saving, StoreInv, TypeOK
  <2>2. OwnFiles'
    <3>1. OwnFiles /\ torn' = torn \cup {SaveOrder[place]} /\ stage' = "write"
      BY <1>4 DEF OpenFile, StoreInv
    <3>2. \A i \in 1 .. 3 : i < place => SaveOrder[i] # SaveOrder[place]
      BY <1>2 DEF SaveOrder
    <3>3. SaveOrder[place] = "failure_classifier" => place = 1
      BY <1>2 DEF SaveOrder
    <3>4. place = 1 => written["model_metadata"] < version
      BY <1>2, <3>1 DEF OwnFiles, SaveOrder
    <3>. QED
      BY <1>1, <1>2, <2>1, <3>1, <3>2, <3>3, <3>4 DEF OwnFiles
  <2>. QED
    BY <1>1, <1>2, <1>3, <2>1, <2>2 DEF StoreInv, TypeOK, Numbered, OnlyEvaluated,
       SavedInOrder, KeepsModel, EvaluatedIsServed
<1>5. CASE CloseFile
  <2>1. /\ written' = [written EXCEPT ![SaveOrder[place]] = version]
        /\ torn' \subseteq Files
        /\ stage' \in {"idle", "open"} /\ place' \in 1 .. 3
        /\ stage' = "open" => place' = place + 1
    BY <1>2, <1>5 DEF CloseFile, StoreInv, TypeOK
  <2>2. TypeOK' /\ Numbered'
    BY <1>1, <1>2, <1>3, <2>1 DEF StoreInv, TypeOK, Numbered
  <2>3. OnlyEvaluated'
    BY <1>1, <1>2, <1>3, <2>1 DEF StoreInv, TypeOK, OnlyEvaluated, Saving
  <2>4. SavedInOrder'
    <3>1. /\ written \in [Files -> Nat]
          /\ SavedInOrder /\ \A i \in 1 .. 3 : i < place => written[SaveOrder[i]] = version
      BY <1>2 DEF StoreInv, TypeOK, SavedInOrder
    <3>2. place = 1 \/ place = 2 \/ place = 3
      BY <1>2
    <3>3. Saving' => place' = place + 1
      BY <2>1 DEF Saving
    <3>. QED
      BY <1>1, <1>2, <2>1, <3>1, <3>2, <3>3 DEF SavedInOrder, SaveOrder, Files
  <2>5. KeepsModel' /\ EvaluatedIsServed'
    BY <1>1 DEF StoreInv, KeepsModel, EvaluatedIsServed
  <2>6. OwnFiles'
    <3>1. OwnFiles /\ torn' = torn \ {SaveOrder[place]} /\ written \in [Files -> Nat]
      BY <1>5 DEF CloseFile, StoreInv, TypeOK
    <3>2. \A f \in Files : written'[f] = IF f = SaveOrder[place] THEN version
                                                              ELSE written[f]
      BY <1>2, <2>1, <3>1
    <3>3. stage' = "open" => place < 3 /\ place' = place + 1
      BY <1>5 DEF CloseFile
    <3>4. ASSUME Saving', NEW i \in 1 .. 3
          PROVE  /\ i >= place' => written'[SaveOrder[i]] < version
                 /\ i < place' => SaveOrder[i] \notin torn'
      <4>1. place' = place + 1
        BY <2>1, <3>3, <3>4 DEF Saving
      <4>2. SaveOrder[i] \in Files /\ (i # place => SaveOrder[i] # SaveOrder[place])
        BY <1>2 DEF SaveOrder, Files
      <4>3. CASE i >= place'
        BY <1>2, <3>1, <3>2, <4>1, <4>2, <4>3 DEF OwnFiles
      <4>4. CASE i < place'
        <5>1. i = place \/ i < place
          BY <1>2, <4>1, <4>4
        <5>. QED
          BY <1>2, <3>1, <4>1, <4>4, <5>1 DEF OwnFiles
      <4>. QED
        BY <4>3, <4>4
    <3>5. ASSUME "failure_classifier" \in torn'
          PROVE  written'["model_metadata"] < version
      <4>1. "failure_classifier" \in torn /\ SaveOrder[place] # "failure_classifier"
        BY <3>1, <3>5
      <4>2. place = 1
        <5>1. SaveOrder[1] = "failure_classifier" /\ 1 \in 1 .. 3
          BY DEF SaveOrder
        <5>. QED
          BY <1>2, <3>1, <4>1, <5>1 DEF OwnFiles
      <4>. QED
        BY <4>1, <4>2 DEF SaveOrder
    <3>. QED
      BY <1>1, <2>1, <3>4, <3>5 DEF OwnFiles, Saving
  <2>. QED
    BY <2>2, <2>3, <2>4, <2>5, <2>6 DEF StoreInv
<1>. QED
  BY <1>4, <1>5

\* A request, or a restart, of a web process.
LEMMA WebStep ==
  ASSUME StoreInv, NEW w \in Web, Ask(w) \/ Classifies(w) \/ Restart(w)
  PROVE  StoreInv'
<1>1. UNCHANGED <<written, torn, stage, version, records, place, evaluated>>
  BY DEF Ask, Classifies, GetClassifier, Predict, Restart, storeVars, trainerVars
<1>2. TypeOK /\ KeepsModel /\ EvaluatedIsServed /\ OnlyEvaluated
  BY DEF StoreInv
<1>3. /\ \A v \in Web \ {w} : /\ pc'[v] = pc[v] /\ classifier'[v] = classifier[v]
                              /\ features'[v] = features[v] /\ last'[v] = last[v]
      /\ pc' \in [Web -> {"idle", "classify", "predict"}]
      /\ classifier' \in [Web -> Nat]
      /\ features' \in [Web -> BOOLEAN]
      /\ last' \in [Web -> {"none", "rules", "ensemble", "refused"}]
      /\ pc'[w] = "predict" => classifier'[w] # 0
      /\ last'[w] \in {"ensemble", "refused"} => classifier'[w] # 0 /\ features'[w]
      /\ classifier'[w] # 0 => classifier'[w] \in evaluated
  <2>1. CASE Ask(w)
    BY <1>2, <2>1 DEF Ask, TypeOK, KeepsModel, EvaluatedIsServed
  <2>2. CASE GetClassifier(w)
    <3>1. CASE Loads(w)
      <4>1. /\ written["failure_classifier"] \in Nat \ {0}
            /\ written["failure_classifier"] \in evaluated
        BY <1>2, <3>1 DEF Loads, Whole, OnlyEvaluated, TypeOK, Files
      <4>. QED
        BY <1>2, <2>2, <3>1, <4>1 DEF Loads, GetClassifier, TypeOK, KeepsModel
    <3>2. CASE ~ Loads(w)
      BY <1>2, <2>2, <3>2 DEF GetClassifier, Answer, TypeOK, KeepsModel,
         EvaluatedIsServed
    <3>. QED
      BY <3>1, <3>2
  <2>3. CASE Predict(w)
    BY <1>2, <2>3 DEF Predict, Answer, TypeOK, KeepsModel, EvaluatedIsServed
  <2>4. CASE Restart(w)
    BY <1>2, <2>4 DEF Restart, TypeOK, KeepsModel, EvaluatedIsServed
  <2>. QED
    BY <2>1, <2>2, <2>3, <2>4 DEF Classifies
<1>4. TypeOK' /\ Numbered'
  BY <1>1, <1>2, <1>3 DEF StoreInv, TypeOK, Numbered
<1>5. OnlyEvaluated' /\ SavedInOrder' /\ OwnFiles'
  BY <1>1 DEF StoreInv, OnlyEvaluated, SavedInOrder, OwnFiles, Saving
<1>6. KeepsModel' /\ EvaluatedIsServed'
  BY <1>1, <1>2, <1>3 DEF KeepsModel, EvaluatedIsServed
<1>. QED
  BY <1>4, <1>5, <1>6 DEF StoreInv

LEMMA StoreInvariant == Spec => []StoreInv
<1>1. StoreInv /\ [Next]_vars => StoreInv'
  <2>. SUFFICES ASSUME StoreInv, [Next]_vars
                PROVE  StoreInv'
    OBVIOUS
  <2>1. CASE Trainer
    BY <2>1, PrepareStep, SaveStep DEF Trainer
  <2>2. ASSUME NEW w \in Web, Ask(w) \/ Classifies(w) \/ Restart(w)
        PROVE  StoreInv'
    BY <2>2, WebStep
  <2>3. CASE UNCHANGED vars
    BY <2>3 DEF vars, storeVars, trainerVars, webVars, StoreInv, TypeOK, Numbered,
       OnlyEvaluated, SavedInOrder, OwnFiles, Saving, KeepsModel, EvaluatedIsServed
  <2>. QED
    BY <2>1, <2>2, <2>3 DEF Next
<1>. QED
  BY <1>1, InitInv, PTL DEF Spec

-----------------------------------------------------------------------------
(* What follows.                                                           *)

\* However trainings fail, are killed and tear files, and whenever a process
\* loads: the model it classifies with passed its evaluation before it was
\* saved (evaluate before save in run_training).
THEOREM Evaluated == Spec => []EvaluatedIsServed
<1>. QED
  BY StoreInvariant, PTL DEF StoreInv

\* Whole metadata describe the model beside them, one it has replaced, or one
\* that a later training cut short: each training saves its model first, and
\* whatever is torn was opened by a training later than the metadata.
THEOREM MetadataBehind == Spec => []MetadataNeverAhead
<1>1. StoreInv => MetadataNeverAhead
  <2>. SUFFICES ASSUME StoreInv
                PROVE  MetadataNeverAhead
    OBVIOUS
  <2>1. \A f \in Files : written[f] \in Nat
    BY DEF StoreInv, TypeOK
  <2>. QED
    BY <2>1 DEF StoreInv, SavedInOrder, OwnFiles, MetadataNeverAhead, Files
<1>. QED
  BY <1>1, StoreInvariant, PTL

\* A process that has once predicted never again answers by the rules for want
\* of a model until it is restarted: what it needs it holds in memory, and
\* neither files torn since nor a record the model refused take it away.
THEOREM Stays == Spec => EnsembleStays
<1>1. StoreInv /\ [Next]_vars
      => \A w \in Web : last[w] \in {"ensemble", "refused"} => last'[w] # "rules"
  <2>. SUFFICES ASSUME StoreInv, [Next]_vars, NEW w \in Web,
                       last[w] \in {"ensemble", "refused"}
                PROVE  last'[w] # "rules"
    OBVIOUS
  <2>1. classifier[w] # 0 /\ features[w] /\ last \in [Web -> {"none", "rules", "ensemble", "refused"}]
    BY DEF StoreInv, TypeOK, KeepsModel
  <2>2. CASE Trainer \/ UNCHANGED vars
    BY <2>1, <2>2 DEF Trainer, Train, Split, Fit, Evaluate, OpenFile, CloseFile,
       Kill, vars, webVars
  <2>3. ASSUME NEW v \in Web, Ask(v) \/ Classifies(v) \/ Restart(v)
        PROVE  last'[w] # "rules"
    BY <2>1, <2>3 DEF Ask, Classifies, GetClassifier, Loads, Predict, HasPipeline,
       Answer, Restart
  <2>. QED
    BY <2>2, <2>3 DEF Next
<1>. QED
  BY <1>1, StoreInvariant, PTL DEF Spec, EnsembleStays

\* No request that ends while the model's file is whole and the pipeline's not
\* torn is answered by the rules for want of a model.
WholeFilesServe ==
  [][\A w \in Web :
       /\ Whole("failure_classifier") /\ "feature_pipeline" \notin torn
       /\ pc[w] # "idle" /\ pc'[w] = "idle"
       => last'[w] # "rules"]_vars

\* A fall-back to the rules needs a record that the model refuses, or a file
\* that is missing or torn at that very step, whatever the process failed to
\* load before: the step on which PickedUp rests.
THEOREM NoNeedlessFallback == Spec => WholeFilesServe
<1>1. StoreInv /\ [Next]_vars
      => \A w \in Web :
           /\ Whole("failure_classifier") /\ "feature_pipeline" \notin torn
           /\ pc[w] # "idle" /\ pc'[w] = "idle"
           => last'[w] # "rules"
  <2>. SUFFICES ASSUME StoreInv, [Next]_vars, NEW w \in Web,
                       Whole("failure_classifier"), "feature_pipeline" \notin torn,
                       pc[w] # "idle", pc'[w] = "idle"
                PROVE  last'[w] # "rules"
    OBVIOUS
  <2>1. TypeOK
    BY DEF StoreInv
  <2>2. ~ (Trainer \/ UNCHANGED vars)
    BY DEF Trainer, Train, Split, Fit, Evaluate, OpenFile, CloseFile, Kill, vars,
       webVars
  <2>3. PICK v \in Web : Ask(v) \/ Classifies(v) \/ Restart(v)
    BY <2>2 DEF Next
  <2>4. v = w
    BY <2>1, <2>3 DEF TypeOK, Ask, Classifies, GetClassifier, Loads, Predict, Answer,
       Restart
  <2>5. CASE Restart(w)
    BY <2>1, <2>5 DEF TypeOK, Restart
  <2>6. CASE Predict(w)
    BY <2>1, <2>6 DEF TypeOK, Predict, HasPipeline, Whole, Absent, Answer
  <2>7. ~ Ask(w) /\ ~ GetClassifier(w)
    BY <2>1 DEF TypeOK, Ask, GetClassifier, Loads, Answer, Whole, Absent
  <2>. QED
    BY <2>3, <2>4, <2>5, <2>6, <2>7 DEF Classifies
<1>. QED
  BY <1>1, StoreInvariant, PTL DEF Spec, WholeFilesServe
=============================================================================
