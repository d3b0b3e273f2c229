----------------------------- MODULE ModelStore -----------------------------
(***************************************************************************)
(* The trained model: the script that trains it and writes it, file after  *)
(* file and in place, into a directory, and the web processes that load it *)
(* from there when they first need it and classify failures with it, or    *)
(* with the rules when they cannot.  Nothing locks the directory.          *)
(***************************************************************************)
EXTENDS Naturals

CONSTANTS
  Web,         \* web server processes
  MaxVersion   \* bound: versions of the model, the one shipped included

ASSUME StoreAssumption == Web # {} /\ MaxVersion \in Nat \ {0}

VARIABLES
  \* The directory.
  written,     \* version last written to each file, 0 if none
  torn,        \* files opened for writing and not, or never, finished
  \* The training script.
  stage,       \* what run_training does next
  version,     \* the version it trains, or trained last
  records,     \* what the records it trains on are like
  place,       \* place in SaveOrder of the file it writes
  evaluated,   \* history: versions evaluated on the held-out records
  \* The web processes.
  pc,          \* where each is in step 2 of the pipeline
  classifier,  \* version in _classifier, 0 if None
  features,    \* whether _feature_pipeline is set
  last         \* what answered its last request, since it was started: the
               \* "ensemble"; the "rules", for want of a model; or the rules
               \* because the model "refused" the record

storeVars == <<written, torn>>
trainerVars == <<stage, version, records, place, evaluated>>
webVars == <<pc, classifier, features, last>>
vars == <<storeVars, trainerVars, webVars>>

Files == {"failure_classifier", "feature_pipeline", "model_metadata"}

\* Mutant: the metadata are written first.
SaveOrder_MetadataFirst ==
  <<"model_metadata", "failure_classifier", "feature_pipeline">>

SaveOrder == <<"failure_classifier", "feature_pipeline", "model_metadata">>

Absent(f) == written[f] = 0 /\ f \notin torn
Whole(f) == written[f] # 0 /\ f \notin torn

-----------------------------------------------------------------------------
(* run_training.  Any exception ends the script with exit code 1.          *)

\* thin: a category has a single record; partial: the held-out records lack
\* a category, and the model never predicts it.
Samples == {"full", "thin", "partial"}

\* Fewer than min_records, or no database, give way to synthetic records,
\* which have all categories many times over.
Sample(found) == IF found = "few" THEN "full" ELSE found

Train ==
  /\ stage = "idle"
  /\ version < MaxVersion
  /\ version' = version + 1
  /\ \E found \in Samples \cup {"few"} : records' = Sample(found)
  /\ stage' = "split"
  /\ UNCHANGED <<storeVars, place, evaluated, webVars>>

\* A stratified split refuses a category with a single record.
Split ==
  /\ stage = "split"
  /\ stage' = IF records = "thin" THEN "idle" ELSE "fit"
  /\ UNCHANGED <<storeVars, version, records, place, evaluated, webVars>>

\* cross_validate and train: in memory, with a new pipeline each.
Fit ==
  /\ stage = "fit"
  /\ stage' = "evaluate"
  /\ UNCHANGED <<storeVars, version, records, place, evaluated, webVars>>

\* Mutant: a report that fails is logged, and the model is saved anyway.
Evaluate_Logged ==
  /\ stage = "evaluate"
  /\ evaluated' = IF records = "partial" THEN evaluated
                                         ELSE evaluated \cup {version}
  /\ stage' = "open" /\ place' = 1
  /\ UNCHANGED <<storeVars, version, records, webVars>>

\* The report names all categories, and is refused for fewer: the trained
\* model is then not saved.
Evaluate ==
  /\ stage = "evaluate"
  /\ \/ /\ records = "partial"
        /\ stage' = "idle"
        /\ UNCHANGED <<place, evaluated>>
     \/ /\ records # "partial"
        /\ evaluated' = evaluated \cup {version}
        /\ stage' = "open" /\ place' = 1
  /\ UNCHANGED <<storeVars, version, records, webVars>>

\* joblib.dump and open(.., "w") truncate the file before they write it.
OpenFile ==
  /\ stage = "open"
  /\ torn' = torn \cup {SaveOrder[place]}
  /\ stage' = "write"
  /\ UNCHANGED <<written, version, records, place, evaluated, webVars>>

CloseFile ==
  /\ stage = "write"
  /\ torn' = torn \ {SaveOrder[place]}
  /\ written' = [written EXCEPT ![SaveOrder[place]] = version]
  /\ \/ place < 3 /\ place' = place + 1 /\ stage' = "open"
     \/ place = 3 /\ stage' = "idle" /\ UNCHANGED place
  /\ UNCHANGED <<version, records, evaluated, webVars>>

\* The script is killed; what it was writing stays as it is.
Kill ==
  /\ stage # "idle"
  /\ stage' = "idle"
  /\ UNCHANGED <<storeVars, version, records, place, evaluated, webVars>>

-----------------------------------------------------------------------------
(* Step 2 of run_recovery_pipeline.                                        *)

Answer(w, by) ==
  /\ pc' = [pc EXCEPT ![w] = "idle"]
  /\ last' = [last EXCEPT ![w] = by]

Ask(w) ==
  /\ pc[w] = "idle"
  /\ pc' = [pc EXCEPT ![w] = "classify"]
  /\ UNCHANGED <<storeVars, trainerVars, classifier, features, last>>

Loads(w) ==
  /\ Whole("failure_classifier")
  /\ classifier' = [classifier EXCEPT ![w] = written["failure_classifier"]]
  /\ pc' = [pc EXCEPT ![w] = "predict"]
  /\ UNCHANGED last

\* Mutant: the model is loaded for every request.
GetClassifier_EveryTime(w) ==
  /\ pc[w] = "classify"
  /\ \/ Loads(w)
     \/ ~ Whole("failure_classifier") /\ Answer(w, "rules") /\ UNCHANGED classifier
  /\ UNCHANGED <<storeVars, trainerVars, features>>

\* Mutant: a process remembers that it found no model.
GetClassifier_Once(w) ==
  /\ pc[w] = "classify"
  /\ IF last[w] = "rules" THEN Answer(w, "rules") /\ UNCHANGED classifier
     ELSE \/ classifier[w] = 0 /\ Loads(w)
          \/ /\ classifier[w] = 0 /\ ~ Whole("failure_classifier")
             /\ Answer(w, "rules") /\ UNCHANGED classifier
          \/ /\ classifier[w] # 0
             /\ pc' = [pc EXCEPT ![w] = "predict"]
             /\ UNCHANGED <<classifier, last>>
  /\ UNCHANGED <<storeVars, trainerVars, features>>

\* The file may be missing, or break off, which raises: the rules answer, and
\* the next request tries again.
GetClassifier(w) ==
  /\ pc[w] = "classify"
  /\ \/ /\ classifier[w] # 0
        /\ pc' = [pc EXCEPT ![w] = "predict"]
        /\ UNCHANGED <<classifier, last>>
     \/ classifier[w] = 0 /\ Loads(w)
     \/ /\ classifier[w] = 0
        /\ \/ Absent("failure_classifier")
           \/ "failure_classifier" \in torn
        /\ Answer(w, "rules")
        /\ UNCHANGED classifier
  /\ UNCHANGED <<storeVars, trainerVars, features>>

\* The feature pipeline keeps nothing it learned: a missing file is as good
\* as a whole one, but one that breaks off raises.
HasPipeline(w) ==
  features[w] \/ Absent("feature_pipeline") \/ Whole("feature_pipeline")

\* Extracting the features, or predicting, may raise for the record itself,
\* such as one with an infinite amount: the rules answer for it, and the
\* process keeps what it has loaded.
Predict(w) ==
  /\ pc[w] = "predict"
  /\ \/ /\ HasPipeline(w)
        /\ features' = [features EXCEPT ![w] = TRUE]
        /\ Answer(w, "ensemble") \/ Answer(w, "refused")
     \/ /\ ~ HasPipeline(w)
        /\ Answer(w, "rules")
        /\ UNCHANGED features
  /\ UNCHANGED <<storeVars, trainerVars, classifier>>

Restart(w) ==
  /\ pc' = [pc EXCEPT ![w] = "idle"]
  /\ classifier' = [classifier EXCEPT ![w] = 0]
  /\ features' = [features EXCEPT ![w] = FALSE]
  /\ last' = [last EXCEPT ![w] = "none"]
  /\ UNCHANGED <<storeVars, trainerVars>>

-----------------------------------------------------------------------------
\* The repository ships a model; MODEL_DIR may name an empty directory.
Init ==
  /\ version \in {0, 1}
  /\ written = [f \in Files |-> version]
  /\ torn = {}
  /\ stage = "idle" /\ records = "full" /\ place = 1
  /\ evaluated = 1 .. version
  /\ pc = [w \in Web |-> "idle"]
  /\ classifier = [w \in Web |-> 0]
  /\ features = [w \in Web |-> FALSE]
  /\ last = [w \in Web |-> "none"]

Trainer == Train \/ Split \/ Fit \/ Evaluate \/ OpenFile \/ CloseFile \/ Kill

Classifies(w) == GetClassifier(w) \/ Predict(w)

Next ==
  \/ Trainer
  \/ \E w \in Web : Ask(w) \/ Classifies(w) \/ Restart(w)

Spec == Init /\ [][Next]_vars

\* A request in progress goes on; requests and trainings are not fair.
FairSpec == Spec /\ \A w \in Web : WF_vars(Classifies(w))

-----------------------------------------------------------------------------
(* Properties.                                                             *)

\* No process classifies with a model whose evaluation on the held-out
\* records did not succeed before it was saved, whatever the records lack and
\* wherever a training is killed.
EvaluatedIsServed ==
  \A w \in Web : classifier[w] # 0 => classifier[w] \in evaluated

\* Whole metadata never run ahead of the model: it is the one they describe,
\* or a later training has replaced it, or was cut short while it did.  An
\* audit may so find results of a model that is gone, but never results of one
\* that was not yet saved, wherever trainings were killed.
MetadataNeverAhead ==
  Whole("model_metadata") =>
    /\ written["model_metadata"] <= written["failure_classifier"]
    /\ "failure_classifier" \in torn => written["model_metadata"] < version

\* A process that has had a model and a pipeline keeps them until it is
\* restarted, although trainings tear the files meanwhile: from then on the
\* rules answer only for records that the model refuses.
EnsembleStays ==
  [][\A w \in Web :
       last[w] \in {"ensemble", "refused"} => last'[w] # "rules"]_vars

\* Once the files are whole and stay so, a process that is still being asked
\* stops falling back for want of a model, whatever it failed to load before:
\* the rules then answer only for records that the model refuses.
PickedUp ==
  \A w \in Web :
    /\ <>[](Whole("failure_classifier") /\ "feature_pipeline" \notin torn)
    /\ []<>(pc[w] = "classify")
    => <>[](last[w] # "rules")
=============================================================================
