------------------------ MODULE RetryLifecycleProofs ------------------------
(***************************************************************************)
(* Proofs about RetryLifecycle, for every set of payments and processes,   *)
(* every cap, and with crashes and missing credentials.                    *)
(***************************************************************************)
EXTENDS RetryLifecycle, SequenceTheorems, TLAPS

-----------------------------------------------------------------------------
(* Rows.                                                                   *)

\* Writing the result of a row keeps the other rows, and the numbers of all;
\* an index without a row changes nothing.
LEMMA SettledRow ==
  ASSUME NEW rows \in Seq(AttemptRow), NEW i \in Nat, NEW res \in Results
  PROVE  LET new == [rows EXCEPT ![i].result = res]
         IN  /\ new \in Seq(AttemptRow)
             /\ Len(new) = Len(rows)
             /\ DOMAIN new = DOMAIN rows
             /\ \A j \in DOMAIN rows :
                  /\ new[j].num = rows[j].num
                  /\ new[j].result = IF j = i THEN res ELSE rows[j].result
                  /\ j # i => new[j] = rows[j]
<1>. DEFINE new == [rows EXCEPT ![i].result = res]
<1>0. /\ rows \in [1 .. Len(rows) -> AttemptRow]
      /\ Len(rows) \in Nat
      /\ DOMAIN rows = 1 .. Len(rows)
  BY LenProperties
<1>1. CASE i \in 1 .. Len(rows)
  <2>. DEFINE row == [rows[i] EXCEPT !.result = res]
  <2>1. row \in AttemptRow /\ row.num = rows[i].num /\ row.result = res
    BY <1>0, <1>1 DEF AttemptRow
  <2>2. new = [rows EXCEPT ![i] = row]
    OBVIOUS
  <2>. HIDE DEF row, new
  <2>3. /\ new \in Seq(AttemptRow)
        /\ Len(new) = Len(rows)
        /\ \A j \in 1 .. Len(rows) : new[j] = IF j = i THEN row ELSE rows[j]
    BY <1>1, <2>1, <2>2, ExceptSeq
  <2>4. DOMAIN new = DOMAIN rows
    BY <1>0, <2>2
  <2>. QED
    BY <1>0, <2>1, <2>3, <2>4 DEF new
<1>2. CASE i \notin 1 .. Len(rows)
  <2>1. new = rows
    BY <1>0, <1>2
  <2>. QED
    BY <1>0, <1>2, <2>1
<1>. QED
  BY <1>1, <1>2

\* A new row comes after the others.
LEMMA AppendedRow ==
  ASSUME NEW rows \in Seq(AttemptRow), NEW row \in AttemptRow
  PROVE  /\ Append(rows, row) \in Seq(AttemptRow)
         /\ Len(Append(rows, row)) = Len(rows) + 1
         /\ DOMAIN Append(rows, row) = 1 .. Len(rows) + 1
         /\ \A j \in 1 .. Len(rows) : Append(rows, row)[j] = rows[j]
         /\ Append(rows, row)[Len(rows) + 1] = row
  OBVIOUS

-----------------------------------------------------------------------------
(* Types.                                                                  *)

Labels == WebLabels \cup SharedLabels \cup RunnerLabels

\* The blank record of locals is a record of locals.
LEMMA NoJobType == NoJob \in Job
  BY LifecycleAssumption DEF NoJob, Job, Kinds, Reasons

\* Writing a local variable keeps the record of locals typed.
LEMMA JobUpdateType ==
  ASSUME TypeOK, NEW x \in Procs
  PROVE  /\ \A v \in Reasons : [job EXCEPT ![x].why = v] \in [Procs -> Job]
         /\ \A n \in Nat : [job EXCEPT ![x].num = n] \in [Procs -> Job]
<1>1. job \in [Procs -> Job] /\ job[x] \in Job
  BY DEF TypeOK
<1>2. ASSUME NEW v \in Reasons
      PROVE  [job EXCEPT ![x].why = v] \in [Procs -> Job]
  <2>1. [job[x] EXCEPT !.why = v] \in Job
    BY <1>1 DEF Job
  <2>. QED
    BY <1>1, <2>1
<1>3. ASSUME NEW n \in Nat
      PROVE  [job EXCEPT ![x].num = n] \in [Procs -> Job]
  <2>1. [job[x] EXCEPT !.num = n] \in Job
    BY <1>1 DEF Job
  <2>. QED
    BY <1>1, <2>1
<1>. QED
  BY <1>2, <1>3

\* Recording why a call to Razorpay failed keeps the control state typed.
LEMMA FailType ==
  ASSUME TypeOK, NEW r \in Procs, NEW why \in Reasons, Fail(r, why)
  PROVE  pc' \in [Procs -> Labels] /\ job' \in [Procs -> Job]
<1>1. [job EXCEPT ![r].why = why] \in [Procs -> Job]
  BY JobUpdateType
<1>2. job' = [job EXCEPT ![r].why = why]
  BY DEF Fail
<1>3. pc' \in [Procs -> Labels]
  BY DEF Fail, Goto, TypeOK, Labels, RunnerLabels
<1>. QED
  BY <1>1, <1>2, <1>3

\* Returning from a handler keeps the control state typed.
LEMMA ReturnType ==
  ASSUME TypeOK, NEW x \in Procs, Return(x)
  PROVE  pc' \in [Procs -> Labels] /\ job' \in [Procs -> Job]
  BY NoJobType DEF TypeOK, Return, Goto, Labels, WebLabels, RunnerLabels

\* So does an exception.
LEMMA RaiseType ==
  ASSUME TypeOK, NEW x \in Procs, Raise(x)
  PROVE  pc' \in [Procs -> Labels] /\ job' \in [Procs -> Job]
  BY ReturnType DEF TypeOK, Raise, Goto, Labels, WebLabels

\* Writing the result of a row keeps the rows typed.
LEMMA SetResultType ==
  ASSUME TypeOK, NEW p \in Payments, NEW i \in Nat, NEW res \in Results,
         SetResult(p, i, res)
  PROVE  attempts' \in [Payments -> Seq(AttemptRow)]
<1>1. attempts[p] \in Seq(AttemptRow)
  BY DEF TypeOK
<1>2. [attempts[p] EXCEPT ![i].result = res] \in Seq(AttemptRow)
  BY <1>1, SettledRow
<1>. QED
  BY <1>2 DEF SetResult, TypeOK

\* A step keeps the types: shared steps first, then each kind of process.
LEMMA SharedStepType ==
  ASSUME TypeOK, NEW x \in Procs, SharedStep(x)
  PROVE  TypeOK'
<1>. USE DEF TypeOK
<1>. DEFINE p == job[x].tx
<1>0. p \in Payments /\ attempts[p] \in Seq(AttemptRow)
  BY DEF Job
<1>1. CASE CountAttempts(x)
  <2>1. Len(attempts[p]) + 1 \in Nat
    BY <1>0
  <2>2. /\ [job EXCEPT ![x].num = Len(attempts[p]) + 1] \in [Procs -> Job]
        /\ [job EXCEPT ![x].why = "exhausted"] \in [Procs -> Job]
    BY <2>1, JobUpdateType DEF Reasons
  <2>3. job' \in [Procs -> Job]
    BY <1>1, <2>2 DEF CountAttempts
  <2>. QED
    BY <1>1, <2>3 DEF CountAttempts, Goto, dbVars, worldVars, SharedLabels
<1>2. CASE SaveRetryAttempt(x)
  <2>. DEFINE row == [num |-> job[x].num, result |-> "SCHEDULED"]
  <2>1. row \in AttemptRow
    BY DEF Job, AttemptRow, Results
  <2>2. Append(attempts[p], row) \in Seq(AttemptRow)
    BY <1>0, <2>1
  <2>3. CASE ~ NumberTaken(p, job[x].num) /\ Goto(x, "scheduled")
    BY <1>2, <2>2, <2>3 DEF SaveRetryAttempt, Goto, worldVars, SharedLabels
  <2>4. CASE Raise(x) /\ UNCHANGED attempts
    BY <1>2, <2>4, RaiseType DEF SaveRetryAttempt, worldVars, Labels
  <2>. QED
    BY <1>2, <2>3, <2>4 DEF SaveRetryAttempt
<1>3. CASE RetryScheduled(x)
  BY <1>0, <1>3, ReturnType DEF RetryScheduled, SetStatus, worldVars, Labels, Statuses
<1>4. CASE SaveNotification(x)
  BY <1>0, <1>4 DEF SaveNotification, Goto, worldVars, SharedLabels, ActionTypes
<1>5. CASE CustomerNotified(x)
  <2>1. pc' \in [Procs -> Labels] /\ job' \in [Procs -> Job]
    BY <1>5, ReturnType, RaiseType
       DEF CustomerNotified, Goto, Labels, RunnerLabels
  <2>. QED
    BY <1>0, <1>5, <2>1 DEF CustomerNotified, SetStatus, worldVars, Labels, Statuses
<1>. QED
  BY <1>1, <1>2, <1>3, <1>4, <1>5 DEF SharedStep

LEMMA WebStepType ==
  ASSUME TypeOK, NEW w \in Web, WebStep(w)
  PROVE  TypeOK'
<1>. USE DEF TypeOK, Labels, WebLabels, SharedLabels
<1>0. w \in Procs /\ job[w].tx \in Payments /\ job[w].event \in EventStatuses
  BY DEF Procs, Job
<1>1. CASE InsertTransaction(w)
  BY <1>0, <1>1 DEF InsertTransaction, SetStatus, AfterSave, Goto, worldVars, Statuses
<1>2. CASE ReplyWebhook(w)
  BY <1>0, <1>2, ReturnType DEF ReplyWebhook, dbVars, worldVars
<1>3. CASE Decide(w)
  <2>1. pc' \in [Procs -> Labels] /\ job' \in [Procs -> Job]
    <3>1. [job EXCEPT ![w].why = "decided"] \in [Procs -> Job]
      BY <1>0, JobUpdateType DEF Reasons
    <3>. QED
      BY <1>0, <1>3, <3>1, ReturnType, RaiseType DEF Decide, Goto
  <2>. QED
    BY <1>3, <2>1 DEF Decide, dbVars, worldVars
<1>4. CASE SuggestAlternate(w)
  BY <1>0, <1>4 DEF SuggestAlternate, Goto, worldVars, ActionTypes
<1>5. CASE AlternateSuggested(w)
  BY <1>0, <1>5, ReturnType DEF AlternateSuggested, SetStatus, worldVars, Statuses
<1>6. CASE PipelineError(w)
  BY <1>0, <1>6, ReturnType DEF PipelineError, SetStatus, worldVars, Statuses
<1>7. CASE SharedStep(w)
  BY <1>0, <1>7, SharedStepType
<1>. QED
  BY <1>1, <1>2, <1>3, <1>4, <1>5, <1>6, <1>7, WebStep(w) DEF WebStep

LEMMA RequestType ==
  ASSUME TypeOK, NEW w \in Web, Request(w)
  PROVE  TypeOK'
<1>. USE DEF TypeOK
<1>0. w \in Procs
  BY DEF Procs
<1>1. ASSUME NEW p \in Payments, NEW s \in EventStatuses,
             NEW kind \in {"webhook", "pipeline"}, SaveTransaction(w, p, s, kind)
      PROVE  TypeOK'
  <2>1. [NoJob EXCEPT !.kind = kind, !.tx = p, !.event = s] \in Job
    BY NoJobType DEF Job, Kinds
  <2>. QED
    BY <1>0, <1>1, <2>1
       DEF SaveTransaction, SetStatus, AfterSave, Goto, worldVars, Statuses, WebLabels
<1>2. ASSUME NEW p \in Payments, NEW force \in BOOLEAN, TriggerRetry(w, p, force)
      PROVE  TypeOK'
  <2>1. [NoJob EXCEPT !.kind = IF force THEN "forced" ELSE "trigger", !.tx = p] \in Job
    BY NoJobType DEF Job, Kinds
  <2>. QED
    BY <1>0, <1>2, <2>1 DEF TriggerRetry, Goto, dbVars, worldVars, SharedLabels
<1>. QED
  BY <1>1, <1>2, LifecycleAssumption DEF Request

LEMMA RunnerStepType ==
  ASSUME TypeOK, NEW r \in Runners, RunnerStep(r)
  PROVE  TypeOK'
<1>. USE DEF TypeOK, Labels, RunnerLabels, SharedLabels
<1>0. r \in Procs /\ job[r].tx \in Payments /\ job[r].row \in Nat
  BY DEF Procs, Job
<1>1. CASE PollPending(r)
  BY <1>0, <1>1 DEF PollPending, DueAttempts, Goto, dbVars, worldVars
<1>2. CASE EndBatch(r)
  BY <1>0, <1>2 DEF EndBatch, Goto, dbVars, worldVars
<1>3. ASSUME NEW e \in batch[r], TakeAttempt(r, e[1], e[2])
      PROVE  TypeOK'
  <2>1. e[1] \in Payments /\ e[2] \in Nat
    BY <1>0
  <2>2. [NoJob EXCEPT !.kind = "retry", !.tx = e[1], !.row = e[2]] \in Job
    BY <2>1, NoJobType DEF Job, Kinds
  <2>. QED
    BY <1>0, <1>3, <2>2 DEF TakeAttempt, Goto, dbVars, worldVars
<1>4. CASE FetchPayment(r)
  <2>1. pc' \in [Procs -> Labels] /\ job' \in [Procs -> Job]
    BY <1>0, <1>4, FailType DEF FetchPayment, Goto, Reasons
  <2>. QED
    BY <1>4, <2>1 DEF FetchPayment, dbVars, worldVars
<1>5. CASE NoCredentials(r)
  BY <1>0, <1>5, ReturnType DEF NoCredentials, dbVars, worldVars
<1>6. CASE CapturePayment(r)
  <2>1. pc' \in [Procs -> Labels] /\ job' \in [Procs -> Job]
    BY <1>0, <1>6, FailType DEF CapturePayment, Goto, Reasons
  <2>. QED
    BY <1>0, <1>6, <2>1 DEF CapturePayment, dbVars, PaymentStates
<1>7. CASE MarkSuccess(r)
  <2>1. attempts' \in [Payments -> Seq(AttemptRow)]
    BY <1>0, <1>7, SetResultType DEF MarkSuccess, Results
  <2>. QED
    BY <1>0, <1>7, <2>1 DEF MarkSuccess, Goto, worldVars
<1>8. CASE Recovered(r)
  BY <1>0, <1>8, ReturnType DEF Recovered, SetStatus, worldVars, Statuses
<1>9. CASE MarkFailed(r)
  <2>1. attempts' \in [Payments -> Seq(AttemptRow)]
    BY <1>0, <1>9, SetResultType DEF MarkFailed, FailureResult, Results
  <2>. QED
    BY <1>0, <1>9, <2>1 DEF MarkFailed, AfterFailure, Goto, worldVars
<1>10. CASE ConfirmNotified(r)
  BY <1>0, <1>10, ReturnType DEF ConfirmNotified, SetStatus, worldVars, Statuses
<1>11. CASE SharedStep(r)
  BY <1>0, <1>11, SharedStepType
<1>. QED
  BY <1>1, <1>2, <1>3, <1>4, <1>5, <1>6, <1>7, <1>8, <1>9, <1>10, <1>11,
     RunnerStep(r) DEF RunnerStep

LEMMA CrashType ==
  ASSUME TypeOK, NEW x \in Procs, Crash(x)
  PROVE  TypeOK'
  BY NoJobType DEF TypeOK, Crash, Goto, dbVars, worldVars, WebLabels

LEMMA WorldType ==
  ASSUME TypeOK, NEW p \in Payments, World(p)
  PROVE  TypeOK'
<1>. USE DEF TypeOK
<1>1. ASSUME NEW i \in DOMAIN attempts[p], BecomeDue(p, i)
      PROVE  TypeOK'
  <2>1. i \in Nat
    BY LenProperties
  <2>. QED
    BY <1>1, <2>1 DEF BecomeDue, dbVars
<1>2. CASE Authorize(p)
  BY <1>2 DEF Authorize, dbVars, PaymentStates
<1>3. CASE CaptureElsewhere(p)
  BY <1>3 DEF CaptureElsewhere, dbVars, PaymentStates
<1>. QED
  BY <1>1, <1>2, <1>3 DEF World

LEMMA TypeStep ==
  ASSUME TypeOK, [Next]_vars
  PROVE  TypeOK'
<1>1. CASE UNCHANGED vars
  BY <1>1 DEF vars, TypeOK
<1>. QED
  BY <1>1, RequestType, WebStepType, RunnerStepType, CrashType, WorldType DEF Next

\* Every variable keeps its type in every behaviour of the program.
THEOREM TypeCorrect == Spec => []TypeOK
<1>1. Init => TypeOK
  BY NoJobType DEF Init, TypeOK, Statuses, PaymentStates, WebLabels
<1>2. TypeOK /\ [Next]_vars => TypeOK'
  BY TypeStep
<1>. QED
  BY <1>1, <1>2, PTL DEF Spec

-----------------------------------------------------------------------------
(* The inductive invariant.  What a process is about to commit is already  *)
(* backed by what it committed or read before, and nothing that backs it   *)
(* is ever taken away.                                                     *)

EvidenceOf(x) ==
  LET p == job[x].tx IN
  /\ job[x].kind = "forced" => p \in overridden
  /\ pc[x] = "insert" =>
       /\ job[x].num \in 1 .. Len(attempts[p]) + 1
       /\ p \in overridden \/ job[x].num <= MaxRetries
  /\ pc[x] = "scheduled" => Len(attempts[p]) > 0
  /\ pc[x] \in {"notifyStatus", "confirm"} => "customer_notified" \in actions[p]
  /\ pc[x] = "alternateStatus" => "alternate_method_suggested" \in actions[p]
  /\ pc[x] \in {"success", "recovered"} => pay[p] = "captured"

Evidence == \A x \in Procs : EvidenceOf(x)

LifecycleInv ==
  /\ TypeOK
  /\ Evidence
  /\ AttemptsContiguous
  /\ RetryCap
  /\ StatusBackedByRecord
  /\ SuccessIsCaptured

\* A step of process x itself.
Own(x) ==
  \/ x \in Web /\ (Request(x) \/ WebStep(x))
  \/ x \in Runners /\ RunnerStep(x)
  \/ Crash(x)

\* Only its own steps change the control state of a process.
LEMMA Locality ==
  ASSUME TypeOK, [Next]_vars, NEW x \in Procs, ~ Own(x)
  PROVE  pc'[x] = pc[x] /\ job'[x] = job[x]
<1>. USE DEF TypeOK
<1>1. CASE UNCHANGED vars
  BY <1>1 DEF vars
<1>2. ASSUME NEW y \in Procs, Own(y)
      PROVE  pc'[x] = pc[x] /\ job'[x] = job[x]
  <2>. y # x
    BY <1>2
  <2>1. CASE SharedStep(y)
    BY <2>1 DEF SharedStep, CountAttempts, SaveRetryAttempt, RetryScheduled,
                SaveNotification, CustomerNotified, Return, Raise, Goto
  <2>2. CASE Request(y)
    BY <2>2 DEF Request, SaveTransaction, TriggerRetry, AfterSave, Goto
  <2>3. CASE WebStep(y)
    BY <2>1, <2>3 DEF WebStep, InsertTransaction, ReplyWebhook, Decide,
                SuggestAlternate, AlternateSuggested, PipelineError,
                AfterSave, Return, Raise, Goto
  <2>4. CASE RunnerStep(y)
    BY <2>1, <2>4 DEF RunnerStep, PollPending, EndBatch, TakeAttempt,
                FetchPayment, NoCredentials, CapturePayment, MarkSuccess,
                Recovered, MarkFailed, ConfirmNotified, Fail, Return, Goto
  <2>5. CASE Crash(y)
    BY <2>5 DEF Crash, Goto
  <2>. QED
    BY <1>2, <2>2, <2>3, <2>4, <2>5 DEF Own
<1>3. ASSUME NEW p \in Payments, World(p)
      PROVE  pc'[x] = pc[x] /\ job'[x] = job[x]
  BY <1>3 DEF World, BecomeDue, Authorize, CaptureElsewhere
<1>. QED
  BY <1>1, <1>2, <1>3 DEF Next, Own, Procs

\* How a step changes the rows: it appends one, settles one, or neither.
LEMMA RowStep ==
  ASSUME TypeOK, [Next]_vars
  PROVE  \/ UNCHANGED attempts
         \/ \E x \in Procs : SaveRetryAttempt(x) /\ ~ NumberTaken(job[x].tx, job[x].num)
         \/ \E r \in Runners : MarkSuccess(r) \/ MarkFailed(r)
<1>1. CASE UNCHANGED vars
  BY <1>1 DEF vars
<1>2. ASSUME NEW x \in Procs, SharedStep(x)
      PROVE  UNCHANGED attempts
               \/ (SaveRetryAttempt(x) /\ ~ NumberTaken(job[x].tx, job[x].num))
  BY <1>2 DEF SharedStep, CountAttempts, SaveRetryAttempt, RetryScheduled,
              SaveNotification, CustomerNotified, dbVars
<1>3. ASSUME NEW w \in Web, Request(w)
      PROVE  UNCHANGED attempts
  BY <1>3 DEF Request, SaveTransaction, TriggerRetry, dbVars
<1>4. ASSUME NEW w \in Web, WebStep(w)
      PROVE  UNCHANGED attempts \/ SharedStep(w)
  BY <1>4 DEF WebStep, InsertTransaction, ReplyWebhook, Decide,
              SuggestAlternate, AlternateSuggested, PipelineError, dbVars
<1>5. ASSUME NEW r \in Runners, RunnerStep(r)
      PROVE  UNCHANGED attempts \/ SharedStep(r) \/ MarkSuccess(r) \/ MarkFailed(r)
  BY <1>5 DEF RunnerStep, PollPending, EndBatch, TakeAttempt, FetchPayment,
              NoCredentials, CapturePayment, Recovered, ConfirmNotified, dbVars
<1>6. ASSUME NEW x \in Procs, Crash(x)
      PROVE  UNCHANGED attempts
  BY <1>6 DEF Crash, dbVars
<1>7. ASSUME NEW p \in Payments, World(p)
      PROVE  UNCHANGED attempts
  BY <1>7 DEF World, BecomeDue, Authorize, CaptureElsewhere, dbVars
<1>. QED
  BY <1>1, <1>2, <1>3, <1>4, <1>5, <1>6, <1>7 DEF Next, Procs

\* The effect of marking a row: every number stays, one result changes.
LEMMA MarkEffect ==
  ASSUME TypeOK, NEW r \in Runners, MarkSuccess(r) \/ MarkFailed(r),
         NEW p \in Payments
  PROVE  /\ Len(attempts'[p]) = Len(attempts[p])
         /\ DOMAIN attempts'[p] = DOMAIN attempts[p]
         /\ \A i \in DOMAIN attempts[p] :
              /\ attempts'[p][i].num = attempts[p][i].num
              /\ (p # job[r].tx \/ i # job[r].row) =>
                   attempts'[p][i] = attempts[p][i]
              /\ (p = job[r].tx /\ i = job[r].row) =>
                   attempts'[p][i].result =
                     IF MarkSuccess(r) THEN "SUCCESS" ELSE "FAILED"
<1>. DEFINE q == job[r].tx
            i0 == job[r].row
<1>1. q \in Payments /\ i0 \in Nat /\ attempts[q] \in Seq(AttemptRow)
  BY DEF TypeOK, Procs, Job
<1>2. ~ (MarkSuccess(r) /\ MarkFailed(r))
  BY DEF MarkSuccess, MarkFailed, At
<1>3. PICK res \in Results :
        /\ SetResult(q, i0, res)
        /\ res = IF MarkSuccess(r) THEN "SUCCESS" ELSE "FAILED"
  BY <1>2 DEF MarkSuccess, MarkFailed, FailureResult, Results
<1>4. attempts'[p] = IF p = q THEN [attempts[q] EXCEPT ![i0].result = res]
                              ELSE attempts[p]
  BY <1>1, <1>3 DEF SetResult, TypeOK
<1>. QED
  BY <1>1, <1>3, <1>4, SettledRow

\* The effect of an insert: one row, with a number not yet taken, at the end.
LEMMA InsertEffect ==
  ASSUME TypeOK, NEW x \in Procs, SaveRetryAttempt(x),
         ~ NumberTaken(job[x].tx, job[x].num), NEW p \in Payments
  PROVE  LET n == Len(attempts[p])
         IN  /\ p # job[x].tx => attempts'[p] = attempts[p]
             /\ p = job[x].tx =>
                  /\ Len(attempts'[p]) = n + 1
                  /\ DOMAIN attempts'[p] = 1 .. n + 1
                  /\ \A i \in 1 .. n : attempts'[p][i] = attempts[p][i]
                  /\ attempts'[p][n + 1] =
                       [num |-> job[x].num, result |-> "SCHEDULED"]
<1>. DEFINE row == [num |-> job[x].num, result |-> "SCHEDULED"]
<1>1. /\ attempts[p] \in Seq(AttemptRow) /\ row \in AttemptRow
      /\ job[x].tx \in Payments
  BY DEF TypeOK, Job, AttemptRow, Results
<1>2. attempts' = [attempts EXCEPT ![job[x].tx] = Append(@, row)]
  BY DEF SaveRetryAttempt
<1>3. attempts'[p] = IF p = job[x].tx THEN Append(attempts[p], row) ELSE attempts[p]
  BY <1>1, <1>2 DEF TypeOK
<1>. HIDE DEF row
<1>4. /\ Len(Append(attempts[p], row)) = Len(attempts[p]) + 1
      /\ DOMAIN Append(attempts[p], row) = 1 .. Len(attempts[p]) + 1
      /\ \A j \in 1 .. Len(attempts[p]) : Append(attempts[p], row)[j] = attempts[p][j]
      /\ Append(attempts[p], row)[Len(attempts[p]) + 1] = row
  BY <1>1, AppendedRow
<1>. QED
  BY <1>3, <1>4 DEF row

\* What backs a commit is never taken away.
LEMMA Monotone ==
  ASSUME TypeOK, [Next]_vars, NEW p \in Payments
  PROVE  /\ Len(attempts'[p]) >= Len(attempts[p])
         /\ actions[p] \subseteq actions'[p]
         /\ pay[p] = "captured" => pay'[p] = "captured"
         /\ overridden \subseteq overridden'
<1>. USE DEF TypeOK
<1>1. Len(attempts'[p]) >= Len(attempts[p])
  <2>1. Len(attempts[p]) \in Nat
    OBVIOUS
  <2>2. CASE UNCHANGED attempts
    BY <2>1, <2>2
  <2>3. ASSUME NEW x \in Procs, SaveRetryAttempt(x),
               ~ NumberTaken(job[x].tx, job[x].num)
        PROVE  Len(attempts'[p]) >= Len(attempts[p])
    <3>1. p # job[x].tx => attempts'[p] = attempts[p]
      BY <2>3, InsertEffect
    <3>2. p = job[x].tx => Len(attempts'[p]) = Len(attempts[p]) + 1
      BY <2>3, InsertEffect
    <3>. QED
      BY <2>1, <3>1, <3>2
  <2>4. ASSUME NEW r \in Runners, MarkSuccess(r) \/ MarkFailed(r)
        PROVE  Len(attempts'[p]) >= Len(attempts[p])
    BY <2>1, <2>4, MarkEffect
  <2>. QED
    BY <2>2, <2>3, <2>4, RowStep
<1>2. actions[p] \subseteq actions'[p]
  <2>1. ASSUME NEW x \in Procs, SharedStep(x)
        PROVE  actions[p] \subseteq actions'[p]
    BY <2>1 DEF SharedStep, CountAttempts, SaveRetryAttempt, RetryScheduled,
                SaveNotification, CustomerNotified, dbVars
  <2>. QED
    BY <2>1 DEF Next, vars, Procs, Request, SaveTransaction, TriggerRetry, WebStep,
       InsertTransaction, ReplyWebhook, Decide, SuggestAlternate,
       AlternateSuggested, PipelineError, RunnerStep, PollPending, EndBatch,
       TakeAttempt, FetchPayment, NoCredentials, CapturePayment, MarkSuccess,
       Recovered, MarkFailed, ConfirmNotified, Crash, World, BecomeDue,
       Authorize, CaptureElsewhere, dbVars
<1>3. pay[p] = "captured" => pay'[p] = "captured"
  <2>1. ASSUME NEW x \in Procs, SharedStep(x)
        PROVE  UNCHANGED pay
    BY <2>1 DEF SharedStep, CountAttempts, SaveRetryAttempt, RetryScheduled,
                SaveNotification, CustomerNotified, worldVars
  <2>. QED
    BY <2>1 DEF Next, vars, Procs, Request, SaveTransaction, TriggerRetry, WebStep,
       InsertTransaction, ReplyWebhook, Decide, SuggestAlternate,
       AlternateSuggested, PipelineError, RunnerStep, PollPending, EndBatch,
       TakeAttempt, FetchPayment, NoCredentials, CapturePayment, MarkSuccess,
       Recovered, MarkFailed, ConfirmNotified, Crash, World, BecomeDue,
       Authorize, CaptureElsewhere, worldVars
<1>4. overridden \subseteq overridden'
  <2>1. ASSUME NEW x \in Procs, SharedStep(x)
        PROVE  UNCHANGED overridden
    BY <2>1 DEF SharedStep, CountAttempts, SaveRetryAttempt, RetryScheduled,
                SaveNotification, CustomerNotified
  <2>. QED
    BY <2>1 DEF Next, vars, Procs, Request, SaveTransaction, TriggerRetry, WebStep,
       InsertTransaction, ReplyWebhook, Decide, SuggestAlternate,
       AlternateSuggested, PipelineError, RunnerStep, PollPending, EndBatch,
       TakeAttempt, FetchPayment, NoCredentials, CapturePayment, MarkSuccess,
       Recovered, MarkFailed, ConfirmNotified, Crash, World, BecomeDue,
       Authorize, CaptureElsewhere
<1>. QED
  BY <1>1, <1>2, <1>3, <1>4

\* A process with nothing left to commit needs no evidence.
LEMMA Quiet ==
  ASSUME NEW x \in Procs,
         pc'[x] \notin {"insert", "scheduled", "notifyStatus", "confirm",
                        "alternateStatus", "success", "recovered"},
         job'[x].kind = "forced" => job'[x].tx \in overridden'
  PROVE  EvidenceOf(x)'
BY DEF EvidenceOf

LEMMA ReturnEvidence ==
  ASSUME TypeOK, NEW x \in Procs, Return(x)
  PROVE  EvidenceOf(x)'
<1>1. job'[x] = NoJob /\ pc'[x] \in {"batch", "idle"}
  BY DEF Return, Goto, TypeOK
<1>2. job'[x].kind # "forced"
  BY <1>1 DEF NoJob
<1>. QED
  BY <1>1, <1>2, Quiet

LEMMA RaiseEvidence ==
  ASSUME TypeOK, Evidence, NEW x \in Procs, Raise(x),
         overridden \subseteq overridden'
  PROVE  EvidenceOf(x)'
<1>1. CASE job[x].kind = "pipeline"
  <2>1. job'[x] = job[x] /\ pc'[x] = "pipelineError"
    BY <1>1 DEF Raise, Goto, TypeOK
  <2>. QED
    BY <1>1, <2>1, Quiet
<1>2. CASE job[x].kind # "pipeline"
  BY <1>2, ReturnEvidence DEF Raise
<1>. QED
  BY <1>1, <1>2

\* A step that leaves the job alone: what backs its override is kept.
LEMMA JobKept ==
  ASSUME TypeOK, Evidence, [Next]_vars, NEW x \in Procs, job'[x] = job[x]
  PROVE  job'[x].kind = "forced" => job'[x].tx \in overridden'
<1>1. job[x].tx \in Payments
  BY DEF TypeOK, Job
<1>2. overridden \subseteq overridden'
  BY <1>1, Monotone
<1>. QED
  BY <1>2 DEF Evidence, EvidenceOf

\* Steps of schedule_retry and execute_customer_notification.
LEMMA SharedEvidence ==
  ASSUME LifecycleInv, [Next]_vars, NEW x \in Procs, SharedStep(x)
  PROVE  EvidenceOf(x)'
<1>. DEFINE p == job[x].tx
<1>. USE DEF LifecycleInv
<1>1. /\ job[x] \in Job /\ p \in Payments
      /\ attempts[p] \in Seq(AttemptRow) /\ Len(attempts[p]) \in Nat
  BY DEF TypeOK, Job
<1>2. /\ overridden \subseteq overridden'
      /\ actions[p] \subseteq actions'[p]
      /\ Len(attempts'[p]) >= Len(attempts[p])
  BY <1>1, Monotone
<1>3. EvidenceOf(x)
  BY DEF Evidence
<1>4. CASE CountAttempts(x)
  <2>1. CASE AttemptsExhausted(p) /\ job[x].kind # "forced"
    <3>1. pc'[x] = "notify" /\ job'[x] = [job[x] EXCEPT !.why = "exhausted"]
      BY <1>4, <2>1 DEF CountAttempts, Goto, TypeOK
    <3>2. job'[x].kind # "forced"
      BY <1>1, <2>1, <3>1 DEF Job
    <3>. QED
      BY <3>1, <3>2, Quiet
  <2>2. CASE ~ (AttemptsExhausted(p) /\ job[x].kind # "forced")
    <3>1. /\ pc'[x] = "insert"
          /\ job'[x] = [job[x] EXCEPT !.num = Len(attempts[p]) + 1]
          /\ attempts' = attempts
      BY <1>4, <2>2 DEF CountAttempts, Goto, TypeOK, dbVars
    <3>2. /\ job'[x].kind = job[x].kind /\ job'[x].tx = p
          /\ job'[x].num = Len(attempts[p]) + 1
      BY <1>1, <3>1 DEF Job
    <3>3. job[x].kind = "forced" => p \in overridden'
      BY <1>2, <1>3 DEF EvidenceOf
    <3>4. p \in overridden' \/ Len(attempts[p]) + 1 <= MaxRetries
      BY <1>1, <2>2, <3>3, LifecycleAssumption DEF AttemptsExhausted
    <3>5. job'[x].num \in 1 .. Len(attempts'[p]) + 1
      BY <1>1, <3>1, <3>2
    <3>. QED
      BY <3>1, <3>2, <3>3, <3>4, <3>5 DEF EvidenceOf
  <2>. QED
    BY <2>1, <2>2
<1>5. CASE SaveRetryAttempt(x)
  <2>1. CASE NumberTaken(p, job[x].num)
    BY <1>2, <1>5, <2>1, RaiseEvidence DEF SaveRetryAttempt
  <2>2. CASE ~ NumberTaken(p, job[x].num)
    <3>1. pc'[x] = "scheduled" /\ job'[x] = job[x]
      BY <1>5, <2>2 DEF SaveRetryAttempt, Goto, TypeOK
    <3>2. Len(attempts'[p]) = Len(attempts[p]) + 1
      BY <1>1, <1>5, <2>2, InsertEffect
    <3>3. Len(attempts'[p]) > 0
      BY <1>1, <3>2
    <3>4. job'[x].kind = "forced" => job'[x].tx \in overridden'
      BY <3>1, JobKept
    <3>. QED
      BY <3>1, <3>3, <3>4 DEF EvidenceOf
  <2>. QED
    BY <2>1, <2>2
<1>6. CASE RetryScheduled(x)
  BY <1>6, ReturnEvidence DEF RetryScheduled
<1>7. CASE SaveNotification(x)
  <2>1. pc'[x] = "notifyStatus" /\ job'[x] = job[x]
    BY <1>7 DEF SaveNotification, Goto, TypeOK
  <2>2. "customer_notified" \in actions'[p]
    BY <1>1, <1>7 DEF SaveNotification, TypeOK
  <2>3. job'[x].kind = "forced" => job'[x].tx \in overridden'
    BY <2>1, JobKept
  <2>. QED
    BY <2>1, <2>2, <2>3 DEF EvidenceOf
<1>8. CASE CustomerNotified(x)
  <2>1. CASE job[x].why = "decided"
    BY <1>8, <2>1, ReturnEvidence DEF CustomerNotified
  <2>2. CASE job[x].why = "exhausted"
    BY <1>2, <1>8, <2>2, RaiseEvidence DEF CustomerNotified
  <2>3. CASE job[x].why \notin {"decided", "exhausted"}
    <3>1. pc'[x] = "confirm" /\ job'[x] = job[x]
      BY <1>8, <2>3 DEF CustomerNotified, Goto, TypeOK
    <3>2. "customer_notified" \in actions'[p]
      BY <1>2, <1>3, <1>8 DEF CustomerNotified, EvidenceOf, At
    <3>3. job'[x].kind = "forced" => job'[x].tx \in overridden'
      BY <3>1, JobKept
    <3>. QED
      BY <3>1, <3>2, <3>3 DEF EvidenceOf
  <2>. QED
    BY <2>1, <2>2, <2>3
<1>. QED
  BY <1>4, <1>5, <1>6, <1>7, <1>8 DEF SharedStep

\* Steps of a web process.
LEMMA WebEvidence ==
  ASSUME LifecycleInv, [Next]_vars, NEW w \in Web, Request(w) \/ WebStep(w)
  PROVE  EvidenceOf(w)'
<1>. USE DEF LifecycleInv
<1>1. w \in Procs /\ job[w] \in Job /\ NoJob \in Job /\ EvidenceOf(w)
  BY NoJobType DEF Procs, TypeOK, Evidence
<1>2. overridden \subseteq overridden'
  BY <1>1, Monotone DEF Job
<1>3. ASSUME NEW p \in Payments, NEW s \in EventStatuses,
             NEW kind \in {"webhook", "pipeline"}, SaveTransaction(w, p, s, kind)
      PROVE  EvidenceOf(w)'
  <2>1. job'[w] = [NoJob EXCEPT !.kind = kind, !.tx = p, !.event = s]
    BY <1>1, <1>3 DEF SaveTransaction, TypeOK
  <2>2. job'[w].kind # "forced"
    BY <1>1, <2>1 DEF Job
  <2>3. pc'[w] \in {"insertTx", "reply", "decide"}
    BY <1>1, <1>3 DEF SaveTransaction, AfterSave, Goto, TypeOK
  <2>. QED
    BY <1>1, <2>2, <2>3, Quiet
<1>4. ASSUME NEW p \in Payments, NEW force \in BOOLEAN, TriggerRetry(w, p, force)
      PROVE  EvidenceOf(w)'
  <2>1. job'[w] = [NoJob EXCEPT
                     !.kind = IF force THEN "forced" ELSE "trigger", !.tx = p]
    BY <1>1, <1>4 DEF TriggerRetry, TypeOK
  <2>2. /\ job'[w].kind = IF force THEN "forced" ELSE "trigger"
        /\ job'[w].tx = p
    BY <1>1, <2>1 DEF Job
  <2>3. force => p \in overridden'
    BY <1>4 DEF TriggerRetry
  <2>4. pc'[w] = "count"
    BY <1>1, <1>4 DEF TriggerRetry, Goto, TypeOK
  <2>. QED
    BY <1>1, <2>2, <2>3, <2>4, Quiet
<1>5. CASE Request(w)
  <2>1. "FAILED" \in EventStatuses
    BY LifecycleAssumption
  <2>. QED
    BY <1>3, <1>4, <1>5, <2>1 DEF Request
<1>6. CASE InsertTransaction(w)
  <2>1. job'[w] = job[w] /\ pc'[w] \in {"reply", "decide"}
    BY <1>1, <1>6 DEF InsertTransaction, AfterSave, Goto, TypeOK
  <2>. QED
    BY <1>1, <2>1, JobKept, Quiet
<1>7. CASE ReplyWebhook(w)
  BY <1>1, <1>7, ReturnEvidence DEF ReplyWebhook
<1>8. CASE Decide(w)
  <2>1. CASE Return(w)
    BY <1>1, <2>1, ReturnEvidence
  <2>2. CASE Raise(w)
    BY <1>1, <1>2, <2>2, RaiseEvidence
  <2>3. CASE (Goto(w, "count") \/ Goto(w, "alternate")) /\ UNCHANGED job
    <3>1. job'[w] = job[w] /\ pc'[w] \in {"count", "alternate"}
      BY <1>1, <2>3 DEF Goto, TypeOK
    <3>. QED
      BY <1>1, <3>1, JobKept, Quiet
  <2>4. CASE Goto(w, "notify") /\ job' = [job EXCEPT ![w].why = "decided"]
    <3>1. /\ pc'[w] = "notify"
          /\ job'[w] = [job[w] EXCEPT !.why = "decided"]
      BY <1>1, <2>4 DEF Goto, TypeOK
    <3>2. job'[w].kind = job[w].kind /\ job'[w].tx = job[w].tx
      BY <1>1, <3>1 DEF Job
    <3>. QED
      BY <1>1, <1>2, <3>1, <3>2, Quiet DEF EvidenceOf
  <2>. QED
    BY <1>8, <2>1, <2>2, <2>3, <2>4 DEF Decide
<1>9. CASE SuggestAlternate(w)
  <2>1. job'[w] = job[w] /\ pc'[w] = "alternateStatus"
    BY <1>1, <1>9 DEF SuggestAlternate, Goto, TypeOK
  <2>2. "alternate_method_suggested" \in actions'[job[w].tx]
    BY <1>1, <1>9 DEF SuggestAlternate, TypeOK, Job
  <2>3. job'[w].kind = "forced" => job'[w].tx \in overridden'
    BY <1>1, <2>1, JobKept
  <2>. QED
    BY <2>1, <2>2, <2>3 DEF EvidenceOf
<1>10. CASE AlternateSuggested(w) \/ PipelineError(w)
  BY <1>1, <1>10, ReturnEvidence DEF AlternateSuggested, PipelineError
<1>11. CASE SharedStep(w)
  BY <1>1, <1>11, SharedEvidence
<1>. QED
  BY <1>5, <1>6, <1>7, <1>8, <1>9, <1>10, <1>11 DEF WebStep

\* Steps of a runner.
LEMMA RunnerEvidence ==
  ASSUME LifecycleInv, [Next]_vars, NEW r \in Runners, RunnerStep(r)
  PROVE  EvidenceOf(r)'
<1>. USE DEF LifecycleInv
<1>1. r \in Procs /\ job[r] \in Job /\ NoJob \in Job /\ EvidenceOf(r)
  BY NoJobType DEF Procs, TypeOK, Evidence
<1>2. /\ job[r].tx \in Payments
      /\ overridden \subseteq overridden'
      /\ pay[job[r].tx] = "captured" => pay'[job[r].tx] = "captured"
  BY <1>1, Monotone DEF Job
<1>3. CASE PollPending(r) \/ EndBatch(r)
  <2>1. job'[r] = job[r] /\ pc'[r] \in {"batch", "idle"}
    BY <1>1, <1>3 DEF PollPending, EndBatch, Goto, TypeOK
  <2>. QED
    BY <1>1, <2>1, JobKept, Quiet
<1>4. ASSUME NEW e \in batch[r], TakeAttempt(r, e[1], e[2])
      PROVE  EvidenceOf(r)'
  <2>. DEFINE p == e[1]
              i == e[2]
  <2>1. p \in Payments /\ i \in Nat
    BY <1>1, <1>4 DEF TypeOK
  <2>2. CASE Pending(p, i)
    <3>1. /\ pc'[r] = "fetch"
          /\ job'[r] = [NoJob EXCEPT !.kind = "retry", !.tx = p, !.row = i]
      BY <1>1, <1>4, <2>2 DEF TakeAttempt, Goto, TypeOK
    <3>2. job'[r].kind # "forced"
      BY <1>1, <2>1, <3>1 DEF Job
    <3>. QED
      BY <1>1, <3>1, <3>2, Quiet
  <2>3. CASE ~ Pending(p, i)
    <3>1. job'[r] = job[r] /\ pc'[r] = "batch"
      BY <1>1, <1>4, <2>3 DEF TakeAttempt, At
    <3>. QED
      BY <1>1, <3>1, JobKept, Quiet
  <2>. QED
    BY <2>2, <2>3
<1>5. ASSUME NEW why \in Reasons, Fail(r, why)
      PROVE  EvidenceOf(r)'
  <2>1. pc'[r] = "failed" /\ job'[r] = [job[r] EXCEPT !.why = why]
    BY <1>1, <1>5 DEF Fail, Goto, TypeOK
  <2>2. job'[r].kind = job[r].kind /\ job'[r].tx = job[r].tx
    BY <1>1, <2>1 DEF Job
  <2>. QED
    BY <1>1, <1>2, <2>1, <2>2, Quiet DEF EvidenceOf
<1>6. ASSUME Goto(r, "success"), UNCHANGED job, pay'[job[r].tx] = "captured"
      PROVE  EvidenceOf(r)'
  <2>1. pc'[r] = "success" /\ job'[r] = job[r]
    BY <1>1, <1>6 DEF Goto, TypeOK
  <2>2. job'[r].kind = "forced" => job'[r].tx \in overridden'
    BY <1>1, <2>1, JobKept
  <2>. QED
    BY <1>6, <2>1, <2>2 DEF EvidenceOf
<1>7. CASE FetchPayment(r)
  <2>1. CASE Goto(r, "capture") /\ UNCHANGED job
    <3>1. job'[r] = job[r] /\ pc'[r] = "capture"
      BY <1>1, <2>1 DEF Goto, TypeOK
    <3>. QED
      BY <1>1, <3>1, JobKept, Quiet
  <2>2. CASE pay[job[r].tx] = "captured" /\ Goto(r, "success") /\ UNCHANGED job
    BY <1>2, <1>6, <2>2
  <2>3. CASE Fail(r, "transient") \/ Fail(r, "terminal")
    BY <1>5, <2>3 DEF Reasons
  <2>. QED
    BY <1>7, <2>1, <2>2, <2>3 DEF FetchPayment
<1>8. CASE CapturePayment(r)
  <2>1. CASE /\ pay' = [pay EXCEPT ![job[r].tx] = "captured"]
             /\ Goto(r, "success") /\ UNCHANGED job
    <3>1. pay'[job[r].tx] = "captured"
      BY <1>2, <2>1 DEF TypeOK
    <3>. QED
      BY <1>6, <2>1, <3>1
  <2>2. CASE Fail(r, "transient") \/ Fail(r, "terminal")
    BY <1>5, <2>2 DEF Reasons
  <2>. QED
    BY <1>8, <2>1, <2>2 DEF CapturePayment
<1>9. CASE NoCredentials(r) \/ Recovered(r) \/ ConfirmNotified(r)
  BY <1>1, <1>9, ReturnEvidence DEF NoCredentials, Recovered, ConfirmNotified
<1>10. CASE MarkSuccess(r)
  <2>1. pc'[r] = "recovered" /\ job'[r] = job[r] /\ pc[r] = "success"
    BY <1>1, <1>10 DEF MarkSuccess, At, Goto, TypeOK
  <2>2. pay'[job[r].tx] = "captured"
    BY <1>1, <1>2, <2>1 DEF EvidenceOf
  <2>3. job'[r].kind = "forced" => job'[r].tx \in overridden'
    BY <1>1, <2>1, JobKept
  <2>. QED
    BY <2>1, <2>2, <2>3 DEF EvidenceOf
<1>11. CASE MarkFailed(r)
  <2>1. job'[r] = job[r] /\ pc'[r] \in {"count", "notify"}
    BY <1>1, <1>11 DEF MarkFailed, AfterFailure, Goto, TypeOK
  <2>. QED
    BY <1>1, <2>1, JobKept, Quiet
<1>12. CASE SharedStep(r)
  BY <1>1, <1>12, SharedEvidence
<1>. QED
  BY <1>3, <1>4, <1>7, <1>8, <1>9, <1>10, <1>11, <1>12 DEF RunnerStep

LEMMA EvidenceStep ==
  ASSUME LifecycleInv, [Next]_vars
  PROVE  Evidence'
<1>. SUFFICES ASSUME NEW x \in Procs
              PROVE  EvidenceOf(x)'
  BY DEF Evidence
<1>. USE DEF LifecycleInv
<1>1. CASE ~ Own(x)
  <2>1. /\ pc'[x] = pc[x] /\ job'[x] = job[x]
    BY <1>1, Locality
  <2>2. job[x].tx \in Payments /\ EvidenceOf(x)
    BY DEF TypeOK, Job, Evidence
  <2>3. /\ Len(attempts'[job[x].tx]) >= Len(attempts[job[x].tx])
        /\ actions[job[x].tx] \subseteq actions'[job[x].tx]
        /\ pay[job[x].tx] = "captured" => pay'[job[x].tx] = "captured"
        /\ overridden \subseteq overridden'
    BY <2>2, Monotone
  <2>4. /\ Len(attempts[job[x].tx]) \in Nat
        /\ Len(attempts'[job[x].tx]) \in Nat
    BY <2>2, TypeStep DEF TypeOK
  <2>5. pc[x] = "insert" => job[x].num \in 1 .. Len(attempts'[job[x].tx]) + 1
    BY <2>2, <2>3, <2>4 DEF EvidenceOf
  <2>6. pc[x] = "scheduled" => Len(attempts'[job[x].tx]) > 0
    BY <2>2, <2>3, <2>4 DEF EvidenceOf
  <2>. QED
    BY <2>1, <2>2, <2>3, <2>5, <2>6 DEF EvidenceOf
<1>2. CASE x \in Web /\ (Request(x) \/ WebStep(x))
  BY <1>2, WebEvidence
<1>3. CASE x \in Runners /\ RunnerStep(x)
  BY <1>3, RunnerEvidence
<1>4. CASE Crash(x)
  <2>1. job'[x] = NoJob /\ pc'[x] = "idle"
    BY <1>4 DEF Crash, Goto, TypeOK
  <2>2. job'[x].kind # "forced"
    BY <2>1 DEF NoJob
  <2>. QED
    BY <2>1, <2>2, Quiet
<1>. QED
  BY <1>1, <1>2, <1>3, <1>4 DEF Own

-----------------------------------------------------------------------------
(* The invariants.                                                         *)

\* An insert takes the next number: every number up to the count is on file,
\* and the constraint refuses those.
LEMMA NextNumber ==
  ASSUME LifecycleInv, NEW x \in Procs, SaveRetryAttempt(x),
         ~ NumberTaken(job[x].tx, job[x].num)
  PROVE  /\ job[x].num = Len(attempts[job[x].tx]) + 1
         /\ job[x].tx \in overridden \/ job[x].num <= MaxRetries
<1>. DEFINE p == job[x].tx
            n == Len(attempts[p])
<1>1. p \in Payments /\ attempts[p] \in Seq(AttemptRow)
  BY DEF LifecycleInv, TypeOK, Job
<1>2. n \in Nat /\ DOMAIN attempts[p] = 1 .. n
  BY <1>1
<1>3. /\ job[x].num \in 1 .. n + 1
      /\ p \in overridden \/ job[x].num <= MaxRetries
  BY DEF LifecycleInv, Evidence, EvidenceOf, SaveRetryAttempt, At
<1>4. \A i \in 1 .. n : attempts[p][i].num = i
  BY <1>1, <1>2 DEF LifecycleInv, AttemptsContiguous
<1>5. job[x].num \notin 1 .. n
  BY <1>2, <1>4 DEF NumberTaken, Numbers
<1>. QED
  BY <1>2, <1>3, <1>5

LEMMA ContiguousStep ==
  ASSUME LifecycleInv, [Next]_vars
  PROVE  AttemptsContiguous'
<1>. SUFFICES ASSUME NEW p \in Payments, NEW i \in DOMAIN attempts'[p]
              PROVE  attempts'[p][i].num = i
  BY DEF AttemptsContiguous
<1>. DEFINE n == Len(attempts[p])
<1>0. TypeOK
  BY DEF LifecycleInv
<1>1. /\ attempts[p] \in Seq(AttemptRow) /\ n \in Nat
      /\ DOMAIN attempts[p] = 1 .. n
  BY <1>0 DEF TypeOK
<1>2. \A j \in 1 .. n : attempts[p][j].num = j
  BY <1>1 DEF LifecycleInv, AttemptsContiguous
<1>3. CASE UNCHANGED attempts
  BY <1>1, <1>2, <1>3
<1>4. ASSUME NEW x \in Procs, SaveRetryAttempt(x),
             ~ NumberTaken(job[x].tx, job[x].num)
      PROVE  attempts'[p][i].num = i
  <2>1. CASE p # job[x].tx
    <3>1. attempts'[p] = attempts[p]
      BY <1>0, <1>4, <2>1, InsertEffect
    <3>. QED
      BY <1>1, <1>2, <3>1
  <2>2. CASE p = job[x].tx
    <3>1. /\ DOMAIN attempts'[p] = 1 .. n + 1
          /\ \A j \in 1 .. n : attempts'[p][j] = attempts[p][j]
          /\ attempts'[p][n + 1] = [num |-> job[x].num, result |-> "SCHEDULED"]
      BY <1>0, <1>4, <2>2, InsertEffect
    <3>2. job[x].num = n + 1
      BY <1>4, <2>2, NextNumber
    <3>3. i \in 1 .. n \/ i = n + 1
      BY <1>1, <3>1
    <3>. QED
      BY <1>2, <3>1, <3>2, <3>3
  <2>. QED
    BY <2>1, <2>2
<1>5. ASSUME NEW r \in Runners, MarkSuccess(r) \/ MarkFailed(r)
      PROVE  attempts'[p][i].num = i
  BY <1>0, <1>1, <1>2, <1>5, MarkEffect
<1>. QED
  BY <1>0, <1>3, <1>4, <1>5, RowStep

LEMMA CapStep ==
  ASSUME LifecycleInv, [Next]_vars
  PROVE  RetryCap'
<1>. SUFFICES ASSUME NEW p \in Payments, p \notin overridden'
              PROVE  Len(attempts'[p]) <= MaxRetries
  BY DEF RetryCap
<1>0. TypeOK
  BY DEF LifecycleInv
<1>1. p \notin overridden
  BY <1>0, Monotone
<1>2. Len(attempts[p]) <= MaxRetries
  BY <1>1 DEF LifecycleInv, RetryCap
<1>3. CASE UNCHANGED attempts
  BY <1>2, <1>3
<1>4. ASSUME NEW x \in Procs, SaveRetryAttempt(x),
             ~ NumberTaken(job[x].tx, job[x].num)
      PROVE  Len(attempts'[p]) <= MaxRetries
  <2>1. CASE p # job[x].tx
    <3>1. attempts'[p] = attempts[p]
      BY <1>0, <1>4, <2>1, InsertEffect
    <3>. QED
      BY <1>2, <3>1
  <2>2. CASE p = job[x].tx
    <3>1. Len(attempts'[p]) = Len(attempts[p]) + 1
      BY <1>0, <1>4, <2>2, InsertEffect
    <3>. QED
      BY <1>1, <1>4, <2>2, <3>1, NextNumber
  <2>. QED
    BY <2>1, <2>2
<1>5. ASSUME NEW r \in Runners, MarkSuccess(r) \/ MarkFailed(r)
      PROVE  Len(attempts'[p]) <= MaxRetries
  BY <1>0, <1>2, <1>5, MarkEffect
<1>. QED
  BY <1>0, <1>3, <1>4, <1>5, RowStep

LEMMA CapturedStep ==
  ASSUME LifecycleInv, [Next]_vars
  PROVE  SuccessIsCaptured'
<1>. SUFFICES ASSUME NEW p \in Payments, NEW i \in DOMAIN attempts'[p],
                     attempts'[p][i].result = "SUCCESS"
              PROVE  pay'[p] = "captured"
  BY DEF SuccessIsCaptured
<1>. DEFINE n == Len(attempts[p])
<1>0. TypeOK
  BY DEF LifecycleInv
<1>1. /\ attempts[p] \in Seq(AttemptRow) /\ n \in Nat
      /\ DOMAIN attempts[p] = 1 .. n
  BY <1>0 DEF TypeOK
<1>2. pay[p] = "captured" => pay'[p] = "captured"
  BY <1>0, Monotone
<1>3. ASSUME i \in 1 .. n, attempts'[p][i] = attempts[p][i]
      PROVE  pay'[p] = "captured"
  BY <1>1, <1>2, <1>3 DEF LifecycleInv, SuccessIsCaptured
<1>4. CASE UNCHANGED attempts
  BY <1>1, <1>3, <1>4
<1>5. ASSUME NEW x \in Procs, SaveRetryAttempt(x),
             ~ NumberTaken(job[x].tx, job[x].num)
      PROVE  pay'[p] = "captured"
  <2>1. CASE p # job[x].tx
    <3>1. attempts'[p] = attempts[p]
      BY <1>0, <1>5, <2>1, InsertEffect
    <3>. QED
      BY <1>1, <1>3, <3>1
  <2>2. CASE p = job[x].tx
    <3>1. /\ DOMAIN attempts'[p] = 1 .. n + 1
          /\ \A j \in 1 .. n : attempts'[p][j] = attempts[p][j]
          /\ attempts'[p][n + 1] = [num |-> job[x].num, result |-> "SCHEDULED"]
      BY <1>0, <1>5, <2>2, InsertEffect
    <3>2. i \in 1 .. n \/ i = n + 1
      BY <1>1, <3>1
    <3>3. i # n + 1
      BY <3>1
    <3>. QED
      BY <1>3, <3>1, <3>2, <3>3
  <2>. QED
    BY <2>1, <2>2
<1>6. ASSUME NEW r \in Runners, MarkSuccess(r) \/ MarkFailed(r)
      PROVE  pay'[p] = "captured"
  <2>1. i \in DOMAIN attempts[p]
    BY <1>0, <1>6, MarkEffect
  <2>2. CASE p # job[r].tx \/ i # job[r].row
    <3>1. attempts'[p][i] = attempts[p][i]
      BY <1>0, <1>6, <2>1, <2>2, MarkEffect
    <3>. QED
      BY <1>1, <1>3, <2>1, <3>1
  <2>3. CASE p = job[r].tx /\ i = job[r].row
    <3>1. attempts'[p][i].result = IF MarkSuccess(r) THEN "SUCCESS" ELSE "FAILED"
      BY <1>0, <1>6, <2>1, <2>3, MarkEffect
    <3>2. MarkSuccess(r)
      BY <3>1
    <3>3. pay[p] = "captured"
      BY <2>3, <3>2 DEF LifecycleInv, Evidence, EvidenceOf, MarkSuccess, At, Procs
    <3>. QED
      BY <1>2, <3>3
  <2>. QED
    BY <2>2, <2>3
<1>. QED
  BY <1>0, <1>4, <1>5, <1>6, RowStep

\* What a process writes to the status of the payment it works on.
Write == {<<"scheduled", "retry_scheduled">>,
          <<"notifyStatus", "customer_notified">>,
          <<"confirm", "customer_notified">>,
          <<"alternateStatus", "alternate_suggested">>,
          <<"recovered", "recovered">>,
          <<"pipelineError", "pipeline_error">>}

LEMMA StatusStep ==
  ASSUME TypeOK, [Next]_vars, NEW p \in Payments
  PROVE  \/ status'[p] = status[p]
         \/ status'[p] \in EventStatuses
         \/ \E x \in Procs : job[x].tx = p /\ <<pc[x], status'[p]>> \in Write
<1>. DEFINE Wrote(x) == job[x].tx = p /\ <<pc[x], status'[p]>> \in Write
<1>1. CASE UNCHANGED vars
  BY <1>1 DEF vars
<1>2. ASSUME NEW x \in Procs, NEW s, SetStatus(job[x].tx, s), <<pc[x], s>> \in Write
      PROVE  status'[p] = status[p] \/ Wrote(x)
  BY <1>2 DEF SetStatus, TypeOK, Job
<1>3. ASSUME NEW x \in Procs, SharedStep(x)
      PROVE  status'[p] = status[p] \/ Wrote(x)
  <2>1. CASE RetryScheduled(x) \/ CustomerNotified(x)
    BY <1>2, <2>1 DEF RetryScheduled, CustomerNotified, At, Write
  <2>2. CASE CountAttempts(x) \/ SaveRetryAttempt(x) \/ SaveNotification(x)
    BY <2>2 DEF CountAttempts, SaveRetryAttempt, SaveNotification, dbVars
  <2>. QED
    BY <1>3, <2>1, <2>2 DEF SharedStep
<1>4. ASSUME NEW w \in Web, Request(w)
      PROVE  status'[p] = status[p] \/ status'[p] \in EventStatuses
  <2>1. ASSUME NEW q \in Payments, NEW s \in EventStatuses,
               NEW kind \in {"webhook", "pipeline"}, SaveTransaction(w, q, s, kind)
        PROVE  status'[p] = status[p] \/ status'[p] \in EventStatuses
    BY <2>1 DEF SaveTransaction, SetStatus, TypeOK
  <2>2. "FAILED" \in EventStatuses
    BY LifecycleAssumption
  <2>. QED
    BY <1>4, <2>1, <2>2 DEF Request, TriggerRetry, dbVars
<1>5. ASSUME NEW w \in Web, WebStep(w)
      PROVE  \/ status'[p] = status[p]
             \/ status'[p] \in EventStatuses
             \/ Wrote(w)
  <2>. w \in Procs
    BY DEF Procs
  <2>1. CASE AlternateSuggested(w) \/ PipelineError(w)
    BY <1>2, <2>1 DEF AlternateSuggested, PipelineError, At, Write
  <2>2. CASE InsertTransaction(w)
    BY <2>2 DEF InsertTransaction, SetStatus, TypeOK, Job
  <2>3. CASE ReplyWebhook(w) \/ Decide(w) \/ SuggestAlternate(w)
    BY <2>3 DEF ReplyWebhook, Decide, SuggestAlternate, dbVars
  <2>. QED
    BY <1>3, <1>5, <2>1, <2>2, <2>3 DEF WebStep
<1>6. ASSUME NEW r \in Runners, RunnerStep(r)
      PROVE  status'[p] = status[p] \/ Wrote(r)
  <2>. r \in Procs
    BY DEF Procs
  <2>1. CASE Recovered(r) \/ ConfirmNotified(r)
    BY <1>2, <2>1 DEF Recovered, ConfirmNotified, At, Write
  <2>2. CASE SharedStep(r)
    BY <1>3, <2>2
  <2>. QED
    BY <1>6, <2>1, <2>2 DEF RunnerStep, PollPending, EndBatch, TakeAttempt,
       FetchPayment, NoCredentials, CapturePayment, MarkSuccess, MarkFailed, dbVars
<1>7. ASSUME NEW x \in Procs, Crash(x)
      PROVE  status'[p] = status[p]
  BY <1>7 DEF Crash, dbVars
<1>8. ASSUME NEW q \in Payments, World(q)
      PROVE  status'[p] = status[p]
  BY <1>8 DEF World, BecomeDue, Authorize, CaptureElsewhere, dbVars
<1>. QED
  BY <1>1, <1>4, <1>5, <1>6, <1>7, <1>8 DEF Next, Procs

LEMMA BackedStep ==
  ASSUME LifecycleInv, [Next]_vars
  PROVE  StatusBackedByRecord'
<1>. SUFFICES ASSUME NEW p \in Payments
              PROVE  /\ status'[p] = "retry_scheduled" => Len(attempts'[p]) > 0
                     /\ status'[p] = "customer_notified" =>
                          "customer_notified" \in actions'[p]
                     /\ status'[p] = "alternate_suggested" =>
                          "alternate_method_suggested" \in actions'[p]
                     /\ status'[p] = "recovered" => pay'[p] = "captured"
  BY DEF StatusBackedByRecord
<1>0. TypeOK /\ TypeOK'
  BY TypeStep DEF LifecycleInv
<1>1. /\ attempts[p] \in Seq(AttemptRow) /\ Len(attempts[p]) \in Nat
      /\ attempts'[p] \in Seq(AttemptRow) /\ Len(attempts'[p]) \in Nat
  BY <1>0 DEF TypeOK
<1>2. /\ Len(attempts[p]) > 0 => Len(attempts'[p]) > 0
      /\ actions[p] \subseteq actions'[p]
      /\ pay[p] = "captured" => pay'[p] = "captured"
  BY <1>0, <1>1, Monotone
<1>3. CASE status'[p] = status[p]
  <2>1. status[p] = "retry_scheduled" => Len(attempts[p]) > 0
    BY <1>1 DEF LifecycleInv, StatusBackedByRecord
  <2>. QED
    BY <1>2, <1>3, <2>1 DEF LifecycleInv, StatusBackedByRecord
<1>4. CASE status'[p] \in EventStatuses
  BY <1>4, LifecycleAssumption
<1>5. ASSUME NEW x \in Procs, job[x].tx = p, <<pc[x], status'[p]>> \in Write
      PROVE  /\ status'[p] = "retry_scheduled" => Len(attempts'[p]) > 0
             /\ status'[p] = "customer_notified" =>
                  "customer_notified" \in actions'[p]
             /\ status'[p] = "alternate_suggested" =>
                  "alternate_method_suggested" \in actions'[p]
             /\ status'[p] = "recovered" => pay'[p] = "captured"
  <2>1. EvidenceOf(x)
    BY DEF LifecycleInv, Evidence
  <2>. QED
    BY <1>2, <1>5, <2>1 DEF EvidenceOf, Write
<1>. QED
  BY <1>0, <1>3, <1>4, <1>5, StatusStep

LEMMA InvStep ==
  ASSUME LifecycleInv, [Next]_vars
  PROVE  LifecycleInv'
BY TypeStep, EvidenceStep, ContiguousStep, CapStep, BackedStep, CapturedStep
   DEF LifecycleInv

\* The invariant holds of every reachable state, for any number of payments,
\* web processes and runners, with or without crashes.
THEOREM Invariant == Spec => []LifecycleInv
<1>1. Init => LifecycleInv
  <2>. SUFFICES ASSUME Init
                PROVE  LifecycleInv
    OBVIOUS
  <2>1. TypeOK
    BY NoJobType DEF Init, TypeOK, Statuses, PaymentStates, WebLabels
  <2>2. Evidence
    BY DEF Init, Evidence, EvidenceOf, NoJob
  <2>3. AttemptsContiguous /\ RetryCap /\ SuccessIsCaptured
    BY LifecycleAssumption
       DEF Init, AttemptsContiguous, RetryCap, SuccessIsCaptured
  <2>4. StatusBackedByRecord
    BY DEF Init, StatusBackedByRecord
  <2>. QED
    BY <2>1, <2>2, <2>3, <2>4 DEF LifecycleInv
<1>2. LifecycleInv /\ [Next]_vars => LifecycleInv'
  BY InvStep
<1>. QED
  BY <1>1, <1>2, PTL DEF Spec

\* Attempts are numbered without a gap or a repetition, although schedulers
\* count in one transaction and insert in another.
THEOREM Contiguous == Spec => []AttemptsContiguous
BY Invariant, PTL DEF LifecycleInv

\* The cap on attempts holds whatever schedulers race, unless a merchant
\* forced a retry of the payment.
THEOREM Capped == Spec => []RetryCap
BY Invariant, PTL DEF LifecycleInv

\* A status is never ahead of the record behind it, between any two commits.
THEOREM Backed == Spec => []StatusBackedByRecord
BY Invariant, PTL DEF LifecycleInv

\* An attempt is marked SUCCESS only when the money is captured.
THEOREM Captured == Spec => []SuccessIsCaptured
BY Invariant, PTL DEF LifecycleInv

=============================================================================
