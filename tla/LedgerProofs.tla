---------------------------- MODULE LedgerProofs ----------------------------
(***************************************************************************)
(* With a single retry runner the results of RetryLifecycle are final and  *)
(* the lifecycle keeps RecoveryPromise.  What the dashboard counts as      *)
(* recovered once stays counted; advice once given stands, for any number  *)
(* of runners.                                                             *)
(***************************************************************************)
EXTENDS RunnerProofs, LifecycleRefinement, Dashboard

OneRunner == \A r, s \in Runners : r = s

\* The row a runner is executing has no result yet.
Executing(r) == pc[r] \in {"fetch", "capture", "success", "failed"}

ExecutesPending ==
  \A r \in Runners : Executing(r) => Pending(job[r].tx, job[r].row)

\* A row keeps its result unless the runner that executes it settles it.
LEMMA PendingKept ==
  ASSUME TypeOK, [Next]_vars, NEW p, NEW i, HasRow(p, i), Pending(p, i),
         \A r \in Runners : ~ (MarkSuccess(r) \/ MarkFailed(r))
  PROVE  Pending(p, i)'
<1>1. p \in Payments /\ attempts[p] \in Seq(AttemptRow) /\ i \in 1 .. Len(attempts[p])
  BY DEF HasRow, TypeOK
<1>2. CASE UNCHANGED attempts
  BY <1>2 DEF Pending
<1>3. ASSUME NEW x \in Procs, SaveRetryAttempt(x),
             ~ NumberTaken(job[x].tx, job[x].num)
      PROVE  Pending(p, i)'
  <2>1. attempts'[p][i] = attempts[p][i]
    BY <1>1, <1>3, InsertEffect
  <2>. QED
    BY <2>1 DEF Pending
<1>. QED
  BY <1>2, <1>3, RowStep

LEMMA ExecutesPendingStep ==
  ASSUME OneRunner, TypeOK, RowsExist, ExecutesPending, [Next]_vars
  PROVE  ExecutesPending'
<1>. SUFFICES ASSUME NEW r \in Runners, Executing(r)'
              PROVE  Pending(job[r].tx, job[r].row)'
  BY DEF ExecutesPending
<1>1. r \in Procs /\ r \notin Web
  BY LifecycleAssumption DEF Procs
<1>2. CASE ~ Own(r)
  <2>1. pc'[r] = pc[r] /\ job'[r] = job[r]
    BY <1>1, <1>2, Locality
  <2>2. HasRow(job[r].tx, job[r].row) /\ Pending(job[r].tx, job[r].row)
    BY <2>1 DEF Executing, ExecutesPending, RowsExist, Busy
  <2>3. \A s \in Runners : ~ (MarkSuccess(s) \/ MarkFailed(s))
    BY <1>2 DEF OneRunner, Own, RunnerStep
  <2>4. PICK p, i : p = job[r].tx /\ i = job[r].row
    OBVIOUS
  <2>5. Pending(p, i)'
    BY <2>2, <2>3, <2>4, PendingKept
  <2>. QED
    BY <2>1, <2>4, <2>5 DEF Pending
<1>3. CASE Crash(r)
  BY <1>1, <1>3 DEF Crash, Goto, TypeOK, Executing
<1>4. CASE RunnerStep(r)
  <2>1. Busy(r) => job[r].kind = "retry"
    BY DEF RowsExist
  <2>2. pc'[r] \notin {"idle", "batch"}
    BY DEF Executing
  <2>3. ASSUME NEW e \in batch[r], job'[r].tx = e[1], job'[r].row = e[2],
               Pending(e[1], e[2]), UNCHANGED attempts
        PROVE  Pending(job[r].tx, job[r].row)'
    BY <2>3 DEF Pending
  <2>4. CASE Busy(r) /\ job'[r].tx = job[r].tx /\ job'[r].row = job[r].row
    <3>1. FetchPayment(r) \/ CapturePayment(r)
      BY <1>1, <1>4, <2>4 DEF RunnerStep, SharedStep, PollPending, EndBatch,
         TakeAttempt, NoCredentials, MarkSuccess, Recovered, MarkFailed,
         ConfirmNotified, CountAttempts, SaveRetryAttempt, RetryScheduled,
         SaveNotification, CustomerNotified, Raise, Return, Goto, AfterFailure,
         At, Busy, Executing, TypeOK
    <3>2. Executing(r) /\ UNCHANGED attempts
      BY <3>1 DEF FetchPayment, CapturePayment, At, Executing, dbVars
    <3>3. Pending(job[r].tx, job[r].row)
      BY <3>2 DEF ExecutesPending
    <3>. QED
      BY <2>4, <3>2, <3>3 DEF Pending
  <2>. QED
    BY <1>4, <2>1, <2>2, <2>3, <2>4, JobStep
<1>. QED
  BY <1>1, <1>2, <1>3, <1>4 DEF Own

LedgerInv == LifecycleInv /\ RowsExist /\ ExecutesPending

LEMMA LedgerInvariant ==
  ASSUME OneRunner
  PROVE  Spec => []LedgerInv
<1>1. Init => RowsExist /\ ExecutesPending
  BY DEF Init, RowsExist, Busy, ExecutesPending, Executing, Procs
<1>2. LifecycleInv /\ RowsExist /\ ExecutesPending /\ [Next]_vars
      => RowsExist' /\ ExecutesPending'
  BY RowsExistStep, ExecutesPendingStep DEF LifecycleInv
<1>. QED
  BY <1>1, <1>2, Invariant, PTL DEF Spec, LedgerInv

-----------------------------------------------------------------------------
(* The audit trail.                                                        *)

LEMMA FinalStep ==
  ASSUME LedgerInv, [Next]_vars
  PROVE  \A p \in Payments : \A i \in DOMAIN attempts[p] :
           /\ i \in DOMAIN attempts'[p]
           /\ attempts'[p][i].num = attempts[p][i].num
           /\ attempts[p][i].result # "SCHEDULED" =>
                attempts'[p][i] = attempts[p][i]
<1>. SUFFICES ASSUME NEW p \in Payments, NEW i \in DOMAIN attempts[p]
              PROVE  /\ i \in DOMAIN attempts'[p]
                     /\ attempts'[p][i].num = attempts[p][i].num
                     /\ attempts[p][i].result # "SCHEDULED" =>
                          attempts'[p][i] = attempts[p][i]
  OBVIOUS
<1>0. TypeOK
  BY DEF LedgerInv, LifecycleInv
<1>1. /\ attempts[p] \in Seq(AttemptRow) /\ i \in 1 .. Len(attempts[p])
      /\ Len(attempts[p]) \in Nat /\ DOMAIN attempts[p] = 1 .. Len(attempts[p])
  BY <1>0 DEF TypeOK
<1>2. CASE UNCHANGED attempts
  BY <1>2
<1>3. ASSUME NEW x \in Procs, SaveRetryAttempt(x),
             ~ NumberTaken(job[x].tx, job[x].num)
      PROVE  i \in DOMAIN attempts'[p] /\ attempts'[p][i] = attempts[p][i]
  <2>1. CASE p # job[x].tx
    <3>1. attempts'[p] = attempts[p]
      BY <1>0, <1>3, <2>1, InsertEffect
    <3>. QED
      BY <3>1
  <2>2. CASE p = job[x].tx
    <3>1. /\ DOMAIN attempts'[p] = 1 .. Len(attempts[p]) + 1
          /\ \A j \in 1 .. Len(attempts[p]) : attempts'[p][j] = attempts[p][j]
      BY <1>0, <1>3, <2>2, InsertEffect
    <3>. QED
      BY <1>1, <3>1
  <2>. QED
    BY <2>1, <2>2
<1>4. ASSUME NEW r \in Runners, MarkSuccess(r) \/ MarkFailed(r)
      PROVE  /\ i \in DOMAIN attempts'[p]
             /\ attempts'[p][i].num = attempts[p][i].num
             /\ attempts[p][i].result # "SCHEDULED" =>
                  attempts'[p][i] = attempts[p][i]
  <2>1. Pending(job[r].tx, job[r].row)
    BY <1>4 DEF LedgerInv, ExecutesPending, Executing, MarkSuccess, MarkFailed, At
  <2>2. attempts[p][i].result # "SCHEDULED" => p # job[r].tx \/ i # job[r].row
    BY <2>1 DEF Pending
  <2>. QED
    BY <1>0, <1>4, <2>2, MarkEffect
<1>. QED
  BY <1>0, <1>2, <1>3, <1>4, RowStep

\* With one runner the audit trail holds: a row is never removed or renumbered,
\* and its result never changes once it is known, through crashes too.
THEOREM Final ==
  ASSUME OneRunner
  PROVE  Spec => ResultsFinal
<1>1. LedgerInv /\ [Next]_vars
      => \A p \in Payments : \A i \in DOMAIN attempts[p] :
           /\ i \in DOMAIN attempts'[p]
           /\ attempts'[p][i].num = attempts[p][i].num
           /\ attempts[p][i].result # "SCHEDULED" =>
                attempts'[p][i] = attempts[p][i]
  BY FinalStep
<1>. QED
  BY <1>1, LedgerInvariant, PTL DEF Spec, ResultsFinal

-----------------------------------------------------------------------------
(* The refinement.                                                         *)

Told == {p \in Payments : "customer_notified" \in actions[p]}

CapturedSet == {p \in Payments : pay[p] = "captured"}

Book == [p \in Payments |-> Ledger(attempts[p])]

LEMMA LedgerType ==
  ASSUME NEW rows \in Seq(AttemptRow)
  PROVE  /\ Ledger(rows) \in Seq(Results)
         /\ Len(Ledger(rows)) = Len(rows)
         /\ DOMAIN Ledger(rows) = 1 .. Len(rows)
         /\ \A i \in 1 .. Len(rows) : Ledger(rows)[i] = rows[i].result
<1>1. Len(rows) \in Nat /\ DOMAIN rows = 1 .. Len(rows)
  OBVIOUS
<1>2. \A i \in 1 .. Len(rows) : rows[i].result \in Results
  <2>1. \A i \in 1 .. Len(rows) : rows[i] \in AttemptRow
    OBVIOUS
  <2>. QED
    BY <2>1 DEF AttemptRow
<1>3. Ledger(rows) = [i \in 1 .. Len(rows) |-> rows[i].result]
  BY <1>1 DEF Ledger
<1>. HIDE DEF Ledger
<1>4. [i \in 1 .. Len(rows) |-> rows[i].result] \in Seq(Results)
  BY <1>1, <1>2
<1>5. Len([i \in 1 .. Len(rows) |-> rows[i].result]) = Len(rows)
  BY <1>1, <1>2
<1>. QED
  BY <1>1, <1>3, <1>4, <1>5

\* An insert is the promise's Schedule.
LEMMA InsertSchedules ==
  ASSUME LedgerInv, NEW x \in Procs, SaveRetryAttempt(x),
         ~ NumberTaken(job[x].tx, job[x].num)
  PROVE  Promise!Schedule(job[x].tx)
<1>0. TypeOK /\ LifecycleInv
  BY DEF LedgerInv, LifecycleInv
<1>1. PICK p \in Payments : p = job[x].tx
  BY <1>0 DEF TypeOK, Job
<1>2. attempts[p] \in Seq(AttemptRow)
  BY <1>0 DEF TypeOK
<1>. DEFINE n == Len(attempts[p])
            row == [num |-> job[x].num, result |-> "SCHEDULED"]
<1>3. n \in Nat
  BY <1>2
<1>4. /\ Len(Ledger(attempts[p])) = n
      /\ n < MaxRetries \/ p \in overridden
  <2>1. /\ job[x].num = n + 1
        /\ p \in overridden \/ job[x].num <= MaxRetries
    BY <1>0, <1>1, NextNumber
  <2>. QED
    BY <1>2, <1>3, <2>1, LedgerType, LifecycleAssumption
<1>5. attempts' = [attempts EXCEPT ![p] = Append(@, row)]
  BY <1>1 DEF SaveRetryAttempt
<1>6. Ledger(Append(attempts[p], row)) = Append(Ledger(attempts[p]), "SCHEDULED")
  <2>. DEFINE new == Append(attempts[p], row)
              old == Ledger(attempts[p])
  <2>1. row \in AttemptRow
    BY <1>0 DEF TypeOK, Job, AttemptRow, Results
  <2>2. row.result = "SCHEDULED"
    OBVIOUS
  <2>. HIDE DEF row
  <2>3. /\ new \in Seq(AttemptRow) /\ Len(new) = n + 1
        /\ \A j \in 1 .. n : new[j] = attempts[p][j]
        /\ new[n + 1] = row
    BY <1>2, <2>1, AppendedRow
  <2>. HIDE DEF new
  <2>4. /\ Ledger(new) \in Seq(Results) /\ Len(Ledger(new)) = n + 1
        /\ \A j \in 1 .. n + 1 : Ledger(new)[j] = new[j].result
    BY <2>3, LedgerType
  <2>5. /\ old \in Seq(Results) /\ Len(old) = n
        /\ \A j \in 1 .. n : old[j] = attempts[p][j].result
    BY <1>2, LedgerType
  <2>. HIDE DEF old
  <2>6. \A j \in 1 .. n + 1 : Ledger(new)[j] = Append(old, "SCHEDULED")[j]
    BY <1>3, <2>2, <2>3, <2>4, <2>5
  <2>7. /\ Append(old, "SCHEDULED") \in Seq(Results)
        /\ Len(Append(old, "SCHEDULED")) = n + 1
    BY <2>5 DEF Results
  <2>8. Ledger(new) = Append(old, "SCHEDULED")
    BY <1>3, <2>4, <2>6, <2>7
  <2>. QED
    BY <2>8 DEF new, old
<1>7. Book' = [Book EXCEPT ![p] = Append(@, "SCHEDULED")]
  <2>1. \A q \in Payments :
          attempts'[q] = IF q = p THEN Append(attempts[p], row) ELSE attempts[q]
    BY <1>0, <1>5 DEF TypeOK
  <2>2. \A q \in Payments :
          Ledger(attempts'[q]) = IF q = p THEN Append(Ledger(attempts[p]), "SCHEDULED")
                                          ELSE Ledger(attempts[q])
    BY <1>6, <2>1
  <2>. QED
    BY <2>2 DEF Book
<1>8. UNCHANGED <<CapturedSet, Told, overridden>>
  BY DEF SaveRetryAttempt, worldVars, CapturedSet, Told
<1>. QED
  BY <1>1, <1>4, <1>7, <1>8 DEF Promise!Schedule, Book, CapturedSet, Told

\* Settling an attempt is the promise's Settle.
LEMMA MarkSettles ==
  ASSUME LedgerInv, NEW r \in Runners, MarkSuccess(r) \/ MarkFailed(r)
  PROVE  \E i \in DOMAIN Ledger(attempts[job[r].tx]), res \in {"SUCCESS", "FAILED"} :
           Promise!Settle(job[r].tx, i, res)
<1>0. TypeOK /\ LifecycleInv /\ r \in Procs
  BY DEF LedgerInv, LifecycleInv, Procs
<1>1. PICK p \in Payments : p = job[r].tx
  BY <1>0 DEF TypeOK, Job
<1>2. PICK i : i = job[r].row
  OBVIOUS
<1>3. attempts[p] \in Seq(AttemptRow) /\ i \in 1 .. Len(attempts[p])
  <2>1. HasRow(p, i)
    BY <1>1, <1>2 DEF LedgerInv, RowsExist, Busy, MarkSuccess, MarkFailed, At
  <2>. QED
    BY <1>0, <2>1 DEF HasRow, TypeOK
<1>4. attempts[p][i].result = "SCHEDULED"
  BY <1>1, <1>2 DEF LedgerInv, ExecutesPending, Executing, Pending,
     MarkSuccess, MarkFailed, At
<1>5. PICK res \in {"SUCCESS", "FAILED"} :
        /\ attempts' = [attempts EXCEPT ![p][i].result = res]
        /\ res = "SUCCESS" => pay[p] = "captured"
  <2>1. CASE MarkSuccess(r)
    <3>1. pay[p] = "captured"
      BY <1>0, <1>1, <2>1 DEF LifecycleInv, Evidence, EvidenceOf, MarkSuccess, At
    <3>. QED
      BY <1>1, <1>2, <2>1, <3>1 DEF MarkSuccess, SetResult
  <2>2. CASE MarkFailed(r)
    BY <1>1, <1>2, <2>2 DEF MarkFailed, SetResult, FailureResult
  <2>. QED
    BY <2>1, <2>2
<1>. DEFINE new == [attempts[p] EXCEPT ![i].result = res]
<1>6. \A q \in Payments : attempts'[q] = IF q = p THEN new ELSE attempts[q]
  BY <1>0, <1>5 DEF TypeOK
<1>7. Ledger(new) = [Ledger(attempts[p]) EXCEPT ![i] = res]
  <2>1. DOMAIN new = DOMAIN attempts[p] /\ i \in DOMAIN attempts[p]
    BY <1>3
  <2>2. \A j \in DOMAIN attempts[p] :
          new[j].result = IF j = i THEN res ELSE attempts[p][j].result
    <3>1. attempts[p][i] \in AttemptRow
      BY <1>3
    <3>2. [attempts[p][i] EXCEPT !.result = res].result = res
      BY <3>1 DEF AttemptRow
    <3>. QED
      BY <2>1, <3>2
  <2>. HIDE DEF new
  <2>. QED
    BY <2>1, <2>2 DEF Ledger
<1>8. Book' = [Book EXCEPT ![p] = [Ledger(attempts[p]) EXCEPT ![i] = res]]
  <2>. HIDE DEF new
  <2>. QED
    BY <1>6, <1>7 DEF Book
<1>9. /\ Book[p] = Ledger(attempts[p])
      /\ i \in DOMAIN Ledger(attempts[p])
      /\ Ledger(attempts[p])[i] = "SCHEDULED"
  BY <1>3, <1>4, LedgerType DEF Book
<1>10. UNCHANGED <<CapturedSet, Told, overridden>>
  BY DEF MarkSuccess, MarkFailed, worldVars, CapturedSet, Told
<1>11. Promise!Settle(p, i, res)
  BY <1>1, <1>5, <1>8, <1>9, <1>10 DEF Promise!Settle, Book, CapturedSet, Told
<1>. QED
  BY <1>1, <1>9, <1>11

\* A capture, a notification or an override is one of the promise's, and
\* every other step with the rows unchanged is a stutter.
LEMMA OtherStep ==
  ASSUME LedgerInv, [Next]_vars, UNCHANGED attempts
  PROVE  [Promise!Next]_(Promise!vars)
<1>0. TypeOK
  BY DEF LedgerInv, LifecycleInv
<1>. DEFINE Same == UNCHANGED <<CapturedSet, Told, overridden>>
<1>1. ASSUME Same
      PROVE  UNCHANGED Promise!vars
  BY <1>1 DEF Promise!vars, CapturedSet, Told
<1>2. ASSUME NEW p \in Payments, UNCHANGED <<pay, actions>>,
             overridden' = overridden \cup {p}
      PROVE  Promise!Override(p)
  BY <1>2 DEF Promise!Override
<1>3. ASSUME NEW p \in Payments, UNCHANGED <<actions, overridden>>,
             pay' = [pay EXCEPT ![p] = "captured"]
      PROVE  Promise!Capture(p)
  <2>1. CapturedSet' = CapturedSet \cup {p}
    BY <1>0, <1>3 DEF CapturedSet, TypeOK
  <2>. QED
    BY <1>3, <2>1 DEF Promise!Capture, CapturedSet
<1>4. ASSUME NEW p \in Payments, UNCHANGED <<pay, overridden>>,
             actions' = [actions EXCEPT ![p] = @ \cup {"customer_notified"}]
      PROVE  Promise!Tell(p)
  <2>1. Told' = Told \cup {p}
    BY <1>0, <1>4 DEF Told, TypeOK
  <2>. QED
    BY <1>4, <2>1 DEF Promise!Tell, Told
<1>. DEFINE Kept == UNCHANGED <<pay, actions, overridden>>
<1>5. Kept => Same
  BY DEF CapturedSet, Told
<1>6. ASSUME NEW x \in Procs, SharedStep(x)
      PROVE  Kept \/ \E p \in Payments : Promise!Tell(p)
  <2>1. job[x].tx \in Payments
    BY <1>0 DEF TypeOK, Job
  <2>2. CASE SaveNotification(x)
    BY <1>4, <2>1, <2>2 DEF SaveNotification, worldVars
  <2>3. CASE ~ SaveNotification(x)
    BY <1>6, <2>3 DEF SharedStep, CountAttempts, SaveRetryAttempt,
       RetryScheduled, CustomerNotified, dbVars, worldVars
  <2>. QED
    BY <2>2, <2>3
<1>7. ASSUME NEW w \in Web, Request(w)
      PROVE  Kept \/ \E p \in Payments : Promise!Override(p)
  BY <1>2, <1>7 DEF Request, SaveTransaction, TriggerRetry, dbVars, worldVars
<1>8. ASSUME NEW w \in Web, WebStep(w)
      PROVE  Same \/ \E p \in Payments : Promise!Tell(p)
  <2>1. CASE SuggestAlternate(w)
    <3>1. Told' = Told
      BY <1>0, <2>1 DEF SuggestAlternate, Told, TypeOK
    <3>. QED
      BY <2>1, <3>1 DEF SuggestAlternate, worldVars, CapturedSet
  <2>2. CASE SharedStep(w)
    BY <1>5, <1>6, <2>2 DEF Procs
  <2>3. CASE ~ SuggestAlternate(w) /\ ~ SharedStep(w)
    <3>1. Kept
      BY <1>8, <2>3 DEF WebStep, InsertTransaction, ReplyWebhook, Decide,
         AlternateSuggested, PipelineError, dbVars, worldVars
    <3>. QED
      BY <1>5, <3>1
  <2>. QED
    BY <2>1, <2>2, <2>3
<1>9. ASSUME NEW r \in Runners, RunnerStep(r)
      PROVE  Kept \/ \E p \in Payments : Promise!Tell(p) \/ Promise!Capture(p)
  <2>1. job[r].tx \in Payments
    BY <1>0 DEF TypeOK, Job, Procs
  <2>2. CASE CapturePayment(r)
    BY <1>3, <2>1, <2>2 DEF CapturePayment, dbVars
  <2>3. CASE SharedStep(r)
    BY <1>6, <2>3 DEF Procs
  <2>4. CASE ~ CapturePayment(r) /\ ~ SharedStep(r)
    BY <1>9, <2>4 DEF RunnerStep, PollPending, EndBatch, TakeAttempt,
       FetchPayment, NoCredentials, MarkSuccess, Recovered, MarkFailed,
       ConfirmNotified, dbVars, worldVars
  <2>. QED
    BY <2>2, <2>3, <2>4
<1>10. ASSUME NEW x \in Procs, Crash(x)
       PROVE  Kept
  BY <1>10 DEF Crash, dbVars, worldVars
<1>11. ASSUME NEW p \in Payments, World(p)
       PROVE  Same \/ Promise!Capture(p)
  <2>1. CASE CaptureElsewhere(p)
    BY <1>3, <2>1 DEF CaptureElsewhere, dbVars
  <2>2. CASE \E i \in DOMAIN attempts[p] : BecomeDue(p, i)
    BY <1>5, <2>2 DEF BecomeDue, dbVars
  <2>3. CASE Authorize(p)
    <3>1. CapturedSet' = CapturedSet
      BY <1>0, <2>3 DEF Authorize, CapturedSet, TypeOK
    <3>. QED
      BY <2>3, <3>1 DEF Authorize, dbVars, Told
  <2>. QED
    BY <1>11, <2>1, <2>2, <2>3 DEF World
<1>12. \/ Same
       \/ \E p \in Payments : Promise!Tell(p) \/ Promise!Capture(p)
                             \/ Promise!Override(p)
  <2>1. CASE UNCHANGED vars
    BY <1>5, <2>1 DEF vars
  <2>. QED
    BY <1>5, <1>7, <1>8, <1>9, <1>10, <1>11, <2>1 DEF Next
<1>. HIDE DEF Same
<1>. QED
  BY <1>1, <1>12 DEF Promise!Next

\* Every step of the program with one runner is a step of the promise.
LEMMA PromiseStep ==
  ASSUME LedgerInv, [Next]_vars
  PROVE  [Promise!Next]_(Promise!vars)
<1>0. TypeOK
  BY DEF LedgerInv, LifecycleInv
<1>1. ASSUME NEW x \in Procs, SaveRetryAttempt(x),
             ~ NumberTaken(job[x].tx, job[x].num)
      PROVE  Promise!Next
  <2>1. job[x].tx \in Payments
    BY <1>0 DEF TypeOK, Job
  <2>. QED
    BY <1>1, <2>1, InsertSchedules DEF Promise!Next
<1>2. ASSUME NEW r \in Runners, MarkSuccess(r) \/ MarkFailed(r)
      PROVE  Promise!Next
  <2>1. job[r].tx \in Payments
    BY <1>0 DEF TypeOK, Job, Procs
  <2>. QED
    BY <1>2, <2>1, MarkSettles DEF Promise!Next
<1>. QED
  BY <1>0, <1>1, <1>2, OtherStep, RowStep

\* The lifecycle with one runner implements the promise of the retry
\* subsystem: a capped, append-only ledger with final results.
THEOREM Keeps ==
  ASSUME OneRunner
  PROVE  Spec => KeepsPromise
<1>1. Init => Promise!Init
  BY DEF Init, Promise!Init, Ledger
<1>2. LedgerInv /\ [Next]_vars => [Promise!Next]_(Promise!vars)
  BY PromiseStep
<1>. QED
  BY <1>1, <1>2, LedgerInvariant, PTL DEF Spec, KeepsPromise, Promise!Spec

-----------------------------------------------------------------------------
(* Dashboard.  Statuses come and go, so the count rests on the rows:       *)
(* behind every status "recovered" there is a row marked SUCCESS.          *)

Succeeded(p) == \E i \in DOMAIN attempts[p] : attempts[p][i].result = "SUCCESS"

RecoveredHasRow ==
  /\ \A p \in Payments : status[p] = "recovered" => Succeeded(p)
  /\ \A r \in Runners : pc[r] = "recovered" => Succeeded(job[r].tx)

\* Only the executor writes "recovered", and nobody takes a transaction away.
LEMMA StatusWritten ==
  ASSUME TypeOK, [Next]_vars, NEW p \in Payments
  PROVE  /\ status[p] # "absent" => status'[p] # "absent"
         /\ status'[p] = "recovered" /\ status[p] # "recovered" =>
              \E r \in Runners : Recovered(r) /\ p = job[r].tx
<1>. DEFINE Goal == /\ status[p] # "absent" => status'[p] # "absent"
                    /\ status'[p] = "recovered" /\ status[p] # "recovered" =>
                         \E r \in Runners : Recovered(r) /\ p = job[r].tx
<1>0. /\ status \in [Payments -> Statuses \cup {"absent"}]
      /\ EventStatuses \cap {"recovered", "absent"} = {}
  BY LifecycleAssumption DEF TypeOK
<1>1. ASSUME NEW q, NEW s, SetStatus(q, s), s \notin {"recovered", "absent"}
      PROVE  Goal
  BY <1>0, <1>1 DEF SetStatus
<1>2. ASSUME NEW x \in Procs, SharedStep(x)
      PROVE  Goal
  BY <1>1, <1>2 DEF SharedStep, CountAttempts, SaveRetryAttempt, RetryScheduled,
     SaveNotification, CustomerNotified, dbVars
<1>3. ASSUME NEW w \in Web, Request(w)
      PROVE  Goal
  BY <1>0, <1>1, <1>3 DEF Request, SaveTransaction, TriggerRetry, dbVars
<1>4. ASSUME NEW w \in Web, WebStep(w)
      PROVE  Goal
  <2>1. w \in Procs /\ job[w].event \in EventStatuses
    BY DEF TypeOK, Job, Procs
  <2>. QED
    BY <1>0, <1>1, <1>2, <1>4, <2>1 DEF WebStep, InsertTransaction, ReplyWebhook,
       Decide, SuggestAlternate, AlternateSuggested, PipelineError, dbVars
<1>5. ASSUME NEW r \in Runners, RunnerStep(r)
      PROVE  Goal
  <2>1. CASE Recovered(r)
    <3>1. status' = [status EXCEPT ![job[r].tx] = "recovered"]
      BY <2>1 DEF Recovered, SetStatus
    <3>. QED
      BY <1>0, <2>1, <3>1
  <2>2. CASE SharedStep(r)
    BY <1>2, <2>2 DEF Procs
  <2>3. CASE ConfirmNotified(r)
    BY <1>1, <2>3 DEF ConfirmNotified
  <2>4. CASE ~ Recovered(r) /\ ~ SharedStep(r) /\ ~ ConfirmNotified(r)
    <3>1. UNCHANGED status
      BY <1>5, <2>4 DEF RunnerStep, PollPending, EndBatch, TakeAttempt,
         FetchPayment, NoCredentials, CapturePayment, MarkSuccess, MarkFailed,
         dbVars
    <3>. QED
      BY <3>1
  <2>. QED
    BY <2>1, <2>2, <2>3, <2>4
<1>6. ASSUME NEW x \in Procs, Crash(x)
      PROVE  Goal
  BY <1>6 DEF Crash, dbVars
<1>7. ASSUME NEW q \in Payments, World(q)
      PROVE  Goal
  BY <1>7 DEF World, BecomeDue, Authorize, CaptureElsewhere, dbVars
<1>8. CASE UNCHANGED vars
  BY <1>8 DEF vars
<1>9. Goal
  BY <1>3, <1>4, <1>5, <1>6, <1>7, <1>8 DEF Next
<1>. QED
  BY <1>9

\* A success stays on file.
LEMMA SuccessKept ==
  ASSUME LedgerInv, [Next]_vars, NEW p \in Payments, Succeeded(p)
  PROVE  Succeeded(p)'
<1>1. PICK i \in DOMAIN attempts[p] : attempts[p][i].result = "SUCCESS"
  BY DEF Succeeded
<1>2. i \in DOMAIN attempts'[p] /\ attempts'[p][i] = attempts[p][i]
  BY <1>1, FinalStep
<1>. QED
  BY <1>1, <1>2 DEF Succeeded

\* A runner is about to write "recovered" only after it marked a row SUCCESS.
LEMMA RecoveredStep ==
  ASSUME LedgerInv, RecoveredHasRow, [Next]_vars, NEW r \in Runners,
         pc'[r] = "recovered"
  PROVE  Succeeded(job[r].tx)'
<1>0. TypeOK /\ r \in Procs /\ r \notin Web /\ pc \in [Procs -> Labels]
  BY LifecycleAssumption DEF LedgerInv, LifecycleInv, Procs, TypeOK, Labels
<1>1. CASE ~ Own(r)
  <2>1. pc'[r] = pc[r] /\ job'[r] = job[r]
    BY <1>0, <1>1, Locality
  <2>2. PICK p \in Payments : p = job[r].tx
    BY <1>0 DEF TypeOK, Job
  <2>3. Succeeded(p)'
    BY <2>1, <2>2, SuccessKept DEF RecoveredHasRow
  <2>. QED
    BY <2>1, <2>2, <2>3 DEF Succeeded
<1>2. CASE Own(r)
  <2>1. MarkSuccess(r)
    BY <1>0, <1>2 DEF Own, Crash, RunnerStep, SharedStep, PollPending, EndBatch,
       TakeAttempt, FetchPayment, NoCredentials, CapturePayment, Recovered,
       MarkFailed, ConfirmNotified, CountAttempts, SaveRetryAttempt,
       RetryScheduled, SaveNotification, CustomerNotified, Raise, Return, Fail,
       Goto, AfterFailure, At
  <2>2. HasRow(job[r].tx, job[r].row) /\ job' = job
    BY <2>1 DEF MarkSuccess, At, LedgerInv, RowsExist, Busy
  <2>3. PICK p, i : /\ p \in Payments /\ i \in DOMAIN attempts[p]
                    /\ p = job[r].tx /\ i = job[r].row
    BY <2>2 DEF HasRow
  <2>4. i \in DOMAIN attempts'[p] /\ attempts'[p][i].result = "SUCCESS"
    BY <1>0, <2>1, <2>3, MarkEffect
  <2>. QED
    BY <2>2, <2>3, <2>4 DEF Succeeded
<1>. QED
  BY <1>1, <1>2

LEMMA RecoveredHasRowStep ==
  ASSUME LedgerInv, RecoveredHasRow, [Next]_vars
  PROVE  RecoveredHasRow'
<1>0. TypeOK
  BY DEF LedgerInv, LifecycleInv
<1>1. ASSUME NEW p \in Payments, status'[p] = "recovered"
      PROVE  Succeeded(p)'
  <2>1. CASE status[p] = "recovered"
    BY <1>1, <2>1, SuccessKept DEF RecoveredHasRow
  <2>2. ASSUME NEW r \in Runners, Recovered(r), p = job[r].tx
        PROVE  Succeeded(p)'
    BY <2>2, SuccessKept DEF RecoveredHasRow, Recovered, At
  <2>. QED
    BY <1>0, <1>1, <2>1, <2>2, StatusWritten
<1>. QED
  BY <1>1, RecoveredStep DEF RecoveredHasRow

\* Late events and new recoveries overwrite statuses, yet with one runner no
\* payment that was counted as recovered is ever counted out again.
THEOREM CountStays ==
  ASSUME OneRunner
  PROVE  Spec => CountedForGood
<1>1. Init => RecoveredHasRow
  BY DEF Init, RecoveredHasRow, Procs
<1>2. LedgerInv /\ RecoveredHasRow /\ [Next]_vars => RecoveredHasRow'
  BY RecoveredHasRowStep
<1>3. LedgerInv /\ RecoveredHasRow /\ [Next]_vars
      => CountedRecovered \subseteq CountedRecovered'
  <2>. SUFFICES ASSUME LedgerInv, RecoveredHasRow, [Next]_vars,
                       NEW p \in CountedRecovered
                PROVE  p \in CountedRecovered'
    OBVIOUS
  <2>1. p \in Payments /\ status[p] # "absent" /\ Succeeded(p)
    BY DEF CountedRecovered, IsTransactionRecovered, RecoveredHasRow, Succeeded
  <2>2. Succeeded(p)'
    BY <2>1, SuccessKept
  <2>3. status'[p] # "absent"
    BY <2>1, StatusWritten DEF LedgerInv, LifecycleInv
  <2>. QED
    BY <2>1, <2>2, <2>3 DEF CountedRecovered, IsTransactionRecovered, Succeeded
<1>. QED
  BY <1>1, <1>2, <1>3, LedgerInvariant, PTL DEF Spec, CountedForGood

-----------------------------------------------------------------------------
(* The suggestions rest on the number of rows, which never falls.          *)

\* Whatever happens to its status, a payment that was past retrying stays so.
THEOREM AdviceKept == Spec => AdviceStands
<1>1. TypeOK /\ TypeOK' /\ [Next]_vars =>
        \A p \in Payments :
          status[p] # "absent" /\ Suggestions(p) = {"suggest_alternate_method"}
            => Suggestions(p)' = {"suggest_alternate_method"}
  <2>. SUFFICES ASSUME TypeOK, TypeOK', [Next]_vars, NEW p \in Payments,
                       Suggestions(p) = {"suggest_alternate_method"}
                PROVE  Suggestions(p)' = {"suggest_alternate_method"}
    OBVIOUS
  <2>1. ~ CanRetry(p) /\ status[p] # "RECOVERED"
    BY DEF Suggestions
  <2>2. Len(attempts[p]) >= 2
    <3>1. Len(attempts[p]) \in Nat
      BY DEF TypeOK
    <3>. QED
      BY <2>1, <3>1 DEF CanRetry
  <2>3. Len(attempts'[p]) >= 2
    <3>1. Len(attempts'[p]) \in Nat /\ Len(attempts[p]) \in Nat
      BY DEF TypeOK
    <3>. QED
      BY <2>2, <3>1, Monotone
  <2>4. status'[p] # "RECOVERED"
    BY LifecycleAssumption DEF TypeOK, Statuses
  <2>5. ~ CanRetry(p)'
    BY <2>3 DEF CanRetry
  <2>. QED
    BY <2>4, <2>5 DEF Suggestions
<1>. QED
  BY <1>1, TypeCorrect, PTL DEF Spec, AdviceStands
=============================================================================
