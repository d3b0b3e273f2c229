---------------------------- MODULE RunnerProofs ----------------------------
(***************************************************************************)
(* What holds of the runners of RetryLifecycle: the rows they work on      *)
(* exist, and, as long as nothing crashes, no failed attempt is forgotten. *)
(* Every handler and every batch comes to an end.                          *)
(***************************************************************************)
EXTENDS RetryLifecycleProofs, FiniteSetTheorems

HasRow(p, i) == p \in Payments /\ i \in DOMAIN attempts[p]

Busy(r) == pc[r] \notin {"idle", "batch"}

\* Whatever a runner polled, or is working on, is a row.
RowsExist ==
  /\ \A e \in due : HasRow(e[1], e[2])
  /\ \A r \in Runners : \A e \in batch[r] : HasRow(e[1], e[2])
  /\ \A r \in Runners : Busy(r) =>
       /\ job[r].kind = "retry"
       /\ HasRow(job[r].tx, job[r].row)

LEMMA RowsKept ==
  ASSUME TypeOK, [Next]_vars, NEW p, NEW i, HasRow(p, i)
  PROVE  HasRow(p, i)'
<1>1. p \in Payments /\ i \in DOMAIN attempts[p]
  BY DEF HasRow
<1>2. /\ attempts[p] \in Seq(AttemptRow)
      /\ attempts'[p] \in Seq(AttemptRow)
  BY <1>1, TypeStep DEF TypeOK
<1>3. /\ Len(attempts[p]) \in Nat /\ DOMAIN attempts[p] = 1 .. Len(attempts[p])
      /\ Len(attempts'[p]) \in Nat /\ DOMAIN attempts'[p] = 1 .. Len(attempts'[p])
  BY <1>2
<1>4. Len(attempts'[p]) >= Len(attempts[p])
  BY <1>1, Monotone
<1>. QED
  BY <1>1, <1>3, <1>4 DEF HasRow

\* The rows that become due, and the rows a runner takes up, exist already.
LEMMA DueStep ==
  ASSUME TypeOK, [Next]_vars, NEW e \in due'
  PROVE  e \in due \/ HasRow(e[1], e[2])
<1>1. ASSUME NEW x \in Procs, SharedStep(x)
      PROVE  UNCHANGED due
  BY <1>1 DEF SharedStep, CountAttempts, SaveRetryAttempt, RetryScheduled,
              SaveNotification, CustomerNotified, worldVars
<1>2. CASE UNCHANGED due
  BY <1>2
<1>3. ASSUME NEW p \in Payments, World(p)
      PROVE  e \in due \/ HasRow(e[1], e[2])
  <2>1. ASSUME NEW i \in DOMAIN attempts[p], BecomeDue(p, i)
        PROVE  e \in due \/ HasRow(e[1], e[2])
    <3>1. e \in due \/ e = <<p, i>>
      BY <2>1 DEF BecomeDue
    <3>2. HasRow(p, i)
      BY DEF HasRow
    <3>. QED
      BY <3>1, <3>2
  <2>2. CASE Authorize(p) \/ CaptureElsewhere(p)
    BY <2>2 DEF Authorize, CaptureElsewhere
  <2>. QED
    BY <1>3, <2>1, <2>2 DEF World
<1>4. CASE \E w \in Web : Request(w) \/ WebStep(w)
  BY <1>1, <1>2, <1>4 DEF Procs, Request, SaveTransaction, TriggerRetry, WebStep,
     InsertTransaction, ReplyWebhook, Decide, SuggestAlternate,
     AlternateSuggested, PipelineError, worldVars
<1>5. CASE \E r \in Runners : RunnerStep(r)
  BY <1>1, <1>2, <1>5 DEF Procs, RunnerStep, PollPending, EndBatch, TakeAttempt,
     FetchPayment, NoCredentials, CapturePayment, MarkSuccess,
     Recovered, MarkFailed, ConfirmNotified, worldVars
<1>6. CASE \E x \in Procs : Crash(x)
  BY <1>2, <1>6 DEF Crash, worldVars
<1>. QED
  BY <1>2, <1>3, <1>4, <1>5, <1>6 DEF Next, vars

LEMMA BatchStep ==
  ASSUME TypeOK, [Next]_vars, NEW r \in Runners, NEW e \in batch'[r]
  PROVE  e \in batch[r] \/ e \in due
<1>. USE DEF TypeOK
<1>1. ASSUME NEW x \in Procs, SharedStep(x)
      PROVE  UNCHANGED batch
  BY <1>1 DEF SharedStep, CountAttempts, SaveRetryAttempt, RetryScheduled,
              SaveNotification, CustomerNotified
<1>2. CASE UNCHANGED batch
  BY <1>2
<1>3. ASSUME NEW p \in Payments, World(p)
      PROVE  UNCHANGED batch
  BY <1>3 DEF World, BecomeDue, Authorize, CaptureElsewhere
<1>4. ASSUME NEW w \in Web, Request(w) \/ WebStep(w)
      PROVE  UNCHANGED batch
  BY <1>1, <1>4 DEF Procs, Request, SaveTransaction, TriggerRetry, WebStep,
     InsertTransaction, ReplyWebhook, Decide, SuggestAlternate,
     AlternateSuggested, PipelineError
<1>5. ASSUME NEW s \in Runners, RunnerStep(s)
      PROVE  e \in batch[r] \/ e \in due
  <2>. s \in Procs /\ r \in Procs
    BY DEF Procs
  <2>1. CASE PollPending(s)
    BY <2>1 DEF PollPending, DueAttempts
  <2>2. ASSUME NEW d \in batch[s], TakeAttempt(s, d[1], d[2])
        PROVE  e \in batch[r]
    BY <2>2 DEF TakeAttempt
  <2>3. CASE SharedStep(s)
    BY <1>1, <1>2, <2>3
  <2>. QED
    BY <1>2, <1>5, <2>1, <2>2, <2>3 DEF RunnerStep, EndBatch,
       FetchPayment, NoCredentials, CapturePayment, MarkSuccess,
       Recovered, MarkFailed, ConfirmNotified
<1>6. ASSUME NEW x \in Procs, Crash(x)
      PROVE  e \in batch[r]
  <2>. r \in Procs
    BY DEF Procs
  <2>. QED
    BY <1>6 DEF Crash
<1>. QED
  BY <1>2, <1>3, <1>4, <1>5, <1>6 DEF Next, vars

\* A runner stops, takes up a row of its batch, or goes on with its row.
LEMMA JobStep ==
  ASSUME TypeOK, NEW r \in Runners, RunnerStep(r),
         Busy(r) => job[r].kind = "retry"
  PROVE  \/ pc'[r] \in {"idle", "batch"}
         \/ \E e \in batch[r] :
              /\ job'[r].kind = "retry" /\ job'[r].tx = e[1] /\ job'[r].row = e[2]
              /\ Pending(e[1], e[2]) /\ pc'[r] = "fetch" /\ UNCHANGED attempts
         \/ /\ Busy(r) /\ job'[r].kind = "retry"
            /\ job'[r].tx = job[r].tx /\ job'[r].row = job[r].row
<1>1. /\ r \in Procs /\ job[r] \in Job /\ NoJob \in Job
      /\ pc \in [Procs -> WebLabels \cup SharedLabels \cup RunnerLabels]
      /\ job \in [Procs -> Job]
  BY NoJobType DEF Procs, TypeOK
<1>. DEFINE Goes == /\ Busy(r) /\ job'[r].kind = "retry"
                    /\ job'[r].tx = job[r].tx /\ job'[r].row = job[r].row
<1>2. ASSUME Return(r)
      PROVE  pc'[r] \in {"idle", "batch"}
  BY <1>1, <1>2 DEF Return, Goto
<1>3. ASSUME Busy(r), UNCHANGED job
      PROVE  Goes
  BY <1>3
<1>4. ASSUME Busy(r), NEW why \in Reasons, job' = [job EXCEPT ![r].why = why]
      PROVE  Goes
  <2>1. job'[r] = [job[r] EXCEPT !.why = why]
    BY <1>1, <1>4
  <2>. QED
    BY <1>1, <1>4, <2>1 DEF Job
<1>5. ASSUME Busy(r), NEW n \in Nat, job' = [job EXCEPT ![r].num = n]
      PROVE  Goes
  <2>1. job'[r] = [job[r] EXCEPT !.num = n]
    BY <1>1, <1>5
  <2>. QED
    BY <1>1, <1>5, <2>1 DEF Job
<1>6. ASSUME Busy(r), Raise(r)
      PROVE  pc'[r] \in {"idle", "batch"}
  BY <1>2, <1>6 DEF Raise
<1>7. CASE PollPending(r) \/ EndBatch(r)
  BY <1>1, <1>7 DEF PollPending, EndBatch, Goto
<1>8. ASSUME NEW e \in batch[r], TakeAttempt(r, e[1], e[2])
      PROVE  \/ pc'[r] \in {"idle", "batch"}
             \/ /\ job'[r].kind = "retry" /\ job'[r].tx = e[1] /\ job'[r].row = e[2]
                /\ Pending(e[1], e[2]) /\ pc'[r] = "fetch" /\ UNCHANGED attempts
  <2>1. e[1] \in Payments /\ e[2] \in Nat
    BY <1>1, <1>8 DEF TypeOK
  <2>2. CASE ~ Pending(e[1], e[2])
    BY <1>8, <2>2 DEF TakeAttempt, At
  <2>3. CASE Pending(e[1], e[2])
    <3>1. /\ job'[r] = [NoJob EXCEPT !.kind = "retry", !.tx = e[1], !.row = e[2]]
          /\ pc'[r] = "fetch" /\ UNCHANGED attempts
      BY <1>1, <1>8, <2>3 DEF TakeAttempt, Goto, dbVars
    <3>. QED
      BY <1>1, <2>1, <2>3, <3>1 DEF Job
  <2>. QED
    BY <2>2, <2>3
<1>9. CASE FetchPayment(r) \/ CapturePayment(r)
  <2>1. Busy(r)
    BY <1>9 DEF FetchPayment, CapturePayment, At, Busy
  <2>. QED
    BY <1>3, <1>4, <1>9, <2>1 DEF FetchPayment, CapturePayment, Fail, Reasons
<1>10. CASE NoCredentials(r) \/ Recovered(r) \/ ConfirmNotified(r)
  BY <1>2, <1>10 DEF NoCredentials, Recovered, ConfirmNotified
<1>11. CASE MarkSuccess(r) \/ MarkFailed(r)
  <2>1. Busy(r) /\ UNCHANGED job
    BY <1>11 DEF MarkSuccess, MarkFailed, At, Busy
  <2>. QED
    BY <1>3, <2>1
<1>12. CASE CountAttempts(r)
  <2>1. Busy(r)
    BY <1>12 DEF CountAttempts, At, Busy
  <2>2. job[r].tx \in Payments
    BY <1>1 DEF Job
  <2>3. Len(attempts[job[r].tx]) + 1 \in Nat
    BY <2>2 DEF TypeOK
  <2>4. \/ job' = [job EXCEPT ![r].why = "exhausted"]
        \/ job' = [job EXCEPT ![r].num = Len(attempts[job[r].tx]) + 1]
    BY <1>12 DEF CountAttempts
  <2>. QED
    BY <1>4, <1>5, <2>1, <2>3, <2>4 DEF Reasons
<1>13. CASE SaveRetryAttempt(r) \/ SaveNotification(r) \/ CustomerNotified(r)
  <2>1. Busy(r)
    BY <1>13 DEF SaveRetryAttempt, SaveNotification, CustomerNotified, At, Busy
  <2>2. UNCHANGED job \/ Return(r) \/ Raise(r)
    BY <1>13 DEF SaveRetryAttempt, SaveNotification, CustomerNotified
  <2>. QED
    BY <1>2, <1>3, <1>6, <2>1, <2>2
<1>14. CASE RetryScheduled(r)
  BY <1>2, <1>14 DEF RetryScheduled
<1>. QED
  BY <1>7, <1>8, <1>9, <1>10, <1>11, <1>12, <1>13, <1>14 DEF RunnerStep, SharedStep

LEMMA RowsExistStep ==
  ASSUME TypeOK, RowsExist, [Next]_vars
  PROVE  RowsExist'
<1>1. ASSUME NEW e \in due'
      PROVE  HasRow(e[1], e[2])'
  BY <1>1, DueStep, RowsKept DEF RowsExist
<1>2. ASSUME NEW r \in Runners, NEW e \in batch'[r]
      PROVE  HasRow(e[1], e[2])'
  BY <1>2, BatchStep, RowsKept DEF RowsExist
<1>3. ASSUME NEW r \in Runners, Busy(r)'
      PROVE  /\ job'[r].kind = "retry"
             /\ HasRow(job[r].tx, job[r].row)'
  <2>. r \in Procs /\ r \notin Web
    BY LifecycleAssumption DEF Procs
  \* The row the runner works on next is one it knew of.
  <2>1. ASSUME NEW p, NEW i, HasRow(p, i), job'[r].tx = p, job'[r].row = i
        PROVE  HasRow(job[r].tx, job[r].row)'
    <3>1. HasRow(p, i)'
      BY <2>1, RowsKept
    <3>. QED
      BY <2>1, <3>1 DEF HasRow
  <2>2. CASE ~ Own(r)
    <3>1. pc'[r] = pc[r] /\ job'[r] = job[r]
      BY <2>2, Locality
    <3>2. job[r].kind = "retry" /\ HasRow(job[r].tx, job[r].row)
      BY <1>3, <3>1 DEF Busy, RowsExist
    <3>. QED
      BY <2>1, <3>1, <3>2
  <2>3. CASE Crash(r)
    BY <1>3, <2>3 DEF Crash, Goto, Busy, TypeOK
  <2>4. CASE RunnerStep(r)
    <3>1. Busy(r) => job[r].kind = "retry" /\ HasRow(job[r].tx, job[r].row)
      BY DEF RowsExist
    <3>2. pc'[r] \notin {"idle", "batch"}
      BY <1>3 DEF Busy
    <3>3. CASE /\ Busy(r) /\ job'[r].kind = "retry"
               /\ job'[r].tx = job[r].tx /\ job'[r].row = job[r].row
      BY <2>1, <3>1, <3>3
    <3>4. ASSUME NEW e \in batch[r], job'[r].kind = "retry",
                 job'[r].tx = e[1], job'[r].row = e[2]
          PROVE  /\ job'[r].kind = "retry"
                 /\ HasRow(job[r].tx, job[r].row)'
      <4>1. HasRow(e[1], e[2])
        BY <3>4 DEF RowsExist
      <4>. QED
        BY <2>1, <3>4, <4>1
    <3>. QED
      BY <2>4, <3>1, <3>2, <3>3, <3>4, JobStep
  <2>. QED
    BY <2>2, <2>3, <2>4 DEF Own
<1>. QED
  BY <1>1, <1>2, <1>3 DEF RowsExist

\* Whatever a runner polled, or is working on, is a row.
THEOREM RowsThere == Spec => []RowsExist
<1>1. Init => RowsExist
  BY DEF Init, RowsExist, Busy, Procs
<1>2. TypeOK /\ RowsExist /\ [Next]_vars => RowsExist'
  BY RowsExistStep
<1>. QED
  BY <1>1, <1>2, TypeCorrect, PTL DEF Spec

-----------------------------------------------------------------------------
(* A failed attempt is not forgotten.                                      *)

\* The number a runner is about to insert comes after the row it settled.
NumberAhead == \A r \in Runners : pc[r] = "insert" => job[r].row < job[r].num

FollowInv == LifecycleInv /\ RowsExist /\ NumberAhead

LEMMA NumberAheadStep ==
  ASSUME TypeOK, RowsExist, NumberAhead, [Next]_vars
  PROVE  NumberAhead'
<1>. SUFFICES ASSUME NEW r \in Runners, pc'[r] = "insert"
              PROVE  job'[r].row < job'[r].num
  BY DEF NumberAhead
<1>1. r \in Procs /\ r \notin Web /\ job[r] \in Job
  BY LifecycleAssumption DEF Procs, TypeOK
<1>2. CASE ~ Own(r)
  <2>1. pc'[r] = pc[r] /\ job'[r] = job[r]
    BY <1>1, <1>2, Locality
  <2>. QED
    BY <2>1 DEF NumberAhead
<1>3. CASE Crash(r)
  BY <1>1, <1>3 DEF Crash, Goto, TypeOK
<1>4. CASE CountAttempts(r)
  <2>. DEFINE p == job[r].tx
  <2>1. HasRow(p, job[r].row)
    BY <1>4 DEF CountAttempts, At, RowsExist, Busy
  <2>2. attempts[p] \in Seq(AttemptRow) /\ job[r].row \in 1 .. Len(attempts[p])
    BY <2>1 DEF HasRow, TypeOK
  <2>3. job' = [job EXCEPT ![r].num = Len(attempts[p]) + 1]
    BY <1>1, <1>4 DEF CountAttempts, Goto, TypeOK
  <2>4. job'[r] = [job[r] EXCEPT !.num = Len(attempts[p]) + 1]
    BY <1>1, <2>3 DEF TypeOK
  <2>5. job'[r].row = job[r].row /\ job'[r].num = Len(attempts[p]) + 1
    BY <1>1, <2>4 DEF Job
  <2>. QED
    BY <2>2, <2>5
<1>5. CASE RunnerStep(r) /\ ~ CountAttempts(r)
  <2>. USE DEF TypeOK
  <2>1. CASE PollPending(r) \/ EndBatch(r) \/ NoCredentials(r) \/ Recovered(r)
             \/ ConfirmNotified(r) \/ RetryScheduled(r)
    BY <1>1, <2>1 DEF PollPending, EndBatch, NoCredentials, Recovered,
       ConfirmNotified, RetryScheduled, Return, Goto
  <2>2. ASSUME NEW e \in batch[r], TakeAttempt(r, e[1], e[2])
        PROVE  FALSE
    BY <1>1, <2>2 DEF TakeAttempt, Goto, At
  <2>3. CASE FetchPayment(r) \/ CapturePayment(r)
    BY <1>1, <2>3 DEF FetchPayment, CapturePayment, Fail, Goto
  <2>4. CASE MarkSuccess(r) \/ MarkFailed(r) \/ SaveNotification(r)
    BY <1>1, <2>4 DEF MarkSuccess, MarkFailed, SaveNotification, AfterFailure, Goto
  <2>5. CASE SaveRetryAttempt(r)
    <3>1. pc[r] = "insert"
      BY <2>5 DEF SaveRetryAttempt, At
    <3>2. Goto(r, "scheduled") \/ Return(r) \/ Goto(r, "pipelineError")
      BY <2>5 DEF SaveRetryAttempt, Raise
    <3>. QED
      BY <1>1, <3>2 DEF Return, Goto
  <2>6. CASE CustomerNotified(r)
    <3>1. Goto(r, "confirm") \/ Return(r) \/ Goto(r, "pipelineError")
      BY <2>6 DEF CustomerNotified, Raise
    <3>. QED
      BY <1>1, <3>1 DEF Return, Goto
  <2>. QED
    BY <1>5, <2>1, <2>2, <2>3, <2>4, <2>5, <2>6 DEF RunnerStep, SharedStep
<1>. QED
  BY <1>1, <1>2, <1>3, <1>4, <1>5 DEF Own

\* A runner that is following up a failure goes on, unless it crashes, until
\* there is a later row or the notification is on file.
LEMMA FollowKept ==
  ASSUME FollowInv, [Next]_vars, NEW r \in Runners, ~ Crash(r),
         NEW p \in Payments, NEW i \in DOMAIN attempts[p], FollowingUp(r, p, i)
  PROVE  \/ i < Len(attempts'[p])
         \/ "customer_notified" \in actions'[p]
         \/ FollowingUp(r, p, i)'
<1>. DEFINE n == Len(attempts[p])
<1>0. TypeOK /\ r \in Procs /\ r \notin Web
  BY LifecycleAssumption DEF FollowInv, LifecycleInv, Procs
<1>1. /\ attempts[p] \in Seq(AttemptRow) /\ n \in Nat /\ i \in 1 .. n
      /\ attempts'[p] \in Seq(AttemptRow) /\ Len(attempts'[p]) \in Nat
      /\ job[r] \in Job
  BY <1>0, TypeStep DEF TypeOK
<1>2. CASE ~ Own(r)
  <2>1. pc'[r] = pc[r] /\ job'[r] = job[r]
    BY <1>0, <1>2, Locality
  <2>. QED
    BY <2>1 DEF FollowingUp
<1>4. CASE CountAttempts(r)
  <2>1. pc'[r] \in {"insert", "notify"}
    BY <1>0, <1>4 DEF CountAttempts, Goto, TypeOK
  <2>2. \/ job' = [job EXCEPT ![r].why = "exhausted"]
        \/ job' = [job EXCEPT ![r].num = Len(attempts[job[r].tx]) + 1]
    BY <1>4 DEF CountAttempts
  <2>3. \/ job'[r] = [job[r] EXCEPT !.why = "exhausted"]
        \/ job'[r] = [job[r] EXCEPT !.num = Len(attempts[job[r].tx]) + 1]
    BY <1>0, <2>2 DEF TypeOK
  <2>4. /\ job'[r].kind = job[r].kind /\ job'[r].tx = job[r].tx
        /\ job'[r].row = job[r].row
    BY <1>1, <2>3 DEF Job
  <2>. QED
    BY <2>1, <2>4 DEF FollowingUp
<1>5. CASE SaveRetryAttempt(r)
  <2>1. CASE ~ NumberTaken(job[r].tx, job[r].num)
    <3>1. job[r].tx = p
      BY DEF FollowingUp
    <3>2. Len(attempts'[p]) = n + 1
      BY <1>0, <1>5, <2>1, <3>1, InsertEffect
    <3>. QED
      BY <1>1, <3>2
  <2>2. CASE NumberTaken(job[r].tx, job[r].num)
    <3>1. PICK j \in 1 .. n : job[r].num = attempts[p][j].num
      BY <1>1, <2>2 DEF NumberTaken, Numbers, FollowingUp
    <3>2. job[r].num = j
      BY <1>1, <3>1 DEF FollowInv, LifecycleInv, AttemptsContiguous
    <3>3. i < job[r].num
      BY <1>5 DEF FollowInv, NumberAhead, SaveRetryAttempt, At, FollowingUp
    <3>4. Len(attempts'[p]) >= n
      BY <1>0, Monotone
    <3>. QED
      BY <1>1, <3>2, <3>3, <3>4
  <2>. QED
    BY <2>1, <2>2
<1>6. CASE SaveNotification(r)
  BY <1>0, <1>6 DEF SaveNotification, TypeOK, FollowingUp
<1>7. RunnerStep(r) => CountAttempts(r) \/ SaveRetryAttempt(r) \/ SaveNotification(r)
  BY DEF FollowingUp, RunnerStep, SharedStep, PollPending, EndBatch, TakeAttempt,
     FetchPayment, NoCredentials, CapturePayment, MarkSuccess, Recovered,
     MarkFailed, ConfirmNotified, RetryScheduled, CustomerNotified, At
<1>. QED
  BY <1>0, <1>2, <1>4, <1>5, <1>6, <1>7 DEF Own

\* A row is marked FAILED only by a runner that goes on to follow it up.
LEMMA NewFailure ==
  ASSUME TypeOK, RowsExist, [Next]_vars, NEW p \in Payments,
         NEW i \in DOMAIN attempts'[p], attempts'[p][i].result = "FAILED"
  PROVE  \/ i \in DOMAIN attempts[p] /\ attempts[p][i].result = "FAILED"
         \/ \E r \in Runners : FollowingUp(r, p, i)'
<1>. DEFINE n == Len(attempts[p])
<1>1. /\ attempts[p] \in Seq(AttemptRow) /\ n \in Nat
      /\ DOMAIN attempts[p] = 1 .. n
  BY DEF TypeOK
<1>2. CASE UNCHANGED attempts
  BY <1>2
<1>3. ASSUME NEW x \in Procs, SaveRetryAttempt(x),
             ~ NumberTaken(job[x].tx, job[x].num)
      PROVE  i \in DOMAIN attempts[p] /\ attempts[p][i].result = "FAILED"
  <2>1. CASE p # job[x].tx
    <3>1. attempts'[p] = attempts[p]
      BY <1>3, <2>1, InsertEffect
    <3>. QED
      BY <3>1
  <2>2. CASE p = job[x].tx
    <3>1. /\ DOMAIN attempts'[p] = 1 .. n + 1
          /\ \A j \in 1 .. n : attempts'[p][j] = attempts[p][j]
          /\ attempts'[p][n + 1] = [num |-> job[x].num, result |-> "SCHEDULED"]
      BY <1>3, <2>2, InsertEffect
    <3>2. i \in 1 .. n \/ i = n + 1
      BY <1>1, <3>1
    <3>3. i # n + 1
      BY <3>1
    <3>. QED
      BY <1>1, <3>1, <3>2, <3>3
  <2>. QED
    BY <2>1, <2>2
<1>4. ASSUME NEW r \in Runners, MarkSuccess(r) \/ MarkFailed(r)
      PROVE  \/ i \in DOMAIN attempts[p] /\ attempts[p][i].result = "FAILED"
             \/ FollowingUp(r, p, i)'
  <2>1. i \in DOMAIN attempts[p]
    BY <1>4, MarkEffect
  <2>2. CASE p # job[r].tx \/ i # job[r].row
    <3>1. attempts'[p][i] = attempts[p][i]
      BY <1>4, <2>1, <2>2, MarkEffect
    <3>. QED
      BY <2>1, <3>1
  <2>3. CASE p = job[r].tx /\ i = job[r].row
    <3>1. attempts'[p][i].result = IF MarkSuccess(r) THEN "SUCCESS" ELSE "FAILED"
      BY <1>4, <2>1, <2>3, MarkEffect
    <3>2. MarkFailed(r)
      BY <1>4, <3>1
    <3>3. job[r].kind = "retry"
      BY <3>2 DEF RowsExist, Busy, MarkFailed, At
    <3>4. job' = job /\ pc'[r] \in {"count", "notify"}
      BY <3>2 DEF MarkFailed, Goto, AfterFailure, TypeOK, Procs
    <3>. QED
      BY <2>3, <3>3, <3>4 DEF FollowingUp
  <2>. QED
    BY <2>2, <2>3
<1>. QED
  BY <1>2, <1>3, <1>4, RowStep

\* A failure that is in hand stays so, unless the runner that sees to it dies.
LEMMA InHandStep ==
  ASSUME FollowInv, [Next]_vars, NEW p \in Payments,
         NEW i \in DOMAIN attempts[p], InHand(p, i)
  PROVE  \/ InHand(p, i)'
         \/ \E r \in Runners : Crash(r) /\ FollowingUp(r, p, i)
<1>0. TypeOK /\ TypeOK'
  BY TypeStep DEF FollowInv, LifecycleInv
<1>1. CASE i < Len(attempts[p])
  <2>1. attempts[p] \in Seq(AttemptRow) /\ attempts'[p] \in Seq(AttemptRow)
    BY <1>0 DEF TypeOK
  <2>2. Len(attempts'[p]) >= Len(attempts[p])
    BY <1>0, Monotone
  <2>. QED
    BY <1>1, <2>1, <2>2 DEF InHand
<1>2. CASE "customer_notified" \in actions[p]
  BY <1>0, <1>2, Monotone DEF InHand
<1>3. ASSUME NEW r \in Runners, FollowingUp(r, p, i), ~ Crash(r)
      PROVE  InHand(p, i)'
  <2>1. \/ i < Len(attempts'[p])
        \/ "customer_notified" \in actions'[p]
        \/ FollowingUp(r, p, i)'
    BY <1>3, FollowKept
  <2>. QED
    BY <2>1 DEF InHand, FollowingUp
<1>. QED
  BY <1>1, <1>2, <1>3 DEF InHand

LEMMA FollowInvariant == Spec => []FollowInv
<1>1. Init => NumberAhead
  BY DEF Init, NumberAhead, Procs
<1>2. LifecycleInv /\ RowsExist /\ NumberAhead /\ [Next]_vars => NumberAhead'
  BY NumberAheadStep DEF LifecycleInv
<1>. QED
  BY <1>1, <1>2, Invariant, RowsThere, PTL DEF Spec, FollowInv

\* As long as nothing crashes no failed attempt is forgotten, for any number
\* of payments, web processes and runners: even two runners that execute the
\* same row, or that lose the race for the next number, leave a later row, a
\* notification, or a runner about to see to it.
THEOREM FollowedUp ==
  ASSUME "crash" \notin Faults
  PROVE  Spec => []FailureFollowedUp
<1>1. Init => FailureFollowedUp
  BY DEF Init, FailureFollowedUp
<1>2. FollowInv /\ FailureFollowedUp /\ [Next]_vars => FailureFollowedUp'
  <2>. SUFFICES ASSUME FollowInv, FailureFollowedUp, [Next]_vars,
                       NEW p \in Payments, NEW i \in DOMAIN attempts'[p],
                       attempts'[p][i].result = "FAILED"
                PROVE  InHand(p, i)'
    BY DEF FailureFollowedUp, InHand, FollowingUp
  <2>1. CASE i \in DOMAIN attempts[p] /\ attempts[p][i].result = "FAILED"
    <3>1. InHand(p, i)
      BY <2>1 DEF FailureFollowedUp, InHand
    <3>. QED
      BY <2>1, <3>1, InHandStep DEF Crash
  <2>2. ASSUME NEW r \in Runners, FollowingUp(r, p, i)'
        PROVE  InHand(p, i)'
    BY <2>2 DEF InHand, FollowingUp
  <2>. QED
    BY <2>1, <2>2, NewFailure DEF FollowInv, LifecycleInv
<1>. QED
  BY <1>1, <1>2, FollowInvariant, PTL DEF Spec

\* With crashes too, the window of execute_retry between the commit of FAILED
\* and what follows it is the only place where a failure can be forgotten: no
\* race, refused insert or missing credential forgets one.
THEOREM Forgotten == Spec => OnlyCrashForgets
<1>1. FollowInv /\ [Next]_vars
      => \A p \in Payments : \A i \in DOMAIN attempts'[p] :
           attempts'[p][i].result = "FAILED" /\ ~ InHand(p, i)' =>
             /\ i \in DOMAIN attempts[p] /\ attempts[p][i].result = "FAILED"
             /\ InHand(p, i) =>
                  \E r \in Runners : Crash(r) /\ FollowingUp(r, p, i)
  <2>. SUFFICES ASSUME FollowInv, [Next]_vars, NEW p \in Payments,
                       NEW i \in DOMAIN attempts'[p],
                       attempts'[p][i].result = "FAILED", ~ InHand(p, i)'
                PROVE  /\ i \in DOMAIN attempts[p]
                       /\ attempts[p][i].result = "FAILED"
                       /\ InHand(p, i) =>
                            \E r \in Runners : Crash(r) /\ FollowingUp(r, p, i)
    OBVIOUS
  <2>1. \A r \in Runners : ~ FollowingUp(r, p, i)'
    BY DEF InHand, FollowingUp
  <2>2. i \in DOMAIN attempts[p] /\ attempts[p][i].result = "FAILED"
    BY <2>1, NewFailure DEF FollowInv, LifecycleInv
  <2>. QED
    BY <2>2, InHandStep
<1>. QED
  BY <1>1, FollowInvariant, PTL DEF Spec, OnlyCrashForgets

-----------------------------------------------------------------------------
(* What many runners leave of the audit trail.                             *)

\* No row is removed, renumbered or put back to SCHEDULED.
NeverReopened ==
  [][\A p \in Payments : \A i \in DOMAIN attempts[p] :
       /\ i \in DOMAIN attempts'[p]
       /\ attempts'[p][i].num = attempts[p][i].num
       /\ attempts[p][i].result # "SCHEDULED" =>
            attempts'[p][i].result # "SCHEDULED"]_vars

\* Where several runners execute a row its result may change, as AuditTrail
\* shows; that a row stays on file under its number, and that an attempt once
\* executed is not polled again, needs no assumption about them.
THEOREM RowsStay == Spec => NeverReopened
<1>1. TypeOK /\ [Next]_vars
      => \A p \in Payments : \A i \in DOMAIN attempts[p] :
           /\ i \in DOMAIN attempts'[p]
           /\ attempts'[p][i].num = attempts[p][i].num
           /\ attempts[p][i].result # "SCHEDULED" =>
                attempts'[p][i].result # "SCHEDULED"
  <2>. SUFFICES ASSUME TypeOK, [Next]_vars, NEW p \in Payments,
                       NEW i \in DOMAIN attempts[p]
                PROVE  /\ i \in DOMAIN attempts'[p]
                       /\ attempts'[p][i].num = attempts[p][i].num
                       /\ attempts[p][i].result # "SCHEDULED" =>
                            attempts'[p][i].result # "SCHEDULED"
    OBVIOUS
  <2>0. attempts[p] \in Seq(AttemptRow) /\ DOMAIN attempts[p] = 1 .. Len(attempts[p])
    BY DEF TypeOK
  <2>1. CASE UNCHANGED attempts
    BY <2>1
  <2>2. ASSUME NEW x \in Procs, SaveRetryAttempt(x),
               ~ NumberTaken(job[x].tx, job[x].num)
        PROVE  i \in DOMAIN attempts'[p] /\ attempts'[p][i] = attempts[p][i]
    <3>1. CASE p # job[x].tx
      BY <2>2, <3>1, InsertEffect
    <3>2. CASE p = job[x].tx
      <4>1. /\ DOMAIN attempts'[p] = 1 .. Len(attempts[p]) + 1
            /\ \A j \in 1 .. Len(attempts[p]) : attempts'[p][j] = attempts[p][j]
        BY <2>2, <3>2, InsertEffect
      <4>. QED
        BY <2>0, <4>1
    <3>. QED
      BY <3>1, <3>2
  <2>3. ASSUME NEW r \in Runners, MarkSuccess(r) \/ MarkFailed(r)
        PROVE  /\ i \in DOMAIN attempts'[p]
               /\ attempts'[p][i].num = attempts[p][i].num
               /\ attempts[p][i].result # "SCHEDULED" =>
                    attempts'[p][i].result # "SCHEDULED"
    <3>1. i \in DOMAIN attempts'[p] /\ attempts'[p][i].num = attempts[p][i].num
      BY <2>3, MarkEffect
    <3>2. \/ attempts'[p][i] = attempts[p][i]
          \/ attempts'[p][i].result = IF MarkSuccess(r) THEN "SUCCESS" ELSE "FAILED"
      BY <2>3, MarkEffect
    <3>. QED
      BY <3>1, <3>2
  <2>. QED
    BY <2>1, <2>2, <2>3, RowStep
<1>. QED
  BY <1>1, TypeCorrect, PTL DEF Spec, NeverReopened

-----------------------------------------------------------------------------
(* Handlers end.                                                           *)

\* How many steps a process at l has before it at most, until it is at rest;
\* between two attempts of its batch, "batch", a runner has the end of its
\* batch before it.
StepsLeft(l) ==
  CASE l = "idle" -> 0
    [] l = "batch" -> 1
    [] l \in {"reply", "scheduled", "alternateStatus", "pipelineError",
              "recovered", "confirm"} -> 2
    [] l \in {"insert", "alternate", "notifyStatus", "success"} -> 3
    [] l = "notify" -> 4
    [] l = "count" -> 5
    [] l \in {"decide", "failed"} -> 6
    [] l \in {"insertTx", "capture"} -> 7
    [] l = "fetch" -> 8

Nearer(x) == StepsLeft(pc'[x]) < StepsLeft(pc[x])

\* Process x comes nearer to its end: the batch it works through has become
\* smaller, or it is the same and less is left of the handler.
Lower(x) ==
  \/ batch'[x] \subseteq batch[x] /\ batch'[x] # batch[x]
  \/ batch'[x] = batch[x] /\ Nearer(x)

\* Whatever process x does next, and whatever any process does meanwhile: its
\* own steps bring it nearer to its end, and those of others do not hold it up.
HandlersEnd ==
  [][\A x \in Procs :
       /\ x \in Web /\ WebStep(x) => Lower(x)
       /\ x \in Runners /\ RunnerStep(x) /\ pc[x] # "idle" => Lower(x)
       /\ pc[x] # "idle" => \/ UNCHANGED <<pc[x], job[x], batch[x]>>
                            \/ Lower(x)]_vars

LEMMA ReturnNearer ==
  ASSUME TypeOK, NEW x \in Procs, Return(x), StepsLeft(pc[x]) > 1
  PROVE  StepsLeft(pc'[x]) < StepsLeft(pc[x])
<1>1. pc'[x] \in {"batch", "idle"}
  BY DEF TypeOK, Return, Goto
<1>2. StepsLeft(pc'[x]) \in {0, 1}
  BY <1>1 DEF StepsLeft
<1>3. StepsLeft(pc[x]) \in Nat
  BY DEF TypeOK, StepsLeft, WebLabels, SharedLabels, RunnerLabels
<1>. QED
  BY <1>2, <1>3

LEMMA RaiseNearer ==
  ASSUME TypeOK, NEW x \in Procs, Raise(x), StepsLeft(pc[x]) > 2
  PROVE  StepsLeft(pc'[x]) < StepsLeft(pc[x])
<1>1. StepsLeft(pc[x]) \in Nat
  BY DEF TypeOK, StepsLeft, WebLabels, SharedLabels, RunnerLabels
<1>2. CASE job[x].kind = "pipeline"
  <2>. pc'[x] = "pipelineError"
    BY <1>2 DEF Raise, Goto, TypeOK
  <2>. QED
    BY <1>1 DEF StepsLeft
<1>3. CASE job[x].kind # "pipeline"
  <2>1. Return(x) /\ StepsLeft(pc[x]) > 1
    BY <1>1, <1>3 DEF Raise
  <2>. QED
    BY <2>1, ReturnNearer
<1>. QED
  BY <1>2, <1>3

\* The steps of schedule_retry and of the notification.
LEMMA SharedNearer ==
  ASSUME TypeOK, NEW x \in Procs, SharedStep(x)
  PROVE  batch' = batch /\ Nearer(x)
<1>. USE DEF At, Goto, TypeOK, Nearer
<1>1. CASE CountAttempts(x)
  BY <1>1 DEF CountAttempts, StepsLeft
<1>2. CASE SaveRetryAttempt(x)
  <2>1. pc[x] = "insert" /\ batch' = batch /\ (pc'[x] = "scheduled" \/ Raise(x))
    BY <1>2 DEF SaveRetryAttempt
  <2>2. StepsLeft(pc[x]) = 3
    BY <2>1 DEF StepsLeft
  <2>3. CASE pc'[x] = "scheduled"
    BY <2>1, <2>3 DEF StepsLeft
  <2>4. CASE Raise(x)
    BY <2>1, <2>2, <2>4, RaiseNearer
  <2>. QED
    BY <2>1, <2>3, <2>4
<1>3. CASE RetryScheduled(x)
  <2>1. pc[x] = "scheduled" /\ batch' = batch /\ Return(x)
    BY <1>3 DEF RetryScheduled
  <2>2. StepsLeft(pc[x]) = 2
    BY <2>1 DEF StepsLeft
  <2>. QED
    BY <2>1, <2>2, ReturnNearer
<1>4. CASE SaveNotification(x)
  BY <1>4 DEF SaveNotification, StepsLeft
<1>5. CASE CustomerNotified(x)
  <2>1. /\ pc[x] = "notifyStatus" /\ batch' = batch
        /\ Return(x) \/ Raise(x) \/ pc'[x] = "confirm"
    BY <1>5 DEF CustomerNotified
  <2>2. StepsLeft(pc[x]) = 3
    BY <2>1 DEF StepsLeft
  <2>3. CASE pc'[x] = "confirm"
    BY <2>1, <2>3 DEF StepsLeft
  <2>4. CASE Return(x)
    BY <2>1, <2>2, <2>4, ReturnNearer
  <2>5. CASE Raise(x)
    BY <2>1, <2>2, <2>5, RaiseNearer
  <2>. QED
    BY <2>1, <2>3, <2>4, <2>5
<1>. QED
  BY <1>1, <1>2, <1>3, <1>4, <1>5 DEF SharedStep

LEMMA WebNearer ==
  ASSUME TypeOK, NEW w \in Web, WebStep(w)
  PROVE  batch' = batch /\ Nearer(w)
<1>. w \in Procs
  BY DEF Procs
<1>. USE DEF At, Goto, TypeOK, Nearer
<1>1. CASE InsertTransaction(w)
  BY <1>1 DEF InsertTransaction, AfterSave, StepsLeft
<1>2. CASE Decide(w)
  <2>1. /\ pc[w] = "decide" /\ batch' = batch
        /\ \/ pc'[w] \in {"count", "alternate", "notify"}
           \/ Return(w) \/ Raise(w)
    BY <1>2 DEF Decide
  <2>2. StepsLeft(pc[w]) = 6
    BY <2>1 DEF StepsLeft
  <2>3. CASE pc'[w] \in {"count", "alternate", "notify"}
    BY <2>1, <2>3 DEF StepsLeft
  <2>4. CASE Return(w)
    BY <2>1, <2>2, <2>4, ReturnNearer
  <2>5. CASE Raise(w)
    BY <2>1, <2>2, <2>5, RaiseNearer
  <2>. QED
    BY <2>1, <2>3, <2>4, <2>5
<1>3. CASE SuggestAlternate(w)
  BY <1>3 DEF SuggestAlternate, StepsLeft
<1>4. CASE ReplyWebhook(w) \/ AlternateSuggested(w) \/ PipelineError(w)
  <2>1. /\ pc[w] \in {"reply", "alternateStatus", "pipelineError"}
        /\ batch' = batch /\ Return(w)
    BY <1>4 DEF ReplyWebhook, AlternateSuggested, PipelineError
  <2>2. StepsLeft(pc[w]) = 2
    BY <2>1 DEF StepsLeft
  <2>. QED
    BY <2>1, <2>2, ReturnNearer
<1>5. CASE SharedStep(w)
  BY <1>5, SharedNearer
<1>. QED
  BY <1>1, <1>2, <1>3, <1>4, <1>5 DEF WebStep

\* An attempt that is taken from the batch, and skipped or executed, does not
\* come back into it.
LEMMA RunnerLower ==
  ASSUME TypeOK, NEW r \in Runners, RunnerStep(r), pc[r] # "idle"
  PROVE  Lower(r) /\ \A x \in Procs \ {r} : batch'[x] = batch[x]
<1>. r \in Procs
  BY DEF Procs
<1>. USE DEF At, Goto, TypeOK
<1>1. CASE EndBatch(r)
  BY <1>1 DEF EndBatch, Lower, Nearer, StepsLeft
<1>2. ASSUME NEW e \in batch[r], TakeAttempt(r, e[1], e[2])
      PROVE  Lower(r) /\ \A x \in Procs \ {r} : batch'[x] = batch[x]
  <2>1. <<e[1], e[2]>> \in batch[r]
        /\ batch' = [batch EXCEPT ![r] = batch[r] \ {<<e[1], e[2]>>}]
    BY <1>2 DEF TakeAttempt
  <2>2. batch'[r] = batch[r] \ {<<e[1], e[2]>>}
    BY <2>1
  <2>. QED
    BY <2>1, <2>2, Zenon DEF Lower
<1>3. CASE FetchPayment(r)
  BY <1>3 DEF FetchPayment, Fail, Lower, Nearer, StepsLeft
<1>4. CASE CapturePayment(r)
  BY <1>4 DEF CapturePayment, Fail, Lower, Nearer, StepsLeft
<1>5. CASE MarkSuccess(r)
  BY <1>5 DEF MarkSuccess, Lower, Nearer, StepsLeft
<1>6. CASE MarkFailed(r)
  BY <1>6 DEF MarkFailed, AfterFailure, Lower, Nearer, StepsLeft
<1>7. CASE NoCredentials(r) \/ Recovered(r) \/ ConfirmNotified(r)
  <2>1. /\ pc[r] \in {"fetch", "recovered", "confirm"}
        /\ batch' = batch /\ Return(r)
    BY <1>7 DEF NoCredentials, Recovered, ConfirmNotified
  <2>2. StepsLeft(pc[r]) \in {2, 8}
    BY <2>1 DEF StepsLeft
  <2>. QED
    BY <2>1, <2>2, ReturnNearer DEF Lower, Nearer
<1>8. CASE SharedStep(r)
  BY <1>8, SharedNearer DEF Lower
<1>9. ~ PollPending(r)
  BY DEF PollPending
<1>. QED
  BY <1>1, <1>2, <1>3, <1>4, <1>5, <1>6, <1>7, <1>8, <1>9 DEF RunnerStep

\* Only its own steps change the batch of a process.
LEMMA BatchKept ==
  ASSUME TypeOK, [Next]_vars, NEW x \in Procs, ~ Own(x)
  PROVE  batch'[x] = batch[x]
<1>. USE DEF TypeOK
<1>1. CASE UNCHANGED vars
  BY <1>1 DEF vars
<1>2. ASSUME NEW w \in Web, Request(w)
      PROVE  batch'[x] = batch[x]
  BY <1>2 DEF Request, SaveTransaction, TriggerRetry
<1>3. ASSUME NEW w \in Web, WebStep(w)
      PROVE  batch'[x] = batch[x]
  BY <1>3, WebNearer
<1>4. ASSUME NEW r \in Runners, RunnerStep(r)
      PROVE  batch'[x] = batch[x]
  <2>1. r # x /\ r \in Procs
    BY <1>4 DEF Own, Procs
  <2>2. CASE pc[r] = "idle"
    <3>1. PollPending(r)
      BY <1>4, <2>2 DEF RunnerStep, SharedStep, EndBatch, TakeAttempt,
           FetchPayment, NoCredentials, CapturePayment, MarkSuccess, Recovered,
           MarkFailed, ConfirmNotified, CountAttempts, SaveRetryAttempt,
           RetryScheduled, SaveNotification, CustomerNotified, At
    <3>. QED
      BY <2>1, <3>1 DEF PollPending
  <2>3. CASE pc[r] # "idle"
    BY <1>4, <2>1, <2>3, RunnerLower
  <2>. QED
    BY <2>2, <2>3
<1>5. ASSUME NEW y \in Procs, Crash(y)
      PROVE  batch'[x] = batch[x]
  <2>1. y # x
    BY <1>5 DEF Own
  <2>. QED
    BY <1>5, <2>1 DEF Crash
<1>6. ASSUME NEW p \in Payments, World(p)
      PROVE  batch'[x] = batch[x]
  BY <1>6 DEF World, BecomeDue, Authorize, CaptureElsewhere
<1>. QED
  BY <1>1, <1>2, <1>3, <1>4, <1>5, <1>6 DEF Next

LEMMA CrashLower ==
  ASSUME TypeOK, NEW x \in Procs, Crash(x)
  PROVE  Lower(x)
<1>1. batch'[x] = {} /\ pc'[x] = "idle" /\ pc[x] # "idle"
  BY DEF Crash, Goto, At, TypeOK
<1>2. StepsLeft(pc'[x]) < StepsLeft(pc[x])
  BY <1>1 DEF TypeOK, StepsLeft, WebLabels, SharedLabels, RunnerLabels
<1>. QED
  BY <1>1, <1>2 DEF Lower, Nearer

\* Every handler and every batch ends after a bounded number of its own steps,
\* whatever is decided, answered, refused or raised in between: the chain from
\* execute_retry to schedule_retry and the notification has no way back, and a
\* batch, the list run_pending_retries polled once, is never extended.  This is
\* what EveryAttemptSettles and RecoveryConcludes rest on besides fairness.
THEOREM Ends == Spec => HandlersEnd
<1>1. TypeOK /\ [Next]_vars
      => \A x \in Procs :
           /\ x \in Web /\ WebStep(x) => Lower(x)
           /\ x \in Runners /\ RunnerStep(x) /\ pc[x] # "idle" => Lower(x)
           /\ pc[x] # "idle" => \/ UNCHANGED <<pc[x], job[x], batch[x]>>
                                \/ Lower(x)
  <2>. SUFFICES ASSUME TypeOK, [Next]_vars, NEW x \in Procs
                PROVE  /\ x \in Web /\ WebStep(x) => Lower(x)
                       /\ x \in Runners /\ RunnerStep(x) /\ pc[x] # "idle"
                            => Lower(x)
                       /\ pc[x] # "idle" => \/ UNCHANGED <<pc[x], job[x], batch[x]>>
                                            \/ Lower(x)
    OBVIOUS
  <2>1. x \in Web /\ WebStep(x) => Lower(x)
    BY WebNearer DEF Lower
  <2>2. x \in Runners /\ RunnerStep(x) /\ pc[x] # "idle" => Lower(x)
    BY RunnerLower
  <2>3. CASE ~ Own(x)
    <3>1. pc'[x] = pc[x] /\ job'[x] = job[x] /\ batch'[x] = batch[x]
      BY <2>3, Locality, BatchKept
    <3>. QED
      BY <2>1, <2>2, <3>1
  <2>4. CASE Own(x) /\ pc[x] # "idle"
    <3>1. ~ Request(x)
      BY <2>4 DEF Request, SaveTransaction, TriggerRetry, At
    <3>2. Lower(x)
      BY <2>1, <2>2, <2>4, <3>1, CrashLower DEF Own
    <3>. QED
      BY <2>1, <2>2, <3>2
  <2>. QED
    BY <2>1, <2>2, <2>3, <2>4
<1>. QED
  BY <1>1, TypeCorrect, PTL DEF Spec, HandlersEnd

\* The lists that are worked through are finite, so that "smaller" has an end.
BatchesFinite ==
  IsFiniteSet(due) /\ \A r \in Runners : IsFiniteSet(batch[r])

LEMMA DueFinite ==
  ASSUME TypeOK, [Next]_vars, IsFiniteSet(due)
  PROVE  IsFiniteSet(due')
<1>1. ASSUME NEW x \in Procs, SharedStep(x)
      PROVE  due' = due
  BY <1>1 DEF SharedStep, CountAttempts, SaveRetryAttempt, RetryScheduled,
              SaveNotification, CustomerNotified, worldVars
<1>2. CASE UNCHANGED vars
  BY <1>2 DEF vars
<1>3. ASSUME NEW w \in Web, Request(w) \/ WebStep(w)
      PROVE  due' = due
  BY <1>1, <1>3 DEF Request, SaveTransaction, TriggerRetry, WebStep,
     InsertTransaction, ReplyWebhook, Decide, SuggestAlternate,
     AlternateSuggested, PipelineError, worldVars, Procs
<1>4. ASSUME NEW r \in Runners, RunnerStep(r)
      PROVE  due' = due
  BY <1>1, <1>4 DEF RunnerStep, PollPending, EndBatch, TakeAttempt,
     FetchPayment, NoCredentials, CapturePayment, MarkSuccess, Recovered,
     MarkFailed, ConfirmNotified, worldVars, Procs
<1>5. ASSUME NEW x \in Procs, Crash(x)
      PROVE  due' = due
  BY <1>5 DEF Crash, worldVars
<1>6. ASSUME NEW p \in Payments, World(p)
      PROVE  IsFiniteSet(due')
  <2>1. ASSUME NEW i \in DOMAIN attempts[p], BecomeDue(p, i)
        PROVE  IsFiniteSet(due')
    <3>1. due' = due \cup {<<p, i>>}
      BY <2>1 DEF BecomeDue
    <3>. QED
      BY <3>1, FS_AddElement
  <2>2. CASE Authorize(p) \/ CaptureElsewhere(p)
    BY <2>2 DEF Authorize, CaptureElsewhere
  <2>. QED
    BY <1>6, <2>1, <2>2 DEF World
<1>. QED
  BY <1>2, <1>3, <1>4, <1>5, <1>6 DEF Next

\* A runner polls finitely many attempts at a time.
THEOREM Finite == Spec => []BatchesFinite
<1>1. Init => BatchesFinite
  BY FS_EmptySet DEF Init, BatchesFinite, Procs
<1>2. TypeOK /\ BatchesFinite /\ [Next]_vars => BatchesFinite'
  <2>. SUFFICES ASSUME TypeOK, BatchesFinite, [Next]_vars
                PROVE  BatchesFinite'
    OBVIOUS
  <2>1. IsFiniteSet(due')
    BY DueFinite DEF BatchesFinite
  <2>2. ASSUME NEW r \in Runners
        PROVE  IsFiniteSet(batch'[r])
    <3>. r \in Procs
      BY DEF Procs
    <3>1. CASE batch'[r] \subseteq batch[r]
      BY <3>1, FS_Subset DEF BatchesFinite
    <3>2. CASE PollPending(r)
      <4>1. batch'[r] = DueAttempts /\ DueAttempts \subseteq due
        BY <3>2 DEF PollPending, DueAttempts, TypeOK
      <4>. QED
        BY <4>1, FS_Subset DEF BatchesFinite
    <3>3. CASE Crash(r)
      BY <3>3, FS_EmptySet DEF Crash, TypeOK
    <3>4. CASE RunnerStep(r) /\ pc[r] # "idle"
      BY <3>1, <3>4, RunnerLower DEF Lower
    <3>5. CASE RunnerStep(r) /\ pc[r] = "idle"
      BY <3>2, <3>5 DEF RunnerStep, SharedStep, EndBatch, TakeAttempt,
         FetchPayment, NoCredentials, CapturePayment, MarkSuccess, Recovered,
         MarkFailed, ConfirmNotified, CountAttempts, SaveRetryAttempt,
         RetryScheduled, SaveNotification, CustomerNotified, At
    <3>6. CASE ~ Own(r)
      BY <3>1, <3>6, BatchKept
    <3>7. r \notin Web
      BY LifecycleAssumption
    <3>. QED
      BY <3>3, <3>4, <3>5, <3>6, <3>7 DEF Own
  <2>. QED
    BY <2>1, <2>2 DEF BatchesFinite
<1>. QED
  BY <1>1, <1>2, TypeCorrect, PTL DEF Spec

\* No handler comes to a place it cannot leave: web processes are only where a
\* step of a web process goes on, and runners where one of a runner does.
NoDeadEnd ==
  /\ \A w \in Web : pc[w] \in WebLabels \cup SharedLabels
  /\ \A r \in Runners : pc[r] \in RunnerLabels \cup SharedLabels

\* A web process sends a notification only because it was decided or because
\* the attempts are exhausted; for no other reason would it try to confirm.
WebReasons ==
  \A w \in Web : pc[w] \in {"notify", "notifyStatus"} =>
    job[w].why \in {"decided", "exhausted"}

PlaceOf(x) ==
  /\ x \in Web =>
       /\ pc[x] \in WebLabels \cup SharedLabels
       /\ pc[x] \in {"notify", "notifyStatus"} =>
            job[x].why \in {"decided", "exhausted"}
  /\ x \in Runners => pc[x] \in RunnerLabels \cup SharedLabels

LEMMA ReturnPlace ==
  ASSUME TypeOK, NEW x \in Procs, Return(x)
  PROVE  PlaceOf(x)'
<1>1. pc'[x] = IF x \in Runners THEN "batch" ELSE "idle"
  BY DEF Return, Goto, TypeOK
<1>. QED
  BY <1>1, LifecycleAssumption
     DEF PlaceOf, WebLabels, RunnerLabels

LEMMA RaisePlace ==
  ASSUME TypeOK, NEW x \in Procs, Raise(x),
         x \in Runners => job[x].kind = "retry"
  PROVE  PlaceOf(x)'
<1>1. CASE job[x].kind = "pipeline"
  <2>1. pc'[x] = "pipelineError" /\ x \notin Runners
    BY <1>1 DEF Raise, Goto, TypeOK
  <2>. QED
    BY <2>1 DEF PlaceOf, WebLabels
<1>2. CASE job[x].kind # "pipeline"
  BY <1>2, ReturnPlace DEF Raise
<1>. QED
  BY <1>1, <1>2

LEMMA SharedPlace ==
  ASSUME TypeOK, NEW x \in Procs, SharedStep(x), PlaceOf(x),
         x \in Runners /\ Busy(x) => job[x].kind = "retry"
  PROVE  PlaceOf(x)'
<1>. USE DEF At, Goto, TypeOK
<1>1. CASE CountAttempts(x)
  BY <1>1 DEF CountAttempts, PlaceOf, SharedLabels, Job
<1>2. CASE SaveRetryAttempt(x)
  <2>1. pc[x] = "insert" /\ (pc'[x] = "scheduled" \/ Raise(x))
    BY <1>2 DEF SaveRetryAttempt
  <2>2. CASE pc'[x] = "scheduled"
    BY <2>2 DEF PlaceOf, SharedLabels
  <2>3. CASE Raise(x)
    BY <2>1, <2>3, RaisePlace DEF Busy
  <2>. QED
    BY <2>1, <2>2, <2>3
<1>3. CASE RetryScheduled(x)
  BY <1>3, ReturnPlace DEF RetryScheduled
<1>4. CASE SaveNotification(x)
  BY <1>4 DEF SaveNotification, PlaceOf, SharedLabels
<1>5. CASE CustomerNotified(x)
  <2>1. pc[x] = "notifyStatus"
    BY <1>5 DEF CustomerNotified
  <2>2. CASE job[x].why = "decided"
    BY <1>5, <2>2, ReturnPlace DEF CustomerNotified
  <2>3. CASE job[x].why = "exhausted"
    <3>1. Raise(x)
      BY <1>5, <2>3 DEF CustomerNotified
    <3>. QED
      BY <2>1, <3>1, RaisePlace DEF Busy
  <2>4. CASE job[x].why \notin {"decided", "exhausted"}
    <3>1. pc'[x] = "confirm" /\ x \notin Web
      BY <1>5, <2>1, <2>4 DEF CustomerNotified, PlaceOf
    <3>. QED
      BY <3>1 DEF PlaceOf, RunnerLabels
  <2>. QED
    BY <2>2, <2>3, <2>4
<1>. QED
  BY <1>1, <1>2, <1>3, <1>4, <1>5 DEF SharedStep

LEMMA WebPlace ==
  ASSUME TypeOK, NEW w \in Web, Request(w) \/ WebStep(w), PlaceOf(w)
  PROVE  PlaceOf(w)'
<1>. w \in Procs /\ w \notin Runners
  BY LifecycleAssumption DEF Procs
<1>. USE DEF At, Goto, TypeOK
<1>1. CASE Request(w)
  BY <1>1 DEF Request, SaveTransaction, TriggerRetry, AfterSave, PlaceOf,
              WebLabels, SharedLabels
<1>2. CASE InsertTransaction(w)
  BY <1>2 DEF InsertTransaction, AfterSave, PlaceOf, WebLabels
<1>3. CASE Decide(w)
  <2>1. \/ pc'[w] \in {"count", "alternate"}
        \/ pc'[w] = "notify" /\ job'[w].why = "decided"
        \/ Return(w)
        \/ Raise(w)
    BY <1>3 DEF Decide, Job
  <2>2. CASE pc'[w] \in {"count", "alternate"}
    BY <2>2 DEF PlaceOf, WebLabels, SharedLabels
  <2>3. CASE pc'[w] = "notify" /\ job'[w].why = "decided"
    BY <2>3 DEF PlaceOf, SharedLabels
  <2>. QED
    BY <2>1, <2>2, <2>3, ReturnPlace, RaisePlace
<1>4. CASE SuggestAlternate(w)
  BY <1>4 DEF SuggestAlternate, PlaceOf, WebLabels
<1>5. CASE ReplyWebhook(w) \/ AlternateSuggested(w) \/ PipelineError(w)
  BY <1>5, ReturnPlace DEF ReplyWebhook, AlternateSuggested, PipelineError
<1>6. CASE SharedStep(w)
  BY <1>6, SharedPlace
<1>. QED
  BY <1>1, <1>2, <1>3, <1>4, <1>5, <1>6 DEF WebStep

LEMMA RunnerPlace ==
  ASSUME TypeOK, RowsExist, NEW r \in Runners, RunnerStep(r), PlaceOf(r)
  PROVE  PlaceOf(r)'
<1>. r \in Procs /\ r \notin Web
  BY LifecycleAssumption DEF Procs
<1>. USE DEF At, Goto, TypeOK, PlaceOf, RunnerLabels, SharedLabels
<1>1. CASE PollPending(r) \/ EndBatch(r)
  BY <1>1 DEF PollPending, EndBatch
<1>2. ASSUME NEW e \in batch[r], TakeAttempt(r, e[1], e[2])
      PROVE  PlaceOf(r)'
  BY <1>2 DEF TakeAttempt
<1>3. CASE FetchPayment(r) \/ CapturePayment(r)
  BY <1>3 DEF FetchPayment, CapturePayment, Fail
<1>4. CASE MarkSuccess(r) \/ MarkFailed(r)
  BY <1>4 DEF MarkSuccess, MarkFailed, AfterFailure
<1>5. CASE NoCredentials(r) \/ Recovered(r) \/ ConfirmNotified(r)
  BY <1>5, ReturnPlace DEF NoCredentials, Recovered, ConfirmNotified
<1>6. CASE SharedStep(r)
  BY <1>6, SharedPlace DEF RowsExist
<1>. QED
  BY <1>1, <1>2, <1>3, <1>4, <1>5, <1>6 DEF RunnerStep

\* Every process that is in a handler is where its own code goes on: the paths
\* that the executor and the web handlers share, schedule_retry and the
\* notification, hand each of them back to its own.
THEOREM NeverStuck == Spec => []NoDeadEnd
<1>1. Init => NoDeadEnd /\ WebReasons
  BY DEF Init, NoDeadEnd, WebReasons, Procs, WebLabels, RunnerLabels
<1>2. TypeOK /\ RowsExist /\ NoDeadEnd /\ WebReasons /\ [Next]_vars
      => NoDeadEnd' /\ WebReasons'
  <2>. SUFFICES ASSUME TypeOK, RowsExist, NoDeadEnd, WebReasons, [Next]_vars,
                       NEW x \in Procs
                PROVE  PlaceOf(x)'
    BY DEF NoDeadEnd, WebReasons, PlaceOf, Procs
  <2>1. PlaceOf(x)
    BY DEF NoDeadEnd, WebReasons, PlaceOf
  <2>2. CASE ~ Own(x)
    BY <2>1, <2>2, Locality DEF PlaceOf
  <2>3. CASE Crash(x)
    <3>1. pc'[x] = "idle"
      BY <2>3 DEF Crash, Goto, TypeOK
    <3>. QED
      BY <3>1 DEF PlaceOf, WebLabels, RunnerLabels
  <2>. QED
    BY <2>1, <2>2, <2>3, WebPlace, RunnerPlace DEF Own
<1>. QED
  BY <1>1, <1>2, TypeCorrect, RowsThere, PTL DEF Spec
=============================================================================
