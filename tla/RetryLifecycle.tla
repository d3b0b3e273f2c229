--------------------------- MODULE RetryLifecycle ---------------------------
(***************************************************************************)
(* The life of a failed payment in the recovery agent: the webhook and     *)
(* REST handlers that record it and ask for a recovery action, the action  *)
(* engine and the retry scheduler that carry the action out, and the retry *)
(* executor that later talks to Razorpay.                                  *)
(*                                                                         *)
(* Every `with get_db_session()` block of the code commits a database      *)
(* transaction of its own.  One action of this module is one such block    *)
(* (or one call to Razorpay), so processes interleave, and may crash,      *)
(* exactly between the commits.                                            *)
(***************************************************************************)
EXTENDS Naturals, Sequences

CONSTANTS
  Payments,      \* Razorpay payments
  Web,           \* web server processes; each serves one request at a time
  Runners,       \* processes that call run_pending_retries()
  MaxRetries,    \* retry_scheduler.MAX_RETRIES (3)
  MaxAttempts,   \* bound: no forced trigger is accepted past this many rows
  EventStatuses, \* transaction statuses the events of a run may carry
  Faults         \* which of "crash" and "credentials" may happen

ASSUME LifecycleAssumption ==
  /\ Payments # {}
  /\ Web \cap Runners = {}
  /\ MaxRetries \in Nat \ {0}
  /\ MaxAttempts \in Nat
  /\ "FAILED" \in EventStatuses
  /\ EventStatuses \subseteq {"FAILED", "HALTED", "AUTHORIZED", "CAPTURED"}
  /\ Faults \subseteq {"crash", "credentials"}

Procs == Web \cup Runners

VARIABLES
  \* The database.
  status,      \* transactions.status of each payment, "absent" without a row
  attempts,    \* rows of retry_attempts of each payment, in order of their id
  actions,     \* action types on file in recovery_actions for each payment
  \* The world outside.
  due,         \* rows of retry_attempts whose next_retry_at has passed
  pay,         \* what Razorpay knows of each payment
  \* The processes.
  pc,          \* what each process does next
  job,         \* the local variables of the call it is in
  batch,       \* attempt_ids each runner has still to process
  \* History.
  overridden   \* payments for which a merchant has sent force=True

dbVars  == <<status, attempts, actions>>
worldVars == <<due, pay>>
vars == <<status, attempts, actions, due, pay, pc, job, batch, overridden>>

-----------------------------------------------------------------------------
(* Values.                                                                 *)

Statuses == EventStatuses \cup
  {"retry_scheduled", "alternate_suggested", "customer_notified",
   "pipeline_error", "recovered"}

Results == {"SCHEDULED", "SUCCESS", "FAILED"}

ActionTypes == {"customer_notified", "alternate_method_suggested"}

PaymentStates == {"failed", "authorized", "captured"}

AttemptRow == [num : Nat, result : Results]

WebLabels == {"idle", "insertTx", "reply", "decide", "alternate",
              "alternateStatus", "pipelineError"}

\* Steps of schedule_retry and execute_customer_notification, which every
\* kind of process runs.
SharedLabels == {"count", "insert", "scheduled", "notify", "notifyStatus"}

RunnerLabels == {"idle", "batch", "fetch", "capture", "success", "recovered",
                 "failed", "confirm"}

Kinds == {"none", "webhook", "pipeline", "trigger", "forced", "retry"}

\* Why a notification is sent, or how a call to Razorpay failed.
Reasons == {"none", "decided", "exhausted", "transient", "terminal"}

Job == [kind : Kinds, tx : Payments, event : EventStatuses,
        num : Nat, row : Nat, why : Reasons]

NoJob == [kind |-> "none", tx |-> CHOOSE p \in Payments : TRUE,
          event |-> "FAILED", num |-> 0, row |-> 0, why |-> "none"]

Numbers(p) == {attempts[p][i].num : i \in DOMAIN attempts[p]}

\* Mutant: no constraint in the schema.
NumberTaken_Never(p, n) == FALSE

\* UNIQUE(transaction_id, attempt_number) refuses a second row of a number.
NumberTaken(p, n) == n \in Numbers(p)

\* Mutant: the guardrail lets one attempt too many through.
AttemptsExhausted_OffByOne(p) == Len(attempts[p]) > MaxRetries

AttemptsExhausted(p) == Len(attempts[p]) >= MaxRetries

\* Mutant: failed attempts are taken up again.
Pending_NotSuccess(p, i) == attempts[p][i].result # "SUCCESS"

Pending(p, i) == attempts[p][i].result = "SCHEDULED"

\* Mutant: a third outcome, which the comment on the column allows.
FailureResult_Timeout == "TIMEOUT"

FailureResult == "FAILED"

-----------------------------------------------------------------------------
(* Control.                                                                *)

At(x, l) == pc[x] = l

Goto(x, l) == pc' = [pc EXCEPT ![x] = l]

\* The handler returns; a runner goes on with its batch.
Return(x) ==
  /\ Goto(x, IF x \in Runners THEN "batch" ELSE "idle")
  /\ job' = [job EXCEPT ![x] = NoJob]

\* An exception leaves the handler: run_recovery_pipeline catches it and
\* records pipeline_error, the trigger endpoint answers 500, and
\* run_pending_retries counts a failure.
Raise(x) ==
  IF job[x].kind = "pipeline"
  THEN Goto(x, "pipelineError") /\ UNCHANGED job
  ELSE Return(x)

SetStatus(p, s) == status' = [status EXCEPT ![p] = s]

SetResult(p, i, res) ==
  attempts' = [attempts EXCEPT ![p][i].result = res]

-----------------------------------------------------------------------------
(* Ingestion: save_transaction, called by the webhook handler and by the   *)
(* pipeline.                                                               *)

AfterSave(w, kind) ==
  Goto(w, IF kind = "webhook" THEN "reply" ELSE "decide")

\* The statuses a webhook about p can carry: failures at any time (Razorpay
\* redelivers and reorders), successes once they happened.
Deliverable(p) ==
  {"FAILED", "HALTED"}
    \cup (IF pay[p] = "failed" THEN {} ELSE {"AUTHORIZED"})
    \cup (IF pay[p] = "captured" THEN {"CAPTURED"} ELSE {})

\* The lookup.  An existing row takes the status of the event.
SaveTransaction(w, p, s, kind) ==
  /\ At(w, "idle")
  /\ s \in IF kind = "webhook" THEN Deliverable(p) ELSE {"FAILED"}
  /\ job' = [job EXCEPT ![w] = [NoJob EXCEPT !.kind = kind, !.tx = p,
                                             !.event = s]]
  /\ \/ /\ status[p] # "absent"
        /\ SetStatus(p, s)
        /\ AfterSave(w, kind)
     \/ /\ status[p] = "absent"
        /\ Goto(w, "insertTx")
        /\ UNCHANGED status
  /\ UNCHANGED <<attempts, actions, worldVars, batch, overridden>>

\* The insert.  UNIQUE(razorpay_payment_id) turns a concurrent insert into a
\* second lookup, which leaves the row alone.
InsertTransaction(w) ==
  LET p == job[w].tx IN
  /\ At(w, "insertTx")
  /\ IF status[p] = "absent" THEN SetStatus(p, job[w].event)
                             ELSE UNCHANGED status
  /\ AfterSave(w, job[w].kind)
  /\ UNCHANGED <<attempts, actions, worldVars, job, batch, overridden>>

\* The webhook handler answers that the event was routed to the pipeline.
ReplyWebhook(w) ==
  /\ At(w, "reply")
  /\ Return(w)
  /\ UNCHANGED <<dbVars, worldVars, batch, overridden>>

-----------------------------------------------------------------------------
(* The pipeline's decision and its dispatch.                               *)

\* The engine may decide anything, or raise.
Decide(w) ==
  /\ At(w, "decide")
  /\ \/ Goto(w, "count") /\ UNCHANGED job
     \/ Goto(w, "alternate") /\ UNCHANGED job
     \/ /\ Goto(w, "notify")
        /\ job' = [job EXCEPT ![w].why = "decided"]
     \/ Return(w)                                         \* no_action
     \/ Raise(w)
  /\ UNCHANGED <<dbVars, worldVars, batch, overridden>>

SuggestAlternate(w) ==
  /\ At(w, "alternate")
  /\ actions' = [actions EXCEPT ![job[w].tx] =
                   @ \cup {"alternate_method_suggested"}]
  /\ Goto(w, "alternateStatus")
  /\ UNCHANGED <<status, attempts, worldVars, job, batch, overridden>>

AlternateSuggested(w) ==
  /\ At(w, "alternateStatus")
  /\ SetStatus(job[w].tx, "alternate_suggested")
  /\ Return(w)
  /\ UNCHANGED <<attempts, actions, worldVars, batch, overridden>>

PipelineError(w) ==
  /\ At(w, "pipelineError")
  /\ SetStatus(job[w].tx, "pipeline_error")
  /\ Return(w)
  /\ UNCHANGED <<attempts, actions, worldVars, batch, overridden>>

\* POST /trigger-retry.  A refused request changes nothing.
TriggerRetry(w, p, force) ==
  /\ At(w, "idle")
  /\ status[p] # "absent"
  /\ IF force THEN Len(attempts[p]) < MaxAttempts
              ELSE ~ AttemptsExhausted(p)
  /\ job' = [job EXCEPT ![w] = [NoJob EXCEPT
               !.kind = IF force THEN "forced" ELSE "trigger", !.tx = p]]
  /\ overridden' = IF force THEN overridden \cup {p} ELSE overridden
  /\ Goto(w, "count")
  /\ UNCHANGED <<dbVars, worldVars, batch>>

-----------------------------------------------------------------------------
(* schedule_retry and execute_customer_notification, in any process.       *)

\* The rows are counted in a session of their own.
CountAttempts(x) ==
  LET p == job[x].tx IN
  /\ At(x, "count")
  /\ IF AttemptsExhausted(p) /\ job[x].kind # "forced"
     THEN /\ Goto(x, "notify")
          /\ job' = [job EXCEPT ![x].why = "exhausted"]
     ELSE /\ Goto(x, "insert")
          /\ job' = [job EXCEPT ![x].num = Len(attempts[p]) + 1]
  /\ UNCHANGED <<dbVars, worldVars, batch, overridden>>

\* Another process may have inserted this number since the rows were counted.
SaveRetryAttempt(x) ==
  LET p == job[x].tx IN
  /\ At(x, "insert")
  /\ \/ /\ ~ NumberTaken(p, job[x].num)
        /\ attempts' = [attempts EXCEPT ![p] =
             Append(@, [num |-> job[x].num, result |-> "SCHEDULED"])]
        /\ Goto(x, "scheduled")
        /\ UNCHANGED job
     \/ /\ NumberTaken(p, job[x].num)
        /\ Raise(x)
        /\ UNCHANGED attempts
  /\ UNCHANGED <<status, actions, worldVars, batch, overridden>>

RetryScheduled(x) ==
  /\ At(x, "scheduled")
  /\ SetStatus(job[x].tx, "retry_scheduled")
  /\ Return(x)
  /\ UNCHANGED <<attempts, actions, worldVars, batch, overridden>>

\* Mutant: the status is written before the record of the action.
SaveNotification_StatusFirst(x) ==
  /\ At(x, "notify")
  /\ SetStatus(job[x].tx, "customer_notified")
  /\ Goto(x, "notifyStatus")
  /\ UNCHANGED <<attempts, actions, worldVars, job, batch, overridden>>

SaveNotification(x) ==
  /\ At(x, "notify")
  /\ actions' = [actions EXCEPT ![job[x].tx] = @ \cup {"customer_notified"}]
  /\ Goto(x, "notifyStatus")
  /\ UNCHANGED <<status, attempts, worldVars, job, batch, overridden>>

\* schedule_retry answers None once the attempts are exhausted; the pipeline
\* and the endpoint then read an attribute of None, and raise.
CustomerNotified(x) ==
  /\ At(x, "notifyStatus")
  /\ SetStatus(job[x].tx, "customer_notified")
  /\ CASE job[x].why = "decided" -> Return(x)
       [] job[x].why = "exhausted" -> Raise(x)
       [] OTHER -> Goto(x, "confirm") /\ UNCHANGED job
  /\ UNCHANGED <<attempts, actions, worldVars, batch, overridden>>

-----------------------------------------------------------------------------
(* run_pending_retries and execute_retry.                                  *)

\* Mutant: the last permitted attempt is never polled.
DueAttempts_BelowCap == {e \in due : e[2] < MaxRetries /\ Pending(e[1], e[2])}

DueAttempts == {e \in due : Pending(e[1], e[2])}

PollPending(r) ==
  /\ At(r, "idle")
  /\ DueAttempts # {}
  /\ batch' = [batch EXCEPT ![r] = DueAttempts]
  /\ Goto(r, "batch")
  /\ UNCHANGED <<dbVars, worldVars, job, overridden>>

\* The row is read again; one that was settled meanwhile is skipped.
TakeAttempt(r, p, i) ==
  /\ At(r, "batch")
  /\ <<p, i>> \in batch[r]
  /\ batch' = [batch EXCEPT ![r] = @ \ {<<p, i>>}]
  /\ \/ /\ Pending(p, i)
        /\ job' = [job EXCEPT ![r] = [NoJob EXCEPT !.kind = "retry", !.tx = p,
                                                   !.row = i]]
        /\ Goto(r, "fetch")
     \/ /\ ~ Pending(p, i)
        /\ UNCHANGED <<pc, job>>
  /\ UNCHANGED <<dbVars, worldVars, overridden>>

EndBatch(r) ==
  /\ At(r, "batch")
  /\ batch[r] = {}
  /\ Goto(r, "idle")
  /\ UNCHANGED <<dbVars, worldVars, job, batch, overridden>>

Fail(r, why) ==
  /\ Goto(r, "failed")
  /\ job' = [job EXCEPT ![r].why = why]

\* Mutant: an authorization is taken for the money.
FetchPayment_AuthorizedIsPaid(r) ==
  /\ At(r, "fetch")
  /\ \/ /\ pay[job[r].tx] \in {"authorized", "captured"}
        /\ Goto(r, "success") /\ UNCHANGED job
     \/ Fail(r, "transient")
  /\ UNCHANGED <<dbVars, worldVars, batch, overridden>>

\* client.payment.fetch.  A call may also time out or meet a 5xx (transient),
\* or meet a 4xx or an error the code does not know (terminal).
FetchPayment(r) ==
  /\ At(r, "fetch")
  /\ \/ /\ pay[job[r].tx] = "captured"
        /\ Goto(r, "success") /\ UNCHANGED job
     \/ /\ pay[job[r].tx] = "authorized"
        /\ Goto(r, "capture") /\ UNCHANGED job
     \/ /\ pay[job[r].tx] = "failed"
        /\ Fail(r, "transient")
     \/ Fail(r, "transient")
     \/ Fail(r, "terminal")
  /\ UNCHANGED <<dbVars, worldVars, batch, overridden>>

\* _get_razorpay_client raises before the call: the row stays SCHEDULED.
NoCredentials(r) ==
  /\ At(r, "fetch")
  /\ "credentials" \in Faults
  /\ Return(r)
  /\ UNCHANGED <<dbVars, worldVars, batch, overridden>>

\* client.payment.capture.  The answer to a capture that happened may be
\* lost; a capture of a payment already captured is a 4xx.
CapturePayment(r) ==
  LET p == job[r].tx IN
  /\ At(r, "capture")
  /\ \/ /\ pay[p] = "authorized"
        /\ pay' = [pay EXCEPT ![p] = "captured"]
        /\ \/ Goto(r, "success") /\ UNCHANGED job
           \/ Fail(r, "transient")
           \/ Fail(r, "terminal")
     \/ /\ Fail(r, "transient") \/ Fail(r, "terminal")
        /\ UNCHANGED pay
  /\ UNCHANGED <<dbVars, due, batch, overridden>>

MarkSuccess(r) ==
  /\ At(r, "success")
  /\ SetResult(job[r].tx, job[r].row, "SUCCESS")
  /\ Goto(r, "recovered")
  /\ UNCHANGED <<status, actions, worldVars, job, batch, overridden>>

Recovered(r) ==
  /\ At(r, "recovered")
  /\ SetStatus(job[r].tx, "recovered")
  /\ Return(r)
  /\ UNCHANGED <<attempts, actions, worldVars, batch, overridden>>

\* Mutant: a failure that is not transient ends the matter silently.
AfterFailure_Silent(r) ==
  IF job[r].why = "terminal" THEN "batch"
  ELSE IF AttemptsExhausted(job[r].tx) THEN "notify" ELSE "count"

AfterFailure(r) ==
  IF job[r].why = "transient" /\ ~ AttemptsExhausted(job[r].tx)
  THEN "count" ELSE "notify"

\* The count that decides on a further attempt is read in the same session.
MarkFailed(r) ==
  /\ At(r, "failed")
  /\ SetResult(job[r].tx, job[r].row, FailureResult)
  /\ Goto(r, AfterFailure(r))
  /\ UNCHANGED <<status, actions, worldVars, job, batch, overridden>>

\* The executor writes customer_notified a second time, with the reason.
ConfirmNotified(r) ==
  /\ At(r, "confirm")
  /\ SetStatus(job[r].tx, "customer_notified")
  /\ Return(r)
  /\ UNCHANGED <<attempts, actions, worldVars, batch, overridden>>

-----------------------------------------------------------------------------
(* Crashes and the world outside.                                          *)

\* A process dies between two commits and is started again.
Crash(x) ==
  /\ "crash" \in Faults
  /\ ~ At(x, "idle")
  /\ Goto(x, "idle")
  /\ job' = [job EXCEPT ![x] = NoJob]
  /\ batch' = [batch EXCEPT ![x] = {}]
  /\ UNCHANGED <<dbVars, worldVars, overridden>>

\* next_retry_at passes.
BecomeDue(p, i) ==
  /\ i \in DOMAIN attempts[p]
  /\ <<p, i>> \notin due
  /\ due' = due \cup {<<p, i>>}
  /\ UNCHANGED <<dbVars, pay, pc, job, batch, overridden>>

\* The customer's bank authorizes the payment late.
Authorize(p) ==
  /\ pay[p] = "failed"
  /\ pay' = [pay EXCEPT ![p] = "authorized"]
  /\ UNCHANGED <<dbVars, due, pc, job, batch, overridden>>

\* The payment is captured by other means than this program.
CaptureElsewhere(p) ==
  /\ pay[p] = "authorized"
  /\ pay' = [pay EXCEPT ![p] = "captured"]
  /\ UNCHANGED <<dbVars, due, pc, job, batch, overridden>>

-----------------------------------------------------------------------------
Init ==
  /\ status = [p \in Payments |-> "absent"]
  /\ attempts = [p \in Payments |-> <<>>]
  /\ actions = [p \in Payments |-> {}]
  /\ due = {}
  /\ pay = [p \in Payments |-> "failed"]
  /\ pc = [x \in Procs |-> "idle"]
  /\ job = [x \in Procs |-> NoJob]
  /\ batch = [x \in Procs |-> {}]
  /\ overridden = {}

\* A request arrives.
Request(w) ==
  \E p \in Payments :
    \/ \E s \in EventStatuses : SaveTransaction(w, p, s, "webhook")
    \/ SaveTransaction(w, p, "FAILED", "pipeline")
    \/ \E force \in BOOLEAN : TriggerRetry(w, p, force)

\* A process goes on with what it is doing.
SharedStep(x) ==
  \/ CountAttempts(x) \/ SaveRetryAttempt(x) \/ RetryScheduled(x)
  \/ SaveNotification(x) \/ CustomerNotified(x)

WebStep(w) ==
  \/ InsertTransaction(w) \/ ReplyWebhook(w) \/ Decide(w)
  \/ SuggestAlternate(w) \/ AlternateSuggested(w) \/ PipelineError(w)
  \/ SharedStep(w)

RunnerStep(r) ==
  \/ PollPending(r) \/ EndBatch(r)
  \/ \E e \in batch[r] : TakeAttempt(r, e[1], e[2])
  \/ FetchPayment(r) \/ NoCredentials(r) \/ CapturePayment(r)
  \/ MarkSuccess(r) \/ Recovered(r) \/ MarkFailed(r) \/ ConfirmNotified(r)
  \/ SharedStep(r)

World(p) ==
  \/ \E i \in DOMAIN attempts[p] : BecomeDue(p, i)
  \/ Authorize(p) \/ CaptureElsewhere(p)

Next ==
  \/ \E w \in Web : Request(w) \/ WebStep(w)
  \/ \E r \in Runners : RunnerStep(r)
  \/ \E x \in Procs : Crash(x)
  \/ \E p \in Payments : World(p)

Spec == Init /\ [][Next]_vars

\* Requests may stop coming and crashes are not fair.  A process in the middle
\* of a request goes on; the operator's scheduler keeps calling
\* run_pending_retries; time passes.
FairSpec ==
  /\ Spec
  /\ \A w \in Web : WF_vars(WebStep(w))
  /\ \A r \in Runners : WF_vars(RunnerStep(r))
  /\ \A p \in Payments :
       WF_vars(\E i \in DOMAIN attempts[p] : BecomeDue(p, i))

-----------------------------------------------------------------------------
(* Properties.                                                             *)

\* Every variable, and every local variable of a call, has its type.
TypeOK ==
  /\ status \in [Payments -> Statuses \cup {"absent"}]
  /\ attempts \in [Payments -> Seq(AttemptRow)]
  /\ actions \in [Payments -> SUBSET ActionTypes]
  /\ due \subseteq Payments \X Nat
  /\ pay \in [Payments -> PaymentStates]
  /\ pc \in [Procs -> WebLabels \cup SharedLabels \cup RunnerLabels]
  /\ job \in [Procs -> Job]
  /\ batch \in [Procs -> SUBSET (Payments \X Nat)]
  /\ overridden \subseteq Payments

\* Attempts are numbered 1, 2, 3, ... in the order of their rows, without a
\* gap or a repetition, although every scheduler counts the rows in one
\* transaction and inserts in another.
AttemptsContiguous ==
  \A p \in Payments : \A i \in DOMAIN attempts[p] : attempts[p][i].num = i

\* No payment gets more than MAX_RETRIES attempts, whatever schedulers race,
\* unless a merchant sent force=True for it.
RetryCap ==
  \A p \in Payments : p \in overridden \/ Len(attempts[p]) <= MaxRetries

\* A status the dashboard shows is backed by what was done before it: the row
\* that was scheduled, the action on file, the money captured.  This holds
\* between any two commits, hence after a crash.
StatusBackedByRecord ==
  \A p \in Payments :
    /\ status[p] = "retry_scheduled" => attempts[p] # <<>>
    /\ status[p] = "customer_notified" => "customer_notified" \in actions[p]
    /\ status[p] = "alternate_suggested" =>
         "alternate_method_suggested" \in actions[p]
    /\ status[p] = "recovered" => pay[p] = "captured"

\* An attempt is marked SUCCESS only when Razorpay holds the money, whatever
\* answers were lost.
SuccessIsCaptured ==
  \A p \in Payments : \A i \in DOMAIN attempts[p] :
    attempts[p][i].result = "SUCCESS" => pay[p] = "captured"

\* Runner r has marked row i of p as failed and is still to act on it.
FollowingUp(r, p, i) ==
  /\ job[r].kind = "retry" /\ job[r].tx = p /\ job[r].row = i
  /\ pc[r] \in {"count", "insert", "notify"}

\* The failure of row i is in hand: a later attempt exists, the customer was
\* told, or a runner is about to see to it.
InHand(p, i) ==
  \/ i < Len(attempts[p])
  \/ "customer_notified" \in actions[p]
  \/ \E r \in Runners : FollowingUp(r, p, i)

\* A failed attempt is not forgotten, as long as nothing crashes.
FailureFollowedUp ==
  \A p \in Payments : \A i \in DOMAIN attempts[p] :
    attempts[p][i].result = "FAILED" => InHand(p, i)

\* With crashes too there is one window only: a failed attempt of which nothing
\* more will come was in hand when it failed, and got out of hand in the very
\* step in which the runner that was following it up died.  No race for the
\* next number, refused insert, missing credential, crash of another process
\* or request of a merchant forgets a failure.
OnlyCrashForgets ==
  [][\A p \in Payments : \A i \in DOMAIN attempts'[p] :
       attempts'[p][i].result = "FAILED" /\ ~ InHand(p, i)' =>
         /\ i \in DOMAIN attempts[p] /\ attempts[p][i].result = "FAILED"
         /\ InHand(p, i) =>
              \E r \in Runners : Crash(r) /\ FollowingUp(r, p, i)]_vars

\* The audit trail: a row is never removed, and once its result is known it
\* never changes.
ResultsFinal ==
  [][\A p \in Payments : \A i \in DOMAIN attempts[p] :
       /\ i \in DOMAIN attempts'[p]
       /\ attempts'[p][i].num = attempts[p][i].num
       /\ attempts[p][i].result # "SCHEDULED" =>
            attempts'[p][i] = attempts[p][i]]_vars

\* Every attempt that was scheduled is eventually executed.
EveryAttemptSettles ==
  \A p \in Payments, i \in 1 .. MaxRetries + MaxAttempts :
    (i \in DOMAIN attempts[p] /\ attempts[p][i].result = "SCHEDULED")
      ~> (i \in DOMAIN attempts[p] /\ attempts[p][i].result # "SCHEDULED")

\* Once retries of a payment begin, the matter ends: an attempt succeeds or
\* the customer is told.
RecoveryConcludes ==
  \A p \in Payments :
    attempts[p] # <<>> ~>
      \/ \E i \in DOMAIN attempts[p] : attempts[p][i].result = "SUCCESS"
      \/ "customer_notified" \in actions[p]

-----------------------------------------------------------------------------
(* What the repository says of the program and the program does not do.    *)

\* Reaching the limit falls back to a notification; it is not an error of the
\* pipeline.
ExhaustionIsNoError ==
  \A w \in Web : ~ (pc[w] = "pipelineError" /\ job[w].why = "exhausted")

\* A failure the webhook handler reports as routed to the recovery pipeline
\* reaches it.
WebhookReachesPipeline ==
  \A p \in Payments :
    (\E w \in Web : pc[w] = "reply" /\ job[w].tx = p /\ job[w].event = "FAILED")
      ~> (\E w \in Web : pc[w] = "decide" /\ job[w].tx = p)
=============================================================================
