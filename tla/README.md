# Formal verification of the AI Revenue Recovery Agent

This directory holds TLA+ models of the agent, TLC configurations that check
them on small instances and TLAPS proofs of the central invariants for every
instance. Paths below are relative to the repository root.

## 1. The system

The agent receives failed Razorpay payments, decides on a recovery action and
carries it out. All durable state is in four SQL tables (`agent/models.py`);
the processes that share them are web servers (`main.py`, one uvicorn process
per container) and whatever calls `run_pending_retries()` (nothing in `main.py`
does: it is left to the operator's scheduler).

| Component | State | Operations | Interacts with |
|---|---|---|---|
| Webhook ingestion (`api_integration/router.py`, `normalizer.py`, `verifier.py`) | none of its own | verify, normalise, `save_transaction`, answer | writes `transactions` |
| Transaction store (`agent/db_writer.py`, `agent/models.py`) | `transactions`, `retry_attempts`, `recovery_actions`, `llm_costs` | one committed transaction per call | called by everything |
| Recovery pipeline (`agent/pipeline.py`) | lazily created singletons | `run_recovery_pipeline`, `run_pending_retries` | store, classifier, engine, action engine |
| Decision engine (`agent/recovery_engine.py`, `llm_cache.py`, `llm_agent.py`) | cache entries, counters | `process`, `get`, `set`, Gemini call with retries | Gemini |
| Action engine (`agent/action_engine.py`) | none | retry, alternate method, notification, no action | store, scheduler |
| Retry scheduler (`agent/retry_scheduler.py`) | rows of `retry_attempts` | `schedule_retry` | store, action engine |
| Retry executor (`agent/retry_executor.py`) | results of those rows | `execute_retry` | Razorpay, scheduler, action engine |
| REST API (`api_integration/rest_router.py`) | none | `/analyze-failure`, `/trigger-retry`, reads | pipeline, action engine, broadcaster |
| Event stream (`agent/broadcaster.py`) | one bounded queue per client | subscribe, broadcast, unsubscribe | REST API |
| Metrics and costs (`agent/observability.py`, `cost_tracker.py`) | process-wide counters | record, report | pipeline, executor, Gemini call |
| Classification (`ml/error_codes.py`, `ml/classifier.py`) | lazily loaded model | classify a failure | pipeline, model files |
| Training (`scripts/train_classifier.py`) | three model files in `MODEL_DIR` | train, evaluate, save | web processes, which load them |
| Retry timing (`ml/retry_predictor.py`) | none | recommend whether and when to retry | nothing but its tests calls it |
| Analytics (`agent/analytics.py`) | none (seeds demonstration rows) | count recovered payments and revenue | store |
| Notification text, authentication, scripts, dashboard | none that matters here | formatting, aggregation, checks | |

### What is hard

* **Concurrency.** Nothing locks a payment. Web processes and runners meet in
  the tables, and the only arbiters are two uniqueness constraints:
  `transactions.razorpay_payment_id` and
  `(retry_attempts.transaction_id, attempt_number)`.
* **Many small commits.** `get_db_session()` commits when its block ends.
  Counting the attempts, inserting one, writing an action and writing the
  status are separate commits even inside one handler, so another process can
  run, or this one die, between any two.
  (The session is thread-local, so nested blocks share one session; the inner
  block commits it, which leaves the points of commit where the inner blocks
  end.)
* **An unreliable provider.** A call to Razorpay may time out after it took
  effect; events are redelivered, delayed and reordered.
* **A blocked loop.** The handlers are `async` but their bodies are synchronous:
  a pipeline run, its back-offs included, stops every stream and every other
  request of the process.
* **Files without a lock.** A training rewrites the model in place while web
  processes load it.
* **Ends.** Someone must hear of every failed payment: a retry that succeeds or
  a notification. This depends on every error path of three modules that call
  each other.

### What makes each component correct

* Store and scheduler: attempts numbered 1, 2, 3, ...; no more than
  `MAX_RETRIES` of them unless a merchant sent `force=True`.
* Executor: a result, once known, stays; SUCCESS means captured money; a
  failure leads to a next attempt or to a notification.
* Action engine: a status never claims what is not on file.
* Runner: a scheduled attempt is eventually executed.
* Pipeline: every failure reaches a decision, every decision an action.
* Cache and Gemini call: no decision is served beyond its lifetime, the call ends after a
  bounded number of tries with a decision or an error.
* Event stream: an event reaches every client with room for it, in order, and
  a client that leaves gives its queue back.
* Webhook ingestion: one row per payment whatever the deliveries; what was
  acknowledged is on file.
* Classification and timing: no attempt in the maintenance window, none with a
  dead card, and the delay told is the delay meant.
* Analytics: a payment counted as recovered stays counted.
* Suggestions: the advice to give up on a payment stands.
* Metrics and costs: a text is charged once, a run is counted once.
* Training: what classifies was evaluated; a torn file costs no process the
  model it has.

## 2. Modules

| Module | What it is |
|---|---|
| `RetryLifecycle` | the life of a payment across web processes and runners: the core |
| `Dashboard` | extends it with what a merchant is told: payments recovered, advice |
| `RecoveryPromise` | abstract specification of the retry subsystem: a ledger |
| `LifecycleRefinement` | the mapping from `RetryLifecycle` to `RecoveryPromise` |
| `DecisionEngine` | the decision cache and the Gemini call with its retries |
| `Metering` | extends it with costs, cache counters and METRICS |
| `EventStream` | subscriber queues and the generator of every connection |
| `WebhookIntake` | from the delivery of an event to a row of `transactions` |
| `TransactionTable` | abstract specification of the intake: a table of atomic reports |
| `IntakeRefinement` | the mapping from `WebhookIntake` to `TransactionTable` |
| `Classification` | the cascade of `classify_failure` |
| `RetryTiming` | extends it with the recommendation of the timing predictor |
| `ModelStore` | the training script, the model's files and the processes that load them |
| `RetryLifecycleProofs`, `RunnerProofs`, `LedgerProofs`, `EngineProofs`, `StreamProofs`, `TimingProofs`, `IntakeProofs`, `StoreProofs` | TLAPS proofs |
| `MC...` | the instances for TLC |

### RetryLifecycle

One action is one committed database block or one call to Razorpay.

| Variable | Code |
|---|---|
| `status` | `transactions.status` (`"absent"` without a row) |
| `attempts` | the rows of `retry_attempts` of a payment: number and result |
| `actions` | which types of `recovery_actions` are on file for it |
| `due` | rows whose `next_retry_at` has passed |
| `pay` | Razorpay's state of the payment |
| `pc`, `job`, `batch` | where each process is and its local variables |
| `overridden` | history: a merchant sent `force=True` for the payment |

A web process serves one request at a time, as the handlers are `async`
functions with synchronous bodies on one event loop; several web processes are
several workers or containers.

| Code | Actions |
|---|---|
| `save_transaction` | `SaveTransaction` (lookup or update), `InsertTransaction` (insert, or the concurrent insert the constraint refuses) |
| webhook handler | `SaveTransaction(.., "webhook")`, `ReplyWebhook` |
| `run_recovery_pipeline` | `SaveTransaction(.., "pipeline")`, `Decide`, then the executor it chose; `PipelineError` when anything raises |
| `POST /trigger-retry` | `TriggerRetry`, then the scheduler |
| `schedule_retry` | `CountAttempts`, `SaveRetryAttempt`, `RetryScheduled`, or the notification |
| `execute_customer_notification` | `SaveNotification`, `CustomerNotified` |
| `execute_alternate_suggestion` | `SuggestAlternate`, `AlternateSuggested` |
| `run_pending_retries` | `PollPending`, `TakeAttempt`, `EndBatch` |
| `execute_retry` | `FetchPayment`, `NoCredentials`, `CapturePayment`, then `MarkSuccess`, `Recovered` or `MarkFailed` and the scheduler or the notification and `ConfirmNotified` |
| the world | `Crash`, `BecomeDue`, `Authorize`, `CaptureElsewhere` |

Abstractions: the decision of the engine is any decision or an exception;
amounts, messages and delays are left out; "paid" counts as captured; a
capture answered with another status counts as a transient failure, as in the
code. Failures of the database itself are not modelled.

### Dashboard

`CountedRecovered` is the set of payments `get_recovery_analytics` counts for a
merchant: those `_is_transaction_recovered` accepts, by their status or by an
attempt that succeeded. It is an operator of the state of `RetryLifecycle`,
because the analytics read the tables in one transaction and write only
demonstration rows of another merchant.

`Suggestions` is what `GET /recovery-suggestions` may answer for a payment. It
has a limit of its own, two rows, and compares the status with `RECOVERED`,
which the lifecycle never writes. The category of the failure, which decides
between its two positive answers, is abstracted to either. That the advice to
give up stands is not obvious: statuses are overwritten by late events, so it
rests on rows being kept.

### RecoveryPromise and LifecycleRefinement

The promise keeps a ledger of results for each payment and knows no processes:
an attempt is scheduled below the cap or after an override, settled once, with
SUCCESS only for captured money. The mapping reads the ledger off the result
column, the customers told off `recovery_actions`, the captured payments off
Razorpay.

### DecisionEngine

| Variable | Code |
|---|---|
| `cache` | `LLMResponseCache._cache`: for each key when the entry was made and last used, and (history) when its decision was taken |
| `now` | `time.time()` |
| `pc`, `key`, `useCache` | where `RecoveryEngine.process` is, and its arguments |
| `try`, `isTimeout`, `isRateLimit`, `delay` | locals of `GeminiAgent._call_api` |
| `outcome` | what `process` returned or raised |
| `seen` | history: the failures of this request |

`Lookup` is `get` (a miss, an expired entry removed, a hit), `Store` is `set`
with its eviction, `Invalidate` is `invalidate`, `CallFails`, `Backoff` and
`CallAnswers` are the passes of the loop in `_call_api`, `ParseDecision` is
`_parse_response`. A web process handles one request at a time (the call blocks
its event loop), so the engine serves one. The thread of `POST /demo/run` is no
second one: the endpoint adds `--fast` to the arguments, with which the script
never calls the engine. Decisions are known by the key they were made for; the
moment of a tie between least recently used entries is left open.

### Metering

Adds to the engine what is recorded around it, as what the current or last
request and run contribute: `bill` has the rows of `llm_costs` written or
refused by the database and the hits and misses of the cache, `tally` what
`record_pipeline_run` adds to `METRICS`, `open` whether a pipeline run is under
way. `BilledAnswer` is `log_llm_call`, which comes before the text is parsed;
`EndRun` is the end of `run_recovery_pipeline`, with a dispatch that may raise;
`RunTally` is the cascade of `record_pipeline_run`. Requests do not overlap in
a process, so totals are sums of these. A run that fails before it reaches the
engine is left out: it is one failure and nothing else.

### EventStream

| Variable | Code |
|---|---|
| `busy` | a handler holds the event loop |
| `subscribers` | `_subscribers` of the broadcaster |
| `queue` | the `asyncio.Queue` of each client |
| `gen` | where the generator `_generate` of the connection is suspended |
| `gone` | clients that disconnected |
| `count`, `sent`, `joined` | events broadcast, events a client was sent, history |
| `reached` | history: for each event a subscriber missed, how many it had been sent by then |

`Handle` is the beginning of a handler that runs the pipeline or the scheduler;
until it ends, with an event (`Broadcast`, the end of `POST /analyze-failure`)
or without one (`EndQuietly`), no generator runs and no connection is served.
`Connect` is the subscription of `GET /stream`, `Greet`, `Resume`,
`CheckConnection`, `Receive` and `KeepAlive` are the steps of the generator
between its suspensions, `Cancel` is the server closing the generator of a
client that is gone, with its `finally` clause if it has entered the `try`.
`Receive` and `KeepAlive` each end one `asyncio.wait_for` in one step: what
becomes of an event that arrives in the very moment the wait times out is a
matter of asyncio, and not examined here.

### WebhookIntake

| Variable | Code |
|---|---|
| `rows` | `transactions` by primary key: payment, status, and the event that made the row |
| `pc`, `job` | where `handle_razorpay_webhook` is in each process, and its delivery |
| `deliveries`, `answers` | how often an event was delivered and how it was answered |

`Receive` is the check of the signature, `Normalize` is
`normalize_webhook_payload` with its errors, `Lookup` and `Insert` are the two
halves of `save_transaction` around the flush at which the constraints speak,
`FailToSave` is an exception of the database, `Reply` the answer. An event is a
record of what these steps look at; the payload itself is abstracted.

`RetryLifecycle` contains the same `save_transaction` with one key per payment;
`WebhookIntake` refines what can go wrong with keys, payloads and answers.

### TransactionTable and IntakeRefinement

The abstract table knows no deliveries, processes or keys: a report takes effect
at once, entering a payment or changing its status, or not at all. The mapping
forgets the keys of `rows`, and takes as reports what the accepted events say of
the payments they name. A payload without an identifier gets a new name for each
delivery, as in the code (`normalizer.py`), so such an event has as many reports
as it may have deliveries.

### Classification and RetryTiming

`Classify` is the cascade of `classify_failure`: exact entries for the reason,
then for the code, then patterns over the reason, then over the code, the
first category of the table deciding. A text is the set of categories it
matches. In `RetryTiming` a payment fails at some time with some report, `Predict` is
`RetryTimingPredictor.predict` with the category `batch_predict` would pass,
and `FailAgain` is a caller that follows the recommendation and fails again.
Times are seconds since a midnight in India.

### ModelStore

| Variable | Code |
|---|---|
| `written`, `torn` | the files of `MODEL_DIR`: version last written, files cut short |
| `stage`, `version`, `records`, `place` | where `run_training` is, what it trains and on what |
| `evaluated` | history: versions whose report on the held-out records succeeded |
| `pc`, `classifier`, `features` | step 2 of the pipeline in each process, and its two singletons |
| `last` | history: what answered the process's last request since it was started |

A training has the steps in which it may fail or be killed: `Split`, `Fit`,
`Evaluate`, and an `OpenFile` and a `CloseFile` for each file, which `joblib`
and `open(.., "w")` truncate first. What the records are like is abstracted to
what the libraries make of them: `thin` records, with a category of one, are
refused by a stratified split; `partial` ones, whose held-out part lacks a
category, are refused by `classification_report`, which is given eight names.
Too few records are replaced with synthetic ones. `GetClassifier` and `Predict`
load a file if the singleton is not set; the feature pipeline keeps nothing it
learned, so a fresh one is as good (`HasPipeline`). A process that has both may
still fail on the record itself, as on an amount of infinity, which
`api_integration/schemas.py:105` lets through: `Predict` then answers `refused`,
which in the code is one more answer by the rules (`agent/pipeline.py:187`),
kept apart so that the properties can tell it from a model that is not there. One training runs at a time, as an operator
would have it; nothing in the code enforces that. The numbers inside the model
are left out.

## 3. Runs

The lifecycle has one payment in every run: rows, statuses and Razorpay's state
belong to one payment, and processes meet only there. `MaxAttempts` bounds the
only unbounded counter: a forced retry is requested only while a payment has
fewer rows.

| Run | Instance | Shows |
|---|---|---|
| `LifecycleCrash` | 2 web processes, 1 runner, cap 2, crashes, missing credentials, late success events (0.8 million states up to symmetry) | `TypeOK`, `AttemptsContiguous`, `RetryCap`, `StatusBackedByRecord`, `SuccessIsCaptured`, `ResultsFinal`, `OnlyCrashForgets`, `CountedForGood`, `AdviceStands`, and `KeepsPromise`: the refinement |
| `LifecycleLive` | 1 web process, 1 runner, cap 2, forced up to 3, no faults, fair (0.2 million) | `FailureFollowedUp`, `EveryAttemptSettles`, `RecoveryConcludes` |
| `Engine` | 2 x 2 keys, cache of 2, lifetime 1, clock to 3, 3 tries, a hint of 1 second, fair (0.8 million) | `TypeOK`, `DecisionFitsKey`, `ServedFresh`, `CacheBounded`, `ErrorNamesWorst`, `BackoffAtLeast`, `RequestEnds`, `CostsAreTrue`, `RunCountedOnce` |
| `Stream` | 2 clients, queues of 2, 4 events, fair | `TypeOK`, `InOrder`, `GapsNeedBacklog`, `QueuedIsSent`, `ReleasedFromLoop` |
| `Timing` | 72 times of day, 13 reports, all methods, amounts and kinds | `TypeOK`, `OutsideMaintenance`, `DelayIsTrue`, `PostponedLittle`, `DeadCardNotRetried` |
| `Intake` | 2 processes, 6 events delivered once each, simulation mode, failing database, crashes | `TypeOK`, `OneRowPerPayment`, and `KeepsTable`: the refinement |
| `Store` | 2 web processes, 3 versions, with or without a shipped model, kills, restarts and refused records, fair (0.27 million) | `EvaluatedIsServed`, `MetadataNeverAhead`, `EnsembleStays`, `PickedUp` |

**Bounds.** The cap of the program is 3; a cap of 2 keeps every case apart
(first attempt, attempt after a failure, limit reached), and forcing past it is
in `LifecycleLive`. The safety properties of `LifecycleCrash` and
`FailureFollowedUp` are also proved, for any cap, any forced attempts and any
number of payments and processes (one runner, no crashes where section 4 says
so), so the instance only has to be large enough for its mutants. Three versions of the model are the one shipped, one that
fails or is cut short and one that replaces it. A cache of two entries with four keys is full,
evicts and expires; a lifetime of 1 with a clock to 3 lets an entry be used,
expire unnoticed and be noticed. Four events against queues of two make a
backlog, a gap and a recovery from it. The times of day are half a minute past
every twenty minutes so that every delay meets both ends of the window. In
`Intake`, which has a failing database, the events share a payment and a subscription, and duplicates of one
type are the two halts; every theorem about it is proved for any number of
deliveries. `Stream` and `Intake` come to rest when their bounded events are
used up, `Timing` when a payment is handed over, so deadlock is not checked there.

Runs that end in a counterexample, each showing a disagreement of the code
with what the repository says of it:

| Run | Property | What happens |
|---|---|---|
| `AuditTrail` | `ResultsFinal` with two runners | both read the row as SCHEDULED, both execute it, and the second outcome replaces the first; `README.md:884` calls the rows immutable |
| `ExhaustionError` | `ExhaustionIsNoError` | at the limit `schedule_retry` returns `None`, the dispatcher reads `retry.id`, and the payment ends as `pipeline_error` |
| `WebhookRouting` | `WebhookReachesPipeline` | the webhook handler reports a failure as routed to the pipeline and returns |
| `StreamLeak` | `OneQueuePerLiveStream` | a client leaves before the generator has entered its `try`; its queue stays registered for ever |
| `IntakeHaltRace` | `AcknowledgedOnFile` | two halts of one subscription about two payments race for one primary key; one is lost and answered with success (the database does not fail in this run) |

**Fairness.** `RetryLifecycle!FairSpec` lets a process in the middle of a
request go on, has the operator's scheduler keep calling
`run_pending_retries`, and lets time pass. Requests, decisions, late
authorizations and answers of Razorpay are not fair: none of the liveness
properties relies on a payment succeeding. Crashes and missing credentials are
excluded there because with either, forever, an attempt rightly never settles.
`DecisionEngine!FairSpec` asks only that a call that has begun goes on (the SDK
has a timeout of ten seconds per call). `EventStream!FairSpec` asks that a
handler ends, which `RequestEnds` shows of the engine it calls, that a
generator that can be resumed is resumed, and that a stream whose client is gone
is cancelled. The last two are strong fairness: a handler that begins disables
every generator, but asyncio runs what is ready in turn, so handlers that keep
coming do not starve one. `ModelStore!FairSpec` asks only that a request in
progress is classified; trainings need not go on and requests need not come,
and `PickedUp` says what follows if the files are left whole and requests do
come.

### Further disagreements met while modelling

They have no run of their own: a reader sees each at the lines named.

* `agent/retry_executor.py:191`: FAILED is committed before the next attempt is
  scheduled; a process that dies between them leaves a payment without a next
  attempt or a notification, contrary to lines 56-59, and nothing returns to
  it. `FailureFollowedUp` is therefore stated without crashes;
  `OnlyCrashForgets`, checked with crashes, says that there is no other way to
  forget a failure.
* `agent/retry_scheduler.py:73`: the customer is told that `MAX_RETRIES`
  attempts failed although the guard counts rows, executed or not.
* `agent/action_engine.py:180`: the executed action is committed before the
  status, `README.md:884` says after.
* `agent/llm_agent.py:395` says GeminiTimeoutError means that all three calls
  timed out; the flag is set by one (line 465). Line 396 says the back-off for
  rate limits is 2, 4, 8 seconds; line 496 makes it at least 6 per attempt.
* `agent/broadcaster.py:5` says all active connections receive an event; one
  whose queue is full does not (line 42).
* `ml/retry_predictor.py:15` says two attempts; the limit is 3 (lines 92, 177).
  Line 19 says attempts are moved to 08:30; they are moved to 06:00 (line 137).
  Line 11 says a limit is waited out until it resets at midnight; the delay is
  a fixed 12 hours (line 239).
* `api_integration/router.py:105`: a database error while the webhook is saved
  is logged and answered with success.
* `api_integration/normalizer.py:113`: notes that are a list, which line 96
  allows for, raise AttributeError, where line 65 promises ValueError only.
* `api_integration/rest_router.py:185` and `333` compare the status with
  `RECOVERED`; the executor writes `recovered`. The retry offered there stops
  at two attempts while the cap is three.
* `agent/retry_scheduler.py:169`: `next_retry_at` is taken from the latest row,
  executed or not.
* `agent/analytics.py:194`: without a merchant the analytics prefer the
  benchmark cohort, which line 186 has just seeded, so `GET /analytics` never
  shows real payments. Line 353 gives days without payments invented figures.
* `agent/analytics.py:111`: the demonstration rows have attempt number 2 as
  their first, so the scheduler, which counts rows, computes 2 again and is
  refused.
* `agent/observability.py:100`: `retries_scheduled` counts every decision with a
  delay, although only `auto_retry` schedules one (`agent/action_engine.py:263`).
  `gemini_calls` (line 87) counts cached decisions and omits calls that failed.
  Recoveries are counted per execution and runs per process, so the rate of line
  109 may exceed 100 % or miss recoveries of another process.
* `agent/llm_agent.py`: an answer without text is asked for again and not
  recorded in `llm_costs`, although it was charged.
* `api_integration/rest_router.py:124`: a run that ended as `pipeline_error` is
  answered with status `success`, action `no_action` and confidence 0.9.
* `api_integration/rest_router.py:526`: when the demonstration fails, as it does
  when its rows are there already, the answer is fixed figures.
  `POST /demo/walkthrough` (line 552) imports a script that does not exist.
* `agent/db_writer.py:70` promises an error when the database cannot be reached;
  line 83 falls back to a local SQLite file.
* `scripts/train_classifier.py:239` says that a stratified split puts all eight
  categories into both parts; the report of `ml/classifier.py:363` fails when
  one is missing, and the model just trained is then not saved.

## 4. Proofs

`RetryLifecycleProofs` proves, for any sets of payments, web processes and
runners, any cap and any faults:

* `TypeCorrect`: `Spec => []TypeOK`;
* `Contiguous`, `Capped`, `Backed`, `Captured`: the invariants
  `AttemptsContiguous`, `RetryCap`, `StatusBackedByRecord` and
  `SuccessIsCaptured`.

None of the four is inductive by itself, because what a process is about to
commit was decided from what it read earlier. `LifecycleInv` adds `Evidence`:
a number to be inserted is at most one past the number of rows and within the
cap or overridden; a process about to write a status has its row or action on
file, or the money captured. The argument then has three parts: only its own
steps change what a process is about to do (`Locality`); rows are only
appended or settled, actions, captures and overrides are only added
(`RowStep`, `Monotone`), so evidence is never lost; and an insert that the
constraint admits takes exactly the next number (`NextNumber`), which gives
both the numbering and the cap.

On top of it:

* `RunnerProofs`: `Ends` and `Finite`, for any faults: every step of a handler
  makes the batch smaller or, with the same batch, lowers `StepsLeft`, which is
  8 at most; no other process raises it. `NeverStuck`: no process reaches a
  place where no step of its own goes on, which takes the reasons of
  notifications (`WebReasons`): one sent for a failed attempt is confirmed,
  and only the executor does that. The three are what the liveness of
  `LifecycleLive` rests on besides fairness.
  `RowsThere`: the rows a runner holds exist. `FollowedUp`: without crashes,
  `FailureFollowedUp`; the strengthening says that a number about to be inserted
  lies past the row that failed, so the insert, or the one that took the
  number, is the later attempt. `Forgotten` (`OnlyCrashForgets`), with crashes
  and any number of runners: a failure gets out of hand only in the step in
  which the runner that follows it up dies. `RowsStay`,
  for any number of runners: no row is removed, renumbered or reopened.
* `LedgerProofs`: with one runner, `Final` (`ResultsFinal`) and `Keeps`
  (`KeepsPromise`, every step a step of the promise or a stutter). The
  strengthening is `ExecutesPending`: the row a runner executes is still
  SCHEDULED, which is exactly what a second runner breaks in `AuditTrail`.
  The same module has what a merchant is told: `CountStays`
  (`CountedForGood`), with one runner: behind every status
  `recovered` there is a row marked SUCCESS, and such a row stays. `AdviceKept`
  (`AdviceStands`), for any processes: rows are never removed, and `RECOVERED`
  is no status of the lifecycle.
* `EngineProofs`: every invariant of `DecisionEngine` (`TypeCorrect`, `Fits`,
  `Fresh`, `Bounded`, `NamesWorst`, `BacksOff`) for any keys, size, lifetime
  and clock and up to three tries, as many as there are back-off delays.
  `Progress` is
  the safety core of `RequestEnds`: every step of a request lowers a rank that
  `2 * MaxTries + 2` bounds. `EngineInv` ties what is under way to what is on
  record: a flag is set exactly for the failures seen, an entry is for its own
  key and as old as its decision, whatever uses it had since. `MeteredRefines` shows that the
  bookkeeping of `Metering` changes no step of the engine, so the invariant
  carries over, and with it `Costs` (`CostsAreTrue`) and `Runs`
  (`RunCountedOnce`).
* `StreamProofs`: `TypeCorrect`, `FeedInOrder` (`InOrder`) and `GapsExplained`
  (`GapsNeedBacklog`), for any clients, capacity and number of events, from an
  invariant about what a client was sent and still has in its queue, taken
  together, and about where a gap lies: when an event was missed, `Capacity` earlier
  ones had been given and not sent, and what was given stays given.
  `NothingWithdrawn`: what a client was given and still has queued is
  only added to. `QueueOfStream`: a stream that is open has its queue, and a
  queue outlives its stream only if the generator was closed before its `try`,
  so that `StreamLeak` shows the only leak.
* `IntakeProofs`: `TypeCorrect`, `OneRow` (`OneRowPerPayment`), `RowsFit` (a row
  is about the payment its event names) and `Keeps` (`KeepsTable`, every step of
  a handler a report or a stutter), for any events, processes, deliveries and
  faults. An insert takes effect although its lookup is old, because the
  constraint on the payment refuses it unless the payment is still absent.
  `TableTrue` draws from the refinement that no payment on file is lost and that
  payments and statuses were reported by events about them.
  `OnFile` and `Acknowledged` mark the boundary of `IntakeHaltRace`: with a
  database that works (an acknowledgement after a failure is the code's
  `router.py:105`), an acknowledged event is on file unless its entity names
  another payment too and several processes serve. The invariant behind it says
  that the key of a row is made of its payment or of an entity that names it,
  that a delivery about to insert holds such a key, free if one process serves,
  and that one about to reply has its payment on file.
* `StoreProofs`: `Evaluated` (`EvaluatedIsServed`), `MetadataBehind`
  (`MetadataNeverAhead`), `Stays` (`EnsembleStays`) and `NoNeedlessFallback`,
  the step on which `PickedUp` rests: a request that finds whole files falls
  back to the rules only if the model refuses its record. For any processes,
  trainings and kills; the invariant says that what is written or being saved
  was evaluated, that no file gets ahead of one that is saved before it, that a
  model is only torn by a training later than the metadata beside it
  (`OwnFiles`), and that a process that has had the model keeps all it needs.
* `TimingProofs`: `TypeCorrect`, `NightsAreQuiet`, `DelaysAreTrue`, `PostponementIsShort`,
  `DeadCardsRest`: the properties of `RetryTiming` for every time and every
  set of reports, from the invariant that an answer is the recommendation for
  its request (`Answered`), the arithmetic of the morning (`MorningTime`) and
  the first place in the table of patterns (`FirstPlace`,
  `DeadCardClassified`).

The assumptions used are the named assumptions on the constants of each module
and, where said, `OneRunner` or the absence of crashes. The operator's
scheduler is the reason for `OneRunner`: the code has no lock that enforces it.

Checked with TLC only: liveness under fairness, which is out of the prover's
reach. These are `EveryAttemptSettles`, `RecoveryConcludes`, `RequestEnds`,
`QueuedIsSent`, `ReleasedFromLoop` and `PickedUp`. For four of them the part that
is safety is proved: `Ends`, `Finite` and `NeverStuck` for the first two,
`Progress` for the third, `NoNeedlessFallback` for the last. That a step is
enabled where one is needed is left to the runs that check liveness. Of the five
properties that fail, what excludes the counterexample is proved for three:
`Final` with one runner for `AuditTrail`, `QueueOfStream` for `StreamLeak`,
`Acknowledged` for `IntakeHaltRace`.

## 5. Not modelled

* The lifecycle with seeded rows (their numbering starts at 2) and with database
  calls that fail: the first is demonstration data; of the second, `Intake` has
  it for webhooks, and in the lifecycle a failing call rolls its block back and
  raises, which ends where `Crash` or `PipelineError` ends.
* `init_db` replaces the engine of the process while other threads may use it
  (`agent/db_writer.py:122`); it runs at start-up and in the demonstration.
* The counts of `GET /stats`, `/metrics`, `/costs` and `/cache`, the sums and
  trends of the analytics, the recoveries counted by `record_retry_execution`:
  sums over rows or counters, without a state of their own.
* The numbers of the ensemble and its features, and the patterns of the error
  texts: numeric data and regular expressions.
* Prompt construction and the texts of notifications: no property is about
  wording.
* Authentication: a stateless check of a header.
* Scripts (demonstrations, import of history, simulation) and the dashboard's
  page: they call what is modelled.
