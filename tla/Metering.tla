------------------------------ MODULE Metering ------------------------------
(***************************************************************************)
(* The bookkeeping around a recovery decision: what a request costs, as    *)
(* the table llm_costs has it, what the cache counts, and what the run of  *)
(* the pipeline around the request adds to METRICS.  Counters are kept as  *)
(* what the request in progress, or the last one, adds to them; requests   *)
(* of one process do not overlap, so the totals are sums of these.         *)
(***************************************************************************)
EXTENDS DecisionEngine

VARIABLES
  open,   \* run_recovery_pipeline is under way
  bill,   \* what the request added to llm_costs and to the cache's counters
  tally   \* what the run added to METRICS

meterVars == <<open, bill, tally>>
allVars == <<vars, meterVars>>

-----------------------------------------------------------------------------
(* Values.                                                                 *)

\* rows: records of llm_costs; lost: records the database refused.
NoBill == [rows |-> 0, lost |-> 0, hits |-> 0, misses |-> 0]

NoTally == [received |-> 0, calls |-> 0, errors |-> 0, failed |-> 0,
            scheduled |-> 0]

One(b) == IF b THEN 1 ELSE 0

\* What a decision may ask for (VALID_ACTIONS).
Actions == {"auto_retry", "suggest_alternate_method", "send_payment_link",
            "notify_customer", "manual_review", "no_action"}

\* Mutant: the outcome is logged apart from the errors, not instead of them.
RunTally_Both(ok, gemini, act, wait) ==
  [received |-> 1, calls |-> One(ok), errors |-> One(gemini),
   failed |-> One(~ ok) + One(act \in {"manual_review", "no_action"}),
   scheduled |-> One(act = "auto_retry" \/ wait)]

\* A run that raised is a failure, and an error of Gemini if its message says
\* so.  Otherwise the decision counts, from the cache or not: as a scheduled
\* retry if it names a delay, whatever was done about it.
RunTally(ok, gemini, act, wait) ==
  LET retries == ok /\ (act = "auto_retry" \/ wait)
      ends == ok /\ ~ retries /\ act \in {"manual_review", "no_action"} IN
  [received |-> 1, calls |-> One(ok), errors |-> One(gemini),
   failed |-> One(~ ok \/ ends), scheduled |-> One(retries)]

-----------------------------------------------------------------------------
(* The steps of the engine, with their bookkeeping.                        *)

\* The pipeline always uses the cache; other callers need not, and record
\* nothing in METRICS.
Begin(k, c) ==
  /\ ~ open
  /\ Request(k, c)
  /\ open' = c
  /\ bill' = NoBill
  /\ tally' = NoTally

\* An expired entry is a miss.
CountedLookup ==
  /\ Lookup
  /\ bill' = [bill EXCEPT !.hits = One(outcome'.cached),
                          !.misses = One(~ outcome'.cached)]
  /\ UNCHANGED <<open, tally>>

\* The cost is recorded before the text is looked at.  An answer without text
\* is one of the errors of CallFails: it is asked for again and not recorded.
BilledAnswer(logged) ==
  /\ CallAnswers
  /\ bill' = [bill EXCEPT !.rows = @ + One(logged), !.lost = @ + One(~ logged)]
  /\ UNCHANGED <<open, tally>>

FreeStep ==
  /\ \/ Store \/ Backoff \/ ParseDecision
     \/ \E a \in Failed, hint \in {{}} \cup {{h} : h \in Hints} : CallFails(a, hint)
  /\ UNCHANGED meterVars

\* The pipeline dispatches the decision, which may raise, and records its run.
\* Every message of the engine's own errors names Gemini.
EndRun ==
  /\ open /\ pc = "idle"
  /\ open' = FALSE
  /\ \E act \in Actions, wait, dispatched \in BOOLEAN :
       LET ok == outcome.kind = "decision" /\ dispatched IN
       tally' = RunTally(ok, outcome.kind = "raised", act, wait)
  /\ UNCHANGED <<vars, bill>>

\* Between requests.  POST /cache/clear is the case of all entries.
Purge == ~ open /\ Invalidate /\ UNCHANGED meterVars

-----------------------------------------------------------------------------
MeteredInit ==
  /\ Init
  /\ open = FALSE /\ bill = NoBill /\ tally = NoTally

MeteredStep ==
  \/ CountedLookup \/ FreeStep \/ EndRun
  \/ \E logged \in BOOLEAN : BilledAnswer(logged)

MeteredNext ==
  \/ \E k \in Keys, c \in BOOLEAN : Begin(k, c)
  \/ MeteredStep
  \/ Purge
  \/ Tick /\ UNCHANGED meterVars

MeteredSpec == MeteredInit /\ [][MeteredNext]_allVars

\* A request that has begun goes on; new requests and time are not fair.
MeteredFairSpec == MeteredSpec /\ WF_allVars(MeteredStep)

-----------------------------------------------------------------------------
(* Properties.                                                             *)

\* The texts this request has been charged for, on file or not.
Charged == bill.rows + bill.lost

\* A request is charged for one text at most, whatever fails and is tried
\* again; for one exactly if Gemini answered, even if the answer was refused,
\* and for none if the decision came from the cache or every call failed.
\* The counters of the cache agree with where the decision came from.
CostsAreTrue ==
  /\ Charged <= 1
  /\ outcome.error \in Failed => Charged = 0
  /\ outcome.error = "parse" => Charged = 1
  /\ outcome.kind = "decision" =>
       /\ Charged = One(~ outcome.cached)
       /\ bill.hits = One(outcome.cached)
       /\ bill.misses = One(useCache /\ ~ outcome.cached)

\* A run of the pipeline is counted to its end once: as a scheduled retry, as
\* a failure, or as neither, and every error of Gemini is also a failure.
RunCountedOnce ==
  tally.received = 1 =>
    /\ tally.scheduled + tally.failed <= 1
    /\ tally.calls + tally.failed >= 1
    /\ tally.errors <= tally.failed
    /\ outcome.kind = "raised" => tally.errors = 1
=============================================================================
