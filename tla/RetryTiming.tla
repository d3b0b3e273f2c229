----------------------------- MODULE RetryTiming -----------------------------
(***************************************************************************)
(* When a failed payment should be tried again: RetryTimingPredictor.      *)
(* A payment fails, the predictor is asked, and a caller that follows the  *)
(* recommendation tries again at the time it names.  Times are seconds     *)
(* since a midnight in India; delays are minutes, as in the code.          *)
(***************************************************************************)
EXTENDS Integers, Classification

CONSTANTS
  MaxRetries,  \* the predictor's max_retries (3 by default)
  Times,       \* when the payment may fail first
  Reports      \* error codes and reasons a failure may come with

ASSUME TimingAssumption ==
  /\ MaxRetries \in Nat \ {0}
  /\ Times \subseteq Nat
  /\ Reports \subseteq [code : Texts, reason : Texts]

VARIABLES
  report,   \* what Razorpay said of the failure
  request,  \* the arguments of predict()
  answer,   \* the recommendation
  phase     \* "asked", "waiting" for the time named, or "over"

vars == <<report, request, answer, phase>>

-----------------------------------------------------------------------------
(* Failures and times.                                                     *)

Methods == {"upi", "netbanking", "other"}

\* `large`: the amount exceeds 10000 rupees.
Requests == [category : Categories, attempt : 1 .. MaxRetries, method : Methods,
             large : BOOLEAN, subscription : BOOLEAN, failedAt : Nat]

Minutes(n) == 60 * n
Hours(n) == 3600 * n
Day == Hours(24)
HourOf(t) == (t % Day) \div Hours(1)

BaseDelays ==
  [network_timeout |-> <<5, 30>>, gateway_issue |-> <<15, 60>>,
   insufficient_funds |-> <<240, 480>>, limit_exceeded |-> <<720, 1440>>,
   authentication_failed |-> <<15, 60>>, unknown |-> <<30, 90>>]

\* The delay in minutes before any regard for maintenance.
Delay(r) ==
  LET nth == IF r.attempt = 1 THEN 1 ELSE 2
      base == BaseDelays[r.category][nth]
  IN  CASE r.category = "insufficient_funds" /\ r.large -> (base * 3) \div 2
        [] r.category = "network_timeout" /\ r.method = "upi" -> <<5, 20>>[nth]
        [] r.category \in Transient /\ r.method = "netbanking" -> <<20, 60>>[nth]
        [] OTHER -> base

\* Mutant: the hour is taken in UTC.
InMaintenance_UTC(t) == HourOf(t - Minutes(330)) \in 1 .. 3

InMaintenance(t) == HourOf(t) \in 1 .. 3

\* Mutant: six o'clock of the day after.
Morning_NextDay(t) == (t - (t % Day)) + Hours(30)

\* Six o'clock on the morning of t.
Morning(t) == (t - (t % Day)) + Hours(6)

\* Mutant: the planned delay is reported although the time was moved.
Told_Planned(from, at, planned) == planned

Told(from, at, planned) ==
  LET whole == (at - from) \div 60 IN IF whole < 1 THEN 1 ELSE whole

-----------------------------------------------------------------------------
(* The recommendation.                                                     *)

\* No retry: a person, or the customer with another method, takes over at once.
HandOver(r, action) ==
  [at |-> r.failedAt, delay |-> 0, retryable |-> FALSE, action |-> action,
   avoided |-> FALSE]

Schedule(r, retryable, action) ==
  LET planned == r.failedAt + Minutes(Delay(r))
      at == IF InMaintenance(planned) THEN Morning(planned) ELSE planned
  IN  [at |-> at,
       delay |-> IF InMaintenance(planned)
                 THEN Told(r.failedAt, at, Delay(r)) ELSE Delay(r),
       retryable |-> retryable, action |-> action,
       avoided |-> InMaintenance(planned)]

\* A one-time password needs the customer, a limit another payment method,
\* unless the payment belongs to a subscription.
RetryableNow(r) ==
  /\ r.category # "authentication_failed"
  /\ r.category = "limit_exceeded" => r.subscription

Action(r) ==
  CASE r.category = "limit_exceeded" ->
         IF r.subscription THEN "AUTO_RETRY" ELSE "ALTERNATE_METHOD"
    [] r.category = "insufficient_funds" ->
         IF r.subscription THEN "AUTO_RETRY" ELSE "SEND_PAYMENT_LINK"
    [] r.category \in Transient -> "AUTO_RETRY"
    [] r.category \in {"authentication_failed", "unknown"} -> "SEND_PAYMENT_LINK"

\* Mutant: one attempt too many.
Exhausted_OffByOne(r) == r.attempt > MaxRetries

Exhausted(r) == r.attempt >= MaxRetries

Recommend(r) ==
  IF Exhausted(r) THEN HandOver(r, "MANUAL_REVIEW_REQUIRED")
  ELSE IF r.category \in Terminal THEN HandOver(r, "ALTERNATE_METHOD")
  ELSE Schedule(r, RetryableNow(r), Action(r))

-----------------------------------------------------------------------------
Category(rep) == Classify(rep.code, rep.reason)

Init ==
  /\ report \in Reports
  /\ request \in [category : {Category(report)}, attempt : {1},
                  method : Methods, large : BOOLEAN, subscription : BOOLEAN,
                  failedAt : Times]
  /\ answer = HandOver(request, "none")
  /\ phase = "asked"

Predict ==
  /\ phase = "asked"
  /\ answer' = Recommend(request)
  /\ phase' = IF answer'.retryable THEN "waiting" ELSE "over"
  /\ UNCHANGED <<report, request>>

\* The caller tries again when it was told to, and the payment fails again,
\* perhaps for another reason.
FailAgain ==
  /\ phase = "waiting"
  /\ report' \in Reports
  /\ request' = [request EXCEPT !.category = Category(report'),
                                !.attempt = @ + 1, !.failedAt = answer.at]
  /\ phase' = "asked"
  /\ UNCHANGED answer

Next == Predict \/ FailAgain

Spec == Init /\ [][Next]_vars

-----------------------------------------------------------------------------
(* Properties.                                                             *)

Actions == {"none", "MANUAL_REVIEW_REQUIRED", "ALTERNATE_METHOD", "AUTO_RETRY",
            "SEND_PAYMENT_LINK"}

\* Every variable has its type; no payment is tried more than MaxRetries times.
TypeOK ==
  /\ report \in Reports
  /\ request \in Requests
  /\ answer \in [at : Nat, delay : Nat, retryable : BOOLEAN, action : Actions,
                 avoided : BOOLEAN]
  /\ phase \in {"asked", "waiting", "over"}

\* No attempt is ever scheduled between one and four in the morning in India,
\* not even one that follows a postponed one.
OutsideMaintenance ==
  phase = "waiting" => HourOf(answer.at) \notin {1, 2, 3}

\* A recommendation names a time and a delay, and they agree: the delay is the
\* time from the failure to the attempt in whole minutes.
DelayIsTrue ==
  phase # "asked" => answer.delay = (answer.at - request.failedAt) \div 60

\* An attempt is never earlier than the delay of its category asks for, and
\* the maintenance window postpones it by less than five hours.
PostponedLittle ==
  phase = "waiting" =>
    LET planned == request.failedAt + Minutes(Delay(request))
    IN  answer.at \in planned .. planned + Hours(5)

\* The card is blocked or has expired: the reason says so by itself, or among
\* other words, with nothing that is more certain or more specific.
DeadCard(rep) ==
  \/ rep.reason.asReason \in Terminal
  \/ /\ {rep.reason.asReason, rep.code.asCode, rep.code.asReason} = {"none"}
     /\ rep.reason.names \cap Terminal # {}
     /\ rep.reason.names \cap Specific = {}

\* A payment with such a card is not tried again, whatever its code says and
\* however much else its reason mentions, such as a timeout.
DeadCardNotRetried == phase = "waiting" => ~ DeadCard(report)
=============================================================================
