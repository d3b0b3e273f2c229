----------------------------- MODULE TimingProofs -----------------------------
(* The recommendations of RetryTiming, for payments that fail at any time.   *)
EXTENDS RetryTiming, TLAPS

-----------------------------------------------------------------------------
(* Times of day.                                                           *)

\* Six o'clock on the morning of a time is within a day of it, has the hour six,
\* and follows the maintenance window by at most five hours.
LEMMA MorningTime ==
  ASSUME NEW t \in Nat
  PROVE  /\ Morning(t) \in Nat
         /\ HourOf(Morning(t)) = 6
         /\ InMaintenance(t) => Morning(t) \in t .. t + Hours(5)
<1> DEFINE d == t \div 86400
           x == t % 86400
<1>1. /\ d \in Nat /\ x \in 0 .. 86399
      /\ t = 86400 * d + x
  BY SMT
<1>2. Morning(t) = 86400 * d + 21600
  BY <1>1 DEF Morning, Day, Hours
<1>3. HourOf(Morning(t)) = 6
  BY <1>1, <1>2 DEF HourOf, Day, Hours
<1>4. InMaintenance(t) => x \in 3600 .. 14399
  BY <1>1 DEF InMaintenance, HourOf, Day, Hours
<1> QED
  BY <1>1, <1>2, <1>3, <1>4 DEF Hours

-----------------------------------------------------------------------------
(* Classification.                                                         *)

\* Some match comes first.
LEMMA FirstPlace ==
  ASSUME NEW S \in SUBSET (1 .. 7), S # {}
  PROVE  \E i \in S : \A j \in S : i <= j
<1>1. PICK k \in S : TRUE
  OBVIOUS
<1>2. k \in {1, 2, 3, 4, 5, 6, 7}
  BY <1>1
<1>3. CASE 1 \in S
  BY <1>3
<1>4. CASE 1 \notin S /\ 2 \in S
  BY <1>4
<1>5. CASE {1, 2} \cap S = {} /\ 3 \in S
  BY <1>5
<1>6. CASE {1, 2, 3} \cap S = {} /\ 4 \in S
  BY <1>6
<1>7. CASE {1, 2, 3, 4} \cap S = {} /\ 5 \in S
  BY <1>7
<1>8. CASE {1, 2, 3, 4, 5} \cap S = {} /\ 6 \in S
  BY <1>8
<1>9. CASE {1, 2, 3, 4, 5, 6} \cap S = {}
  BY <1>1, <1>2, <1>9
<1> QED
  BY <1>3, <1>4, <1>5, <1>6, <1>7, <1>8, <1>9

\* A text that matches a pattern is named by one of the categories it matches,
\* and by none behind another.
LEMMA NamedMatches ==
  ASSUME NEW t \in Texts, t.names # {}
  PROVE  /\ Named(t) \in t.names
         /\ \E i \in Places(t) :
              /\ Named(t) = Priority[i]
              /\ \A j \in Places(t) : i <= j
<1>1. PICK c \in t.names : c \in Known
  BY DEF Texts
<1>2. c \in {"insufficient_funds", "expired_card", "limit_exceeded",
            "authentication_failed", "card_blocked", "network_timeout",
            "gateway_issue"}
  BY <1>1 DEF Known, Categories, Terminal, Transient, Specific
<1>3. \E i \in 1 .. 7 : Priority[i] = c
  BY <1>2 DEF Priority
<1>4. Places(t) # {} /\ Places(t) \in SUBSET (1 .. 7)
  BY <1>1, <1>3 DEF Places
<1>5. \E i \in Places(t) : \A j \in Places(t) : i <= j
  BY <1>4, FirstPlace
<1> QED
  BY <1>5 DEF Named, Places

LEMMA ClassifyType ==
  ASSUME NEW code \in Texts, NEW reason \in Texts
  PROVE  Classify(code, reason) \in Categories
  BY NamedMatches DEF Classify, Texts, Known, Categories

\* A dead card is recognised as such, whatever comes with it.
LEMMA DeadCardClassified ==
  ASSUME NEW rep \in [code : Texts, reason : Texts], DeadCard(rep)
  PROVE  Category(rep) \in Terminal
<1> DEFINE t == rep.reason
<1>1. t \in Texts
  OBVIOUS
<1>2. CASE t.asReason \in Terminal
  BY <1>2 DEF Category, Classify, Terminal
<1>3. CASE t.asReason \notin Terminal
  <2>1. /\ {t.asReason, rep.code.asCode, rep.code.asReason} = {"none"}
        /\ t.names \cap Terminal # {} /\ t.names \cap Specific = {}
    BY <1>3 DEF DeadCard
  <2>2. Category(rep) = Named(t)
    BY <2>1 DEF Category, Classify
  <2>3. PICK i \in Places(t) : /\ Named(t) = Priority[i]
                               /\ \A j \in Places(t) : i <= j
    BY <1>1, <2>1, NamedMatches
  <2>4. 2 \in Places(t) \/ 5 \in Places(t)
    BY <2>1 DEF Places, Priority, Terminal
  <2>5. i \in 1 .. 7 /\ i <= 5
    BY <2>3, <2>4 DEF Places
  <2>6. i \notin {1, 3, 4}
    BY <2>1, <2>3 DEF Places, Priority, Specific
  <2>7. i \in {2, 5}
    BY <2>5, <2>6
  <2> QED
    BY <2>2, <2>3, <2>7 DEF Priority, Terminal
<1> QED
  BY <1>2, <1>3

-----------------------------------------------------------------------------
(* The recommendation as a function of the request.                        *)

\* A failure that may be retried has a delay of at least a minute.
LEMMA DelayType ==
  ASSUME NEW r \in Requests, r.category \notin Terminal
  PROVE  Delay(r) \in Nat \ {0}
<1>1. r.category \in {"network_timeout", "gateway_issue", "insufficient_funds",
                      "limit_exceeded", "authentication_failed", "unknown"}
  BY DEF Requests, Categories, Transient, Specific
<1>2. \A n \in {1, 2} : BaseDelays[r.category][n] \in Nat \ {0, 1}
  BY <1>1 DEF BaseDelays
<1> QED
  BY <1>2 DEF Delay

\* What a recommendation to wait promises, whatever failed and when: a time
\* outside the maintenance window, no earlier than the delay asks for and less
\* than five hours later, and the delay that leads to it.
Sound(r, a) ==
  /\ a.at \in Nat
  /\ a.delay = (a.at - r.failedAt) \div 60
  /\ a.retryable =>
       /\ HourOf(a.at) \notin {1, 2, 3}
       /\ LET planned == r.failedAt + Minutes(Delay(r))
          IN  a.at \in planned .. planned + Hours(5)

LEMMA RecommendSound ==
  ASSUME NEW r \in Requests
  PROVE  Sound(r, Recommend(r))
<1> USE DEF Recommend
<1>0. r.failedAt \in Nat
  BY DEF Requests
<1>1. CASE Exhausted(r) \/ r.category \in Terminal
  BY <1>0, <1>1 DEF HandOver, Sound
<1>2. CASE ~ Exhausted(r) /\ r.category \notin Terminal
  <2> DEFINE planned == r.failedAt + Minutes(Delay(r))
             a == Schedule(r, RetryableNow(r), Action(r))
  <2>1. Delay(r) \in Nat \ {0} /\ planned \in Nat
    BY <1>0, <1>2, DelayType DEF Minutes
  <2>2. CASE InMaintenance(planned)
    <3>1. a.at = Morning(planned) /\ a.delay = Told(r.failedAt, a.at, Delay(r))
      BY <2>2 DEF Schedule
    <3>2. /\ a.at \in Nat /\ HourOf(a.at) = 6
          /\ a.at \in planned .. planned + Hours(5)
      BY <2>1, <2>2, <3>1, MorningTime
    <3>3. (a.at - r.failedAt) \div 60 >= 1
      BY <1>0, <2>1, <3>2 DEF Minutes
    <3>4. a.delay = (a.at - r.failedAt) \div 60
      <4> DEFINE whole == (a.at - r.failedAt) \div 60
      <4>1. a.delay = IF whole < 1 THEN 1 ELSE whole
        BY <3>1 DEF Told
      <4>2. whole \in Int
        BY <1>0, <3>2
      <4> HIDE DEF a, whole
      <4>3. whole >= 1 => a.delay = whole
        BY <4>1, <4>2
      <4> QED
        BY <3>3, <4>3 DEF whole
    <3> QED
      BY <1>2, <3>2, <3>4 DEF Sound
  <2>3. CASE ~ InMaintenance(planned)
    <3>1. a.at = planned /\ a.delay = Delay(r)
      BY <2>3 DEF Schedule
    <3>2. HourOf(a.at) \notin {1, 2, 3}
      BY <2>3, <3>1 DEF InMaintenance
    <3> QED
      BY <1>0, <1>2, <2>1, <3>1, <3>2 DEF Sound, Minutes, Hours
  <2> QED
    BY <2>2, <2>3
<1> QED
  BY <1>1, <1>2

-----------------------------------------------------------------------------
(* The system.                                                             *)

\* What is given is the recommendation for what was asked.
Answered ==
  /\ report \in [code : Texts, reason : Texts]
  /\ request \in Requests
  /\ request.category = Category(report)
  /\ phase \in {"asked", "waiting", "over"}
  /\ phase = "waiting" => answer.retryable
  /\ phase # "asked" => answer = Recommend(request)

\* A caller that tries again asks a request the predictor knows: it was not
\* told to when the attempts are used up, and the time it was told is a time.
LEMMA AskAgain ==
  ASSUME Answered, FailAgain
  PROVE  /\ report' \in [code : Texts, reason : Texts]
         /\ request' \in Requests
         /\ request'.category = Category(report')
<1>1. /\ report' \in [code : Texts, reason : Texts]
      /\ request' = [request EXCEPT !.category = Category(report'),
                                    !.attempt = @ + 1, !.failedAt = answer.at]
  BY TimingAssumption DEF FailAgain
<1>0. Category(report') \in Categories
  BY <1>1, ClassifyType DEF Category
<1>2. /\ answer = Recommend(request) /\ answer.retryable
      /\ request \in Requests
  BY DEF Answered, FailAgain
<1>3. answer.at \in Nat
  BY <1>2, RecommendSound DEF Sound
<1>4. request.attempt + 1 \in 1 .. MaxRetries
  BY <1>2, TimingAssumption DEF Recommend, Exhausted, HandOver, Requests
<1> QED
  BY <1>0, <1>1, <1>2, <1>3, <1>4 DEF Requests

LEMMA Inductive == Spec => []Answered
<1> USE TimingAssumption
<1>1. Init => Answered
  <2>1. 1 \in 1 .. MaxRetries
    OBVIOUS
  <2>2. \A rep \in Reports : /\ rep \in [code : Texts, reason : Texts]
                            /\ Category(rep) \in Categories
    BY ClassifyType DEF Category
  <2>3. Init => request \in Requests /\ request.category = Category(report)
    BY <2>1, <2>2 DEF Init, Requests
  <2> QED
    BY <2>2, <2>3 DEF Init, Answered
<1>2. Answered /\ [Next]_vars => Answered'
  <2> SUFFICES ASSUME Answered, [Next]_vars
               PROVE  Answered'
    OBVIOUS
  <2>1. CASE Predict
    BY <2>1 DEF Predict, Answered
  <2>2. CASE FailAgain
    BY <2>2, AskAgain DEF FailAgain, Answered
  <2>3. CASE UNCHANGED vars
    BY <2>3 DEF Answered, vars
  <2> QED
    BY <2>1, <2>2, <2>3 DEF Next
<1> QED
  BY <1>1, <1>2, PTL DEF Spec

\* What a recommendation consists of.
Answers == [at : Nat, delay : Nat, retryable : BOOLEAN, action : Actions,
            avoided : BOOLEAN]

LEMMA HandOverType ==
  ASSUME NEW r \in Requests, NEW action \in Actions
  PROVE  HandOver(r, action) \in Answers
BY DEF HandOver, Answers, Requests

\* The categories that are left have an action, and the morning is never
\* before the failure.
LEMMA RecommendType ==
  ASSUME NEW r \in Requests
  PROVE  Recommend(r) \in Answers
<1>1. CASE Exhausted(r) \/ r.category \in Terminal
  BY <1>1, HandOverType DEF Recommend, Actions
<1>2. CASE ~ Exhausted(r) /\ r.category \notin Terminal
  <2> DEFINE a == Schedule(r, RetryableNow(r), Action(r))
             planned == r.failedAt + Minutes(Delay(r))
  <2>1. a = Recommend(r)
    BY <1>2 DEF Recommend
  <2>2. a.at \in Nat
    BY <2>1, RecommendSound DEF Sound
  <2>3. r.category \in {"network_timeout", "gateway_issue", "insufficient_funds",
                       "limit_exceeded", "authentication_failed", "unknown"}
    BY <1>2 DEF Requests, Categories, Transient, Specific
  <2>4. Action(r) \in Actions
    BY <2>3 DEF Action, Actions, Transient
  <2>5. Delay(r) \in Nat \ {0} /\ r.failedAt \in Nat
    BY <1>2, DelayType DEF Requests
  <2>6. Told(r.failedAt, Morning(planned), Delay(r)) \in Nat
    <3>1. planned \in Nat
      BY <2>5 DEF Minutes
    <3>2. Morning(planned) \in Nat
      BY <3>1, MorningTime
    <3> DEFINE whole == (Morning(planned) - r.failedAt) \div 60
    <3>3. whole \in Int
      BY <2>5, <3>2
    <3> HIDE DEF whole
    <3>4. (IF whole < 1 THEN 1 ELSE whole) \in Nat
      BY <3>3
    <3>. QED
      BY <3>4 DEF whole, Told
  <2>7. RetryableNow(r) \in BOOLEAN /\ InMaintenance(planned) \in BOOLEAN
    BY DEF RetryableNow, InMaintenance
  <2>8. a = [at |-> a.at,
             delay |-> IF InMaintenance(planned)
                       THEN Told(r.failedAt, Morning(planned), Delay(r))
                       ELSE Delay(r),
             retryable |-> RetryableNow(r), action |-> Action(r),
             avoided |-> InMaintenance(planned)]
    BY DEF Schedule
  <2>. QED
    BY <2>1, <2>2, <2>4, <2>5, <2>6, <2>7, <2>8 DEF Answers
<1>. QED
  BY <1>1, <1>2

\* Requests, recommendations and phases have their types; no payment is tried
\* more than MaxRetries times.
THEOREM TypeCorrect == Spec => []TypeOK
<1> DEFINE Inv == report \in Reports /\ answer \in Answers
<1>1. Init => Inv
  <2>1. Init => request \in Requests
    <3>1. 1 \in 1 .. MaxRetries
      BY TimingAssumption
    <3>2. \A rep \in Reports : Category(rep) \in Categories
      BY TimingAssumption, ClassifyType DEF Category
    <3>. QED
      BY <3>1, <3>2, TimingAssumption DEF Init, Requests
  <2>. QED
    BY <2>1, HandOverType DEF Init, Actions
<1>2. Inv /\ Answered /\ [Next]_vars => Inv'
  BY RecommendType DEF Answered, Next, Predict, FailAgain, vars
<1>3. Inv /\ Answered => TypeOK
  BY DEF Answered, Answers, TypeOK
<1>. QED
  BY <1>1, <1>2, <1>3, Inductive, PTL DEF Spec

\* No attempt is scheduled between one and four in the morning in India.
THEOREM NightsAreQuiet == Spec => []OutsideMaintenance
<1>1. Answered => OutsideMaintenance
  BY RecommendSound DEF Answered, OutsideMaintenance, Sound
<1> QED
  BY <1>1, Inductive, PTL

\* The delay of a recommendation is the time from the failure to the attempt.
THEOREM DelaysAreTrue == Spec => []DelayIsTrue
<1>1. Answered => DelayIsTrue
  BY RecommendSound DEF Answered, DelayIsTrue, Sound
<1> QED
  BY <1>1, Inductive, PTL

\* The maintenance window postpones an attempt, by less than five hours, and
\* never brings it forward.
THEOREM PostponementIsShort == Spec => []PostponedLittle
<1>1. Answered => PostponedLittle
  BY RecommendSound DEF Answered, PostponedLittle, Sound
<1> QED
  BY <1>1, Inductive, PTL

\* A payment whose card is blocked or expired is not tried again, whatever its
\* code says and whatever else its reason mentions.
THEOREM DeadCardsRest == Spec => []DeadCardNotRetried
<1>1. Answered => DeadCardNotRetried
  <2> SUFFICES ASSUME Answered, phase = "waiting", DeadCard(report)
               PROVE  FALSE
    BY DEF DeadCardNotRetried
  <2>1. request.category \in Terminal
    BY DeadCardClassified DEF Answered
  <2>2. answer = Recommend(request) /\ answer.retryable
    BY DEF Answered
  <2> QED
    BY <2>1, <2>2 DEF Recommend, HandOver
<1> QED
  BY <1>1, Inductive, PTL
=============================================================================
