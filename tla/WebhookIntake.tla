---------------------------- MODULE WebhookIntake ----------------------------
(***************************************************************************)
(* How a Razorpay event becomes a row of `transactions`: the webhook       *)
(* handler checks the signature, normalises the payload and saves what it  *)
(* describes, while other processes do the same for other deliveries.      *)
(* Razorpay delivers an event as often and as late as it pleases.          *)
(***************************************************************************)
EXTENDS Naturals, FiniteSets

CONSTANTS
  Procs,          \* server processes
  Events,         \* events of Razorpay, as defined by IsEvent
  Ids,            \* identifiers of payments, subscriptions and invoices
  NoId,           \* an identifier that is missing in a payload
  NoEvent,        \* the event of a process that has none
  Secret,         \* is RAZORPAY_WEBHOOK_SECRET configured?
  Simulation,     \* SIMULATION_MODE
  DatabaseFails,  \* may a database operation fail?
  MaxDeliveries   \* bound on the deliveries of one event

Failures == {"payment.failed", "subscription.halted", "invoice.overdue"}

\* What the handler depends on in a payload: the type of the event, the
\* identifier of its entity, the payment bundled with a halted subscription,
\* the status of the entity, whether there is an entity and a positive amount,
\* and whether the notes are a dictionary (Razorpay sends a list when there are
\* none).  "invoice.expired" is handled like "invoice.overdue"; "other" stands
\* for every event that is no failure.
IsEvent(e) ==
  /\ e.type \in Failures \cup {"other"}
  /\ e.id \in Ids \cup {NoId} /\ e.bundled \in Ids \cup {NoId}
  /\ e.type # "subscription.halted" => e.bundled = NoId
  /\ {e.entity, e.charged, e.noted} \subseteq BOOLEAN

ASSUME IntakeAssumption ==
  /\ \A e \in Events : IsEvent(e)
  /\ NoEvent \notin Events /\ NoId \notin Ids
  /\ \A e \in Events, n \in 1 .. MaxDeliveries : <<"unknown", e, n>> \notin Ids
  /\ {Secret, Simulation, DatabaseFails} \subseteq BOOLEAN
  /\ MaxDeliveries \in Nat

VARIABLES
  rows,        \* transactions: primary key -> [payment, status, from]
  pc,          \* what each process does next
  job,         \* the delivery a process handles
  deliveries,  \* how often each event was delivered
  answers      \* the HTTP statuses each event was answered with

vars == <<rows, pc, job, deliveries, answers>>

-----------------------------------------------------------------------------
(* Payloads.                                                               *)

Signatures == {"none", "valid", "wrong"}

\* In simulation mode a delivery without a signature is let through; any other
\* needs the secret and a signature made with it.
Verified(sig) == \/ Simulation /\ sig = "none"
                 \/ Secret /\ sig = "valid"

Refusal == IF Secret THEN 400 ELSE 500

\* Looking for the customer's name in the notes of a payment takes them for a
\* dictionary, though the lines above it do not.
Breaks(e) == e.type = "payment.failed" /\ e.entity /\ ~ e.noted

\* Refused by a ValueError, of the normalizer or of the event's own checks.
Invalid(e) == \/ e.type \in Failures /\ ~ e.entity
              \/ ~ e.charged

\* An entity without an identifier gets one made up for this delivery.
EntityId(e, n) == IF e.id = NoId THEN <<"unknown", e, n>> ELSE e.id

\* Mutant: the entity identifies the payment, also for a subscription.
Payment_Entity(e, n) == EntityId(e, n)

\* razorpay_payment_id: the payment of the event, or else its entity.
Payment(e, n) == IF e.bundled # NoId THEN e.bundled ELSE EntityId(e, n)

StatusOf(e) ==
  CASE e.type = "payment.failed"      -> "FAILED"
    [] e.type = "subscription.halted" -> "HALTED"
    [] e.type = "invoice.overdue"     -> "OVERDUE"
    [] OTHER                          -> e.status

-----------------------------------------------------------------------------
(* The table.                                                              *)

Held(pay) == {k \in DOMAIN rows : rows[k].payment = pay}

\* Mutant: the lookup before it is all that keeps a payment from a second row.
Taken_Never(pay) == FALSE

\* The uniqueness constraint of razorpay_payment_id refuses the payment.
Taken(pay) == Held(pay) # {}

\* The primary key for a new row: the entity's, or when that is taken one made
\* of the payment and the time.
NewKey(id, pay) == IF <<"tx", id>> \in DOMAIN rows THEN <<"tx", pay, "now">>
                                                   ELSE <<"tx", id>>

-----------------------------------------------------------------------------
(* The handler.                                                            *)

Idle == [event |-> NoEvent, nth |-> 0, pk |-> <<>>]

Answer(p, code) ==
  /\ answers' = [answers EXCEPT ![job[p].event] = @ \cup {code}]
  /\ pc' = [pc EXCEPT ![p] = "idle"]
  /\ job' = [job EXCEPT ![p] = Idle]

Goto(p, label) ==
  /\ pc' = [pc EXCEPT ![p] = label]
  /\ UNCHANGED answers

\* A delivery arrives; without a good signature it is refused at once.
Receive(p, e, sig) ==
  /\ pc[p] = "idle"
  /\ deliveries[e] < MaxDeliveries
  /\ deliveries' = [deliveries EXCEPT ![e] = @ + 1]
  /\ \/ /\ Verified(sig)
        /\ job' = [job EXCEPT ![p] = [Idle EXCEPT !.event = e,
                                                  !.nth = deliveries[e] + 1]]
        /\ Goto(p, "normalize")
     \/ /\ ~ Verified(sig)
        /\ answers' = [answers EXCEPT ![e] = @ \cup {Refusal}]
        /\ UNCHANGED <<pc, job>>
  /\ UNCHANGED rows

\* Mutant: what the payload says is not checked.
Normalize_Unchecked(p) ==
  /\ pc[p] = "normalize"
  /\ \/ Breaks(job[p].event) /\ Answer(p, 500)
     \/ ~ Breaks(job[p].event) /\ Goto(p, "lookup") /\ UNCHANGED job
  /\ UNCHANGED <<rows, deliveries>>

\* A payload that cannot be normalised is answered with an error.
Normalize(p) ==
  /\ pc[p] = "normalize"
  /\ LET e == job[p].event IN
       \/ Breaks(e) /\ Answer(p, 500)
       \/ ~ Breaks(e) /\ Invalid(e) /\ Answer(p, 422)
       \/ ~ Breaks(e) /\ ~ Invalid(e) /\ Goto(p, "lookup") /\ UNCHANGED job
  /\ UNCHANGED <<rows, deliveries>>

\* A payment on file takes the status of the event; for another one a primary
\* key is chosen.
Lookup(p) ==
  /\ pc[p] = "lookup"
  /\ LET e == job[p].event
         pay == Payment(e, job[p].nth)
     IN  \/ \E k \in Held(pay) :
              /\ rows' = [rows EXCEPT ![k].status = StatusOf(e)]
              /\ Goto(p, "reply") /\ UNCHANGED job
         \/ /\ Held(pay) = {}
            /\ job' = [job EXCEPT ![p].pk = NewKey(EntityId(e, job[p].nth), pay)]
            /\ Goto(p, "insert") /\ UNCHANGED rows
  /\ UNCHANGED deliveries

\* Another process may have inserted the payment since, and its row is used; or
\* another payment under the same key: then the error is logged and forgotten.
Insert(p) ==
  /\ pc[p] = "insert"
  /\ LET e == job[p].event
         pay == Payment(e, job[p].nth)
         pk == job[p].pk
     IN  \/ /\ Taken(pay) \/ pk \in DOMAIN rows
            /\ UNCHANGED rows
         \/ /\ ~ Taken(pay) /\ pk \notin DOMAIN rows
            /\ rows' = [k \in DOMAIN rows \cup {pk} |->
                          IF k = pk THEN [payment |-> pay, from |-> e,
                                          status |-> StatusOf(e)]
                                    ELSE rows[k]]
  /\ Goto(p, "reply")
  /\ UNCHANGED <<job, deliveries>>

\* So is any other error of the database.
FailToSave(p) ==
  /\ DatabaseFails /\ pc[p] \in {"lookup", "insert"}
  /\ Goto(p, "reply")
  /\ UNCHANGED <<rows, job, deliveries>>

\* Success is answered whether or not the event was saved.
Reply(p) ==
  /\ pc[p] = "reply"
  /\ Answer(p, 200)
  /\ UNCHANGED <<rows, deliveries>>

\* A process dies before it answered.
Crash(p) ==
  /\ pc[p] # "idle"
  /\ Goto(p, "idle")
  /\ job' = [job EXCEPT ![p] = Idle]
  /\ UNCHANGED <<rows, deliveries>>

-----------------------------------------------------------------------------
Init ==
  /\ rows = [k \in {} |-> {}]
  /\ pc = [p \in Procs |-> "idle"]
  /\ job = [p \in Procs |-> Idle]
  /\ deliveries = [e \in Events |-> 0]
  /\ answers = [e \in Events |-> {}]

Next ==
  \E p \in Procs :
    \/ \E e \in Events, sig \in Signatures : Receive(p, e, sig)
    \/ Normalize(p) \/ Lookup(p) \/ Insert(p) \/ FailToSave(p)
    \/ Reply(p) \/ Crash(p)

Spec == Init /\ [][Next]_vars

-----------------------------------------------------------------------------
(* Properties.                                                             *)

\* Rows hold events that passed the normalizer, and a process past it handles
\* one: what the handler goes on with is never a refused payload.
TypeOK ==
  /\ \A k \in DOMAIN rows : rows[k].from \in Events /\ ~ Invalid(rows[k].from)
  /\ \A p \in Procs :
       /\ pc[p] \in {"idle", "normalize", "lookup", "insert", "reply"}
       /\ pc[p] = "idle" <=> job[p] = Idle
       /\ pc[p] # "idle" => job[p].event \in Events
       /\ pc[p] \in {"lookup", "insert", "reply"} => ~ Invalid(job[p].event)
  /\ \A e \in Events : /\ deliveries[e] \in 0 .. MaxDeliveries
                       /\ answers[e] \subseteq {200, 400, 422, 500}

\* However often, late or concurrently its events are delivered, a payment has
\* one row (the deduplication on razorpay_payment_id promised by
\* save_transaction).
OneRowPerPayment ==
  \A j, k \in DOMAIN rows : rows[j].payment = rows[k].payment => j = k

\* What a delivery of e is about, whichever delivery it was.
About(e) == {Payment(e, n) : n \in 1 .. deliveries[e]}

\* An event answered with success has its payment on file: Razorpay does not
\* send it again, so nobody else will put it there.
AcknowledgedOnFile ==
  \A e \in Events :
    200 \in answers[e] => \E pay \in About(e) : Held(pay) # {}
=============================================================================
