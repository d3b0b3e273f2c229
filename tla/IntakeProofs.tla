---------------------------- MODULE IntakeProofs ----------------------------
(***************************************************************************)
(* What is on file, whatever the events, processes, deliveries and faults: *)
(* one row for each payment, from events about it, changed as if each      *)
(* report took effect at once.  And when an acknowledged event is on file. *)
(***************************************************************************)
EXTENDS IntakeRefinement, TLAPS

\* A step that leaves keys and payments alone, as an update of a status does,
\* keeps the rows apart.
LEMMA SamePayments ==
  ASSUME OneRowPerPayment,
         DOMAIN rows' = DOMAIN rows,
         \A k \in DOMAIN rows : rows'[k].payment = rows[k].payment
  PROVE  OneRowPerPayment'
  BY DEF OneRowPerPayment

\* An insert adds at most one row, for a payment that has none: that is what the
\* uniqueness constraint sees to.
LEMMA InsertKeepsApart ==
  ASSUME OneRowPerPayment, NEW p \in Procs, Insert(p)
  PROVE  OneRowPerPayment'
<1> DEFINE pay == Payment(job[p].event, job[p].nth)
           pk == job[p].pk
<1>1. CASE UNCHANGED rows
  BY <1>1 DEF OneRowPerPayment
<1>2. CASE ~ UNCHANGED rows
  <2>1. /\ \A k \in DOMAIN rows : rows[k].payment # pay
        /\ pk \notin DOMAIN rows
        /\ rows' = [k \in DOMAIN rows \cup {pk} |->
                      IF k = pk THEN [payment |-> pay, from |-> job[p].event,
                                      status |-> StatusOf(job[p].event)]
                                ELSE rows[k]]
    BY <1>2 DEF Insert, Taken, Held
  <2>2. /\ DOMAIN rows' = DOMAIN rows \cup {pk}
        /\ rows'[pk].payment = pay
        /\ \A k \in DOMAIN rows : rows'[k].payment = rows[k].payment
    BY <2>1
  <2> QED
    BY <2>1, <2>2 DEF OneRowPerPayment
<1> QED
  BY <1>1, <1>2

\* However often, late or concurrently its events are delivered, a payment has
\* one row (save_transaction).
THEOREM OneRow == Spec => []OneRowPerPayment
<1>1. Init => OneRowPerPayment
  BY DEF Init, OneRowPerPayment
<1>2. OneRowPerPayment /\ [Next]_vars => OneRowPerPayment'
  <2> SUFFICES ASSUME OneRowPerPayment, [Next]_vars
               PROVE  OneRowPerPayment'
    OBVIOUS
  <2>1. CASE UNCHANGED rows
    BY <2>1 DEF OneRowPerPayment
  <2>2. ASSUME NEW p \in Procs, Lookup(p)
        PROVE  OneRowPerPayment'
    <3>1. CASE UNCHANGED rows
      BY <3>1 DEF OneRowPerPayment
    <3>2. CASE ~ UNCHANGED rows
      <4>1. PICK k \in DOMAIN rows :
              rows' = [rows EXCEPT ![k].status = StatusOf(job[p].event)]
        BY <2>2, <3>2 DEF Lookup, Held
      <4>2. \A j \in DOMAIN rows : rows'[j].payment = rows[j].payment
        BY <4>1
      <4> QED
        BY <4>1, <4>2, SamePayments
    <3> QED
      BY <3>1, <3>2
  <2>3. ASSUME NEW p \in Procs, Insert(p)
        PROVE  OneRowPerPayment'
    BY <2>3, InsertKeepsApart
  <2>4. ASSUME NEW p \in Procs,
               \/ \E e \in Events, sig \in Signatures : Receive(p, e, sig)
               \/ Normalize(p) \/ FailToSave(p) \/ Reply(p) \/ Crash(p)
        PROVE  UNCHANGED rows
    BY <2>4 DEF Receive, Normalize, FailToSave, Reply, Crash
  <2> QED
    BY <2>1, <2>2, <2>3, <2>4 DEF Next, vars
<1> QED
  BY <1>1, <1>2, PTL DEF Spec

-----------------------------------------------------------------------------
(* Only what passed the normalizer is on file.                             *)

Places == {"idle", "normalize", "lookup", "insert", "reply"}

\* A process past the check of the signature holds an event and its number.
Handles(p) ==
  /\ job[p] = [event |-> job[p].event, nth |-> job[p].nth, pk |-> job[p].pk]
  /\ job[p].event \in Events
  /\ job[p].nth \in 1 .. MaxDeliveries
  /\ pc[p] \in {"lookup", "insert", "reply"} => job[p].event \in Accepted

\* A row is of an event that is not refused, and of the payment of that event.
RowOf(r) == r.from \in Accepted /\ r.payment \in PaymentsOf(r.from)

Codes == {200, 400, 422, 500}

IntakeInv ==
  /\ pc \in [Procs -> Places]
  /\ DOMAIN job = Procs
  /\ \A p \in Procs : IF pc[p] = "idle" THEN job[p] = Idle ELSE Handles(p)
  /\ deliveries \in [Events -> 0 .. MaxDeliveries]
  /\ answers \in [Events -> SUBSET Codes]
  /\ \A k \in DOMAIN rows : RowOf(rows[k])

\* What is accepted is what the normalizer neither refuses nor breaks on.
LEMMA Acceptance ==
  ASSUME NEW e \in Events
  PROVE  e \in Accepted <=> ~ Invalid(e) /\ ~ Breaks(e)
BY IntakeAssumption DEF IsEvent, Accepted, Invalid, Breaks, Failures

\* The payment of a delivery is one its event names, or has a name of its own.
LEMMA PaymentOf ==
  ASSUME NEW e \in Events, NEW n \in 1 .. MaxDeliveries
  PROVE  Payment(e, n) \in PaymentsOf(e)
BY DEF Payment, EntityId, PaymentsOf, NamedBy

LEMMA RowsKept ==
  ASSUME IntakeInv, NEW p \in Procs, Lookup(p) \/ Insert(p)
  PROVE  \A k \in DOMAIN rows' : RowOf(rows'[k])
<1> DEFINE e == job[p].event
           pay == Payment(e, job[p].nth)
<1>1. /\ e \in Events /\ e \in Accepted /\ job[p].nth \in 1 .. MaxDeliveries
      /\ \A k \in DOMAIN rows : RowOf(rows[k])
  BY DEF IntakeInv, Handles, Lookup, Insert
<1>2. CASE UNCHANGED rows
  BY <1>1, <1>2
<1>3. ASSUME NEW k \in DOMAIN rows, rows' = [rows EXCEPT ![k].status = StatusOf(e)]
      PROVE  \A j \in DOMAIN rows' : RowOf(rows'[j])
  <2>1. /\ DOMAIN rows' = DOMAIN rows
        /\ \A j \in DOMAIN rows : /\ rows'[j].from = rows[j].from
                                  /\ rows'[j].payment = rows[j].payment
    BY <1>3
  <2>. QED
    BY <1>1, <2>1 DEF RowOf
<1>4. ASSUME NEW pk,
             rows' = [k \in DOMAIN rows \cup {pk} |->
                        IF k = pk THEN [payment |-> pay, from |-> e,
                                        status |-> StatusOf(e)]
                                  ELSE rows[k]]
      PROVE  \A k \in DOMAIN rows' : RowOf(rows'[k])
  <2>1. RowOf([payment |-> pay, from |-> e, status |-> StatusOf(e)])
    BY <1>1, PaymentOf DEF RowOf
  <2>. QED
    BY <1>1, <1>4, <2>1
<1>. QED
  BY <1>2, <1>3, <1>4 DEF Lookup, Insert, Held

LEMMA IntakeStep == IntakeInv /\ [Next]_vars => IntakeInv'
<1> SUFFICES ASSUME IntakeInv, [Next]_vars
             PROVE  IntakeInv'
  OBVIOUS
<1> USE DEF Places, Codes, Handles
<1>1. ASSUME NEW p \in Procs, NEW ev \in Events, NEW sig \in Signatures,
             Receive(p, ev, sig)
      PROVE  IntakeInv'
  <2>1. /\ deliveries[ev] + 1 \in 1 .. MaxDeliveries
        /\ deliveries' = [deliveries EXCEPT ![ev] = @ + 1] /\ UNCHANGED rows
    BY <1>1, IntakeAssumption DEF Receive, IntakeInv
  <2>2. deliveries' \in [Events -> 0 .. MaxDeliveries]
    BY <2>1 DEF IntakeInv
  <2>3. CASE UNCHANGED <<pc, job>>
    BY <1>1, <2>1, <2>2, <2>3 DEF Receive, Goto, Refusal, IntakeInv
  <2>4. CASE ~ UNCHANGED <<pc, job>>
    <3>1. /\ job' = [job EXCEPT ![p] = [Idle EXCEPT !.event = ev,
                                                 !.nth = deliveries[ev] + 1]]
          /\ pc' = [pc EXCEPT ![p] = "normalize"] /\ UNCHANGED answers
      BY <1>1, <2>4 DEF Receive, Goto
    <3>2. job'[p] = [event |-> ev, nth |-> deliveries[ev] + 1, pk |-> <<>>]
      BY <3>1 DEF Idle, IntakeInv
    <3>3. Handles(p)' /\ pc'[p] = "normalize"
      <4>1. pc'[p] = "normalize"
        BY <3>1 DEF IntakeInv
      <4>2. /\ job'[p].event = ev /\ job'[p].nth = deliveries[ev] + 1
            /\ job'[p].pk = <<>>
        BY <3>2
      <4>. QED
        BY <2>1, <3>2, <4>1, <4>2
    <3>4. \A q \in Procs \ {p} : job'[q] = job[q] /\ pc'[q] = pc[q]
      BY <3>1 DEF IntakeInv
    <3>5. \A q \in Procs : IF pc'[q] = "idle" THEN job'[q] = Idle ELSE Handles(q)'
      BY <3>3, <3>4 DEF IntakeInv
    <3>6. pc' \in [Procs -> Places] /\ DOMAIN job' = Procs
      BY <3>1 DEF IntakeInv
    <3>. QED
      BY <2>1, <2>2, <3>1, <3>5, <3>6 DEF IntakeInv
  <2>. QED
    BY <2>3, <2>4
<1>2. ASSUME NEW p \in Procs, NEW code \in Codes, Answer(p, code), pc[p] # "idle",
             UNCHANGED <<rows, deliveries>>
      PROVE  IntakeInv'
  <2>1. job[p].event \in Events
    BY <1>2 DEF IntakeInv
  <2>2. answers' \in [Events -> SUBSET Codes]
    BY <1>2, <2>1 DEF Answer, IntakeInv
  <2>. QED
    BY <1>2, <2>2 DEF Answer, IntakeInv
<1>3. ASSUME NEW p \in Procs, Normalize(p)
      PROVE  IntakeInv'
  <2>1. CASE Answer(p, 500) \/ Answer(p, 422)
    BY <1>2, <1>3, <2>1 DEF Normalize
  <2>2. CASE /\ ~ Breaks(job[p].event) /\ ~ Invalid(job[p].event)
             /\ Goto(p, "lookup") /\ UNCHANGED <<job, rows, deliveries>>
    <3>1. job[p].event \in Events
      BY <1>3 DEF Normalize, IntakeInv
    <3>2. job[p].event \in Accepted
      BY <2>2, <3>1, Acceptance
    <3>. QED
      BY <1>3, <2>2, <3>2 DEF Normalize, Goto, IntakeInv
  <2>. QED
    BY <1>3, <2>1, <2>2 DEF Normalize
<1>4. ASSUME NEW p \in Procs, Lookup(p)
      PROVE  IntakeInv'
  <2>1. \A k \in DOMAIN rows' : RowOf(rows'[k])
    BY <1>4, RowsKept
  <2>2. CASE UNCHANGED job
    BY <1>4, <2>1, <2>2 DEF Lookup, Goto, IntakeInv
  <2>3. CASE ~ UNCHANGED job
    <3>1. PICK pk : job' = [job EXCEPT ![p].pk = pk]
      BY <1>4, <2>3 DEF Lookup
    <3>2. job'[p].event = job[p].event /\ job'[p].nth = job[p].nth
      BY <3>1 DEF IntakeInv
    <3>. QED
      BY <1>4, <2>1, <2>3, <3>1, <3>2 DEF Lookup, Goto, IntakeInv
  <2>. QED
    BY <2>2, <2>3
<1>5. ASSUME NEW p \in Procs, Insert(p)
      PROVE  IntakeInv'
  <2>1. \A k \in DOMAIN rows' : RowOf(rows'[k])
    BY <1>5, RowsKept
  <2>. QED
    BY <1>5, <2>1 DEF Insert, Goto, IntakeInv
<1>6. ASSUME NEW p \in Procs, FailToSave(p)
      PROVE  IntakeInv'
  BY <1>6 DEF FailToSave, Goto, IntakeInv
<1>7. ASSUME NEW p \in Procs, Reply(p)
      PROVE  IntakeInv'
  BY <1>2, <1>7 DEF Reply
<1>8. ASSUME NEW p \in Procs, Crash(p)
      PROVE  IntakeInv'
  BY <1>8 DEF Crash, Goto, IntakeInv
<1>9. CASE UNCHANGED vars
  BY <1>9 DEF vars, IntakeInv
<1>. QED
  BY <1>1, <1>3, <1>4, <1>5, <1>6, <1>7, <1>8, <1>9 DEF Next

\* Every delivery in hand is one of its event, and every row passed the
\* normalizer.
THEOREM IntakeInvariant == Spec => []IntakeInv
<1>1. Init => IntakeInv
  BY IntakeAssumption DEF Init, IntakeInv, Places, Codes
<1>. QED
  BY <1>1, IntakeStep, PTL DEF Spec

\* What the handler goes on with, and what it stores, passed the normalizer.
THEOREM TypeCorrect == Spec => []TypeOK
<1>1. \A e \in Accepted : e \in Events /\ ~ Invalid(e)
  BY Acceptance DEF Accepted
<1>2. IntakeInv => TypeOK
  BY <1>1, IntakeAssumption DEF IntakeInv, TypeOK, Handles, RowOf, Places, Codes, Idle
<1>. QED
  BY <1>2, IntakeInvariant, PTL

\* The payment of a row, unless it has no name, is the one its event names.
RowsAreAbout ==
  \A k \in DOMAIN rows :
    rows[k].payment \in Ids => rows[k].payment = NamedBy(rows[k].from)

\* A payment on file was reported by an event about that very payment, however
\* many payments a subscription is halted for.
THEOREM RowsFit == Spec => []RowsAreAbout
<1>1. \A e \in Accepted, pay \in Ids : pay \in PaymentsOf(e) => pay = NamedBy(e)
  BY IntakeAssumption DEF PaymentsOf, Accepted
<1>2. IntakeInv => RowsAreAbout
  BY <1>1 DEF IntakeInv, RowsAreAbout, RowOf
<1>. QED
  BY <1>2, IntakeInvariant, PTL

-----------------------------------------------------------------------------
(* The refinement.                                                         *)

\* A status is replaced in the one record of the payment.
LEMMA LookupUpdates ==
  ASSUME IntakeInv, OneRowPerPayment, NEW p \in Procs, Lookup(p), ~ UNCHANGED rows
  PROVE  Table!Next
<1>. DEFINE e == job[p].event
            n == job[p].nth
            r == [payment |-> Payment(e, n), status |-> StatusOf(e), from |-> e]
<1>1. e \in Accepted /\ e \in Events /\ n \in 1 .. MaxDeliveries
  BY DEF Lookup, IntakeInv, Handles
<1>2. r \in UNION {ReportsOf(d) : d \in Accepted}
  BY <1>1, PaymentOf DEF ReportsOf
<1>3. PICK k \in Held(Payment(e, n)) : rows' = [rows EXCEPT ![k].status = StatusOf(e)]
  BY DEF Lookup
<1>4. k \in DOMAIN rows /\ rows[k].payment = r.payment /\ r.status = StatusOf(e)
  BY <1>3 DEF Held
<1>5. \A j \in DOMAIN rows : j # k => rows[j] # rows[k]
  BY <1>4 DEF OneRowPerPayment
<1>6. /\ DOMAIN rows' = DOMAIN rows
      /\ rows'[k] = [rows[k] EXCEPT !.status = StatusOf(e)]
      /\ \A j \in DOMAIN rows : j # k => rows'[j] = rows[j]
  BY <1>3, <1>4
<1>7. Rows' = (Rows \ {rows[k]}) \cup {[rows[k] EXCEPT !.status = StatusOf(e)]}
  <2>1. Rows' = {rows'[j] : j \in DOMAIN rows \ {k}} \cup {rows'[k]}
    BY <1>4, <1>6 DEF Rows
  <2>2. {rows'[j] : j \in DOMAIN rows \ {k}} = {rows[j] : j \in DOMAIN rows \ {k}}
    BY <1>6
  <2>3. {rows[j] : j \in DOMAIN rows \ {k}} = Rows \ {rows[k]}
    BY <1>4, <1>5 DEF Rows
  <2>. QED
    BY <1>6, <2>1, <2>2, <2>3
<1>8. Table!Update(r)
  <2>1. rows[k] \in Rows
    BY <1>4 DEF Rows
  <2>. QED
    BY <1>4, <1>7, <2>1 DEF Table!Update
<1>. QED
  BY <1>2, <1>8 DEF Table!Next

\* A record is added for a payment that has none.
LEMMA InsertEnters ==
  ASSUME IntakeInv, NEW p \in Procs, Insert(p), ~ UNCHANGED rows
  PROVE  Table!Next
<1>. DEFINE e == job[p].event
            n == job[p].nth
            pk == job[p].pk
            r == [payment |-> Payment(e, n), status |-> StatusOf(e), from |-> e]
<1>1. e \in Accepted /\ e \in Events /\ n \in 1 .. MaxDeliveries
  BY DEF Insert, IntakeInv, Handles
<1>2. r \in UNION {ReportsOf(d) : d \in Accepted}
  BY <1>1, PaymentOf DEF ReportsOf
<1>3. /\ Held(Payment(e, n)) = {} /\ pk \notin DOMAIN rows
      /\ rows' = [k \in DOMAIN rows \cup {pk} |-> IF k = pk THEN r ELSE rows[k]]
  BY DEF Insert, Taken
<1>4. \A t \in Rows : t.payment # r.payment
  BY <1>3 DEF Held, Rows
<1>5. Rows' = Rows \cup {r}
  <2>1. /\ DOMAIN rows' = DOMAIN rows \cup {pk} /\ rows'[pk] = r
        /\ \A k \in DOMAIN rows : rows'[k] = rows[k]
    BY <1>3
  <2>. QED
    BY <2>1 DEF Rows
<1>6. Table!Enter(r)
  BY <1>4, <1>5 DEF Table!Enter
<1>. QED
  BY <1>2, <1>6 DEF Table!Next

LEMMA TableStep ==
  ASSUME IntakeInv, OneRowPerPayment, [Next]_vars
  PROVE  [Table!Next]_Rows
<1>1. CASE UNCHANGED rows
  BY <1>1 DEF Rows
<1>2. ASSUME NEW p \in Procs, ~ UNCHANGED rows
      PROVE  ~ ( \/ \E e \in Events, sig \in Signatures : Receive(p, e, sig)
                 \/ Normalize(p) \/ FailToSave(p) \/ Reply(p) \/ Crash(p) )
  BY <1>2 DEF Receive, Normalize, FailToSave, Reply, Crash
<1>. QED
  BY <1>1, <1>2, LookupUpdates, InsertEnters DEF Next, vars

\* The handlers of all deliveries, interleaved, repeated, failing and dying,
\* implement the table on which every report takes effect at once or not at all.
THEOREM Keeps == Spec => KeepsTable
<1>1. Init => Table!Init
  BY DEF Init, Table!Init, Rows
<1>2. IntakeInv /\ OneRowPerPayment /\ [Next]_vars => [Table!Next]_Rows
  BY TableStep
<1>. QED
  BY <1>1, <1>2, IntakeInvariant, OneRow, PTL DEF Spec, KeepsTable, Table!Spec

-----------------------------------------------------------------------------
(* What the table is good for, read off from the reports alone.            *)

Reports == UNION {ReportsOf(e) : e \in Accepted}

\* Records are those of reports, field by field.
TableInv ==
  /\ \A t \in Rows : t = [payment |-> t.payment, status |-> t.status, from |-> t.from]
  /\ Table!AllReported

LEMMA TableInvStep == TableInv /\ [Table!Next]_Rows => TableInv'
<1>. SUFFICES ASSUME TableInv, Table!Next
              PROVE  TableInv'
  BY DEF TableInv, Table!AllReported
<1>. USE DEF TableInv, Table!AllReported
<1>1. PICK r \in Reports : Table!Enter(r) \/ Table!Update(r)
  BY DEF Table!Next, Reports
<1>2. r = [payment |-> r.payment, status |-> r.status, from |-> r.from]
  BY <1>1 DEF Reports, ReportsOf
<1>3. CASE Table!Enter(r)
  BY <1>1, <1>2, <1>3 DEF Table!Enter, Reports
<1>4. CASE Table!Update(r)
  <2>1. PICK t \in Rows :
          /\ t.payment = r.payment
          /\ Rows' = (Rows \ {t}) \cup {[t EXCEPT !.status = r.status]}
    BY <1>4 DEF Table!Update
  <2>. DEFINE u == [payment |-> t.payment, status |-> r.status, from |-> t.from]
  <2>2. [t EXCEPT !.status = r.status] = u
    BY <2>1
  <2>3. u.payment = t.payment /\ u.status = r.status /\ u.from = t.from
    OBVIOUS
  <2>4. Rows' = (Rows \ {t}) \cup {u}
    BY <2>1, <2>2
  <2>. HIDE DEF u
  <2>5. \A x \in Rows' :
          /\ \E q \in Reports : q.payment = x.payment /\ q.from = x.from
          /\ \E q \in Reports : q.payment = x.payment /\ q.status = x.status
    BY <1>1, <2>1, <2>3, <2>4 DEF Reports
  <2>6. \A x \in Rows' : x = [payment |-> x.payment, status |-> x.status, from |-> x.from]
    BY <2>3, <2>4 DEF u
  <2>. QED
    BY <2>5, <2>6 DEF Reports
<1>. QED
  BY <1>1, <1>3, <1>4

\* Every row is of a payment that the event it names reported, and has a status
\* that an accepted event about that payment reported; no row is ever lost, nor
\* the event that brought it.
THEOREM TableTrue == Spec => []Table!AllReported /\ Table!NothingLost
<1>1. Table!Init => TableInv
  BY DEF Table!Init, TableInv, Table!AllReported
<1>2. TableInv /\ [Table!Next]_Rows => TableInv'
  BY TableInvStep
<1>3. TableInv => Table!AllReported
  BY DEF TableInv
<1>4. TableInv /\ [Table!Next]_Rows
      => \A t \in Rows : \E u \in Rows' : u.payment = t.payment /\ u.from = t.from
  <2>. SUFFICES ASSUME TableInv, Table!Next, NEW t \in Rows
                PROVE  \E u \in Rows' : u.payment = t.payment /\ u.from = t.from
    OBVIOUS
  <2>1. CASE t \in Rows'
    BY <2>1
  <2>2. CASE t \notin Rows'
    <3>1. PICK r : [t EXCEPT !.status = r.status] \in Rows'
      BY <2>2 DEF Table!Next, Table!Enter, Table!Update
    <3>2. /\ [t EXCEPT !.status = r.status].payment = t.payment
          /\ [t EXCEPT !.status = r.status].from = t.from
      BY DEF TableInv
    <3>. QED
      BY <3>1, <3>2
  <2>. QED
    BY <2>1, <2>2
<1>. QED
  BY <1>1, <1>2, <1>3, <1>4, Keeps, PTL DEF KeepsTable, Table!Spec, Table!NothingLost

-----------------------------------------------------------------------------
(* When an acknowledged event is on file.  What stands in the way is a row  *)
(* under the key chosen for it, which only the race of two processes over   *)
(* one entity with two payments can put there.                              *)

OneServer == \A p, q \in Procs : p = q

\* No other event has the entity of e and names another payment.
Unshared(e) ==
  e.id # NoId => \A d \in Events : d.id = e.id => NamedBy(d) = NamedBy(e)

Uncontended(e) == OneServer \/ Unshared(e)

JobPayment(p) == Payment(job[p].event, job[p].nth)
JobKey(p) == <<"tx", EntityId(job[p].event, job[p].nth)>>

\* A key is made of the entity, or of the payment.
KeyFits(k, pay) ==
  \/ k = <<"tx", pay, "now">>
  \/ \E d \in Events, m \in 1 .. MaxDeliveries :
       k = <<"tx", EntityId(d, m)>> /\ pay = Payment(d, m)

KeysFit == \A k \in DOMAIN rows : KeyFits(k, rows[k].payment)

\* A process that is about to insert has a key for its payment, which nobody
\* took if it is alone; one that is about to reply found or left a row.
JobOnFile(p) ==
  /\ pc[p] # "idle" => job[p].nth <= deliveries[job[p].event]
  /\ pc[p] = "insert" => /\ job[p].pk \in {JobKey(p), <<"tx", JobPayment(p), "now">>}
                         /\ OneServer => job[p].pk \notin DOMAIN rows
  /\ pc[p] = "reply" /\ Uncontended(job[p].event) => Held(JobPayment(p)) # {}

AnsweredOnFile(e) ==
  200 \in answers[e] /\ Uncontended(e) => \E pay \in About(e) : Held(pay) # {}

OnFileInv ==
  /\ KeysFit
  /\ \A p \in Procs : JobOnFile(p)
  /\ \A e \in Events : AnsweredOnFile(e)

\* Two deliveries of one entity that nobody shares are about one payment.
LEMMA SameEntity ==
  ASSUME NEW d \in Events, NEW e \in Events,
         NEW m \in 1 .. MaxDeliveries, NEW n \in 1 .. MaxDeliveries,
         EntityId(d, m) = EntityId(e, n), Unshared(e)
  PROVE  Payment(d, m) = Payment(e, n)
<1>1. \A f \in Events : f.id \in Ids \cup {NoId} /\ f.bundled \in Ids \cup {NoId}
  BY IntakeAssumption DEF IsEvent
<1>2. CASE e.id = NoId
  <2>1. d.id = NoId
    BY <1>1, <1>2, IntakeAssumption DEF EntityId
  <2>2. d = e /\ m = n
    BY <1>2, <2>1 DEF EntityId
  <2>. QED
    BY <2>2
<1>3. CASE e.id # NoId
  <2>1. d.id = e.id
    BY <1>1, <1>3, IntakeAssumption DEF EntityId
  <2>2. NamedBy(d) = NamedBy(e)
    BY <1>3, <2>1 DEF Unshared
  <2>. QED
    BY <1>3, <2>1, <2>2 DEF Payment, EntityId, NamedBy
<1>. QED
  BY <1>2, <1>3

\* So a key that fits a payment and is taken, is taken by that payment.
LEMMA TakenByItself ==
  ASSUME KeysFit, NEW e \in Events, NEW n \in 1 .. MaxDeliveries, Unshared(e),
         NEW k \in DOMAIN rows,
         \/ k = <<"tx", Payment(e, n), "now">>
         \/ k = <<"tx", EntityId(e, n)>>
  PROVE  Held(Payment(e, n)) # {}
<1>1. KeyFits(k, rows[k].payment)
  BY DEF KeysFit
<1>2. \A x, y, z : <<"tx", x>> # <<"tx", y, z>>
  OBVIOUS
<1>3. rows[k].payment = Payment(e, n)
  BY <1>1, <1>2, SameEntity DEF KeyFits
<1>. QED
  BY <1>3 DEF Held

\* Rows stay where they are, with their payments, and deliveries are counted up.
LEMMA OnFileGrows ==
  ASSUME IntakeInv, [Next]_vars
  PROVE  /\ DOMAIN rows \subseteq DOMAIN rows'
         /\ \A k \in DOMAIN rows : rows'[k].payment = rows[k].payment
         /\ \A pay : Held(pay) # {} => Held(pay)' # {}
         /\ \A e \in Events : deliveries[e] <= deliveries'[e]
<1>. DEFINE Stay == /\ DOMAIN rows \subseteq DOMAIN rows'
                    /\ \A k \in DOMAIN rows : rows'[k].payment = rows[k].payment
            Count == \A e \in Events : deliveries[e] <= deliveries'[e]
<1>1. Stay
  <2>1. CASE UNCHANGED rows
    BY <2>1
  <2>2. ASSUME NEW p \in Procs, Lookup(p), ~ UNCHANGED rows
        PROVE  Stay
    <3>1. PICK k \in DOMAIN rows :
            rows' = [rows EXCEPT ![k].status = StatusOf(job[p].event)]
      BY <2>2 DEF Lookup, Held
    <3>. QED
      BY <3>1
  <2>3. ASSUME NEW p \in Procs, Insert(p)
        PROVE  Stay
    BY <2>3 DEF Insert
  <2>. QED
    BY <2>1, <2>2, <2>3 DEF Next, vars, Receive, Normalize, FailToSave, Reply, Crash
<1>2. \A pay : Held(pay) # {} => Held(pay)' # {}
  BY <1>1 DEF Held
<1>3. Count
  <2>1. \A e \in Events : deliveries[e] \in Nat
    BY IntakeAssumption DEF IntakeInv
  <2>2. CASE UNCHANGED deliveries
    BY <2>1, <2>2
  <2>3. ASSUME NEW p \in Procs, NEW e \in Events, NEW sig \in Signatures,
               Receive(p, e, sig)
        PROVE  Count
    BY <2>1, <2>3 DEF Receive, IntakeInv
  <2>. QED
    BY <2>2, <2>3 DEF Next, vars, Normalize, Lookup, Insert, FailToSave, Reply, Crash
<1>. QED
  BY <1>1, <1>2, <1>3

\* Keys fit after an insert, and after all that is none.
LEMMA KeysFitStep ==
  ASSUME IntakeInv, OnFileInv, [Next]_vars
  PROVE  KeysFit'
<1>1. ASSUME DOMAIN rows' = DOMAIN rows
      PROVE  KeysFit'
  BY <1>1, OnFileGrows DEF OnFileInv, KeysFit, KeyFits
<1>2. ASSUME NEW p \in Procs, Lookup(p)
      PROVE  DOMAIN rows' = DOMAIN rows
  BY <1>2 DEF Lookup
<1>3. ASSUME NEW p \in Procs, Insert(p), DOMAIN rows' # DOMAIN rows
      PROVE  KeysFit'
  <2>1. /\ DOMAIN rows' = DOMAIN rows \cup {job[p].pk}
        /\ rows'[job[p].pk].payment = JobPayment(p)
        /\ \A k \in DOMAIN rows : rows'[k].payment = rows[k].payment
    BY <1>3, OnFileGrows DEF Insert, JobPayment
  <2>2. KeyFits(job[p].pk, JobPayment(p))
    <3>1. job[p].event \in Events /\ job[p].nth \in 1 .. MaxDeliveries
      BY <1>3 DEF Insert, IntakeInv, Handles
    <3>. QED
      BY <1>3, <3>1 DEF Insert, OnFileInv, JobOnFile, KeyFits, JobKey, JobPayment
  <2>. QED
    BY <2>1, <2>2 DEF OnFileInv, KeysFit, KeyFits
<1>. QED
  BY <1>1, <1>2, <1>3 DEF Next, vars, Receive, Normalize, FailToSave, Reply, Crash

\* What a process has found or chosen stays good while others go on.
LEMMA OthersJobs ==
  ASSUME IntakeInv, OnFileInv, [Next]_vars, NEW q \in Procs,
         pc'[q] = pc[q], job'[q] = job[q], OneServer => UNCHANGED rows
  PROVE  JobOnFile(q)'
<1>1. pc[q] # "idle" => job[q].event \in Events /\ job[q].nth \in Nat
  BY DEF IntakeInv, Handles
<1>2. \A e \in Events : deliveries[e] \in Nat /\ deliveries'[e] >= deliveries[e]
                        /\ deliveries'[e] \in Nat
  BY OnFileGrows, IntakeStep, IntakeAssumption DEF IntakeInv
<1>3. JobOnFile(q)
  BY DEF OnFileInv
<1>4. pc'[q] # "idle" => job'[q].nth <= deliveries'[job'[q].event]
  BY <1>1, <1>2, <1>3 DEF JobOnFile
<1>5. /\ JobPayment(q)' = JobPayment(q) /\ JobKey(q)' = JobKey(q)
      /\ Uncontended(job[q].event)' <=> Uncontended(job[q].event)
      /\ Held(JobPayment(q)) # {} => Held(JobPayment(q))' # {}
  BY OnFileGrows DEF JobPayment, JobKey, Uncontended, Unshared, OneServer
<1>6. pc'[q] = "insert" => /\ job'[q].pk \in {JobKey(q)', <<"tx", JobPayment(q)', "now">>}
                           /\ OneServer => job'[q].pk \notin DOMAIN rows'
  BY <1>3, <1>5 DEF JobOnFile
<1>7. pc'[q] = "reply" /\ Uncontended(job'[q].event) => Held(JobPayment(q))' # {}
  BY <1>3, <1>5 DEF JobOnFile
<1>. QED
  BY <1>4, <1>6, <1>7 DEF JobOnFile, Uncontended, Unshared, OneServer

\* A payment that has no row gets a key that is free, and free to the end when
\* nobody else inserts.
LEMMA LookupFinds ==
  ASSUME IntakeInv, OnFileInv, NEW p \in Procs, Lookup(p)
  PROVE  JobOnFile(p)'
<1>. DEFINE e == job[p].event
            n == job[p].nth
            pay == Payment(e, n)
<1>1. /\ e \in Events /\ n \in 1 .. MaxDeliveries /\ n <= deliveries[e]
      /\ deliveries' = deliveries
      /\ pc' \in [Procs -> Places] /\ p \in DOMAIN job
  BY DEF Lookup, Goto, IntakeInv, Handles, OnFileInv, JobOnFile, Places
<1>2. ASSUME NEW k \in Held(pay), rows' = [rows EXCEPT ![k].status = StatusOf(e)],
             pc'[p] = "reply", job' = job
      PROVE  JobOnFile(p)'
  <2>1. k \in DOMAIN rows' /\ rows'[k].payment = pay
    <3>1. k \in DOMAIN rows /\ rows[k].payment = pay
      BY DEF Held
    <3>2. \A j \in DOMAIN rows : rows'[j].payment = rows[j].payment
      BY <1>2, <3>1
    <3>3. DOMAIN rows' = DOMAIN rows
      BY <1>2
    <3>. QED
      BY <3>1, <3>2, <3>3
  <2>2. Held(JobPayment(p))' # {}
    BY <1>2, <2>1 DEF Held, JobPayment
  <2>. QED
    BY <1>1, <1>2, <2>2 DEF JobOnFile
<1>3. ASSUME Held(pay) = {}, job' = [job EXCEPT ![p].pk = NewKey(EntityId(e, n), pay)],
             pc'[p] = "insert", rows' = rows
      PROVE  JobOnFile(p)'
  <2>1. /\ job'[p].event = e /\ job'[p].nth = n
        /\ job'[p].pk = NewKey(EntityId(e, n), pay)
    <3>1. job[p] = [event |-> e, nth |-> n, pk |-> job[p].pk]
      BY DEF Lookup, IntakeInv, Handles
    <3>. QED
      BY <1>1, <1>3, <3>1
  <2>2. job'[p].pk \in {JobKey(p)', <<"tx", JobPayment(p)', "now">>}
    BY <2>1 DEF NewKey, JobKey, JobPayment
  <2>3. NewKey(EntityId(e, n), pay) \notin DOMAIN rows
    <3>1. \A x, y, z : <<"tx", x>> # <<"tx", y, z>>
      OBVIOUS
    <3>2. <<"tx", pay, "now">> \notin DOMAIN rows
      <4>1. \A k \in DOMAIN rows : rows[k].payment # pay
        BY <1>3 DEF Held
      <4>. QED
        BY <3>1, <4>1 DEF OnFileInv, KeysFit, KeyFits
    <3>. QED
      BY <3>2 DEF NewKey
  <2>. QED
    BY <1>1, <1>3, <2>1, <2>2, <2>3 DEF JobOnFile
<1>. QED
  BY <1>2, <1>3, <1>1 DEF Lookup, Goto, IntakeInv

\* An insert leaves the payment with a row, its own or another's, unless the key
\* was taken: by the payment itself when nobody shares the entity, and by nobody
\* when there is one process.
LEMMA InsertLeaves ==
  ASSUME IntakeInv, OnFileInv, NEW p \in Procs, Insert(p)
  PROVE  JobOnFile(p)'
<1>. DEFINE e == job[p].event
            n == job[p].nth
            pay == Payment(e, n)
            pk == job[p].pk
<1>1. /\ e \in Events /\ n \in 1 .. MaxDeliveries /\ n <= deliveries[e]
      /\ pk \in {JobKey(p), <<"tx", JobPayment(p), "now">>}
      /\ OneServer => pk \notin DOMAIN rows
      /\ UNCHANGED <<job, deliveries>> /\ pc'[p] = "reply"
  BY DEF Insert, Goto, IntakeInv, Handles, OnFileInv, JobOnFile
<1>2. ASSUME Uncontended(e)
      PROVE  \E k \in DOMAIN rows' : rows'[k].payment = pay
  <2>1. CASE Taken(pay) /\ UNCHANGED rows
    BY <2>1 DEF Taken, Held
  <2>2. CASE pk \in DOMAIN rows /\ UNCHANGED rows
    <3>1. Unshared(e)
      BY <1>1, <1>2, <2>2 DEF Uncontended
    <3>2. pk = <<"tx", pay, "now">> \/ pk = <<"tx", EntityId(e, n)>>
      BY <1>1 DEF JobKey, JobPayment
    <3>3. Held(pay) # {}
      BY <1>1, <2>2, <3>1, <3>2, TakenByItself DEF OnFileInv
    <3>. QED
      BY <2>2, <3>3 DEF Held
  <2>3. CASE rows' = [k \in DOMAIN rows \cup {pk} |->
                        IF k = pk THEN [payment |-> pay, from |-> e,
                                        status |-> StatusOf(e)]
                                  ELSE rows[k]]
    <3>1. pk \in DOMAIN rows' /\ rows'[pk].payment = pay
      BY <2>3
    <3>. QED
      BY <3>1
  <2>. QED
    BY <2>1, <2>2, <2>3 DEF Insert
<1>3. Uncontended(e) => Held(JobPayment(p))' # {}
  <2>1. JobPayment(p)' = pay
    BY <1>1 DEF JobPayment
  <2>. QED
    BY <1>2, <2>1 DEF Held
<1>4. Uncontended(job[p].event)' <=> Uncontended(e)
  BY <1>1 DEF Uncontended, Unshared, OneServer
<1>. QED
  BY <1>1, <1>3, <1>4 DEF JobOnFile

LEMMA OnFileStep ==
  ASSUME ~ DatabaseFails, IntakeInv, OnFileInv, [Next]_vars
  PROVE  OnFileInv'
<1>1. KeysFit'
  BY KeysFitStep
<1>2. \A e \in Events : About(e) \subseteq About(e)'
  <2>1. \A e \in Events : /\ deliveries[e] \in Nat /\ deliveries'[e] \in Nat
                          /\ deliveries[e] <= deliveries'[e]
    BY OnFileGrows, IntakeStep, IntakeAssumption DEF IntakeInv
  <2>. QED
    BY <2>1 DEF About
<1>3. ASSUME NEW e \in Events, AnsweredOnFile(e), 200 \in answers'[e] => 200 \in answers[e]
      PROVE  AnsweredOnFile(e)'
  <2>1. Uncontended(e)' <=> Uncontended(e)
    BY DEF Uncontended, Unshared, OneServer
  <2>. QED
    BY <1>2, <1>3, <2>1, OnFileGrows DEF AnsweredOnFile
<1>4. CASE UNCHANGED vars
  <2>1. \A p \in Procs : JobOnFile(p)'
    BY <1>4, OthersJobs DEF vars
  <2>2. \A e \in Events : AnsweredOnFile(e)'
    BY <1>3, <1>4 DEF vars, OnFileInv
  <2>. QED
    BY <1>1, <2>1, <2>2 DEF OnFileInv
<1>5. ASSUME NEW p \in Procs,
             \/ \E e \in Events, sig \in Signatures : Receive(p, e, sig)
             \/ Normalize(p) \/ Lookup(p) \/ Insert(p) \/ Reply(p) \/ Crash(p)
      PROVE  OnFileInv'
  <2>1. ASSUME NEW q \in Procs, q # p
        PROVE  JobOnFile(q)'
    <3>1. pc'[q] = pc[q] /\ job'[q] = job[q]
      BY <1>5, <2>1 DEF Receive, Normalize, Lookup, Insert, Reply, Crash, Answer,
         Goto, IntakeInv
    <3>2. ~ OneServer
      BY <2>1 DEF OneServer
    <3>. QED
      BY <3>1, <3>2, OthersJobs
  <2>2. JobOnFile(p)'
    <3>1. ASSUME pc'[p] = "idle"
          PROVE  JobOnFile(p)'
      BY <3>1 DEF JobOnFile
    <3>2. ASSUME NEW e \in Events, NEW sig \in Signatures, Receive(p, e, sig),
                 pc'[p] # "idle"
          PROVE  JobOnFile(p)'
      <4>1. /\ pc' = [pc EXCEPT ![p] = "normalize"]
            /\ job' = [job EXCEPT ![p] = [Idle EXCEPT !.event = e,
                                                      !.nth = deliveries[e] + 1]]
            /\ deliveries' = [deliveries EXCEPT ![e] = @ + 1]
        BY <3>2 DEF Receive, Goto
      <4>2. /\ pc'[p] = "normalize" /\ job'[p].event = e
            /\ job'[p].nth = deliveries[e] + 1 /\ deliveries'[e] = deliveries[e] + 1
            /\ deliveries[e] \in Nat
        BY <4>1, IntakeAssumption DEF Idle, IntakeInv
      <4>. QED
        BY <4>2 DEF JobOnFile
    <3>3. CASE Normalize(p) /\ Goto(p, "lookup") /\ UNCHANGED job
      <4>1. /\ pc'[p] = "lookup" /\ pc[p] # "idle"
            /\ UNCHANGED <<job, deliveries>>
        BY <3>3 DEF Normalize, Goto, IntakeInv
      <4>. QED
        BY <4>1 DEF JobOnFile, OnFileInv
    <3>4. CASE Lookup(p) \/ Insert(p)
      BY <3>4, LookupFinds, InsertLeaves
    <3>5. Answer(p, 500) \/ Answer(p, 422) \/ Answer(p, 200) \/ Crash(p)
            => pc'[p] = "idle"
      BY DEF Answer, Crash, Goto, IntakeInv
    <3>. QED
      BY <1>5, <3>1, <3>2, <3>3, <3>4, <3>5 DEF Normalize, Reply
  <2>3. ASSUME NEW e \in Events
        PROVE  AnsweredOnFile(e)'
    <3>1. CASE 200 \in answers'[e] => 200 \in answers[e]
      BY <1>3, <3>1 DEF OnFileInv
    <3>2. CASE 200 \in answers'[e] /\ 200 \notin answers[e]
      <4>1. Reply(p) /\ e = job[p].event
        <5>1. ASSUME NEW d \in Events, NEW sig \in Signatures, Receive(p, d, sig)
              PROVE  FALSE
          BY <3>2, <5>1 DEF Receive, Goto, Refusal, IntakeInv
        <5>2. ASSUME NEW code \in {422, 500}, Answer(p, code)
              PROVE  FALSE
          BY <3>2, <5>2 DEF Answer, IntakeInv
        <5>3. UNCHANGED answers => FALSE
          BY <3>2
        <5>4. Reply(p)
          BY <1>5, <5>1, <5>2, <5>3 DEF Normalize, Lookup, Insert, Crash, Goto
        <5>5. job[p].event = e
          BY <3>2, <5>4 DEF Reply, Answer, IntakeInv
        <5>. QED
          BY <5>4, <5>5
      <4>2. /\ pc[p] = "reply" /\ job[p].nth \in 1 .. deliveries[e]
        BY <4>1, IntakeAssumption DEF Reply, OnFileInv, JobOnFile, IntakeInv, Handles
      <4>3. JobPayment(p) \in About(e)
        BY <4>1, <4>2 DEF About, JobPayment
      <4>4. Uncontended(e) => Held(JobPayment(p)) # {}
        BY <4>1, <4>2 DEF OnFileInv, JobOnFile
      <4>5. rows' = rows /\ (Uncontended(e)' <=> Uncontended(e))
        BY <4>1 DEF Reply, Uncontended, Unshared, OneServer
      <4>. QED
        BY <1>2, <4>3, <4>4, <4>5, OnFileGrows DEF AnsweredOnFile
    <3>. QED
      BY <3>1, <3>2
  <2>. QED
    BY <1>1, <2>1, <2>2, <2>3 DEF OnFileInv
<1>. QED
  BY <1>4, <1>5 DEF Next, FailToSave

\* While the database works, an event that was answered with success has its
\* payment on file, unless its entity names another payment too and two processes
\* serve: what IntakeHaltRace shows is the only way to lose one.
THEOREM OnFile ==
  ASSUME ~ DatabaseFails
  PROVE  Spec => [](\A e \in Events : AnsweredOnFile(e))
<1>1. Init => OnFileInv
  BY DEF Init, OnFileInv, KeysFit, JobOnFile, AnsweredOnFile
<1>2. IntakeInv /\ OnFileInv /\ [Next]_vars => OnFileInv'
  BY OnFileStep
<1>3. OnFileInv => \A e \in Events : AnsweredOnFile(e)
  BY DEF OnFileInv
<1>. QED
  BY <1>1, <1>2, <1>3, IntakeInvariant, PTL DEF Spec

\* With one process, or entities of one payment each, no acknowledged event is
\* lost.
THEOREM Acknowledged ==
  ASSUME ~ DatabaseFails, \A e \in Events : Uncontended(e)
  PROVE  Spec => []AcknowledgedOnFile
<1>1. (\A e \in Events : AnsweredOnFile(e)) => AcknowledgedOnFile
  BY DEF AnsweredOnFile, AcknowledgedOnFile
<1>. QED
  BY <1>1, OnFile, PTL
=============================================================================
