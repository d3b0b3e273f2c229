-------------------------- MODULE TransactionTable --------------------------
(***************************************************************************)
(* What the intake of webhooks promises of the table `transactions`,       *)
(* without deliveries, processes or keys: each report either takes effect  *)
(* at once, on the one record of its payment, or not at all.               *)
(***************************************************************************)

CONSTANT Reports  \* what may be reported, as records [payment, status, from]

VARIABLE table

Init == table = {}

\* The first report of a payment is kept.
Enter(r) ==
  /\ \A t \in table : t.payment # r.payment
  /\ table' = table \cup {r}

\* A later one changes the status and nothing else.
Update(r) ==
  \E t \in table :
    /\ t.payment = r.payment
    /\ table' = (table \ {t}) \cup {[t EXCEPT !.status = r.status]}

Next == \E r \in Reports : Enter(r) \/ Update(r)

Spec == Init /\ [][Next]_table

-----------------------------------------------------------------------------
\* A payment on file stays on file, with the event that brought it there.
NothingLost ==
  [][\A t \in table : \E u \in table' : u.payment = t.payment /\ u.from = t.from]_table

\* What is on file was reported: the payment by the event it names, and the
\* status by an event about that payment.
AllReported ==
  \A t \in table :
    /\ \E r \in Reports : r.payment = t.payment /\ r.from = t.from
    /\ \E r \in Reports : r.payment = t.payment /\ r.status = t.status
=============================================================================
