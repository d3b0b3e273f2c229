-------------------------- MODULE IntakeRefinement --------------------------
(***************************************************************************)
(* However deliveries overlap, are repeated, fail or are cut short, the    *)
(* rows of WebhookIntake change as TransactionTable says.                  *)
(***************************************************************************)
EXTENDS WebhookIntake

\* The events a row may come from: with an entity, for those that are failures,
\* a positive amount and notes that do not break the normalizer.
Accepted ==
  {e \in Events : e.charged /\ (e.type \in Failures => e.entity)
                    /\ (e.type = "payment.failed" => e.noted)}

\* The payment an event names: the one bundled with it, or its entity.
NamedBy(e) == IF e.bundled # NoId THEN e.bundled ELSE e.id

\* A payment that has no name gets one for each delivery.
PaymentsOf(e) ==
  IF NamedBy(e) # NoId THEN {NamedBy(e)}
                       ELSE {<<"unknown", e, n>> : n \in 1 .. MaxDeliveries}

ReportsOf(e) ==
  {[payment |-> pay, status |-> StatusOf(e), from |-> e] : pay \in PaymentsOf(e)}

\* The rows without the keys that were chosen for them.
Rows == {rows[k] : k \in DOMAIN rows}

Table == INSTANCE TransactionTable WITH
  Reports <- UNION {ReportsOf(e) : e \in Accepted},
  table   <- Rows

\* Every step of the handler is one atomic report, or changes no row: looking a
\* payment up and inserting it later is as good as doing both at once.
KeepsTable == Table!Spec
=============================================================================
