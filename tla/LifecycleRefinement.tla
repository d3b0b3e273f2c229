------------------------ MODULE LifecycleRefinement -------------------------
(***************************************************************************)
(* RetryLifecycle, run with one retry runner, keeps RecoveryPromise: the   *)
(* ledger is the result column of the rows.                                *)
(***************************************************************************)
EXTENDS RetryLifecycle

Ledger(rows) == [i \in DOMAIN rows |-> rows[i].result]

Promise == INSTANCE RecoveryPromise WITH
  ledger   <- [p \in Payments |-> Ledger(attempts[p])],
  captured <- {p \in Payments : pay[p] = "captured"},
  told     <- {p \in Payments : "customer_notified" \in actions[p]},
  override <- overridden

\* Every step of the program is a step of the promise, or changes nothing the
\* promise speaks of.
KeepsPromise == Promise!Spec
=============================================================================
