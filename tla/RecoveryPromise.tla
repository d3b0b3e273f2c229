-------------------------- MODULE RecoveryPromise ---------------------------
(***************************************************************************)
(* What the retry subsystem promises of each payment, without processes or *)
(* commits: a ledger of attempts to which attempts are only added, each of *)
(* which gets one final result, a cap that only a merchant's override      *)
(* lifts, and successes that stand for captured money.                     *)
(***************************************************************************)
EXTENDS Naturals, Sequences

CONSTANTS Payments, MaxRetries

VARIABLES
  ledger,     \* results of the attempts of each payment, in order
  captured,   \* payments whose money Razorpay holds
  told,       \* payments whose customer was notified
  override    \* payments for which a merchant overrode the cap

vars == <<ledger, captured, told, override>>

Init ==
  /\ ledger = [p \in Payments |-> <<>>]
  /\ captured = {}
  /\ told = {}
  /\ override = {}

Schedule(p) ==
  /\ Len(ledger[p]) < MaxRetries \/ p \in override
  /\ ledger' = [ledger EXCEPT ![p] = Append(@, "SCHEDULED")]
  /\ UNCHANGED <<captured, told, override>>

Settle(p, i, res) ==
  /\ ledger[p][i] = "SCHEDULED"
  /\ res = "SUCCESS" => p \in captured
  /\ ledger' = [ledger EXCEPT ![p][i] = res]
  /\ UNCHANGED <<captured, told, override>>

Capture(p) ==
  /\ captured' = captured \cup {p}
  /\ UNCHANGED <<ledger, told, override>>

Tell(p) ==
  /\ told' = told \cup {p}
  /\ UNCHANGED <<ledger, captured, override>>

Override(p) ==
  /\ override' = override \cup {p}
  /\ UNCHANGED <<ledger, captured, told>>

Next ==
  \E p \in Payments :
    \/ Schedule(p) \/ Capture(p) \/ Tell(p) \/ Override(p)
    \/ \E i \in DOMAIN ledger[p], res \in {"SUCCESS", "FAILED"} :
         Settle(p, i, res)

Spec == Init /\ [][Next]_vars
=============================================================================
