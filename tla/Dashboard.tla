------------------------------ MODULE Dashboard ------------------------------
(***************************************************************************)
(* What a merchant is told of its payments, as operators of the state of   *)
(* RetryLifecycle: each answer is computed from its tables in one database *)
(* transaction.  The analytics first add demonstration payments of another *)
(* merchant, which touches none of these.                                  *)
(***************************************************************************)
EXTENDS RetryLifecycle

\* Mutant: the status alone says whether a payment was recovered.
IsTransactionRecovered_Status(p) == status[p] = "recovered"

\* The status, or an attempt that succeeded.
IsTransactionRecovered(p) ==
  \/ status[p] = "recovered"
  \/ \E i \in DOMAIN attempts[p] : attempts[p][i].result = "SUCCESS"

\* The payments of total_recovered and total_revenue_saved.
CountedRecovered ==
  {p \in Payments : status[p] # "absent" /\ IsTransactionRecovered(p)}

\* A payment once counted as recovered stays counted, although late events and
\* new recoveries overwrite its status: the revenue saved never shrinks.
CountedForGood == [][CountedRecovered \subseteq CountedRecovered']_vars

-----------------------------------------------------------------------------
(* GET /recovery-suggestions.  It has a limit of its own, and looks for the *)
(* status "RECOVERED", which only demonstration data have.                  *)

\* Mutant: the status alone decides, not the attempts on file.
CanRetry_Status(p) == status[p] \in {"FAILED", "HALTED"}

CanRetry(p) == Len(attempts[p]) < 2 /\ status[p] # "RECOVERED"

\* What may be suggested: of the last two, the failure's category decides.
Suggestions(p) ==
  CASE status[p] = "RECOVERED" -> {"none_recovered"}
    [] status[p] # "RECOVERED" /\ ~ CanRetry(p) -> {"suggest_alternate_method"}
    [] OTHER -> {"auto_retry", "send_payment_link"}

\* A merchant who was told to suggest another method is never told again to
\* retry, although late events overwrite the status with FAILED, a recovery
\* starts anew, processes race and crash.
AdviceStands ==
  [][\A p \in Payments :
       status[p] # "absent" /\ Suggestions(p) = {"suggest_alternate_method"}
         => Suggestions(p)' = {"suggest_alternate_method"}]_vars
=============================================================================
