--------------------------- MODULE MCWebhookIntake ---------------------------
(* Events for TLC.                                                         *)
EXTENDS IntakeRefinement

CONSTANTS P1, P2, S1

Event(type, id, bundled, status) ==
  [type |-> type, id |-> id, bundled |-> bundled, status |-> status,
   entity |-> TRUE, charged |-> TRUE, noted |-> TRUE]

Failed == Event("payment.failed", P1, NoId, "failed")
Captured == Event("other", P1, NoId, "CAPTURED")
HaltedFirst == Event("subscription.halted", S1, P1, "halted")
HaltedAgain == Event("subscription.halted", S1, P2, "halted")
HaltedBare == Event("subscription.halted", S1, NoId, "halted")
Nameless == Event("invoice.overdue", NoId, NoId, "issued")

\* A payment, its capture, and its subscription with another payment; and two
\* events that are refused.
MixedEvents == {Failed, Captured, HaltedFirst, HaltedAgain,
                [Failed EXCEPT !.charged = FALSE], [Failed EXCEPT !.noted = FALSE]}

\* A subscription halted three times and an invoice without a name.
HaltEvents == {HaltedFirst, HaltedAgain, HaltedBare, Nameless}
=============================================================================
