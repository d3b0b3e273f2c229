-------------------------- MODULE MCDecisionEngine --------------------------
(* Small instances of DecisionEngine, with its bookkeeping, for TLC.       *)
EXTENDS Metering, TLC
=============================================================================
