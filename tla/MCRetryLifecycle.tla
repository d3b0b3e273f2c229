-------------------------- MODULE MCRetryLifecycle --------------------------
(* Small instances of RetryLifecycle for TLC.                              *)
EXTENDS Dashboard, LifecycleRefinement, TLC

\* Web processes are interchangeable.  Used in runs without liveness only.
WebSymmetry == Permutations(Web)
=============================================================================
