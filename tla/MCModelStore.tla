---------------------------- MODULE MCModelStore ----------------------------
(* A small instance of ModelStore for TLC.                                 *)
EXTENDS ModelStore
=============================================================================
