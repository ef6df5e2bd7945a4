-------------------------- MODULE MCOrderLifecycle --------------------------
(* The instances of OrderLifecycle for TLC: their constants are in the .cfg. *)
EXTENDS OrderLifecycle
=============================================================================
