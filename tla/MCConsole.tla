----------------------------- MODULE MCConsole -----------------------------
(* Two client tasks, one of which may still be ending, a short channel,    *)
(* and one node to be discovered. *)
EXTENDS Console
=============================================================================
