---------------------------- MODULE MCShulkerOps ----------------------------
(* Two shulkers of two units each and three units of goods. *)
EXTENDS ShulkerOps

MCSlots == 1 .. 2
=============================================================================
