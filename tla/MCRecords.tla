------------------------------- MODULE MCRecords -------------------------------
(***************************************************************************)
(* Records for TLC: the users are interchangeable.                         *)
(***************************************************************************)
EXTENDS Records, TLC

UserSymmetry == Permutations(Users)
===========================================================================
