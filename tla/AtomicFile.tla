----------------------------- MODULE AtomicFile -----------------------------
(***************************************************************************)
(* What the writers of the store's JSON files rely on, with no temporary   *)
(* file, rename or system call: a file holds one whole version; a write    *)
(* puts a later one in its place in one step; once a write was reported as *)
(* done, nothing brings an earlier version back.                           *)
(***************************************************************************)
EXTENDS Integers

CONSTANT MaxWrites   \* bound: writes attempted in a behaviour

VARIABLES content,   \* the version that can be recovered; 0 when there is none
          reported   \* the last version whose write returned Ok

Replace == /\ \E v \in content + 1 .. MaxWrites : content' = v
           /\ UNCHANGED reported

Report == /\ reported' = content
          /\ UNCHANGED content

(* A power loss may undo a write that was not yet reported. *)
Revert == /\ \E v \in reported .. content : content' = v
          /\ UNCHANGED reported

Init == content = 0 /\ reported = 0
Next == Replace \/ Report \/ Revert
Spec == Init /\ [][Next]_<<content, reported>>
=============================================================================
