--------------------------- MODULE ShulkerJournal ---------------------------
(***************************************************************************)
(* data/journal.json: the one shulker operation in flight, written down    *)
(* before the bot touches the shulker so that a later run of the program   *)
(* can tell an operator where one was left.                                *)
(*                                                                         *)
(* Each operation of Journal is given with the two answers its write can   *)
(* have; a write replaces the file whole or leaves it (AtomicFile).        *)
(***************************************************************************)
EXTENDS Naturals, FiniteSets

CONSTANTS Slots,    \* the slots of the chest, 1 .. n
          MaxBegin  \* bound: entries begun, one to a round trip

ASSUME JournalAssumption == Slots \subseteq Nat \ {0} /\ MaxBegin \in Nat

States == {"ShulkerTaken", "ShulkerOnStation", "ItemsTransferred", "ShulkerPickedUp"}

(* An entry names the operation and the slot the shulker is from.  The     *)
(* operation's number stands for the entry's identity: the code's ids      *)
(* start again at 1 in each run of the program.                            *)
Entry == [id : 1 .. MaxBegin, slot : Slots, state : States]
None  == [id |-> 0, slot |-> 0, state |-> "none"]

VARIABLES
  entry,      \* Journal.entry, in memory
  restored,   \* restored_leftover
  file,       \* journal.json: None is a missing file and an empty list
  archive,    \* what was moved aside
  begun,      \* how many operations were begun
  leftovers   \* entries a start of the program has reported

journal == <<entry, restored, file, archive, begun, leftovers>>

JournalType ==
  /\ entry \in Entry \union {None} /\ file \in Entry \union {None}
  /\ restored \in BOOLEAN
  /\ archive \subseteq Entry /\ leftovers \subseteq Entry
  /\ begun \in 0 .. MaxBegin

JournalInit ==
  /\ entry = None /\ restored = FALSE /\ file = None
  /\ archive = {} /\ begun = 0 /\ leftovers = {}

Aside == archive' = archive \union ({file} \ {None})

persist == file' = entry'

(* advance: without an entry, nothing; a write that fails takes the state  *)
(* in memory back.                                                         *)
advance(s) ==
  /\ IF entry = None THEN UNCHANGED <<entry, file>>
     ELSE \/ entry' = [entry EXCEPT !.state = s] /\ persist
          \/ UNCHANGED <<entry, file>>
  /\ UNCHANGED <<restored, archive, begun, leftovers>>

(* Mutant: the file of a run before is written over. *)
archive_restored_not ==
  restored' = FALSE /\ UNCHANGED archive

(* begin: a leftover that could not be archived at the start is archived   *)
(* first, or nothing begins.                                               *)
archive_restored ==
  IF restored THEN restored' = FALSE /\ Aside ELSE UNCHANGED <<restored, archive>>

begin(slot) ==
  /\ begun < MaxBegin /\ begun' = begun + 1
  /\ archive_restored
  /\ entry' = [id |-> begun + 1, slot |-> slot, state |-> "ShulkerTaken"]
  /\ persist
  /\ UNCHANGED leftovers

(* Its two failures: nothing was archived; or that was done, and the entry *)
(* could not be written.                                                   *)
begin_fails ==
  \/ UNCHANGED journal
  \/ /\ restored /\ archive_restored
     /\ file' = None
     /\ UNCHANGED <<entry, begun, leftovers>>

complete_with_state ==
  /\ \/ entry' = None /\ persist
     \/ UNCHANGED <<entry, file>>
  /\ UNCHANGED <<restored, archive, begun, leftovers>>

(* The start of the program: load_from, then archive_leftover, or          *)
(* restore_leftover when that fails.                                       *)
load_empty ==
  /\ file = None
  /\ entry' = None /\ restored' = FALSE
  /\ UNCHANGED <<file, archive, begun, leftovers>>

load_leftover ==
  /\ file # None
  /\ leftovers' = leftovers \union {file}
  /\ \/ Aside /\ file' = None /\ entry' = None /\ restored' = FALSE
     \/ entry' = file /\ restored' = TRUE /\ UNCHANGED <<file, archive>>
  /\ UNCHANGED begun

(* A file that cannot be read or parsed is moved aside. *)
load_damaged ==
  /\ file # None
  /\ Aside /\ file' = None
  /\ entry' = None /\ restored' = FALSE
  /\ UNCHANGED <<begun, leftovers>>

(* ... and when it cannot be moved either, the bot starts with an empty    *)
(* journal on the same path.                                               *)
load_stuck ==
  /\ file # None
  /\ entry' = None /\ restored' = FALSE
  /\ leftovers' = leftovers \ {file}
  /\ UNCHANGED <<file, archive, begun>>

(* The process ends. *)
Forget == entry' = None /\ restored' = FALSE
          /\ UNCHANGED <<file, archive, begun, leftovers>>
=============================================================================
