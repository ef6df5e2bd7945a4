---------------------------- MODULE AtomicWrite -----------------------------
(***************************************************************************)
(* fsutil::write_atomic on one file of the store, system call by system    *)
(* call, with its fallback when the rename fails, and the crashes that may *)
(* come between any two calls.                                             *)
(*                                                                         *)
(* A write is known by its number, an inode by the write that created it   *)
(* and whether it is the temporary file or the copy the fallback makes of  *)
(* it.  A file is read as torn until its last byte was written.  A process *)
(* that dies leaves the directory as it is.  A power loss brings back any  *)
(* directory since the last synchronisation (the file system applies the   *)
(* operations in order) and may tear every inode that was not synchronised.*)
(*                                                                         *)
(* Faults says which calls may fail: "write" (create, write or sync the    *)
(* temporary file), "rename", "copy", "remove", and "sync", the calls      *)
(* whose failure is only logged; a platform that does not synchronise      *)
(* directories is one on which they always fail.                           *)
(***************************************************************************)
EXTENDS Integers

CONSTANTS MaxWrites,   \* bound: calls of write_atomic in a behaviour
          Faults,      \* the system calls that may fail
          Crashes      \* "process", "power"

ASSUME WritesAssumption  == MaxWrites \in Nat
ASSUME FaultsAssumption  == Faults \subseteq {"write", "rename", "copy", "remove", "sync"}
ASSUME CrashesAssumption == Crashes \subseteq {"process", "power"}

VARIABLES pc,         \* where write_atomic is
          dir,        \* the directory: what each name stands for
          pending,    \* the directories a power loss may bring back
          torn,       \* inodes whose bytes are incomplete
          synced,     \* inodes whose bytes are on the disk
          write,      \* number of the last write begun
          prior,      \* prior_existed
          moved,      \* bak_path is Some
          (* history *)
          saved       \* the last write that returned Ok

vars == <<pc, dir, pending, torn, synced, write, prior, moved, saved>>

Names == {"live", "tmp", "recovery", "bak"}
Inode == [write: 1 .. MaxWrites, copy: BOOLEAN]
None  == [write |-> 0, copy |-> FALSE]
Dirs  == [Names -> Inode \union {None}]

Tmp      == [write |-> write, copy |-> FALSE]
Recovery == [write |-> write, copy |-> TRUE]

Fails(call) == call \in Faults

---------------------------------------------------------------------------
(* System calls. *)

SetDir(d) == /\ dir' = d
             /\ pending' = pending \union {d}

Link(name, inode) == [dir EXCEPT ![name] = inode]
Rename(from, to)  == [dir EXCEPT ![to] = dir[from], ![from] = None]

Removals(names) == IF Fails("remove") THEN SUBSET names ELSE {names}
Without(names)  == [n \in Names |-> IF n \in names THEN None ELSE dir[n]]

(* A failure is only logged. *)
SyncParentDir == \/ pending' = {dir}
                 \/ Fails("sync") /\ pending' = pending

Return(result) == /\ pc' = "idle"
                  /\ saved' = IF result = "ok" THEN write ELSE saved

---------------------------------------------------------------------------
(* write_atomic *)

Begin ==
  /\ pc = "idle"
  /\ write < MaxWrites
  /\ write' = write + 1
  /\ SetDir(Link("tmp", Tmp'))
  /\ torn' = torn \union {Tmp'}
  /\ pc' = "fill"
  /\ UNCHANGED <<synced, prior, moved, saved>>

(* The directory cannot be made, or the temporary file not created. *)
BeginFails ==
  /\ pc = "idle"
  /\ write < MaxWrites
  /\ Fails("write")
  /\ write' = write + 1
  /\ UNCHANGED <<pc, dir, pending, torn, synced, prior, moved, saved>>

(* Mutant: the temporary file is renamed without having been synchronised. *)
FillUnsynced ==
  /\ pc = "fill"
  /\ torn' = torn \ {Tmp}
  /\ pc' = "rename"
  /\ UNCHANGED <<dir, pending, synced, write, prior, moved, saved>>

(* write_all and sync_all. *)
Fill ==
  /\ pc = "fill"
  /\ torn' = torn \ {Tmp}
  /\ synced' = synced \union {Tmp}
  /\ pc' = "rename"
  /\ UNCHANGED <<dir, pending, write, prior, moved, saved>>

FillFails ==
  /\ pc = "fill"
  /\ Fails("write")
  /\ torn' \in {torn, torn \ {Tmp}}
  /\ Return("err")
  /\ UNCHANGED <<dir, pending, synced, write, prior, moved>>

RenameTmp ==
  /\ pc = "rename"
  /\ SetDir(Rename("tmp", "live"))
  /\ pc' = "syncdir"
  /\ UNCHANGED <<torn, synced, write, prior, moved, saved>>

RenameFails ==
  /\ pc = "rename"
  /\ Fails("rename")
  /\ pc' = "clear"
  /\ UNCHANGED <<dir, pending, torn, synced, write, prior, moved, saved>>

SyncDir ==
  /\ pc = "syncdir"
  /\ SyncParentDir
  /\ Return("ok")
  /\ UNCHANGED <<dir, torn, synced, write, prior, moved>>

---------------------------------------------------------------------------
(* rename_failed_fallback_copy *)

(* Mutant: the new bytes are copied over the live file, as they once were. *)
CopyOverLive ==
  /\ pc = "clear"
  /\ SetDir(Link("live", Recovery))
  /\ torn' = torn \union {Recovery}
  /\ prior' = (dir["live"] # None)
  /\ moved' = FALSE
  /\ pc' = "copy"
  /\ UNCHANGED <<synced, write, saved>>

(* A stale recovery file is removed and the copy opened; nothing ever reads
   either. *)
StartCopy ==
  /\ pc = "clear"
  /\ SetDir(Link("recovery", Recovery))
  /\ torn' = torn \union {Recovery}
  /\ prior' = (dir["live"] # None)
  /\ moved' = FALSE
  /\ pc' = "copy"
  /\ UNCHANGED <<synced, write, saved>>

(* Mutant: a copy that ends short is not noticed. *)
CopyEndsShort ==
  /\ pc = "copy"
  /\ pc' = "synccopy"
  /\ UNCHANGED <<dir, pending, torn, synced, write, prior, moved, saved>>

Copy ==
  /\ pc = "copy"
  /\ torn' = torn \ {Recovery}
  /\ pc' = "synccopy"
  /\ UNCHANGED <<dir, pending, synced, write, prior, moved, saved>>

CopyFails ==
  /\ pc = "copy"
  /\ Fails("copy")
  /\ \E gone \in Removals({"recovery"}) : SetDir(Without(gone))
  /\ Return("err")
  /\ UNCHANGED <<torn, synced, write, prior, moved>>

SyncCopy ==
  /\ pc = "synccopy"
  /\ \/ synced' = synced \union {Recovery}
     \/ Fails("sync") /\ synced' = synced
  /\ pc' = IF prior THEN "clearbak" ELSE "swap"
  /\ UNCHANGED <<dir, pending, torn, write, prior, moved, saved>>

ClearBak ==
  /\ pc = "clearbak"
  /\ \E gone \in Removals({"bak"}) : SetDir(Without(gone))
  /\ pc' = "aside"
  /\ UNCHANGED <<torn, synced, write, prior, moved, saved>>

Aside ==
  /\ pc = "aside"
  /\ \/ SetDir(Rename("live", "bak")) /\ moved' = TRUE
     \/ Fails("rename") /\ moved' = FALSE /\ UNCHANGED <<dir, pending>>
  /\ pc' = "swap"
  /\ UNCHANGED <<torn, synced, write, prior, saved>>

Swap ==
  /\ pc = "swap"
  /\ SetDir(Rename("recovery", "live"))
  /\ pc' = "syncswap"
  /\ UNCHANGED <<torn, synced, write, prior, moved, saved>>

SyncSwap ==
  /\ pc = "syncswap"
  /\ SyncParentDir
  /\ pc' = "cleanup"
  /\ UNCHANGED <<dir, torn, synced, write, prior, moved, saved>>

(* Mutant: the failed swap is taken for a save. *)
SwapFailsSilently ==
  /\ pc = "swap"
  /\ Fails("rename")
  /\ Return("ok")
  /\ UNCHANGED <<dir, pending, torn, synced, write, prior, moved>>

(* The prior bytes stay in .bak, the new ones in the recovery file. *)
SwapFails ==
  /\ pc = "swap"
  /\ Fails("rename")
  /\ Return("err")
  /\ UNCHANGED <<dir, pending, torn, synced, write, prior, moved>>

Cleanup ==
  /\ pc = "cleanup"
  /\ \E gone \in Removals({"tmp"} \union IF moved THEN {"bak"} ELSE {}) : SetDir(Without(gone))
  /\ Return("ok")
  /\ UNCHANGED <<torn, synced, write, prior, moved>>

---------------------------------------------------------------------------
(* Crash and start. *)

Crash ==
  /\ pc # "down"
  /\ "process" \in Crashes
  /\ pc' = "down"
  /\ UNCHANGED <<dir, pending, torn, synced, write, prior, moved, saved>>

PowerLoss ==
  /\ pc # "down"
  /\ "power" \in Crashes
  /\ dir' \in pending
  /\ pending' = {dir'}
  /\ \E lost \in SUBSET {dir'[n] : n \in Names} :
       torn' = torn \union (lost \ (synced \union {None}))
  /\ synced' = (synced \union {dir'[n] : n \in Names}) \ (torn' \union {None})
  /\ pc' = "down"
  /\ UNCHANGED <<write, prior, moved, saved>>

(* The readers of the store take a missing file for a fresh start; none
   looks at .bak. *)
Start ==
  /\ pc = "down"
  /\ pc' = "idle"
  /\ UNCHANGED <<dir, pending, torn, synced, write, prior, moved, saved>>

---------------------------------------------------------------------------
Init == /\ pc = "idle"
        /\ dir = [n \in Names |-> None]
        /\ pending = {dir}
        /\ torn = {} /\ synced = {}
        /\ write = 0 /\ saved = 0
        /\ prior = FALSE /\ moved = FALSE

Next == \/ Begin \/ BeginFails \/ Fill \/ FillFails \/ RenameTmp \/ RenameFails
        \/ SyncDir \/ StartCopy \/ Copy \/ CopyFails \/ SyncCopy \/ ClearBak
        \/ Aside \/ Swap \/ SwapFails \/ SyncSwap \/ Cleanup
        \/ Crash \/ PowerLoss \/ Start

Spec == Init /\ [][Next]_vars

---------------------------------------------------------------------------
(* Properties. *)

Steps == {"down", "idle", "fill", "rename", "clear", "copy", "synccopy",
          "clearbak", "aside", "swap", "syncdir", "syncswap", "cleanup"}

(* Every variable keeps its type: the names of the directory stand for inodes
   of writes that were begun, through every crash of write_atomic. *)
TypeOK ==
  /\ pc \in Steps
  /\ dir \in Dirs
  /\ pending \subseteq Dirs
  /\ torn \subseteq Inode
  /\ synced \subseteq Inode \ torn
  /\ write \in 0 .. MaxWrites
  /\ saved \in 0 .. write
  /\ prior \in BOOLEAN /\ moved \in BOOLEAN

(* What an operator can recover from a directory: the live file, or, when the
   fallback moved it away and got no further, the .bak file. *)
Recoverable(d) == IF d["live"] # None THEN d["live"] ELSE d["bak"]

(* The last version reported as saved, or a later whole one, can be recovered
   at every moment of every later write_atomic, and so after a crash there. *)
GoodBytesSurvive == /\ Recoverable(dir) \notin torn
                    /\ Recoverable(dir).write >= saved

(* A power loss at any moment leaves a directory from which the last version
   reported by write_atomic, or a later whole one, can be recovered. *)
Durable == \A d \in pending : /\ Recoverable(d) \in synced \union {None}
                              /\ Recoverable(d) \notin torn
                              /\ Recoverable(d).write >= saved

(* To a reader who looks at .bak when there is no live file, write_atomic is
   the atomic file: versions replace each other in one step. *)
Content == IF Recoverable(dir) \in torn THEN -1 ELSE Recoverable(dir).write

File == INSTANCE AtomicFile WITH content <- Content, reported <- saved
ImplementsFile == File!Spec
=============================================================================
