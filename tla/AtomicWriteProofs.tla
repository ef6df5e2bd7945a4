------------------------- MODULE AtomicWriteProofs --------------------------
(***************************************************************************)
(* Proofs about AtomicWrite.  The invariant Safe says of every directory a *)
(* crash may leave behind what the properties say of the present one; it   *)
(* needs to know, at each step of write_atomic, which name holds the new   *)
(* bytes and that they are whole.                                          *)
(***************************************************************************)
EXTENDS AtomicWrite, TLAPS

(* A power loss is survived only if synchronisation does what it says. *)
Honest == "power" \in Crashes => "sync" \notin Faults

(* The directories a crash may leave behind. *)
Images == IF "sync" \in Faults THEN {dir} ELSE pending

Whole(i) == /\ i \notin torn
            /\ "sync" \notin Faults => i \in synced \union {None}

Sound(d) == /\ Whole(Recoverable(d))
            /\ saved <= Recoverable(d).write
            /\ Recoverable(d).write <= Recoverable(dir).write

Early == {"fill", "rename", "clear", "copy", "synccopy", "clearbak", "aside", "swap"}

AllSound == \A d \in Images : Sound(d)

(* The bytes of the write under way have not taken the name of a file that
   anybody reads. *)
NotYetSeen == \A d \in Images : /\ d["live"].write < write
                                /\ d["bak"].write < write

(* Nothing bears the number of a write to come. *)
Begun == /\ \A d \in pending : \A n \in Names : d[n].write <= write
         /\ \A i \in synced : i.write <= write

At == /\ pc \in {"fill", "rename", "clear"} => Recovery \notin synced
      /\ pc \in {"fill", "rename"} => dir["tmp"] = Tmp
      /\ pc = "rename" => Whole(Tmp)
      /\ pc \in {"copy", "synccopy", "clearbak", "aside", "swap"} => dir["recovery"] = Recovery
      /\ pc = "synccopy" => Recovery \notin torn
      /\ pc \in {"clearbak", "aside", "swap"} => Whole(Recovery)
      /\ pc \in {"copy", "synccopy"} => prior = (dir["live"] # None)
      /\ pc \in {"clearbak", "aside"} => dir["live"] # None
      /\ pc \in {"syncdir", "syncswap", "cleanup"} => dir["live"].write = write
      /\ pc = "cleanup" => \A d \in Images : d["live"].write = write

Safe == /\ TypeOK
        /\ dir \in pending
        /\ pc \notin {"idle", "down"} => write >= 1
        /\ pc \in Early => saved < write
        /\ AllSound
        /\ Begun
        /\ pc \in Early => NotYetSeen
        /\ At

---------------------------------------------------------------------------
(* Typing. *)

(* The calls on a directory lead to directories. *)
LEMMA DirCalls ==
  ASSUME TypeOK
  PROVE  /\ \A n \in Names, i \in Inode \union {None} : Link(n, i) \in Dirs
         /\ \A m, n \in Names : Rename(m, n) \in Dirs
         /\ \A names \in SUBSET Names : Without(names) \in Dirs
  BY DEF TypeOK, Dirs, Link, Rename, Without

(* The two files a write makes carry its number. *)
LEMMA Numbered ==
  ASSUME TypeOK, write >= 1
  PROVE  Tmp \in Inode /\ Recovery \in Inode
  BY WritesAssumption DEF TypeOK, Tmp, Recovery, Inode

(* The types hold at the start, *)
LEMMA TypingInit == Init => TypeOK
  <1> SUFFICES ASSUME Init PROVE TypeOK
    OBVIOUS
  <1>1. dir \in Dirs /\ pending \subseteq Dirs
    BY DEF Init, Dirs
  <1>2. torn \subseteq Inode /\ synced \subseteq Inode \ torn
    BY DEF Init
  <1>3. write \in 0 .. MaxWrites /\ saved \in 0 .. write
    BY WritesAssumption DEF Init
  <1>4. pc \in Steps /\ prior \in BOOLEAN /\ moved \in BOOLEAN
    BY DEF Init, Steps
  <1> QED
    BY <1>1, <1>2, <1>3, <1>4 DEF TypeOK

(* and every step keeps them. *)
LEMMA TypingStep ==
  ASSUME Safe, Next
  PROVE  TypeOK'
  <1> USE DEF Fails
  <1> TypeOK
    BY DEF Safe
  <1>0. /\ pc # "idle" /\ pc # "down" => Tmp \in Inode /\ Recovery \in Inode
        /\ write \in Nat /\ saved \in Nat
    BY Numbered, WritesAssumption DEF TypeOK, Safe
  <1>1. CASE Begin
    <2>1. Tmp' \in Inode
      BY <1>1, WritesAssumption DEF Begin, TypeOK, Tmp, Inode
    <2>2. Tmp' \notin synced
      BY <1>1, <1>0 DEF Begin, Safe, Begun, Tmp
    <2>3. dir' \in Dirs
      BY <1>1, <2>1 DEF Begin, SetDir, TypeOK, Dirs, Link
    <2> QED
      BY <1>1, <2>1, <2>2, <2>3, WritesAssumption DEF Begin, SetDir, TypeOK, Steps
  <1>2. CASE BeginFails
    BY <1>2, WritesAssumption DEF BeginFails, TypeOK
  <1>3. CASE Fill
    BY <1>3, <1>0 DEF Fill, TypeOK, Steps
  <1>4. CASE FillFails
    BY <1>4, <1>0 DEF FillFails, Return, TypeOK, Steps
  <1>5. CASE RenameTmp
    BY <1>5, DirCalls DEF RenameTmp, SetDir, TypeOK, Steps, Names
  <1>6. CASE RenameFails
    BY <1>6 DEF RenameFails, TypeOK, Steps
  <1>7. CASE SyncDir
    BY <1>7, <1>0 DEF SyncDir, SyncParentDir, Return, TypeOK, Steps
  <1>8. CASE StartCopy
    <2>1. Recovery \notin synced
      BY <1>8 DEF StartCopy, Safe, At
    <2> QED
      BY <1>8, <2>1, <1>0, DirCalls DEF StartCopy, SetDir, TypeOK, Steps, Names
  <1>9. CASE Copy
    BY <1>9 DEF Copy, TypeOK, Steps
  <1>10. CASE CopyFails
    <2>1. PICK gone \in Removals({"recovery"}) : SetDir(Without(gone))
      BY <1>10 DEF CopyFails
    <2>2. gone \in SUBSET Names
      BY DEF Removals, Names
    <2> QED
      BY <1>10, <2>1, <2>2, DirCalls DEF CopyFails, SetDir, Return, TypeOK, Steps
  <1>11. CASE SyncCopy
    <2>1. Recovery \notin torn
      BY <1>11 DEF SyncCopy, Safe, At
    <2> QED
      BY <1>11, <2>1, <1>0 DEF SyncCopy, TypeOK, Steps
  <1>12. CASE ClearBak
    <2>1. PICK gone \in Removals({"bak"}) : SetDir(Without(gone))
      BY <1>12 DEF ClearBak
    <2>2. gone \in SUBSET Names
      BY DEF Removals, Names
    <2> QED
      BY <1>12, <2>1, <2>2, DirCalls DEF ClearBak, SetDir, TypeOK, Steps
  <1>13. CASE Aside
    BY <1>13, DirCalls DEF Aside, SetDir, TypeOK, Steps, Names
  <1>14. CASE Swap
    BY <1>14, DirCalls DEF Swap, SetDir, TypeOK, Steps, Names
  <1>15. CASE SwapFails
    BY <1>15, <1>0 DEF SwapFails, Return, TypeOK, Steps
  <1>16. CASE SyncSwap
    BY <1>16 DEF SyncSwap, SyncParentDir, TypeOK, Steps
  <1>17. CASE Cleanup
    <2>1. PICK gone \in Removals({"tmp"} \union IF moved THEN {"bak"} ELSE {}) : SetDir(Without(gone))
      BY <1>17 DEF Cleanup
    <2>2. gone \in SUBSET Names
      BY DEF Removals, Names
    <2> QED
      BY <1>17, <1>0, <2>1, <2>2, DirCalls DEF Cleanup, SetDir, Return, TypeOK, Steps
  <1>18. CASE Crash
    BY <1>18 DEF Crash, TypeOK, Steps
  <1>19. CASE PowerLoss
    <2>1. {dir'[n] : n \in Names} \subseteq Inode \union {None}
      BY <1>19 DEF PowerLoss, TypeOK, Dirs
    <2> QED
      BY <1>19, <2>1 DEF PowerLoss, TypeOK, Steps
  <1>20. CASE Start
    <2>1. dir["bak"].write \in 0 .. MaxWrites
      BY WritesAssumption DEF TypeOK, Dirs, Names, Inode, None
    <2> QED
      BY <1>20, <2>1 DEF Start, TypeOK, Steps
  <1> QED
    BY <1>1, <1>2, <1>3, <1>4, <1>5, <1>6, <1>7, <1>8, <1>9, <1>10, <1>11, <1>12, <1>13,
       <1>14, <1>15, <1>16, <1>17, <1>18, <1>19, <1>20 DEF Next

(* The parts of the types the steps use. *)
LEMMA Parts ==
  ASSUME TypeOK
  PROVE  /\ Tmp.write = write /\ Recovery.write = write /\ Tmp # Recovery
         /\ None.write = 0
         /\ \A i \in Inode \union {None} : i.write \in Nat /\ (i.write = 0 <=> i = None)
         /\ \A d \in pending, n \in Names : d[n] \in Inode \union {None}
         /\ \A n \in Names : dir[n] \in Inode \union {None}
  BY WritesAssumption DEF TypeOK, Tmp, Recovery, None, Inode, Dirs

(* What each call leaves under each name. *)
LEMMA Pointwise ==
  ASSUME TypeOK
  PROVE  /\ \A n, m \in Names : \A i : Link(n, i)[m] = IF m = n THEN i ELSE dir[m]
         /\ \A l, n, m \in Names : Rename(l, n)[m] = IF m = l THEN None ELSE IF m = n THEN dir[l] ELSE dir[m]
         /\ \A names \in SUBSET Names, m \in Names : Without(names)[m] = IF m \in names THEN None ELSE dir[m]
  BY DEF TypeOK, Dirs, Link, Rename, Without

(* Every step keeps a complete content within reach, in the directory and in each that a crash
   may leave. *)
LEMMA SafeStep ==
  ASSUME Safe, Honest, Next
  PROVE  Safe'
  <1> USE DEF Fails
  <1> TypeOK /\ TypeOK'
    BY TypingStep DEF Safe
  <1> write \in Nat /\ saved \in Nat /\ saved <= write
    BY WritesAssumption DEF TypeOK
  <1> \A i \in synced : i \in Inode
    BY DEF TypeOK
  <1> /\ write' = write => Tmp' = Tmp /\ Recovery' = Recovery
      /\ Tmp'.write = write' /\ Recovery'.write = write'
    BY DEF Tmp, Recovery
  <1>1. CASE Begin
    <2>1. AllSound'
      BY <1>1, Parts, Pointwise DEF Begin, SetDir, Safe, At, AllSound, NotYetSeen, Begun, Early, Images, Sound, Whole, Recoverable, Names
    <2>2. Begun'
      <3>1. \A d \in pending' : \A n \in Names : d[n].write <= write'
        BY <1>1, Parts, Pointwise DEF Begin, SetDir, Safe, Begun, Names
      <3>2. \A i \in synced' : i.write <= write'
        BY <1>1, Parts DEF Begin, Safe, Begun
      <3> QED
        BY <3>1, <3>2 DEF Begun
    <2>3. pc' \in Early => NotYetSeen'
      BY <1>1, Parts, Pointwise DEF Begin, SetDir, Safe, NotYetSeen, Begun, Early, Images, Names
    <2>4. At'
      BY <1>1, Parts, Pointwise DEF Begin, SetDir, Safe, At, Begun, Images, Whole, Names
    <2> QED
      BY <1>1, <2>1, <2>2, <2>3, <2>4 DEF Begin, SetDir, Safe
  <1>2. CASE BeginFails
    <2>1. AllSound'
      BY <1>2, Parts, Pointwise DEF BeginFails, Safe, At, AllSound, NotYetSeen, Begun, Early, Images, Sound, Whole, Recoverable, Names
    <2>2. Begun'
      <3>1. \A d \in pending' : \A n \in Names : d[n].write <= write'
        BY <1>2, Parts DEF BeginFails, Safe, Begun
      <3>2. \A i \in synced' : i.write <= write'
        BY <1>2, Parts DEF BeginFails, Safe, Begun
      <3> QED
        BY <3>1, <3>2 DEF Begun
    <2>3. pc' \in Early => NotYetSeen'
      BY <1>2, Parts, Pointwise DEF BeginFails, Safe, NotYetSeen, Begun, Early, Images, Names
    <2>4. At'
      BY <1>2, Parts, Pointwise DEF BeginFails, Safe, At, Begun, Images, Whole, Names
    <2> QED
      BY <1>2, <2>1, <2>2, <2>3, <2>4 DEF BeginFails, Safe, At, AllSound, Sound, Images, Early
  <1>3. CASE Fill
    <2>1. AllSound'
      BY <1>3, Parts, Pointwise DEF Fill, Safe, At, AllSound, NotYetSeen, Begun, Early, Images, Sound, Whole, Recoverable, Names
    <2>2. Begun'
      BY <1>3, Parts, Pointwise DEF Fill, Safe, Begun, Names
    <2>3. pc' \in Early => NotYetSeen'
      BY <1>3, Parts, Pointwise DEF Fill, Safe, NotYetSeen, Begun, Early, Images, Names
    <2>4. At'
      BY <1>3, Parts, Pointwise DEF Fill, Safe, At, Begun, Images, Whole, Names
    <2> QED
      BY <1>3, <2>1, <2>2, <2>3, <2>4 DEF Fill, Safe, At, AllSound, Sound, Images, Early
  <1>4. CASE FillFails
    <2>1. AllSound'
      BY <1>4, Parts, Pointwise DEF FillFails, Return, Safe, At, AllSound, NotYetSeen, Begun, Early, Images, Sound, Whole, Recoverable, Names
    <2>2. Begun'
      BY <1>4, Parts, Pointwise DEF FillFails, Return, Safe, Begun, Names
    <2>3. pc' \in Early => NotYetSeen'
      BY <1>4, Parts, Pointwise DEF FillFails, Return, Safe, NotYetSeen, Begun, Early, Images, Names
    <2>4. At'
      BY <1>4, Parts, Pointwise DEF FillFails, Return, Safe, At, Begun, Images, Whole, Names
    <2> QED
      BY <1>4, <2>1, <2>2, <2>3, <2>4 DEF FillFails, Return, Safe, At, AllSound, Sound, Images, Early
  <1>5. CASE RenameTmp
    <2>1. AllSound'
      BY <1>5, Parts, Pointwise DEF RenameTmp, SetDir, Safe, At, AllSound, NotYetSeen, Begun, Early, Images, Sound, Whole, Recoverable, Names
    <2>2. Begun'
      BY <1>5, Parts, Pointwise DEF RenameTmp, SetDir, Safe, Begun, Names
    <2>3. pc' \in Early => NotYetSeen'
      BY <1>5, Parts, Pointwise DEF RenameTmp, SetDir, Safe, NotYetSeen, Begun, Early, Images, Names
    <2>4. At'
      BY <1>5, Parts, Pointwise DEF RenameTmp, SetDir, Safe, At, Begun, Images, Whole, Names
    <2> QED
      BY <1>5, <2>1, <2>2, <2>3, <2>4 DEF RenameTmp, SetDir, Safe, At, AllSound, Sound, Images, Early
  <1>6. CASE RenameFails
    <2>1. AllSound'
      BY <1>6, Parts, Pointwise DEF RenameFails, Safe, At, AllSound, NotYetSeen, Begun, Early, Images, Sound, Whole, Recoverable, Names
    <2>2. Begun'
      BY <1>6, Parts, Pointwise DEF RenameFails, Safe, Begun, Names
    <2>3. pc' \in Early => NotYetSeen'
      BY <1>6, Parts, Pointwise DEF RenameFails, Safe, NotYetSeen, Begun, Early, Images, Names
    <2>4. At'
      BY <1>6, Parts, Pointwise DEF RenameFails, Safe, At, Begun, Images, Whole, Names
    <2> QED
      BY <1>6, <2>1, <2>2, <2>3, <2>4 DEF RenameFails, Safe, At, AllSound, Sound, Images, Early
  <1>7. CASE SyncDir
    <2>1. AllSound'
      BY <1>7, Parts, Pointwise DEF SyncDir, SyncParentDir, Return, Safe, At, AllSound, NotYetSeen, Begun, Early, Images, Sound, Whole, Recoverable, Names
    <2>2. Begun'
      BY <1>7, Parts, Pointwise DEF SyncDir, SyncParentDir, Return, Safe, Begun, Names
    <2>3. pc' \in Early => NotYetSeen'
      BY <1>7, Parts, Pointwise DEF SyncDir, SyncParentDir, Return, Safe, NotYetSeen, Begun, Early, Images, Names
    <2>4. At'
      BY <1>7, Parts, Pointwise DEF SyncDir, SyncParentDir, Return, Safe, At, Begun, Images, Whole, Names
    <2> QED
      BY <1>7, <2>1, <2>2, <2>3, <2>4 DEF SyncDir, SyncParentDir, Return, Safe, At, AllSound, Sound, Images, Early
  <1>8. CASE StartCopy
    <2>1. AllSound'
      BY <1>8, Parts, Pointwise DEF StartCopy, SetDir, Safe, At, AllSound, NotYetSeen, Begun, Early, Images, Sound, Whole, Recoverable, Names
    <2>2. Begun'
      BY <1>8, Parts, Pointwise DEF StartCopy, SetDir, Safe, Begun, Names
    <2>3. pc' \in Early => NotYetSeen'
      BY <1>8, Parts, Pointwise DEF StartCopy, SetDir, Safe, NotYetSeen, Begun, Early, Images, Names
    <2>4. At'
      BY <1>8, Parts, Pointwise DEF StartCopy, SetDir, Safe, At, Begun, Images, Whole, Names
    <2> QED
      BY <1>8, <2>1, <2>2, <2>3, <2>4 DEF StartCopy, SetDir, Safe, At, AllSound, Sound, Images, Early
  <1>9. CASE Copy
    <2>1. AllSound'
      BY <1>9, Parts, Pointwise DEF Copy, Safe, At, AllSound, NotYetSeen, Begun, Early, Images, Sound, Whole, Recoverable, Names
    <2>2. Begun'
      BY <1>9, Parts, Pointwise DEF Copy, Safe, Begun, Names
    <2>3. pc' \in Early => NotYetSeen'
      BY <1>9, Parts, Pointwise DEF Copy, Safe, NotYetSeen, Begun, Early, Images, Names
    <2>4. At'
      BY <1>9, Parts, Pointwise DEF Copy, Safe, At, Begun, Images, Whole, Names
    <2> QED
      BY <1>9, <2>1, <2>2, <2>3, <2>4 DEF Copy, Safe, At, AllSound, Sound, Images, Early
  <1>10. CASE CopyFails
    <2>0. PICK gone \in Removals({"recovery"}) : SetDir(Without(gone))
      BY <1>10 DEF CopyFails
    <2>a. gone \in SUBSET Names /\ gone \subseteq {"recovery"}
      BY DEF Removals, Names
    <2>1. AllSound'
      BY <1>10, <2>0, <2>a, Parts, Pointwise DEF CopyFails, Return, SetDir, Safe, At, AllSound, NotYetSeen, Begun, Early, Images, Sound, Whole, Recoverable, Names
    <2>2. Begun'
      BY <1>10, <2>0, <2>a, Parts, Pointwise DEF CopyFails, Return, SetDir, Safe, Begun, Names
    <2>3. pc' \in Early => NotYetSeen'
      BY <1>10, <2>0, <2>a, Parts, Pointwise DEF CopyFails, Return, SetDir, Safe, NotYetSeen, Begun, Early, Images, Names
    <2>4. At'
      BY <1>10, <2>0, <2>a, Parts, Pointwise DEF CopyFails, Return, SetDir, Safe, At, Begun, Images, Whole, Names
    <2> QED
      BY <1>10, <2>0, <2>a, <2>1, <2>2, <2>3, <2>4 DEF CopyFails, Return, SetDir, Safe, At, AllSound, Sound, Images, Early
  <1>11. CASE SyncCopy
    <2>1. AllSound'
      BY <1>11, Parts, Pointwise DEF SyncCopy, Safe, At, AllSound, NotYetSeen, Begun, Early, Images, Sound, Whole, Recoverable, Names
    <2>2. Begun'
      BY <1>11, Parts, Pointwise DEF SyncCopy, Safe, Begun, Names
    <2>3. pc' \in Early => NotYetSeen'
      BY <1>11, Parts, Pointwise DEF SyncCopy, Safe, NotYetSeen, Begun, Early, Images, Names
    <2>4. At'
      BY <1>11, Parts, Pointwise DEF SyncCopy, Safe, At, Begun, Images, Whole, Names
    <2> QED
      BY <1>11, <2>1, <2>2, <2>3, <2>4 DEF SyncCopy, Safe, At, AllSound, Sound, Images, Early
  <1>12. CASE ClearBak
    <2>0. PICK gone \in Removals({"bak"}) : SetDir(Without(gone))
      BY <1>12 DEF ClearBak
    <2>a. gone \in SUBSET Names /\ gone \subseteq {"bak"}
      BY DEF Removals, Names
    <2>1. AllSound'
      BY <1>12, <2>0, <2>a, Parts, Pointwise DEF ClearBak, SetDir, Safe, At, AllSound, NotYetSeen, Begun, Early, Images, Sound, Whole, Recoverable, Names
    <2>2. Begun'
      BY <1>12, <2>0, <2>a, Parts, Pointwise DEF ClearBak, SetDir, Safe, Begun, Names
    <2>3. pc' \in Early => NotYetSeen'
      BY <1>12, <2>0, <2>a, Parts, Pointwise DEF ClearBak, SetDir, Safe, NotYetSeen, Begun, Early, Images, Names
    <2>4. At'
      BY <1>12, <2>0, <2>a, Parts, Pointwise DEF ClearBak, SetDir, Safe, At, Begun, Images, Whole, Names
    <2> QED
      BY <1>12, <2>0, <2>a, <2>1, <2>2, <2>3, <2>4 DEF ClearBak, SetDir, Safe, At, AllSound, Sound, Images, Early
  <1>13. CASE Aside
    <2>1. AllSound'
      BY <1>13, Parts, Pointwise DEF Aside, SetDir, Safe, At, AllSound, NotYetSeen, Begun, Early, Images, Sound, Whole, Recoverable, Names
    <2>2. Begun'
      BY <1>13, Parts, Pointwise DEF Aside, SetDir, Safe, Begun, Names
    <2>3. pc' \in Early => NotYetSeen'
      BY <1>13, Parts, Pointwise DEF Aside, SetDir, Safe, NotYetSeen, Begun, Early, Images, Names
    <2>4. At'
      BY <1>13, Parts, Pointwise DEF Aside, SetDir, Safe, At, Begun, Images, Whole, Names
    <2> QED
      BY <1>13, <2>1, <2>2, <2>3, <2>4 DEF Aside, SetDir, Safe, At, AllSound, Sound, Images, Early
  <1>14. CASE Swap
    <2>1. AllSound'
      BY <1>14, Parts, Pointwise DEF Swap, SetDir, Safe, At, AllSound, NotYetSeen, Begun, Early, Images, Sound, Whole, Recoverable, Names
    <2>2. Begun'
      BY <1>14, Parts, Pointwise DEF Swap, SetDir, Safe, Begun, Names
    <2>3. pc' \in Early => NotYetSeen'
      BY <1>14, Parts, Pointwise DEF Swap, SetDir, Safe, NotYetSeen, Begun, Early, Images, Names
    <2>4. At'
      BY <1>14, Parts, Pointwise DEF Swap, SetDir, Safe, At, Begun, Images, Whole, Names
    <2> QED
      BY <1>14, <2>1, <2>2, <2>3, <2>4 DEF Swap, SetDir, Safe, At, AllSound, Sound, Images, Early
  <1>15. CASE SwapFails
    <2>1. AllSound'
      BY <1>15, Parts, Pointwise DEF SwapFails, Return, Safe, At, AllSound, NotYetSeen, Begun, Early, Images, Sound, Whole, Recoverable, Names
    <2>2. Begun'
      BY <1>15, Parts, Pointwise DEF SwapFails, Return, Safe, Begun, Names
    <2>3. pc' \in Early => NotYetSeen'
      BY <1>15, Parts, Pointwise DEF SwapFails, Return, Safe, NotYetSeen, Begun, Early, Images, Names
    <2>4. At'
      BY <1>15, Parts, Pointwise DEF SwapFails, Return, Safe, At, Begun, Images, Whole, Names
    <2> QED
      BY <1>15, <2>1, <2>2, <2>3, <2>4 DEF SwapFails, Return, Safe, At, AllSound, Sound, Images, Early
  <1>16. CASE SyncSwap
    <2>1. AllSound'
      BY <1>16, Parts, Pointwise DEF SyncSwap, SyncParentDir, Safe, At, AllSound, NotYetSeen, Begun, Early, Images, Sound, Whole, Recoverable, Names
    <2>2. Begun'
      BY <1>16, Parts, Pointwise DEF SyncSwap, SyncParentDir, Safe, Begun, Names
    <2>3. pc' \in Early => NotYetSeen'
      BY <1>16, Parts, Pointwise DEF SyncSwap, SyncParentDir, Safe, NotYetSeen, Begun, Early, Images, Names
    <2>4. At'
      BY <1>16, Parts, Pointwise DEF SyncSwap, SyncParentDir, Safe, At, Begun, Images, Whole, Names
    <2> QED
      BY <1>16, <2>1, <2>2, <2>3, <2>4 DEF SyncSwap, SyncParentDir, Safe, At, AllSound, Sound, Images, Early
  <1>17. CASE Cleanup
    <2>0. PICK gone \in Removals({"tmp"} \union IF moved THEN {"bak"} ELSE {}) : SetDir(Without(gone))
      BY <1>17 DEF Cleanup
    <2>a. gone \in SUBSET Names /\ gone \subseteq {"tmp", "bak"}
      BY DEF Removals, Names
    <2>1. AllSound'
      BY <1>17, <2>0, <2>a, Parts, Pointwise DEF Cleanup, Return, SetDir, Safe, At, AllSound, NotYetSeen, Begun, Early, Images, Sound, Whole, Recoverable, Names
    <2>2. Begun'
      BY <1>17, <2>0, <2>a, Parts, Pointwise DEF Cleanup, Return, SetDir, Safe, Begun, Names
    <2>3. pc' \in Early => NotYetSeen'
      BY <1>17, <2>0, <2>a, Parts, Pointwise DEF Cleanup, Return, SetDir, Safe, NotYetSeen, Begun, Early, Images, Names
    <2>4. At'
      BY <1>17, <2>0, <2>a, Parts, Pointwise DEF Cleanup, Return, SetDir, Safe, At, Begun, Images, Whole, Names
    <2> QED
      BY <1>17, <2>0, <2>a, <2>1, <2>2, <2>3, <2>4 DEF Cleanup, Return, SetDir, Safe, At, AllSound, Sound, Images, Early
  <1>18. CASE Crash
    <2>1. AllSound'
      BY <1>18, Parts, Pointwise DEF Crash, Safe, At, AllSound, NotYetSeen, Begun, Early, Images, Sound, Whole, Recoverable, Names
    <2>2. Begun'
      BY <1>18, Parts, Pointwise DEF Crash, Safe, Begun, Names
    <2>3. pc' \in Early => NotYetSeen'
      BY <1>18, Parts, Pointwise DEF Crash, Safe, NotYetSeen, Begun, Early, Images, Names
    <2>4. At'
      BY <1>18, Parts, Pointwise DEF Crash, Safe, At, Begun, Images, Whole, Names
    <2> QED
      BY <1>18, <2>1, <2>2, <2>3, <2>4 DEF Crash, Safe, At, AllSound, Sound, Images, Early
  <1>19. CASE PowerLoss
    <2>1. AllSound'
      <3>1. "sync" \notin Faults /\ dir' \in pending /\ pending' = {dir'} /\ saved' = saved
        BY <1>19 DEF PowerLoss, Honest
      <3>2. Sound(dir')
        BY <3>1 DEF Safe, AllSound, Images
      <3>3. Recoverable(dir') \in {dir'[n] : n \in Names}
        BY DEF Recoverable, Names
      <3>4. /\ Recoverable(dir') \notin torn'
            /\ Recoverable(dir') \in synced' \union {None}
        BY <1>19, <3>1, <3>2, <3>3 DEF PowerLoss, Sound, Whole
      <3>5. Recoverable(dir').write \in Nat
        BY <3>1, <3>3, Parts
      <3> QED
        BY <3>1, <3>2, <3>4, <3>5 DEF AllSound, Images, Sound, Whole
    <2>2. Begun'
      BY <1>19, Parts, Pointwise DEF PowerLoss, Safe, Begun, Names
    <2>3. pc' \in Early => NotYetSeen'
      BY <1>19, Parts, Pointwise DEF PowerLoss, Safe, NotYetSeen, Begun, Early, Images, Names
    <2>4. At'
      BY <1>19, Parts, Pointwise DEF PowerLoss, Safe, At, Begun, Images, Whole, Names
    <2> QED
      BY <1>19, <2>1, <2>2, <2>3, <2>4 DEF PowerLoss, Safe, At, AllSound, Sound, Images, Early
  <1>20. CASE Start
    <2>1. AllSound'
      BY <1>20, Parts, Pointwise DEF Start, Safe, At, AllSound, NotYetSeen, Begun, Early, Images, Sound, Whole, Recoverable, Names
    <2>2. Begun'
      BY <1>20, Parts, Pointwise DEF Start, Safe, Begun, Names
    <2>3. pc' \in Early => NotYetSeen'
      BY <1>20, Parts, Pointwise DEF Start, Safe, NotYetSeen, Begun, Early, Images, Names
    <2>4. At'
      BY <1>20, Parts, Pointwise DEF Start, Safe, At, Begun, Images, Whole, Names
    <2> QED
      BY <1>20, <2>1, <2>2, <2>3, <2>4 DEF Start, Safe, At, AllSound, Sound, Images, Early
  <1> QED
    BY <1>1, <1>2, <1>3, <1>4, <1>5, <1>6, <1>7, <1>8, <1>9, <1>10, <1>11, <1>12, <1>13, <1>14, <1>15, <1>16, <1>17, <1>18, <1>19, <1>20 DEF Next

(* It is so at the start, *)
LEMMA SafeInit == Init => Safe
  <1> SUFFICES ASSUME Init PROVE Safe
    OBVIOUS
  <1> TypeOK
    BY TypingInit
  <1>1. Images = {dir} /\ pending = {dir} /\ synced = {} /\ torn = {}
    BY DEF Init, Images
  <1>2. \A n \in Names : dir[n] = None
    BY DEF Init
  <1>3. None.write = 0
    BY DEF None
  <1>4. Recoverable(dir) = None
    BY <1>2 DEF Recoverable, Names
  <1>5. AllSound
    BY <1>1, <1>3, <1>4 DEF Init, AllSound, Sound, Whole
  <1>6. Begun
    BY <1>1, <1>2, <1>3 DEF Init, Begun
  <1>7. pc = "idle" /\ dir \in pending
    BY <1>1 DEF Init
  <1> QED
    BY <1>5, <1>6, <1>7 DEF Safe, Early, At

(* and where nothing happens. *)
LEMMA SafeStutter ==
  ASSUME Safe, UNCHANGED vars
  PROVE  Safe'
  BY DEF vars, Safe, TypeOK, AllSound, Begun, NotYetSeen, At, Images, Sound, Whole, Recoverable, Tmp, Recovery

(* The invariant of write_atomic that the properties follow from. *)
THEOREM Safety ==
  ASSUME Honest
  PROVE  Spec => []Safe
  <1>1. Safe /\ [Next]_vars => Safe'
    BY SafeStep, SafeStutter
  <1> QED
    BY SafeInit, <1>1, PTL DEF Spec

(* What write_atomic reported as saved can be recovered at every moment, when
   a power loss or an ignored failure of a synchronisation may happen, but not
   both. *)
THEOREM Survival ==
  ASSUME Honest
  PROVE  Spec => []GoodBytesSurvive
  <1>1. Safe => GoodBytesSurvive
    BY DEF Safe, AllSound, Sound, Whole, Images, GoodBytesSurvive
  <1> QED
    BY Safety, <1>1, PTL

(* When no synchronisation fails, what write_atomic reported as saved can be
   recovered after a power loss at any moment. *)
THEOREM Durability ==
  ASSUME "sync" \notin Faults
  PROVE  Spec => []Durable
  <1>1. Safe => Durable
    BY DEF Safe, AllSound, Sound, Whole, Images, Durable
  <1>2. Honest
    BY DEF Honest
  <1> QED
    BY Safety, <1>1, <1>2, PTL

(* Every variable of write_atomic keeps its type. *)
THEOREM WriteTyping ==
  ASSUME Honest
  PROVE  Spec => []TypeOK
  <1>1. Safe => TypeOK
    BY DEF Safe
  <1> QED
    BY Safety, <1>1, PTL

---------------------------------------------------------------------------
(* write_atomic implements the atomic file. *)

(* The content a reader would find is that of a write, and none before the last saved one. *)
LEMMA ContentIs ==
  ASSUME Safe
  PROVE  /\ Content = Recoverable(dir).write
         /\ Content \in 0 .. MaxWrites
         /\ saved <= Content
  <1>1. Sound(dir)
    BY DEF Safe, AllSound, Images
  <1>2. Recoverable(dir) \in Inode \union {None}
    BY DEF Safe, TypeOK, Dirs, Names, Recoverable
  <1>3. Recoverable(dir).write \in 0 .. MaxWrites
    BY <1>2, WritesAssumption DEF Inode, None
  <1> QED
    BY <1>1, <1>3 DEF Sound, Whole, Content

(* The start maps to a start of the abstract file, *)
LEMMA FileInit == Init => File!Init
  <1> SUFFICES ASSUME Init PROVE File!Init
    OBVIOUS
  <1>1. Recoverable(dir) = None /\ torn = {} /\ saved = 0
    BY DEF Init, Recoverable, Names
  <1> QED
    BY <1>1 DEF File!Init, Content, None

(* and every step to a step of it or to none. *)
LEMMA FileStep ==
  ASSUME Safe, Honest, [Next]_vars
  PROVE  [File!Next]_<<Content, saved>>
  <1> Safe' /\ TypeOK
    BY SafeStep, SafeStutter DEF Safe
  <1> write \in 0 .. MaxWrites /\ MaxWrites \in Nat /\ saved \in Nat
    BY WritesAssumption DEF TypeOK
  <1> DEFINE Same == Recoverable(dir').write = Recoverable(dir).write
  <1>a. ASSUME Same PROVE Content' = Content
    BY <1>a, ContentIs DEF Recoverable, Content, Whole, Safe, AllSound, Images, Sound
  <1>1. CASE Begin
    <2>1. Same
      BY <1>1, Parts, Pointwise DEF Begin, SetDir, Safe, At, Recoverable, Names
    <2> QED
      BY <1>1, <1>a, <2>1 DEF Begin
  <1>2. CASE BeginFails
    <2>1. Same
      BY <1>2, Parts, Pointwise DEF BeginFails, Safe, At, Recoverable, Names
    <2> QED
      BY <1>2, <1>a, <2>1 DEF BeginFails
  <1>3. CASE Fill
    <2>1. Same
      BY <1>3, Parts, Pointwise DEF Fill, Safe, At, Recoverable, Names
    <2> QED
      BY <1>3, <1>a, <2>1 DEF Fill
  <1>4. CASE FillFails
    <2>1. Same
      BY <1>4, Parts, Pointwise DEF FillFails, Safe, At, Recoverable, Names
    <2> QED
      BY <1>4, <1>a, <2>1 DEF FillFails, Return
  <1>5. CASE RenameTmp
    <2>1. Recoverable(dir') = Tmp /\ write >= 1
      BY <1>5, Parts, Pointwise DEF RenameTmp, SetDir, Safe, At, Recoverable, Names
    <2>2. Recoverable(dir).write < write
      BY <1>5 DEF RenameTmp, Safe, Early, NotYetSeen, Images, Recoverable
    <2>3. Content' = write /\ Content < write /\ Content \in Nat
      BY <1>5, <2>1, <2>2, Parts, ContentIs DEF Content, Recoverable, Safe, AllSound, Sound, Whole, Images
    <2>4. File!Replace
      BY <1>5, <2>3 DEF RenameTmp, File!Replace
    <2> QED
      BY <2>4 DEF File!Next
  <1>6. CASE RenameFails
    <2>1. Same
      BY <1>6, Parts, Pointwise DEF RenameFails, Safe, At, Recoverable, Names
    <2> QED
      BY <1>6, <1>a, <2>1 DEF RenameFails
  <1>7. CASE SyncDir
    <2>1. Same
      BY <1>7, Parts, Pointwise DEF SyncDir, Safe, At, Recoverable, Names
    <2>2. Recoverable(dir) = dir["live"] /\ dir["live"].write = write
      BY <1>7, Parts DEF SyncDir, Safe, At, Recoverable, Names, Images
    <2>3. File!Report
      BY <1>7, <1>a, <2>1, <2>2, ContentIs DEF SyncDir, Return, File!Report
    <2> QED
      BY <2>3 DEF File!Next
  <1>8. CASE StartCopy
    <2>1. Same
      BY <1>8, Parts, Pointwise DEF StartCopy, SetDir, Safe, At, Recoverable, Names
    <2> QED
      BY <1>8, <1>a, <2>1 DEF StartCopy
  <1>9. CASE Copy
    <2>1. Same
      BY <1>9, Parts, Pointwise DEF Copy, Safe, At, Recoverable, Names
    <2> QED
      BY <1>9, <1>a, <2>1 DEF Copy
  <1>10. CASE CopyFails
    <2>0. PICK gone \in Removals({"recovery"}) : SetDir(Without(gone))
      BY <1>10 DEF CopyFails
    <2>a. gone \in SUBSET Names /\ gone \subseteq {"recovery"}
      BY DEF Removals, Names
    <2>1. Same
      BY <1>10, <2>0, <2>a, Parts, Pointwise DEF CopyFails, SetDir, Safe, At, Recoverable, Names
    <2> QED
      BY <1>10, <1>a, <2>1 DEF CopyFails, Return
  <1>11. CASE SyncCopy
    <2>1. Same
      BY <1>11, Parts, Pointwise DEF SyncCopy, Safe, At, Recoverable, Names
    <2> QED
      BY <1>11, <1>a, <2>1 DEF SyncCopy
  <1>12. CASE ClearBak
    <2>0. PICK gone \in Removals({"bak"}) : SetDir(Without(gone))
      BY <1>12 DEF ClearBak
    <2>a. gone \in SUBSET Names /\ gone \subseteq {"bak"}
      BY DEF Removals, Names
    <2>1. Same
      BY <1>12, <2>0, <2>a, Parts, Pointwise DEF ClearBak, SetDir, Safe, At, Recoverable, Names
    <2> QED
      BY <1>12, <1>a, <2>1 DEF ClearBak
  <1>13. CASE Aside
    <2>1. Same
      BY <1>13, Parts, Pointwise DEF Aside, SetDir, Safe, At, Recoverable, Names
    <2> QED
      BY <1>13, <1>a, <2>1 DEF Aside
  <1>14. CASE Swap
    <2>1. Recoverable(dir') = Recovery /\ write >= 1
      BY <1>14, Parts, Pointwise DEF Swap, SetDir, Safe, At, Recoverable, Names
    <2>2. Recoverable(dir).write < write
      BY <1>14 DEF Swap, Safe, Early, NotYetSeen, Images, Recoverable
    <2>3. Content' = write /\ Content < write /\ Content \in Nat
      BY <1>14, <2>1, <2>2, Parts, ContentIs DEF Content, Recoverable, Safe, AllSound, Sound, Whole, Images
    <2>4. File!Replace
      BY <1>14, <2>3 DEF Swap, File!Replace
    <2> QED
      BY <2>4 DEF File!Next
  <1>15. CASE SwapFails
    <2>1. Same
      BY <1>15, Parts, Pointwise DEF SwapFails, Safe, At, Recoverable, Names
    <2> QED
      BY <1>15, <1>a, <2>1 DEF SwapFails, Return
  <1>16. CASE SyncSwap
    <2>1. Same
      BY <1>16, Parts, Pointwise DEF SyncSwap, Safe, At, Recoverable, Names
    <2> QED
      BY <1>16, <1>a, <2>1 DEF SyncSwap
  <1>17. CASE Cleanup
    <2>0. PICK gone \in Removals({"tmp"} \union IF moved THEN {"bak"} ELSE {}) : SetDir(Without(gone))
      BY <1>17 DEF Cleanup
    <2>a. gone \in SUBSET Names /\ gone \subseteq {"tmp", "bak"}
      BY DEF Removals, Names
    <2>1. Same
      BY <1>17, <2>0, <2>a, Parts, Pointwise DEF Cleanup, SetDir, Safe, At, Recoverable, Names
    <2>2. Recoverable(dir) = dir["live"] /\ dir["live"].write = write
      BY <1>17, Parts DEF Cleanup, Safe, At, Recoverable, Names, Images
    <2>3. File!Report
      BY <1>17, <1>a, <2>1, <2>2, ContentIs DEF Cleanup, Return, File!Report
    <2> QED
      BY <2>3 DEF File!Next
  <1>18. CASE Crash
    <2>1. Same
      BY <1>18, Parts, Pointwise DEF Crash, Safe, At, Recoverable, Names
    <2> QED
      BY <1>18, <1>a, <2>1 DEF Crash
  <1>19. CASE PowerLoss
    <2>1. "sync" \notin Faults /\ dir' \in pending /\ saved' = saved
      BY <1>19 DEF PowerLoss, Honest
    <2>2. saved <= Recoverable(dir').write /\ Recoverable(dir').write <= Recoverable(dir).write
      BY <2>1 DEF Safe, AllSound, Sound, Images
    <2>3. Content' = Recoverable(dir').write /\ Content' \in Nat
      <3>1. Recoverable(dir') \in Inode \union {None} /\ Recoverable(dir') \notin torn'
        BY DEF Safe, AllSound, Sound, Whole, Images, TypeOK, Dirs, Names, Recoverable
      <3> QED
        BY <3>1, WritesAssumption DEF Content, Recoverable, Inode, None
    <2>4. Content' \in saved .. Content
      BY <2>2, <2>3, ContentIs
    <2>5. File!Revert
      BY <2>1, <2>4 DEF File!Revert
    <2> QED
      BY <2>5 DEF File!Next
  <1>20. CASE Start
    <2>1. Same
      BY <1>20, Parts, Pointwise DEF Start, Safe, At, Recoverable, Names
    <2> QED
      BY <1>20, <1>a, <2>1 DEF Start
  <1>21. CASE UNCHANGED vars
    BY <1>21 DEF vars, Content, Recoverable
  <1> QED
    BY <1>1, <1>2, <1>3, <1>4, <1>5, <1>6, <1>7, <1>8, <1>9, <1>10, <1>11, <1>12, <1>13, <1>14, <1>15, <1>16, <1>17, <1>18, <1>19, <1>20, <1>21 DEF Next

(* To a reader who turns to .bak when there is no live file, write_atomic
   replaces a version by a later one in one step and never takes back what it
   reported. *)
THEOREM FileImplementation ==
  ASSUME Honest
  PROVE  Spec => ImplementsFile
  <1>1. Safe /\ [Next]_vars => [File!Next]_<<Content, saved>>
    BY FileStep
  <1> QED
    BY Safety, FileInit, <1>1, PTL DEF Spec, ImplementsFile, File!Spec

=============================================================================
