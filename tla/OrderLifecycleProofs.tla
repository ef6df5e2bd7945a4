------------------------ MODULE OrderLifecycleProofs ------------------------
(***************************************************************************)
(* Proofs about OrderLifecycle, for every value of its constants.          *)
(***************************************************************************)
EXTENDS OrderLifecycle, SequenceTheorems, TLAPS

---------------------------------------------------------------------------
(* Facts about the sequence operators of the queue. *)

(* Undoing a push_back leaves the queue as it was. *)
LEMMA FrontOfAppend ==
  ASSUME NEW S, NEW s \in Seq(S), NEW e \in S
  PROVE  Front(Append(s, e)) = s
<1> DEFINE t == Append(s, e)
<1>1. /\ t \in Seq(S) /\ Len(t) = Len(s) + 1 /\ Len(s) \in Nat
      /\ \A i \in 1 .. Len(s) : t[i] = s[i]
  BY AppendProperties, LenProperties
<1>2. \A i \in 1 .. Len(t) - 1 : t[i] \in S
  BY <1>1, ElementOfSeq
<1> HIDE DEF t
<1>3. /\ SubSeq(t, 1, Len(t) - 1) \in Seq(S)
      /\ Len(SubSeq(t, 1, Len(t) - 1)) = Len(s)
      /\ \A i \in 1 .. Len(s) : SubSeq(t, 1, Len(t) - 1)[i] = t[i]
  BY <1>1, <1>2, SubSeqProperties
<1>4. SubSeq(t, 1, Len(t) - 1) = s
  BY <1>1, <1>3, SeqEqual
<1> QED BY <1>4 DEF Front, t

(* Removing an element moves the ones behind it one place forward. *)
LEMMA RemoveAtProperties ==
  ASSUME NEW S, NEW s \in Seq(S), NEW i \in 1 .. Len(s)
  PROVE  /\ RemoveAt(s, i) \in Seq(S)
         /\ Len(RemoveAt(s, i)) = Len(s) - 1
         /\ \A j \in 1 .. Len(s) - 1 :
              RemoveAt(s, i)[j] = IF j < i THEN s[j] ELSE s[j + 1]
<1> DEFINE a == SubSeq(s, 1, i - 1)
           b == SubSeq(s, i + 1, Len(s))
<1>1. Len(s) \in Nat /\ i \in Int /\ \A j \in 1 .. Len(s) : s[j] \in S
  BY LenProperties, ElementOfSeq
<1>2. /\ a \in Seq(S) /\ Len(a) = i - 1
      /\ \A j \in 1 .. i - 1 : a[j] = s[j]
  <2>1. \A j \in 1 .. i - 1 : s[j] \in S
    BY <1>1
  <2> QED BY <1>1, <2>1, SubSeqProperties
<1>3. /\ b \in Seq(S) /\ Len(b) = Len(s) - i
      /\ \A j \in 1 .. Len(s) - i : b[j] = s[i + j]
  <2>1. \A j \in i + 1 .. Len(s) : s[j] \in S
    BY <1>1
  <2>2. /\ b \in Seq(S)
        /\ Len(b) = IF i + 1 <= Len(s) THEN Len(s) - (i + 1) + 1 ELSE 0
        /\ \A j \in 1 .. Len(s) - (i + 1) + 1 : b[j] = s[i + 1 + j - 1]
    BY <1>1, <2>1, SubSeqProperties
  <2> QED BY <1>1, <2>2
<1> HIDE DEF a, b
<1>4. /\ a \o b \in Seq(S) /\ Len(a \o b) = Len(a) + Len(b)
      /\ \A j \in 1 .. Len(a) + Len(b) :
           (a \o b)[j] = IF j <= Len(a) THEN a[j] ELSE b[j - Len(a)]
  BY <1>2, <1>3, ConcatProperties
<1>5. Len(a) + Len(b) = Len(s) - 1
  BY <1>1, <1>2, <1>3
<1>6. ASSUME NEW j \in 1 .. Len(s) - 1
      PROVE  (a \o b)[j] = IF j < i THEN s[j] ELSE s[j + 1]
  <2>1. CASE j < i
    BY <1>1, <1>2, <1>4, <1>5, <2>1
  <2>2. CASE j >= i
    <3>1. j - Len(a) \in 1 .. Len(s) - i
      BY <1>1, <1>2, <2>2
    <3>2. (a \o b)[j] = b[j - Len(a)]
      BY <1>1, <1>2, <1>4, <1>5, <2>2
    <3>3. b[j - Len(a)] = s[i + (j - Len(a))]
      BY <1>3, <3>1
    <3>4. i + (j - Len(a)) = j + 1
      BY <1>1, <1>2
    <3> QED BY <1>1, <2>2, <3>2, <3>3, <3>4
  <2>3. j < i \/ j >= i
    BY <1>1
  <2> QED BY <2>1, <2>2, <2>3
<1> QED BY <1>4, <1>5, <1>6 DEF RemoveAt, a, b

(* Putting an element back where it was taken from restores the queue. *)
LEMMA InsertOfRemoveAt ==
  ASSUME NEW S, NEW s \in Seq(S), NEW i \in 1 .. Len(s)
  PROVE  InsertAt(RemoveAt(s, i), i, s[i]) = s
<1> DEFINE r == RemoveAt(s, i)
           a == SubSeq(r, 1, i - 1)
           b == SubSeq(r, i, Len(r))
           ab == a \o <<s[i]>>
<1>1. Len(s) \in Nat /\ i \in Int /\ \A j \in 1 .. Len(s) : s[j] \in S
  BY LenProperties, ElementOfSeq
<1>2. /\ r \in Seq(S) /\ Len(r) = Len(s) - 1
      /\ \A j \in 1 .. Len(s) - 1 : r[j] = IF j < i THEN s[j] ELSE s[j + 1]
      /\ \A j \in 1 .. Len(s) - 1 : r[j] \in S
  <2>1. /\ r \in Seq(S) /\ Len(r) = Len(s) - 1
        /\ \A j \in 1 .. Len(s) - 1 : r[j] = IF j < i THEN s[j] ELSE s[j + 1]
    BY RemoveAtProperties
  <2> QED BY <2>1, ElementOfSeq
<1> HIDE DEF r
<1>3. /\ a \in Seq(S) /\ Len(a) = i - 1
      /\ \A j \in 1 .. i - 1 : a[j] = s[j]
  <2>1. \A j \in 1 .. i - 1 : r[j] \in S /\ r[j] = s[j]
    BY <1>1, <1>2
  <2>2. /\ a \in Seq(S) /\ Len(a) = IF 1 <= i - 1 THEN (i - 1) - 1 + 1 ELSE 0
        /\ \A j \in 1 .. (i - 1) - 1 + 1 : a[j] = r[1 + j - 1]
    BY <1>1, <2>1, SubSeqProperties
  <2> QED BY <1>1, <2>1, <2>2
<1>4. /\ b \in Seq(S) /\ Len(b) = Len(s) - i
      /\ \A j \in 1 .. Len(s) - i : b[j] = s[i + j]
  <2>1. \A j \in i .. Len(r) : r[j] \in S /\ r[j] = s[j + 1]
    BY <1>1, <1>2
  <2>2. /\ b \in Seq(S) /\ Len(b) = IF i <= Len(r) THEN Len(r) - i + 1 ELSE 0
        /\ \A j \in 1 .. Len(r) - i + 1 : b[j] = r[i + j - 1]
    BY <1>1, <1>2, <2>1, SubSeqProperties
  <2>3. ASSUME NEW j \in 1 .. Len(s) - i
        PROVE  b[j] = s[i + j]
    <3>1. b[j] = r[i + j - 1]
      BY <1>1, <1>2, <2>2
    <3>2. i + j - 1 \in i .. Len(r) /\ (i + j - 1) + 1 = i + j
      BY <1>1, <1>2
    <3> QED BY <2>1, <3>1, <3>2
  <2> QED BY <1>1, <1>2, <2>2, <2>3
<1> HIDE DEF a, b
<1>5. /\ ab \in Seq(S) /\ Len(ab) = i
      /\ \A j \in 1 .. i : ab[j] = s[j]
  <2>1. ab = Append(a, s[i])
    BY <1>1, <1>3, AppendIsConcat
  <2>2. /\ Append(a, s[i]) \in Seq(S) /\ Len(Append(a, s[i])) = Len(a) + 1
        /\ \A j \in 1 .. Len(a) : Append(a, s[i])[j] = a[j]
        /\ Append(a, s[i])[Len(a) + 1] = s[i]
    BY <1>1, <1>3, AppendProperties
  <2> QED BY <1>1, <1>3, <2>1, <2>2
<1> HIDE DEF ab
<1>6. /\ ab \o b \in Seq(S) /\ Len(ab \o b) = Len(ab) + Len(b)
      /\ \A j \in 1 .. Len(ab) + Len(b) :
           (ab \o b)[j] = IF j <= Len(ab) THEN ab[j] ELSE b[j - Len(ab)]
  BY <1>4, <1>5, ConcatProperties
<1>7. Len(ab \o b) = Len(s)
  BY <1>1, <1>4, <1>5, <1>6
<1>8. ASSUME NEW j \in 1 .. Len(s)
      PROVE  (ab \o b)[j] = s[j]
  <2>1. CASE j <= i
    BY <1>1, <1>4, <1>5, <1>6, <2>1
  <2>2. CASE j > i
    <3>1. j - Len(ab) \in 1 .. Len(s) - i /\ i + (j - Len(ab)) = j
      BY <1>1, <1>5, <2>2
    <3>2. (ab \o b)[j] = b[j - Len(ab)]
      BY <1>1, <1>4, <1>5, <1>6, <2>2
    <3> QED BY <1>4, <3>1, <3>2
  <2>3. j <= i \/ j > i
    BY <1>1
  <2> QED BY <2>1, <2>2, <2>3
<1>9. ab \o b = s
  BY <1>6, <1>7, <1>8, SeqEqual
<1> QED BY <1>9 DEF InsertAt, r, a, b, ab
---------------------------------------------------------------------------
(* The inductive invariant, in layers: each is proved from the ones above. *)

(* Types, and what the place of the Store task says of its memory. *)
Typed ==
  /\ TypeOK
  /\ next_id <= clock + 1 /\ queueFile.next_id <= clock + 1
  /\ pc = "handover" => /\ orders # <<>>
                        /\ mirror = [phase |-> "queued", order |-> Head(orders)]
  /\ pc = "running" => current_trade # NoTrade

(* No order in progress looks like the absence of one. *)
LEMMA TradeIsNotNoTrade == NoTrade \notin Trade
<1> SUFFICES ASSUME NoTrade \in Trade PROVE FALSE
  OBVIOUS
<1>1. NoTrade.phase \in LivePhases \union TerminalPhases
  BY DEF Trade
<1>2. NoTrade.phase = "none"
  BY DEF NoTrade
<1> QED BY <1>1, <1>2 DEF LivePhases, TerminalPhases

(* Writing current_trade.json keeps its type. *)
LEMMA MirrorTyped ==
  ASSUME mirror \in Trade \union {NoTrade}, NEW t \in Trade \union {NoTrade},
         PersistTrade(t) \/ ClearTrade
  PROVE  mirror' \in Trade \union {NoTrade}
BY DEF PersistTrade, ClearTrade

(* The next phase of a trade is a trade of the same order. *)
LEMMA AdvancedTrade ==
  ASSUME NEW t \in Trade, NEW phase \in LivePhases \union TerminalPhases
  PROVE  /\ [t EXCEPT !.phase = phase] \in Trade
         /\ [t EXCEPT !.phase = phase].phase = phase
         /\ [t EXCEPT !.phase = phase].order = t.order
BY DEF Trade

(* The types hold at the start, *)
LEMMA TypedInit == Init => Typed
<1> SUFFICES ASSUME Init PROVE Typed
  OBVIOUS
<1> USE BoundsAssumption DEF Init
<1>1. orders \in Seq(Order) /\ queueFile.orders \in Seq(Order)
  BY EmptySeq DEF EmptyQueue
<1>2. queueFile \in QueuePersist
  BY <1>1 DEF EmptyQueue, QueuePersist
<1>3. fate \in [Stamps -> Fates]
  BY DEF Fates
<1>4. clock \in 0 .. MaxOrders /\ restarts \in 0 .. MaxRestarts /\ next_id \in 1 .. MaxOrders + 1
  OBVIOUS
<1>5. pc \in PCs /\ pc # "handover" /\ pc # "running"
  BY DEF PCs
<1>6. next_id <= clock + 1 /\ queueFile.next_id <= clock + 1
  BY DEF EmptyQueue
<1> QED BY <1>1, <1>2, <1>3, <1>4, <1>5, <1>6 DEF Typed, TypeOK

(* and every step keeps them. *)
LEMMA TypedNext == Typed /\ [Next]_vars => Typed'
<1> SUFFICES ASSUME Typed, [Next]_vars PROVE Typed'
  OBVIOUS
<1> USE BoundsAssumption, TradeIsNotNoTrade
<1>0. /\ orders \in Seq(Order) /\ next_id \in 1 .. MaxOrders + 1
      /\ current_trade \in Trade \union {NoTrade}
      /\ mirror \in Trade \union {NoTrade}
      /\ queueFile.orders \in Seq(Order) /\ queueFile.next_id \in 1 .. MaxOrders + 1
      /\ clock \in 0 .. MaxOrders
      /\ fate \in [Stamps -> Fates]
  BY DEF Typed, TypeOK, QueuePersist
<1>1. ASSUME NEW u \in Users, NEW kind \in Kinds, Add(u, kind)
      PROVE  Typed'
  <2>1. NewOrder(u, kind) \in Order
    BY <1>1, <1>0, KindsAssumption DEF Add, NewOrder, Order, Stamps, Typed
  <2>2. orders' \in Seq(Order)
    BY <1>1, <1>0, <2>1, AppendProperties DEF Add
  <2>3. next_id' \in 1 .. MaxOrders + 1 /\ next_id' <= clock' + 1 /\ clock' \in 0 .. MaxOrders
    BY <1>1, <1>0 DEF Add, Typed
  <2>4. queueFile' \in QueuePersist /\ queueFile'.next_id = next_id'
    BY <1>1, <2>2, <2>3 DEF Add, SaveQueue, QueuePersist
  <2>5. fate' \in [Stamps -> Fates]
    BY <1>1, <1>0 DEF Add, Fates
  <2>6. pc' # "handover" /\ pc' # "running"
    BY <1>1 DEF Add, Receiving
  <2> QED BY <1>1, <2>2, <2>3, <2>4, <2>5, <2>6 DEF Add, Typed, TypeOK
<1>2. ASSUME NEW u \in Users, NEW kind \in Kinds, AddSaveFails(u, kind)
      PROVE  Typed'
  <2>1. NewOrder(u, kind) \in Order
    BY <1>2, <1>0, KindsAssumption DEF AddSaveFails, NewOrder, Order, Stamps, Typed
  <2>2. orders' = orders /\ next_id' = next_id
    BY <1>2, <1>0, <2>1, FrontOfAppend DEF AddSaveFails
  <2> QED BY <1>2, <2>2 DEF AddSaveFails, Typed, TypeOK, files, history
<1>3. ASSUME NEW i \in DOMAIN orders, Cancel(i)
      PROVE  Typed'
  <2>1. i \in 1 .. Len(orders)
    BY <1>0, LenProperties
  <2>2. orders' \in Seq(Order)
    BY <1>3, <1>0, <2>1, RemoveAtProperties DEF Cancel
  <2>3. queueFile' \in QueuePersist /\ queueFile'.next_id = next_id'
    BY <1>3, <1>0, <2>2 DEF Cancel, SaveQueue, QueuePersist
  <2>4. fate' \in [Stamps -> Fates]
    BY <1>3, <1>0 DEF Cancel, Fates
  <2>5. pc' # "handover" /\ pc' # "running"
    BY <1>3 DEF Cancel, Cancellable, Receiving
  <2> QED BY <1>3, <2>2, <2>3, <2>4, <2>5 DEF Cancel, Typed, TypeOK
<1>4. ASSUME NEW i \in DOMAIN orders, CancelSaveFails(i)
      PROVE  Typed'
  <2>1. i \in 1 .. Len(orders)
    BY <1>0, LenProperties
  <2>2. orders' = orders
    BY <1>4, <1>0, <2>1, InsertOfRemoveAt DEF CancelSaveFails
  <2> QED BY <1>4, <2>2 DEF CancelSaveFails, Typed, TypeOK, files, history
<1>5. CASE ClearStuckOrder
  <2>1. mirror' \in Trade \union {NoTrade}
    BY <1>5, <1>0, MirrorTyped DEF ClearStuckOrder
  <2>2. queueFile' \in QueuePersist /\ queueFile'.next_id <= clock' + 1
    BY <1>5, <1>0 DEF ClearStuckOrder, SaveQueue, QueuePersist, Typed, TypeOK
  <2>3. fate' \in [Stamps -> Fates]
    BY <1>5, <1>0 DEF ClearStuckOrder, Fates
  <2>4. pc' # "handover" /\ pc' # "running"
    BY <1>5 DEF ClearStuckOrder, Receiving
  <2> QED BY <1>5, <2>1, <2>2, <2>3, <2>4 DEF ClearStuckOrder, Typed, TypeOK
<1>6. CASE Shutdown
  BY <1>6 DEF Shutdown, Typed, TypeOK, PCs, Down, memory, history
<1>7. CASE PersistQueued
  <2>1. Head(orders) \in Order /\ orders # <<>>
    BY <1>7, <1>0, HeadTailProperties DEF PersistQueued, Ready
  <2>2. mirror' \in Trade
    BY <1>7, <2>1 DEF PersistQueued, Trade, LivePhases
  <2> QED BY <1>7, <2>1, <2>2 DEF PersistQueued, Typed, TypeOK, PCs, memory, history
<1>8. CASE PersistQueuedFails
  BY <1>8 DEF PersistQueuedFails, Typed, TypeOK, PCs, memory, files, history
<1>9. CASE PopCommitted
  <2>1. Head(orders) \in Order /\ Tail(orders) \in Seq(Order)
    BY <1>9, <1>0, HeadTailProperties DEF PopCommitted, Typed
  <2>2. current_trade' \in Trade
    BY <1>9, <2>1 DEF PopCommitted, Trade, LivePhases
  <2>3. queueFile' \in QueuePersist /\ queueFile'.next_id <= clock' + 1
    BY <1>9, <1>0, <2>1 DEF PopCommitted, SaveQueue, QueuePersist, Typed
  <2>4. fate' \in [Stamps -> Fates]
    BY <1>9, <1>0 DEF PopCommitted, Fates
  <2> QED BY <1>9, <2>1, <2>2, <2>3, <2>4 DEF PopCommitted, Typed, TypeOK, PCs
<1>10. CASE PopCommittedFails
  BY <1>10 DEF PopCommittedFails, Typed, TypeOK, PCs, memory, files, history
<1>11. CASE ClearOrphan
  <2>1. mirror' \in Trade \union {NoTrade}
    BY <1>11, <1>0, MirrorTyped DEF ClearOrphan
  <2> QED BY <1>11, <2>1 DEF ClearOrphan, Typed, TypeOK, PCs, memory, history
<1>12. ASSUME NEW phase \in LivePhases \union TerminalPhases, Advance(phase)
      PROVE  Typed'
  <2> DEFINE next == [current_trade EXCEPT !.phase = phase]
  <2>1. current_trade \in Trade
    BY <1>12, <1>0 DEF Advance, Running, Typed
  <2>2. next \in Trade
    BY <2>1, AdvancedTrade
  <2>3. mirror' \in Trade \union {NoTrade}
    BY <1>12, <1>0, <2>2, MirrorTyped DEF Advance
  <2>4. ledger' \subseteq Stamps
    BY <1>12, <2>1 DEF Advance, Here, Trade, Order, Typed, TypeOK
  <2> QED BY <1>12, <2>2, <2>3, <2>4 DEF Advance, Running, Typed, TypeOK, history
<1>13. CASE SaveInHandler
  BY <1>13 DEF SaveInHandler, Typed, TypeOK, memory, history
<1>14. CASE Conclude
  <2>1. mirror' \in Trade \union {NoTrade}
    BY <1>14, <1>0, MirrorTyped DEF Conclude
  <2>2. fate' \in [Stamps -> Fates]
    BY <1>14, <1>0 DEF Conclude, Fates
  <2> QED BY <1>14, <2>1, <2>2 DEF Conclude, Typed, TypeOK, PCs
<1>15. CASE LeaveForOperator
  <2>1. mirror' \in Trade \union {NoTrade}
    BY <1>15, <1>0, MirrorTyped DEF LeaveForOperator
  <2>2. fate' \in [Stamps -> Fates]
    BY <1>15, <1>0 DEF LeaveForOperator, Fates
  <2> QED BY <1>15, <2>1, <2>2 DEF LeaveForOperator, Typed, TypeOK, PCs
<1>16. CASE Watchdog
  <2>1. mirror' \in Trade \union {NoTrade}
    BY <1>16, <1>0, MirrorTyped DEF Watchdog
  <2> QED BY <1>16, <2>1 DEF Watchdog, Typed, TypeOK, PCs, history
<1>17. CASE SaveAfterOrder
  BY <1>17 DEF SaveAfterOrder, SaveState, Typed, TypeOK, PCs, history
<1>18. CASE Drained
  BY <1>18 DEF Drained, Typed, TypeOK, PCs, memory, files, history
<1>19. CASE Autosave
  BY <1>19 DEF Autosave, SaveState, Typed, TypeOK, PCs, history
<1>20. CASE Crash
  BY <1>20 DEF Crash, Typed, TypeOK, PCs, Down, memory, files, history
<1>21. CASE LoadQueue
  <2>1. restarts' \in 0 .. MaxRestarts
    BY <1>21 DEF LoadQueue, Typed, TypeOK
  <2>2. pc' \in PCs /\ pc' # "handover" /\ pc' # "running"
    BY <1>21 DEF LoadQueue, PCs, Down
  <2> QED BY <1>21, <1>0, <2>1, <2>2 DEF LoadQueue, Forget, Typed, TypeOK, files
<1>22. CASE QuarantineQueue
  <2>1. orders' \in Seq(Order) /\ next_id' \in 1 .. MaxOrders + 1
    BY <1>22, EmptySeq DEF QuarantineQueue
  <2>2. queueFile' \in QueuePersist /\ queueFile'.next_id = 1
    BY <1>22, EmptySeq DEF QuarantineQueue, EmptyQueue, QueuePersist
  <2>3. fate' \in [Stamps -> Fates]
    BY <1>22, <1>0 DEF QuarantineQueue, Fates
  <2>4. restarts' \in 0 .. MaxRestarts
    BY <1>22 DEF QuarantineQueue, Typed, TypeOK
  <2>5. pc' \in PCs /\ pc' # "handover" /\ pc' # "running"
    BY <1>22 DEF QuarantineQueue, PCs, Down
  <2>6. next_id' <= clock' + 1 /\ queueFile'.next_id <= clock' + 1
    BY <1>22, <1>0, <2>2 DEF QuarantineQueue
  <2> QED BY <1>22, <2>1, <2>2, <2>3, <2>4, <2>5, <2>6
          DEF QuarantineQueue, Forget, Typed, TypeOK
<1>23. CASE ArchiveLeftover
  <2>1. archive' \subseteq Trade
    BY <1>23, <1>0 DEF ArchiveLeftover, Typed, TypeOK
  <2> QED BY <1>23, <2>1 DEF ArchiveLeftover, Typed, TypeOK, PCs, memory, history
<1>24. CASE ArchiveLeftoverFails
  <2>1. mirror' \in Trade \union {NoTrade}
    BY <1>24, <1>0, MirrorTyped DEF ArchiveLeftoverFails
  <2>2. fate' \in [Stamps -> Fates]
    BY <1>24, <1>0 DEF ArchiveLeftoverFails, Fates
  <2> QED BY <1>24, <2>1, <2>2 DEF ArchiveLeftoverFails, Typed, TypeOK, PCs, memory
<1>25. CASE UNCHANGED vars
  BY <1>25 DEF vars, memory, files, history, Typed, TypeOK
<1> QED BY <1>1, <1>2, <1>3, <1>4, <1>5, <1>6, <1>7, <1>8, <1>9, <1>10, <1>11, <1>12,
           <1>13, <1>14, <1>15, <1>16, <1>17, <1>18, <1>19, <1>20, <1>21, <1>22, <1>23, <1>24, <1>25
        DEF Next, Player, Operator, Store, Handler, Startup

(* Every variable keeps its type, whatever crashes, failed writes and
   unreadable files do to the Store. *)
THEOREM Typing == Spec => []TypeOK
<1>1. Typed => TypeOK
  BY DEF Typed
<1> QED BY <1>1, TypedInit, TypedNext, PTL DEF Spec
---------------------------------------------------------------------------
(* The queue in memory and on disk. *)

Queued ==
  /\ QueueMatchesFile
  /\ QueueInArrivalOrder
  /\ \A i \in DOMAIN queueFile.orders : queueFile.orders[i].at <= clock

(* A failed save of an add or a cancel leaves the queue as it was. *)
LEMMA AddSaveFailsUndone ==
  ASSUME Typed, NEW u \in Users, NEW kind \in Kinds, AddSaveFails(u, kind)
  PROVE  orders' = orders /\ next_id' = next_id
<1>1. orders \in Seq(Order) /\ next_id \in 1 .. MaxOrders + 1
  BY DEF Typed, TypeOK
<1>2. NewOrder(u, kind) \in Order
  BY KindsAssumption, BoundsAssumption
     DEF AddSaveFails, NewOrder, Order, Stamps, Typed, TypeOK
<1> QED BY <1>1, <1>2, BoundsAssumption, FrontOfAppend DEF AddSaveFails

(* A cancellation that cannot be saved puts the queue back as it was. *)
LEMMA CancelSaveFailsUndone ==
  ASSUME Typed, NEW i \in DOMAIN orders, CancelSaveFails(i)
  PROVE  orders' = orders /\ next_id' = next_id
<1>1. orders \in Seq(Order) /\ i \in 1 .. Len(orders)
  BY LenProperties DEF Typed, TypeOK
<1> QED BY <1>1, InsertOfRemoveAt DEF CancelSaveFails

(* The queue is in order at the start, *)
LEMMA QueuedInit == Init => Queued
BY DEF Init, Queued, QueueMatchesFile, QueueInArrivalOrder, Increasing, EmptyQueue

(* and every step keeps it so. *)
LEMMA QueuedNext == Typed /\ Queued /\ [Next]_vars => Queued'
<1> SUFFICES ASSUME Typed, Queued, [Next]_vars PROVE Queued'
  OBVIOUS
<1>0. /\ orders \in Seq(Order) /\ queueFile.orders \in Seq(Order)
      /\ next_id \in Nat /\ queueFile.next_id \in Nat /\ clock \in Nat
      /\ \A o \in Order : o.id \in Nat /\ o.at \in Nat
  BY BoundsAssumption DEF Typed, TypeOK, QueuePersist, Order, Stamps
<1> DEFINE Up == pc \notin {"crashed", "stopped"}
<1>1. ASSUME Up, SaveQueue(orders', next_id'), clock' = clock, next_id' = next_id,
             Len(orders') <= Len(orders), orders' \in Seq(Order),
             NEW shift \in [DOMAIN orders' -> DOMAIN orders],
             \A j \in DOMAIN orders' : orders'[j] = orders[shift[j]],
             \A j, k \in DOMAIN orders' : j < k => shift[j] < shift[k]
      PROVE  Queued'
  <2>1. queueFile = [orders |-> orders, next_id |-> next_id]
    BY <1>1 DEF Queued, QueueMatchesFile
  <2>2. queueFile' = [orders |-> orders', next_id |-> next_id']
    BY <1>1 DEF SaveQueue
  <2> QED BY <1>1, <2>1, <2>2
          DEF Queued, QueueMatchesFile, QueueInArrivalOrder, Increasing
<1>2. ASSUME UNCHANGED <<orders, next_id, queueFile, clock>>,
             pc' \notin {"crashed", "stopped"} => Up
      PROVE  Queued'
  BY <1>2 DEF Queued, QueueMatchesFile, QueueInArrivalOrder, Increasing
<1>3. ASSUME NEW u \in Users, NEW kind \in Kinds, Add(u, kind)
      PROVE  Queued'
  <2> DEFINE o == NewOrder(u, kind)
  <2>1. o \in Order /\ o.at = clock + 1 /\ o.id = next_id
    BY <1>3, KindsAssumption, BoundsAssumption
       DEF Add, NewOrder, Order, Stamps, Typed, TypeOK
  <2>2. /\ orders' \in Seq(Order) /\ Len(orders') = Len(orders) + 1
        /\ DOMAIN orders' = 1 .. Len(orders) + 1
        /\ \A j \in 1 .. Len(orders) : orders'[j] = orders[j]
        /\ orders'[Len(orders) + 1] = o
        /\ Len(orders) \in Nat /\ DOMAIN orders = 1 .. Len(orders)
    BY <1>0, <1>3, <2>1, AppendProperties, LenProperties DEF Add
  <2>3. queueFile = [orders |-> orders, next_id |-> next_id]
    BY <1>3 DEF Add, Receiving, Queued, QueueMatchesFile
  <2>4. queueFile' = [orders |-> orders', next_id |-> next_id']
    BY <1>3 DEF Add, SaveQueue
  <2>5. \A j \in 1 .. Len(orders) :
          /\ orders[j].at <= clock /\ orders[j].id < next_id
          /\ orders[j].at \in Nat /\ orders[j].id \in Nat
    BY <1>0, <2>2, <2>3, ElementOfSeq DEF Queued, QueueInArrivalOrder
  <2>6. next_id' = next_id + 1 /\ clock' = clock + 1
    BY <1>3 DEF Add
  <2>7. Increasing(orders)
    BY <2>3 DEF Queued, QueueInArrivalOrder
  <2>8. Increasing(orders')
    <3> SUFFICES ASSUME NEW j \in 1 .. Len(orders) + 1, NEW k \in 1 .. Len(orders) + 1, j < k
                 PROVE  orders'[j].at < orders'[k].at /\ orders'[j].id < orders'[k].id
      BY <2>2 DEF Increasing
    <3>1. j \in 1 .. Len(orders)
      BY <2>2
    <3>2. CASE k = Len(orders) + 1
      BY <1>0, <2>1, <2>2, <2>5, <3>1, <3>2
    <3>3. CASE k # Len(orders) + 1
      <4>1. k \in 1 .. Len(orders)
        BY <2>2, <3>3
      <4> QED BY <2>2, <2>7, <3>1, <4>1 DEF Increasing
    <3> QED BY <3>2, <3>3
  <2>9. \A j \in 1 .. Len(orders) + 1 : orders'[j].at <= clock' /\ orders'[j].id < next_id'
    <3> TAKE j \in 1 .. Len(orders) + 1
    <3>1. CASE j = Len(orders) + 1
      BY <1>0, <2>1, <2>2, <2>6, <3>1
    <3>2. CASE j # Len(orders) + 1
      <4>1. j \in 1 .. Len(orders)
        BY <2>2, <3>2
      <4> QED BY <1>0, <2>2, <2>5, <2>6, <4>1
    <3> QED BY <3>1, <3>2
  <2> HIDE DEF o
  <2> QED BY <2>2, <2>4, <2>8, <2>9 DEF Queued, QueueMatchesFile, QueueInArrivalOrder
<1>4. ASSUME NEW i \in DOMAIN orders, Cancel(i)
      PROVE  Queued'
  <2>1. i \in 1 .. Len(orders) /\ Len(orders) \in Nat /\ DOMAIN orders = 1 .. Len(orders)
    BY <1>0, LenProperties
  <2>2. /\ orders' \in Seq(Order) /\ Len(orders') = Len(orders) - 1
        /\ DOMAIN orders' = 1 .. Len(orders) - 1
        /\ \A j \in 1 .. Len(orders) - 1 :
             orders'[j] = IF j < i THEN orders[j] ELSE orders[j + 1]
    <3>1. orders' = RemoveAt(orders, i)
      BY <1>4 DEF Cancel
    <3>2. /\ orders' \in Seq(Order) /\ Len(orders') = Len(orders) - 1
          /\ \A j \in 1 .. Len(orders) - 1 :
               orders'[j] = IF j < i THEN orders[j] ELSE orders[j + 1]
      BY <1>0, <2>1, <3>1, RemoveAtProperties
    <3> QED BY <3>2, LenProperties
  <2> DEFINE shift == [j \in DOMAIN orders' |-> IF j < i THEN j ELSE j + 1]
  <2>3. shift \in [DOMAIN orders' -> DOMAIN orders]
    BY <2>1, <2>2
  <2>4. \A j \in DOMAIN orders' : orders'[j] = orders[shift[j]]
    BY <2>1, <2>2
  <2>5. \A j, k \in DOMAIN orders' : j < k => shift[j] < shift[k]
    BY <2>1, <2>2
  <2>6. /\ Up /\ SaveQueue(orders', next_id') /\ clock' = clock /\ next_id' = next_id
        /\ Len(orders') <= Len(orders)
    BY <1>4, <2>1, <2>2 DEF Cancel, Cancellable, Receiving, SaveQueue
  <2> HIDE DEF shift
  <2> QED BY <1>1, <2>2, <2>3, <2>4, <2>5, <2>6
<1>5. CASE PopCommitted
  <2>1. orders # <<>> /\ Up
    BY <1>5 DEF PopCommitted, Typed
  <2>2. /\ orders' \in Seq(Order) /\ Len(orders') = Len(orders) - 1
        /\ DOMAIN orders' = 1 .. Len(orders) - 1
        /\ \A j \in 1 .. Len(orders) - 1 : orders'[j] = orders[j + 1]
        /\ Len(orders) \in Nat /\ DOMAIN orders = 1 .. Len(orders)
    <3>1. orders' = Tail(orders)
      BY <1>5 DEF PopCommitted
    <3>2. /\ orders' \in Seq(Order) /\ Len(orders') = Len(orders) - 1
          /\ \A j \in 1 .. Len(orders') : orders'[j] = orders[j + 1]
      BY <1>0, <2>1, <3>1, HeadTailProperties
    <3> QED BY <1>0, <3>2, LenProperties
  <2> DEFINE shift == [j \in DOMAIN orders' |-> j + 1]
  <2>3. /\ shift \in [DOMAIN orders' -> DOMAIN orders]
        /\ \A j \in DOMAIN orders' : orders'[j] = orders[shift[j]]
        /\ \A j, k \in DOMAIN orders' : j < k => shift[j] < shift[k]
    BY <2>2
  <2>4. /\ SaveQueue(orders', next_id') /\ clock' = clock /\ next_id' = next_id
        /\ Len(orders') <= Len(orders)
    BY <1>5, <2>2 DEF PopCommitted, SaveQueue
  <2> HIDE DEF shift
  <2> QED BY <1>1, <2>1, <2>2, <2>3, <2>4
<1>6. CASE ClearStuckOrder
  <2>1. UNCHANGED <<orders, next_id, clock, pc>> /\ Up
    BY <1>6 DEF ClearStuckOrder, Receiving
  <2>2. queueFile' = queueFile
    BY <1>6, <2>1 DEF ClearStuckOrder, SaveQueue, Queued, QueueMatchesFile
  <2> QED BY <1>2, <2>1, <2>2
<1>7. CASE LoadQueue
  <2>1. /\ orders' = queueFile.orders /\ next_id' = queueFile.next_id
        /\ UNCHANGED <<queueFile, clock>>
    BY <1>7 DEF LoadQueue, files
  <2>2. queueFile = [orders |-> queueFile.orders, next_id |-> queueFile.next_id]
    BY DEF Typed, TypeOK, QueuePersist
  <2> QED BY <2>1, <2>2 DEF Queued, QueueMatchesFile, QueueInArrivalOrder, Increasing
<1>8. CASE QuarantineQueue
  BY <1>8 DEF QuarantineQueue, EmptyQueue, Queued, QueueMatchesFile,
              QueueInArrivalOrder, Increasing
<1>9. ASSUME NEW u \in Users, NEW kind \in Kinds, AddSaveFails(u, kind)
      PROVE  Queued'
  BY <1>2, <1>9, AddSaveFailsUndone DEF AddSaveFails, files, history
<1>10. ASSUME NEW i \in DOMAIN orders, CancelSaveFails(i)
       PROVE  Queued'
  BY <1>2, <1>10, CancelSaveFailsUndone DEF CancelSaveFails, files, history
<1>11. CASE Shutdown \/ PersistQueued \/ PersistQueuedFails \/ PopCommittedFails \/ ClearOrphan
  BY <1>2, <1>11 DEF Shutdown, PersistQueued, PersistQueuedFails, Ready,
                     PopCommittedFails, ClearOrphan, memory, files, history
<1>12. CASE Handler \/ SaveInHandler \/ Conclude \/ LeaveForOperator \/ Watchdog
  BY <1>2, <1>12 DEF Handler, Advance, SaveInHandler, Conclude, LeaveForOperator, Watchdog,
                     Running, memory, files, history
<1>13. CASE SaveAfterOrder \/ Drained \/ Autosave \/ Crash
  BY <1>2, <1>13 DEF SaveAfterOrder, Drained, Autosave, Crash, memory, files, history
<1>14. CASE ArchiveLeftover \/ ArchiveLeftoverFails
  BY <1>2, <1>14 DEF ArchiveLeftover, ArchiveLeftoverFails, memory, files, history
<1>15. CASE UNCHANGED vars
  BY <1>2, <1>15 DEF vars, memory, files, history
<1> QED BY <1>3, <1>4, <1>5, <1>6, <1>7, <1>8, <1>9, <1>10, <1>11, <1>12, <1>13, <1>14, <1>15
        DEF Next, Player, Operator, Store, Startup

(* The queue in memory is the queue on disk: what add, cancel and
   pop_committed undo when their save fails leaves no trace. *)
THEOREM MemoryIsFile == Spec => []QueueMatchesFile
<1>1. Typed /\ Queued => QueueMatchesFile
  BY DEF Queued
<1> QED BY <1>1, TypedInit, TypedNext, QueuedInit, QueuedNext, PTL DEF Spec

(* Orders wait in the order they were accepted, under distinct ids. *)
THEOREM ArrivalOrder == Spec => []QueueInArrivalOrder
<1>1. Typed /\ Queued => QueueInArrivalOrder
  BY DEF Queued
<1> QED BY <1>1, TypedInit, TypedNext, QueuedInit, QueuedNext, PTL DEF Spec
---------------------------------------------------------------------------
(* The queue on disk and the fate of its orders. *)

Fated ==
  /\ OnlyWaitingQueued
  /\ \A a \in Stamps : fate[a] = "waiting" => InQueue(queueFile.orders, a)
  /\ pc = "running" => fate[current_trade.order.at] = "running"

(* At the start no order has been accepted, *)
LEMMA FatedInit == Init => Fated
BY DEF Init, Fated, OnlyWaitingQueued, EmptyQueue

(* The facts about the state that the steps below share. *)
LEMMA QueueFacts ==
  ASSUME Typed, Queued
  PROVE  /\ queueFile.orders \in Seq(Order)
         /\ Len(queueFile.orders) \in Nat
         /\ DOMAIN queueFile.orders = 1 .. Len(queueFile.orders)
         /\ \A i \in DOMAIN queueFile.orders :
              /\ queueFile.orders[i] \in Order
              /\ queueFile.orders[i].at \in Stamps
         /\ \A i, j \in DOMAIN queueFile.orders :
              queueFile.orders[i].at = queueFile.orders[j].at => i = j
         /\ fate \in [Stamps -> Fates]
<1>1. queueFile.orders \in Seq(Order) /\ fate \in [Stamps -> Fates]
  BY DEF Typed, TypeOK, QueuePersist
<1>2. /\ DOMAIN queueFile.orders = 1 .. Len(queueFile.orders)
      /\ Len(queueFile.orders) \in Nat
  BY <1>1, LenProperties
<1>3. \A i \in DOMAIN queueFile.orders :
        /\ queueFile.orders[i] \in Order
        /\ queueFile.orders[i].at \in Stamps
  <2>1. \A i \in DOMAIN queueFile.orders : queueFile.orders[i] \in Order
    BY <1>1, <1>2, ElementOfSeq
  <2> QED BY <2>1 DEF Order
<1>4. ASSUME NEW i \in DOMAIN queueFile.orders, NEW j \in DOMAIN queueFile.orders,
             queueFile.orders[i].at = queueFile.orders[j].at
      PROVE  i = j
  <2>1. ~ (i < j) /\ ~ (j < i)
    BY <1>3, <1>4, BoundsAssumption DEF Queued, QueueInArrivalOrder, Increasing, Stamps
  <2> QED BY <1>2, <2>1
<1> QED BY <1>1, <1>2, <1>3, <1>4

(* A cancel takes one order out of queue.json, and leaves every other. *)
LEMMA CancelTakesOne ==
  ASSUME Typed, Queued, NEW i \in DOMAIN orders, Cancel(i)
  PROVE  /\ orders[i].at \in Stamps
         /\ fate' = [fate EXCEPT ![orders[i].at] = "cancelled"]
         /\ \A j \in DOMAIN queueFile'.orders :
              \E k \in DOMAIN queueFile.orders :
                /\ queueFile'.orders[j] = queueFile.orders[k]
                /\ queueFile.orders[k].at # orders[i].at
         /\ \A a \in Stamps : InQueue(queueFile.orders, a) /\ a # orders[i].at
                             => InQueue(queueFile'.orders, a)
<1> DEFINE q == queueFile.orders
           r == queueFile'.orders
<1>0. q = orders /\ r = RemoveAt(orders, i) /\ i \in 1 .. Len(q) /\ Len(q) \in Nat
      /\ DOMAIN q = 1 .. Len(q)
  BY QueueFacts DEF Cancel, Cancellable, Receiving, SaveQueue, Queued, QueueMatchesFile
<1>1. /\ q \in Seq(Order)
      /\ \A k, l \in DOMAIN q : q[k].at = q[l].at => k = l
      /\ q[i].at \in Stamps
  BY <1>0, QueueFacts
<1>2. /\ DOMAIN r = 1 .. Len(q) - 1
      /\ \A j \in 1 .. Len(q) - 1 : r[j] = IF j < i THEN q[j] ELSE q[j + 1]
  <2>1. /\ r \in Seq(Order) /\ Len(r) = Len(q) - 1
        /\ \A j \in 1 .. Len(q) - 1 : r[j] = IF j < i THEN q[j] ELSE q[j + 1]
    <3>1. r = RemoveAt(q, i)
      BY <1>0
    <3>2. q \in Seq(Order) /\ i \in 1 .. Len(q)
      BY <1>0, <1>1
    <3> HIDE DEF q, r
    <3>3. /\ RemoveAt(q, i) \in Seq(Order) /\ Len(RemoveAt(q, i)) = Len(q) - 1
          /\ \A j \in 1 .. Len(q) - 1 :
               RemoveAt(q, i)[j] = IF j < i THEN q[j] ELSE q[j + 1]
      BY <3>2, RemoveAtProperties
    <3> QED BY <3>1, <3>3
  <2> QED BY <2>1, LenProperties
<1>3. ASSUME NEW j \in DOMAIN r
      PROVE  \E k \in DOMAIN q : r[j] = q[k] /\ q[k].at # q[i].at
  <2>1. CASE j < i
    <3>1. j \in DOMAIN q /\ r[j] = q[j] /\ j # i
      BY <1>0, <1>2, <2>1
    <3> QED BY <1>0, <1>1, <3>1
  <2>2. CASE j >= i
    <3>1. j + 1 \in DOMAIN q /\ r[j] = q[j + 1] /\ j + 1 # i
      BY <1>0, <1>2, <2>2
    <3> QED BY <1>0, <1>1, <3>1
  <2>3. j < i \/ j >= i
    BY <1>0, <1>2
  <2> QED BY <2>1, <2>2, <2>3
<1>4. ASSUME NEW a \in Stamps, NEW k \in DOMAIN q, q[k].at = a, a # q[i].at
      PROVE  \E j \in DOMAIN r : r[j].at = a
  <2>1. k # i
    BY <1>4
  <2>2. CASE k < i
    <3>1. k \in DOMAIN r /\ r[k] = q[k]
      BY <1>0, <1>2, <2>2
    <3> QED BY <1>4, <3>1
  <2>3. CASE k > i
    <3>1. k - 1 \in DOMAIN r /\ r[k - 1] = q[(k - 1) + 1] /\ (k - 1) + 1 = k
      BY <1>0, <1>2, <2>3
    <3> QED BY <1>4, <3>1
  <2>4. k < i \/ k > i
    BY <1>0, <2>1
  <2> QED BY <2>2, <2>3, <2>4
<1> QED BY <1>0, <1>1, <1>3, <1>4 DEF InQueue, Cancel

(* The pop takes the oldest order out of queue.json, and leaves every other. *)
LEMMA PopTakesHead ==
  ASSUME Typed, Queued, PopCommitted
  PROVE  /\ queueFile.orders # <<>> /\ 1 \in DOMAIN queueFile.orders
         /\ queueFile.orders[1] = Head(orders) /\ Head(orders).at \in Stamps
         /\ fate' = [fate EXCEPT ![Head(orders).at] = "running"]
         /\ \A j \in DOMAIN queueFile'.orders :
              \E k \in DOMAIN queueFile.orders :
                /\ queueFile'.orders[j] = queueFile.orders[k]
                /\ queueFile.orders[k].at # Head(orders).at
         /\ \A a \in Stamps : InQueue(queueFile.orders, a) /\ a # Head(orders).at
                             => InQueue(queueFile'.orders, a)
<1> DEFINE q == queueFile.orders
           r == queueFile'.orders
<1>0. q = orders /\ r = Tail(orders) /\ q # <<>>
  BY DEF PopCommitted, SaveQueue, Queued, QueueMatchesFile, Typed
<1>1. /\ q \in Seq(Order) /\ Len(q) \in Nat /\ DOMAIN q = 1 .. Len(q)
      /\ \A k, l \in DOMAIN q : q[k].at = q[l].at => k = l
      /\ \A k \in DOMAIN q : q[k].at \in Stamps
  BY QueueFacts
<1>2. /\ DOMAIN r = 1 .. Len(q) - 1
      /\ \A j \in 1 .. Len(q) - 1 : r[j] = q[j + 1]
  <2>1. /\ r \in Seq(Order) /\ Len(r) = Len(q) - 1
        /\ \A j \in 1 .. Len(r) : r[j] = q[j + 1]
    BY <1>0, <1>1, HeadTailProperties
  <2> QED BY <2>1, LenProperties
<1>3. 1 \in DOMAIN q /\ q[1] = Head(orders)
  BY <1>0, <1>1, EmptySeq
<1>4. \A j \in DOMAIN r : \E k \in DOMAIN q : r[j] = q[k] /\ q[k].at # q[1].at
  <2> TAKE j \in DOMAIN r
  <2>1. j + 1 \in DOMAIN q /\ r[j] = q[j + 1] /\ j + 1 # 1
    BY <1>1, <1>2
  <2> QED BY <1>1, <1>3, <2>1
<1>5. ASSUME NEW a \in Stamps, NEW k \in DOMAIN q, q[k].at = a, a # q[1].at
      PROVE  \E j \in DOMAIN r : r[j].at = a
  <2>1. k # 1
    BY <1>5
  <2>2. k - 1 \in 1 .. Len(q) - 1 /\ (k - 1) + 1 = k
    BY <1>1, <2>1
  <2>3. k - 1 \in DOMAIN r /\ r[k - 1] = q[k]
    BY <1>2, <2>2
  <2> QED BY <1>5, <2>3
<1> QED BY <1>0, <1>1, <1>3, <1>4, <1>5 DEF InQueue, PopCommitted

(* An add puts one order behind those of queue.json. *)
LEMMA AddAppendsOne ==
  ASSUME Typed, Queued, NEW u \in Users, NEW kind \in Kinds, Add(u, kind)
  PROVE  /\ NewOrder(u, kind) \in Order
         /\ clock + 1 \in Stamps
         /\ fate' = [fate EXCEPT ![clock + 1] = "waiting"]
         /\ orders = queueFile.orders
         /\ queueFile'.orders = Append(queueFile.orders, NewOrder(u, kind))
         /\ DOMAIN queueFile'.orders = 1 .. Len(queueFile.orders) + 1
         /\ \A j \in DOMAIN queueFile.orders : queueFile'.orders[j] = queueFile.orders[j]
         /\ queueFile'.orders[Len(queueFile.orders) + 1].at = clock + 1
<1> DEFINE o == NewOrder(u, kind)
<1>1. o \in Order /\ o.at = clock + 1
  BY KindsAssumption, BoundsAssumption DEF Add, NewOrder, Order, Stamps, Typed, TypeOK
<1>2. orders = queueFile.orders /\ queueFile'.orders = Append(orders, o)
  BY DEF Add, Receiving, SaveQueue, Queued, QueueMatchesFile
<1> HIDE DEF o
<1>3. /\ queueFile'.orders \in Seq(Order)
      /\ Len(queueFile'.orders) = Len(orders) + 1
      /\ \A j \in 1 .. Len(orders) : queueFile'.orders[j] = orders[j]
      /\ queueFile'.orders[Len(orders) + 1] = o
  BY <1>1, <1>2, QueueFacts, AppendProperties
<1>4. DOMAIN queueFile'.orders = 1 .. Len(orders) + 1 /\ DOMAIN orders = 1 .. Len(orders)
  BY <1>2, <1>3, QueueFacts, LenProperties
<1>5. clock + 1 \in Stamps
  BY BoundsAssumption DEF Add, Stamps, Typed, TypeOK
<1> QED BY <1>1, <1>2, <1>3, <1>4, <1>5 DEF Add, o

(* The order of a trade was accepted at an instant. *)
LEMMA TradeAt ==
  ASSUME NEW t \in Trade PROVE t.order \in Order /\ t.order.at \in Stamps
BY DEF Trade, Order

(* and every step keeps the file and the fates in agreement. *)
LEMMA FatedNext == Typed /\ Queued /\ Fated /\ [Next]_vars => Fated'
<1> SUFFICES ASSUME Typed, Queued, Fated, [Next]_vars PROVE Fated'
  OBVIOUS
<1> DEFINE q == queueFile.orders
           r == queueFile'.orders
<1>0. /\ fate \in [Stamps -> Fates]
      /\ \A i \in DOMAIN q : q[i].at \in Stamps /\ fate[q[i].at] = "waiting"
      /\ \A a \in Stamps : fate[a] = "waiting" => \E i \in DOMAIN q : q[i].at = a
      /\ current_trade # NoTrade => current_trade \in Trade
      /\ mirror # NoTrade => mirror \in Trade
  BY QueueFacts DEF Fated, OnlyWaitingQueued, InQueue, Typed, TypeOK
<1>1. ASSUME queueFile'.orders = queueFile.orders, fate' = fate, pc' # "running"
      PROVE  Fated'
  BY <1>1 DEF Fated, OnlyWaitingQueued, InQueue
<1>2. ASSUME queueFile'.orders = queueFile.orders, pc' # "running",
             \A a \in Stamps : fate'[a] = "waiting" <=> fate[a] = "waiting"
      PROVE  Fated'
  BY <1>0, <1>2 DEF Fated, OnlyWaitingQueued, InQueue
<1>3. ASSUME NEW u \in Users, NEW kind \in Kinds, Add(u, kind)
      PROVE  Fated'
  <2>1. /\ clock + 1 \in Stamps
        /\ fate' = [fate EXCEPT ![clock + 1] = "waiting"]
        /\ DOMAIN r = 1 .. Len(q) + 1
        /\ \A j \in DOMAIN q : r[j] = q[j]
        /\ r[Len(q) + 1].at = clock + 1
        /\ DOMAIN q = 1 .. Len(q) /\ Len(q) \in Nat
    BY <1>3, AddAppendsOne, QueueFacts
  <2>2. \A j \in DOMAIN r : fate'[r[j].at] = "waiting"
    <3> TAKE j \in DOMAIN r
    <3>1. j \in DOMAIN q \/ j = Len(q) + 1
      BY <2>1
    <3> QED BY <1>0, <2>1, <3>1
  <2>3. \A a \in Stamps : fate'[a] = "waiting" => \E j \in DOMAIN r : r[j].at = a
    <3> SUFFICES ASSUME NEW a \in Stamps, fate'[a] = "waiting"
                 PROVE  \E j \in DOMAIN r : r[j].at = a
      OBVIOUS
    <3>1. CASE a = clock + 1
      BY <2>1, <3>1
    <3>2. CASE a # clock + 1
      <4>1. PICK i \in DOMAIN q : q[i].at = a
        BY <1>0, <2>1, <3>2
      <4>2. i \in DOMAIN r /\ r[i].at = a
        BY <2>1, <4>1
      <4> QED BY <4>2
    <3> QED BY <3>1, <3>2
  <2>4. pc' # "running"
    BY <1>3 DEF Add, Receiving
  <2> QED BY <2>2, <2>3, <2>4 DEF Fated, OnlyWaitingQueued, InQueue
<1>4. ASSUME NEW i \in DOMAIN orders, Cancel(i)
      PROVE  Fated'
  <2>1. \A j \in DOMAIN r : fate'[r[j].at] = "waiting"
    BY <1>0, <1>4, CancelTakesOne
  <2>2. \A a \in Stamps : fate'[a] = "waiting" => InQueue(r, a)
    BY <1>0, <1>4, CancelTakesOne DEF InQueue
  <2>3. pc' # "running"
    BY <1>4 DEF Cancel, Cancellable, Receiving
  <2> QED BY <2>1, <2>2, <2>3 DEF Fated, OnlyWaitingQueued
<1>5. CASE PopCommitted
  <2>1. \A j \in DOMAIN r : fate'[r[j].at] = "waiting"
    BY <1>0, <1>5, PopTakesHead
  <2>2. \A a \in Stamps : fate'[a] = "waiting" => InQueue(r, a)
    BY <1>0, <1>5, PopTakesHead DEF InQueue
  <2>3. fate'[current_trade'.order.at] = "running"
    BY <1>0, <1>5, PopTakesHead DEF PopCommitted
  <2> QED BY <2>1, <2>2, <2>3 DEF Fated, OnlyWaitingQueued
<1>6. CASE ClearStuckOrder
  <2>1. queueFile'.orders = queueFile.orders /\ pc' # "running"
    BY <1>6 DEF ClearStuckOrder, Receiving, SaveQueue, Queued, QueueMatchesFile
  <2>2. \A a \in Stamps : fate'[a] = "waiting" <=> fate[a] = "waiting"
    BY <1>6 DEF ClearStuckOrder
  <2> QED BY <1>2, <2>1, <2>2
<1>7. CASE Conclude \/ LeaveForOperator
  <2>1. /\ Here.at \in Stamps /\ fate[Here.at] = "running"
        /\ \E f \in {"concluded", "unfinished"} : fate' = [fate EXCEPT ![Here.at] = f]
        /\ queueFile'.orders = queueFile.orders /\ pc' # "running"
    BY <1>0, <1>7, TradeAt DEF Conclude, LeaveForOperator, Running, Here, Fated, Typed
  <2>2. \A a \in Stamps : fate'[a] = "waiting" <=> fate[a] = "waiting"
    BY <1>0, <2>1
  <2> QED BY <1>2, <2>1, <2>2
<1>8. CASE QuarantineQueue
  <2>1. r = <<>> /\ pc' # "running"
    BY <1>8 DEF QuarantineQueue, EmptyQueue
  <2>2. \A a \in Stamps : fate'[a] # "waiting"
    BY <1>0, <1>8 DEF QuarantineQueue
  <2> QED BY <2>1, <2>2 DEF Fated, OnlyWaitingQueued
<1>9. CASE ArchiveLeftoverFails
  <2>1. queueFile'.orders = queueFile.orders /\ pc' # "running"
    BY <1>9 DEF ArchiveLeftoverFails
  <2>2. \A a \in Stamps : fate'[a] = "waiting" <=> fate[a] = "waiting"
    BY <1>0, <1>9, TradeAt DEF ArchiveLeftoverFails
  <2> QED BY <1>2, <2>1, <2>2
<1>10. ASSUME NEW phase \in LivePhases \union TerminalPhases, Advance(phase)
       PROVE  Fated'
  <2>1. current_trade \in Trade
    BY <1>0, <1>10 DEF Advance, Running, Typed
  <2>2. current_trade'.order = current_trade.order
    BY <1>10, <2>1, AdvancedTrade DEF Advance
  <2> QED BY <1>10, <2>2 DEF Advance, Running, history, Fated, OnlyWaitingQueued, InQueue
<1>11. CASE SaveInHandler
  BY <1>11 DEF SaveInHandler, memory, history, Fated, OnlyWaitingQueued, InQueue
<1>12. ASSUME \E u \in Users, kind \in Kinds : AddSaveFails(u, kind)
       PROVE  Fated'
  BY <1>1, <1>12 DEF AddSaveFails, Receiving, files, history
<1>13. ASSUME \E i \in DOMAIN orders : CancelSaveFails(i)
       PROVE  Fated'
  BY <1>1, <1>13 DEF CancelSaveFails, Cancellable, Receiving, files, history
<1>14. CASE Shutdown \/ PersistQueued \/ PersistQueuedFails \/ PopCommittedFails \/ ClearOrphan
  BY <1>1, <1>14 DEF Shutdown, PersistQueued, PersistQueuedFails,
                     PopCommittedFails, ClearOrphan, memory, files, history
<1>15. CASE Watchdog \/ SaveAfterOrder \/ Drained \/ Autosave \/ Crash
  BY <1>1, <1>15 DEF Watchdog, SaveAfterOrder, Drained, Autosave, Crash, memory, files, history
<1>16. CASE LoadQueue \/ ArchiveLeftover
  BY <1>1, <1>16 DEF LoadQueue, ArchiveLeftover, memory, files, history
<1>17. CASE UNCHANGED vars
  BY <1>17 DEF vars, memory, files, history, Fated, OnlyWaitingQueued, InQueue
<1> QED BY <1>3, <1>4, <1>5, <1>6, <1>7, <1>8, <1>9, <1>10, <1>11, <1>12, <1>13, <1>14,
           <1>15, <1>16, <1>17
        DEF Next, Player, Operator, Store, Handler, Startup

(* No order is served twice and no cancelled order comes back: queue.json
   holds only orders that still wait. *)
THEOREM ServedOnce == Spec => []OnlyWaitingQueued
<1>1. Fated => OnlyWaitingQueued
  BY DEF Fated
<1> QED BY <1>1, TypedInit, TypedNext, QueuedInit, QueuedNext, FatedInit, FatedNext, PTL
        DEF Spec
---------------------------------------------------------------------------
(* The trade in memory, its mirror, and the orders in flight. *)

InHand ==
  /\ OneInFlight
  /\ MirrorNeverAhead
  /\ pc = "running" => processing_order
  /\ pc \in {"handover", "orphan", "loading"} => ~processing_order

(* At the start no order is in hand. *)
LEMMA InHandInit == Init => InHand
BY DEF Init, InHand, OneInFlight, MirrorNeverAhead

(* The phases of a trade only go up: no rung of a ladder leads down. *)
LEMMA LadderGoesUp ==
  ASSUME NEW kind \in Kinds, NEW from, NEW to, <<from, to>> \in Ladder[kind]
  PROVE  Rank[from] <= Rank[to] /\ Rank[from] \in Nat /\ Rank[to] \in Nat
<1>1. kind \in {"buy", "sell", "deposit", "withdraw"}
  BY KindsAssumption DEF AllKinds
<1>2. CASE kind = "buy"
  BY <1>2 DEF Ladder, Rank
<1>3. CASE kind = "sell"
  BY <1>3 DEF Ladder, Rank
<1>4. CASE kind = "deposit"
  BY <1>4 DEF Ladder, Rank
<1>5. CASE kind = "withdraw"
  BY <1>5 DEF Ladder, Rank
<1> QED BY <1>1, <1>2, <1>3, <1>4, <1>5

(* The phases of an order have ranks. *)
LEMMA RankIsNat == \A t \in Trade : Rank[t.phase] \in Nat
BY DEF Trade, Rank, LivePhases, TerminalPhases

(* A second order is not taken up while one is in hand. *)
LEMMA OneInFlightNext ==
  Typed /\ Queued /\ Fated /\ InHand /\ [Next]_vars => OneInFlight'
<1> SUFFICES ASSUME Typed, Queued, Fated, InHand, [Next]_vars PROVE OneInFlight'
  OBVIOUS
<1>0. /\ fate \in [Stamps -> Fates]
      /\ \A a \in Stamps : fate[a] = "running" =>
           \/ pc \notin Down /\ processing_order /\ InTrade(current_trade, a)
           \/ pc \in Down /\ InTrade(mirror, a)
           \/ \E t \in archive : InTrade(t, a)
      /\ current_trade # NoTrade => current_trade \in Trade
      /\ mirror # NoTrade => mirror \in Trade
  BY DEF Typed, TypeOK, InHand, OneInFlight
<1>1. ASSUME pc \notin Down, pc' \notin Down, archive' = archive,
             processing_order' = processing_order,
             \A a \in Stamps : InTrade(current_trade, a) => InTrade(current_trade', a),
             \A a \in Stamps : fate'[a] = "running" => fate[a] = "running"
      PROVE  OneInFlight'
  BY <1>0, <1>1 DEF OneInFlight
<1>2. ASSUME archive' = archive,
             \A a \in Stamps : fate'[a] = "running" =>
               fate[a] = "running" /\ ~InTrade(current_trade, a) /\ ~InTrade(mirror, a)
      PROVE  OneInFlight'
  BY <1>0, <1>2 DEF OneInFlight
<1>3. ASSUME NEW u \in Users, NEW kind \in Kinds, Add(u, kind)
      PROVE  OneInFlight'
  BY <1>0, <1>1, <1>3 DEF Add, Receiving, Down
<1>4. ASSUME NEW i \in DOMAIN orders, Cancel(i)
      PROVE  OneInFlight'
  BY <1>0, <1>1, <1>4 DEF Cancel, Cancellable, Receiving, Down
<1>5. CASE PopCommitted
  <2>1. /\ Head(orders).at \in Stamps
        /\ fate' = [fate EXCEPT ![Head(orders).at] = "running"]
    BY <1>5, PopTakesHead
  <2>2. /\ pc \notin Down /\ pc' \notin Down /\ archive' = archive
        /\ ~processing_order /\ processing_order'
        /\ current_trade' \in Trade /\ current_trade'.order = Head(orders)
    <3>1. Head(orders) \in Order
      BY <1>5, HeadTailProperties DEF PopCommitted, Typed, TypeOK
    <3> QED BY <1>5, <3>1 DEF PopCommitted, Down, InHand, Trade, LivePhases
  <2>3. InTrade(current_trade', Head(orders).at)
    BY <2>2, TradeIsNotNoTrade DEF InTrade
  <2> QED BY <1>0, <2>1, <2>2, <2>3 DEF OneInFlight
<1>6. CASE Conclude \/ LeaveForOperator
  <2>1. /\ current_trade # NoTrade /\ Here.at \in Stamps
        /\ \E f \in {"concluded", "unfinished"} : fate' = [fate EXCEPT ![Here.at] = f]
        /\ archive' = archive /\ pc \notin Down /\ pc' \notin Down
    BY <1>0, <1>6, TradeAt DEF Conclude, LeaveForOperator, Running, Here, Typed, Down
  <2>2. \A a \in Stamps : fate'[a] = "running" => fate[a] = "running" /\ ~InTrade(current_trade, a)
    BY <1>0, <2>1 DEF InTrade, Here
  <2> QED BY <1>0, <2>1, <2>2 DEF OneInFlight
<1>7. CASE ClearStuckOrder
  <2>1. archive' = archive
    BY <1>7 DEF ClearStuckOrder
  <2>2. ASSUME NEW a \in Stamps, fate'[a] = "running"
        PROVE  fate[a] = "running" /\ ~InTrade(current_trade, a) /\ ~InTrade(mirror, a)
    <3>1. fate[a] = "running" /\ a \notin GivenUp({current_trade, mirror})
      BY <1>7, <2>2 DEF ClearStuckOrder
    <3> QED BY <3>1 DEF GivenUp, InTrade
  <2> QED BY <1>2, <2>1, <2>2
<1>8. CASE Crash \/ Shutdown
  <2>1. /\ pc' \in Down /\ UNCHANGED <<mirror, archive, fate>>
    BY <1>8 DEF Crash, Shutdown, Down, memory, files, history
  <2>2. pc \notin Down /\ processing_order =>
          /\ current_trade # NoTrade /\ mirror # NoTrade
          /\ mirror.order = current_trade.order
    BY DEF InHand, MirrorNeverAhead
  <2>3. \A a \in Stamps : pc \notin Down /\ processing_order /\ InTrade(current_trade, a)
                          => InTrade(mirror, a)
    BY <2>2 DEF InTrade
  <2> QED BY <1>0, <2>1, <2>3 DEF OneInFlight
<1>9. CASE LoadQueue \/ QuarantineQueue
  <2>1. /\ pc \in Down /\ pc' \in Down /\ UNCHANGED <<mirror, archive>>
        /\ \A a \in Stamps : fate'[a] = "running" => fate[a] = "running"
    BY <1>0, <1>9 DEF LoadQueue, QuarantineQueue, Down, files
  <2> QED BY <1>0, <2>1 DEF OneInFlight
<1>10. CASE ArchiveLeftover
  <2>1. /\ pc \in Down /\ fate' = fate
        /\ archive \subseteq archive'
        /\ mirror # NoTrade => mirror \in archive'
    BY <1>10 DEF ArchiveLeftover, Down, history
  <2>2. \A a \in Stamps : InTrade(mirror, a) => \E t \in archive' : InTrade(t, a)
    BY <2>1 DEF InTrade
  <2> QED BY <1>0, <2>1, <2>2 DEF OneInFlight
<1>11. CASE ArchiveLeftoverFails
  <2>1. pc \in Down /\ archive' = archive /\ mirror # NoTrade
    BY <1>11 DEF ArchiveLeftoverFails, Down
  <2>2. \A a \in Stamps : fate'[a] = "running" => fate[a] = "running" /\ ~InTrade(mirror, a)
    BY <1>0, <1>11, <2>1, TradeAt DEF ArchiveLeftoverFails, InTrade
  <2> QED BY <1>0, <2>1, <2>2 DEF OneInFlight
<1>12. ASSUME NEW phase \in LivePhases \union TerminalPhases, Advance(phase)
       PROVE  OneInFlight'
  <2>1. current_trade \in Trade
    BY <1>0, <1>12 DEF Advance, Running, Typed
  <2>2. current_trade' \in Trade /\ current_trade'.order = current_trade.order
    BY <1>12, <2>1, AdvancedTrade DEF Advance
  <2>3. \A a \in Stamps : InTrade(current_trade, a) => InTrade(current_trade', a)
    BY <2>1, <2>2, TradeIsNotNoTrade DEF InTrade
  <2> QED BY <1>1, <1>12, <2>3 DEF Advance, Running, Down, history
<1>13. ASSUME \E u \in Users, kind \in Kinds : AddSaveFails(u, kind)
       PROVE  OneInFlight'
  BY <1>1, <1>13 DEF AddSaveFails, Receiving, Down, files, history
<1>14. ASSUME \E i \in DOMAIN orders : CancelSaveFails(i)
       PROVE  OneInFlight'
  BY <1>1, <1>14 DEF CancelSaveFails, Cancellable, Receiving, Down, files, history
<1>15. CASE PersistQueued \/ PersistQueuedFails \/ PopCommittedFails \/ ClearOrphan
  BY <1>1, <1>15 DEF PersistQueued, PersistQueuedFails, Ready, PopCommittedFails, ClearOrphan,
                     Down, memory, files, history
<1>16. CASE SaveInHandler \/ Watchdog \/ SaveAfterOrder \/ Drained \/ Autosave
  BY <1>1, <1>16 DEF SaveInHandler, Watchdog, Running, SaveAfterOrder, Drained, Autosave,
                     Down, memory, files, history
<1>17. CASE UNCHANGED vars
  BY <1>17 DEF vars, memory, files, history, InHand, OneInFlight
<1> QED BY <1>3, <1>4, <1>5, <1>6, <1>7, <1>8, <1>9, <1>10, <1>11, <1>12, <1>13, <1>14,
           <1>15, <1>16, <1>17
        DEF Next, Player, Operator, Store, Handler, Startup

(* The mirror file is written only after the phase it mirrors was entered. *)
LEMMA MirrorNext ==
  Typed /\ InHand /\ [Next]_vars =>
    /\ MirrorNeverAhead'
    /\ (pc = "running" => processing_order)'
    /\ (pc \in {"handover", "orphan", "loading"} => ~processing_order)'
<1> DEFINE Goal == /\ MirrorNeverAhead'
                   /\ (pc = "running" => processing_order)'
                   /\ (pc \in {"handover", "orphan", "loading"} => ~processing_order)'
<1> SUFFICES ASSUME Typed, InHand, [Next]_vars PROVE Goal
  OBVIOUS
<1>0. /\ processing_order \in BOOLEAN
      /\ current_trade # NoTrade => current_trade \in Trade
      /\ mirror # NoTrade => mirror \in Trade
  BY DEF Typed, TypeOK
<1>1. ASSUME UNCHANGED <<current_trade, processing_order, mirror>>,
             pc' \notin Down => pc \notin Down \/ pc = "loading",
             pc' = "running" => pc = "running",
             pc' \in {"handover", "orphan", "loading"} => ~processing_order
      PROVE  Goal
  BY <1>1 DEF InHand, MirrorNeverAhead
<1>2. ASSUME ~processing_order', pc' # "running"
      PROVE  Goal
  BY <1>2 DEF MirrorNeverAhead
<1>3. CASE Player
  BY <1>1, <1>3 DEF Player, Add, AddSaveFails, Cancel, CancelSaveFails, Cancellable,
                    Receiving, Down, files, history
<1>4. CASE ClearStuckOrder \/ Conclude \/ LeaveForOperator \/ LoadQueue \/ QuarantineQueue
  BY <1>2, <1>4 DEF ClearStuckOrder, Receiving, Conclude, LeaveForOperator, LoadQueue,
                    QuarantineQueue, Forget
<1>5. CASE PersistQueued \/ PersistQueuedFails \/ PopCommittedFails \/ ClearOrphan
  BY <1>2, <1>5 DEF PersistQueued, PersistQueuedFails, Ready, PopCommittedFails, ClearOrphan,
                    memory, InHand
<1>6. CASE PopCommitted
  <2>1. Head(orders) \in Order
    BY <1>6, HeadTailProperties DEF PopCommitted, Typed, TypeOK
  <2>2. /\ current_trade' = [phase |-> "queued", order |-> Head(orders)]
        /\ mirror' = [phase |-> "queued", order |-> Head(orders)]
        /\ processing_order' /\ pc' = "running"
    BY <1>6 DEF PopCommitted, Typed
  <2>3. current_trade' \in Trade
    BY <2>1, <2>2 DEF Trade, LivePhases
  <2>4. Rank[mirror'.phase] <= Rank[current_trade'.phase]
    BY <2>2, <2>3, RankIsNat
  <2> QED BY <2>2, <2>3, <2>4, TradeIsNotNoTrade DEF MirrorNeverAhead
<1>7. ASSUME NEW phase \in LivePhases \union TerminalPhases, Advance(phase)
      PROVE  Goal
  <2>1. /\ current_trade \in Trade /\ processing_order /\ pc' = pc /\ pc = "running"
        /\ processing_order' = processing_order
        /\ mirror \in Trade /\ mirror.order = current_trade.order
        /\ Rank[mirror.phase] <= Rank[current_trade.phase]
    BY <1>0, <1>7 DEF Advance, Running, Typed, InHand, MirrorNeverAhead, Down
  <2>2. /\ current_trade' \in Trade /\ current_trade'.order = current_trade.order
        /\ current_trade'.phase = phase
        /\ mirror' = current_trade' \/ mirror' = mirror
    BY <1>7, <2>1, AdvancedTrade DEF Advance, PersistTrade
  <2>3. Rank[current_trade.phase] <= Rank[phase]
    BY <1>7, <2>1, LadderGoesUp DEF Advance, Here, Trade, Order
  <2>4. Rank[mirror'.phase] <= Rank[current_trade'.phase]
    BY <2>1, <2>2, <2>3, RankIsNat
  <2> QED BY <2>1, <2>2, <2>4, TradeIsNotNoTrade DEF MirrorNeverAhead
<1>8. CASE Watchdog
  <2>1. /\ pc = "running" /\ pc' = "save" /\ processing_order
        /\ UNCHANGED <<current_trade, processing_order>>
        /\ mirror' = current_trade \/ mirror' = mirror
    BY <1>8 DEF Watchdog, Running, PersistTrade, InHand
  <2>2. /\ current_trade \in Trade /\ mirror # NoTrade /\ mirror.order = current_trade.order
        /\ Rank[mirror.phase] <= Rank[current_trade.phase]
    BY <1>0, <2>1 DEF InHand, MirrorNeverAhead, Down
  <2>3. /\ mirror' # NoTrade /\ mirror'.order = current_trade'.order
        /\ Rank[mirror'.phase] <= Rank[current_trade'.phase]
    BY <2>1, <2>2, RankIsNat, TradeIsNotNoTrade
  <2>4. current_trade' # NoTrade
    BY <2>1, <2>2, TradeIsNotNoTrade
  <2> QED BY <2>1, <2>3, <2>4 DEF MirrorNeverAhead
<1>9. CASE Shutdown \/ SaveInHandler \/ SaveAfterOrder \/ Drained \/ Autosave \/ Crash
  BY <1>1, <1>9 DEF Shutdown, Receiving, SaveInHandler, Running, SaveAfterOrder, Drained,
                    Autosave, Crash, Down, memory, files, history
<1>10. CASE ArchiveLeftover \/ ArchiveLeftoverFails
  BY <1>2, <1>10 DEF ArchiveLeftover, ArchiveLeftoverFails, memory, InHand
<1>11. CASE UNCHANGED vars
  BY <1>11 DEF vars, memory, files, history, InHand, MirrorNeverAhead
<1> QED BY <1>3, <1>4, <1>5, <1>6, <1>7, <1>8, <1>9, <1>10, <1>11
        DEF Next, Operator, Store, Handler, Startup

(* Together: what is in hand stays one order, mirrored and guarded. *)
LEMMA InHandNext == Typed /\ Queued /\ Fated /\ InHand /\ [Next]_vars => InHand'
BY OneInFlightNext, MirrorNext DEF InHand
(* At most one order is in flight. *)
THEOREM OneAtATime == Spec => []OneInFlight
<1>1. InHand => OneInFlight
  BY DEF InHand
<1> QED BY <1>1, TypedInit, TypedNext, QueuedInit, QueuedNext, FatedInit, FatedNext,
           InHandInit, InHandNext, PTL DEF Spec

(* current_trade.json never overstates the progress of the trade. *)
THEOREM MirrorTrails == Spec => []MirrorNeverAhead
<1>1. InHand => MirrorNeverAhead
  BY DEF InHand
<1> QED BY <1>1, TypedInit, TypedNext, QueuedInit, QueuedNext, FatedInit, FatedNext,
           InHandInit, InHandNext, PTL DEF Spec

(* The handover invariant: an order accepted by the store is in queue.json
   while it waits, and in current_trade.json or its archive while it is in
   flight, at every instant, whether or not the process is alive. *)
THEOREM NeverInNeither == Spec => []Handover
<1>1. Fated /\ InHand => Handover
  <2> SUFFICES ASSUME Fated, InHand, NEW a \in Stamps
               PROVE  /\ fate[a] = "waiting" => InQueue(queueFile.orders, a)
                      /\ fate[a] = "running" => OnRecord(a)
    BY DEF Handover
  <2>1. fate[a] = "waiting" => InQueue(queueFile.orders, a)
    BY DEF Fated
  <2>2. ASSUME fate[a] = "running" PROVE OnRecord(a)
    <3>1. CASE pc \notin Down /\ processing_order /\ InTrade(current_trade, a)
      BY <3>1 DEF InHand, MirrorNeverAhead, InTrade, OnRecord
    <3>2. CASE InTrade(mirror, a) \/ \E t \in archive : InTrade(t, a)
      BY <3>2 DEF OnRecord
    <3> QED BY <2>2, <3>1, <3>2 DEF InHand, OneInFlight
  <2> QED BY <2>1, <2>2
<1> QED BY <1>1, TypedInit, TypedNext, QueuedInit, QueuedNext, FatedInit, FatedNext,
           InHandInit, InHandNext, PTL DEF Spec

---------------------------------------------------------------------------
(* Steps. *)

(* Only the pop starts an order, and it starts the oldest that waits. *)
LEMMA OldestFirst ==
  ASSUME Typed, Queued, Fated, [Next]_vars,
         NEW a \in Stamps, fate[a] = "waiting", fate'[a] = "running"
  PROVE  \A b \in Stamps : b < a => fate[b] # "waiting"
<1>0. fate \in [Stamps -> Fates]
  BY QueueFacts
<1>1. CASE PopCommitted
  <2>1. /\ 1 \in DOMAIN queueFile.orders
        /\ queueFile.orders[1].at = Head(orders).at
        /\ fate' = [fate EXCEPT ![Head(orders).at] = "running"]
    BY <1>1, PopTakesHead
  <2>2. a = queueFile.orders[1].at
    BY <1>0, <2>1
  <2> SUFFICES ASSUME NEW b \in Stamps, b < a, fate[b] = "waiting" PROVE FALSE
    OBVIOUS
  <2>3. PICK i \in DOMAIN queueFile.orders : queueFile.orders[i].at = b
    BY DEF Fated, InQueue
  <2>4. i = 1 \/ 1 < i
    BY QueueFacts
  <2>5. i # 1
    BY <2>2, <2>3, BoundsAssumption DEF Stamps
  <2>6. a < b
    BY <2>1, <2>2, <2>3, <2>4, <2>5 DEF Queued, QueueInArrivalOrder, Increasing
  <2> QED BY <2>6, BoundsAssumption DEF Stamps
<1>2. CASE Player
  BY <1>0, <1>2 DEF Player, Add, AddSaveFails, Cancel, CancelSaveFails, files, history
<1>3. CASE Operator
  BY <1>0, <1>3 DEF Operator, ClearStuckOrder, Shutdown, history
<1>4. CASE Conclude \/ LeaveForOperator
  BY <1>0, <1>4 DEF Conclude, LeaveForOperator
<1>5. CASE QuarantineQueue \/ ArchiveLeftoverFails
  BY <1>0, <1>5 DEF QuarantineQueue, ArchiveLeftoverFails
<1>6. CASE fate' = fate
  BY <1>6
<1>7. CASE \/ PersistQueued \/ PersistQueuedFails \/ PopCommittedFails \/ ClearOrphan
           \/ Handler \/ SaveInHandler \/ SaveAfterOrder \/ Drained \/ Autosave
           \/ Watchdog \/ Crash \/ LoadQueue \/ ArchiveLeftover \/ UNCHANGED vars
  BY <1>6, <1>7 DEF PersistQueued, PersistQueuedFails, PopCommittedFails, ClearOrphan,
       Handler, Advance, SaveInHandler, SaveAfterOrder, Drained, Autosave,
       Watchdog, Crash, LoadQueue, ArchiveLeftover, vars, files, history
<1> QED BY <1>1, <1>2, <1>3, <1>4, <1>5, <1>7 DEF Next, Store, Startup

(* Orders start in the order in which they were accepted. *)
THEOREM InOrder == Spec => FirstComeFirstServed
<1>1. Typed /\ Queued /\ Fated /\ [Next]_vars =>
        [\A a \in Stamps : fate[a] = "waiting" /\ fate'[a] = "running" =>
           \A b \in Stamps : b < a => fate[b] # "waiting"]_vars
  BY OldestFirst
<1> QED BY <1>1, TypedInit, TypedNext, QueuedInit, QueuedNext, FatedInit, FatedNext, PTL
        DEF Spec, FirstComeFirstServed
(* Only the operator, a crash or a restart releases a held order. *)
THEOREM HeldOrder == Spec => HeldUntilReleased
<1>1. Typed /\ InHand /\ [Next]_vars =>
        [processing_order /\ pc \notin Down \union {"running"} =>
           \/ ClearStuckOrder \/ Crash \/ Shutdown
           \/ UNCHANGED <<processing_order, current_trade, mirror>>]_vars
  <2> SUFFICES ASSUME Typed, InHand, [Next]_vars,
                      processing_order, pc \notin Down \union {"running"}
               PROVE  \/ ClearStuckOrder \/ Crash \/ Shutdown
                      \/ UNCHANGED <<processing_order, current_trade, mirror>>
    OBVIOUS
  <2>1. pc \in {"top", "save", "drain"}
    BY DEF Typed, TypeOK, PCs, Down, InHand
  <2>2. CASE Player
    BY <2>2 DEF Player, Add, AddSaveFails, Cancel, CancelSaveFails, files
  <2>3. CASE Store
    BY <2>1, <2>3 DEF Store, PersistQueued, PersistQueuedFails, Ready, PopCommitted,
         PopCommittedFails, ClearOrphan, Handler, Advance, SaveInHandler, Conclude,
         LeaveForOperator, Running, SaveAfterOrder, Drained, Autosave, memory, files
  <2>4. CASE Watchdog \/ Startup
    BY <2>1, <2>4 DEF Watchdog, Running, Startup, LoadQueue, QuarantineQueue,
         ArchiveLeftover, ArchiveLeftoverFails
  <2>5. CASE UNCHANGED vars
    BY <2>5 DEF vars, memory, files
  <2> QED BY <2>2, <2>3, <2>4, <2>5 DEF Next, Operator
<1> QED BY <1>1, TypedInit, TypedNext, QueuedInit, QueuedNext, FatedInit, FatedNext,
           InHandInit, InHandNext, PTL DEF Spec, HeldUntilReleased

---------------------------------------------------------------------------
(* The ledger and its files. *)

Booked == UnsavedIsDirty /\ (pc = "loading" => ledger = ledgerFile)

(* At the start ledger and file agree, *)
LEMMA BookedInit == Init => Booked
BY DEF Init, Booked, UnsavedIsDirty

(* and a step that makes them differ marks the ledger dirty. *)
LEMMA BookedNext == Booked /\ [Next]_vars => Booked'
<1> SUFFICES ASSUME Booked, [Next]_vars PROVE Booked'
  OBVIOUS
<1> USE DEF Booked, UnsavedIsDirty
<1>1. CASE Player
  BY <1>1 DEF Player, Add, AddSaveFails, Cancel, CancelSaveFails, Cancellable, files
<1>2. CASE Operator
  BY <1>2 DEF Operator, ClearStuckOrder, Shutdown, Receiving, Down
<1>3. CASE PersistQueued \/ PersistQueuedFails \/ PopCommitted \/ PopCommittedFails \/ ClearOrphan
  BY <1>3 DEF PersistQueued, PersistQueuedFails, Ready, PopCommitted, PopCommittedFails,
              ClearOrphan, Down, memory, files
<1>4. CASE Handler \/ SaveInHandler \/ Conclude \/ LeaveForOperator \/ Watchdog
  BY <1>4 DEF Handler, Advance, SaveInHandler, Conclude, LeaveForOperator, Watchdog,
              Running, Down, memory
<1>5. CASE SaveAfterOrder \/ Drained \/ Autosave
  BY <1>5 DEF SaveAfterOrder, SaveState, Drained, Autosave, Down, memory, files
<1>6. CASE Crash
  BY <1>6 DEF Crash, Down
<1>7. CASE Startup
  BY <1>7 DEF Startup, LoadQueue, QuarantineQueue, Forget, ArchiveLeftover,
              ArchiveLeftoverFails, Down, memory, files
<1>8. CASE UNCHANGED vars
  BY <1>8 DEF vars, memory, files
<1> QED BY <1>1, <1>2, <1>3, <1>4, <1>5, <1>6, <1>7, <1>8 DEF Next, Store

(* A ledger that differs from its files is marked dirty. *)
THEOREM DirtyWhenUnsaved == Spec => []UnsavedIsDirty
<1>1. Booked => UnsavedIsDirty
  BY DEF Booked
<1> QED BY <1>1, BookedInit, BookedNext, PTL DEF Spec

---------------------------------------------------------------------------
(* OrderLifecycle implements OrderService. *)

(* No order is accepted twice at one instant: nothing has happened yet to
   the instants to come. *)
Later == \A a \in Stamps : a > clock => fate[a] = "none"

(* At the start nothing has happened to any instant, *)
LEMMA LaterInit == Init => Later
BY DEF Init, Later

(* and nothing happens to one before the clock reaches it. *)
LEMMA LaterNext == Typed /\ Queued /\ Fated /\ Later /\ [Next]_vars => Later'
<1> SUFFICES ASSUME Typed, Queued, Fated, Later, [Next]_vars PROVE Later'
  OBVIOUS
<1>0. /\ fate \in [Stamps -> Fates] /\ clock \in Nat
      /\ \A a \in Stamps : a \in Nat
      /\ \A i \in DOMAIN queueFile.orders : /\ queueFile.orders[i].at \in Stamps
                                            /\ queueFile.orders[i].at <= clock
      /\ current_trade # NoTrade => current_trade \in Trade
      /\ mirror # NoTrade => mirror \in Trade
  BY QueueFacts, BoundsAssumption DEF Queued, Typed, TypeOK, Stamps
<1>1. ASSUME clock' = clock,
             \A a \in Stamps : fate[a] = "none" => fate'[a] = "none"
      PROVE  Later'
  BY <1>1 DEF Later
<1>2. ASSUME NEW u \in Users, NEW kind \in Kinds, Add(u, kind)
      PROVE  Later'
  BY <1>0, <1>2 DEF Add, Later
<1>3. ASSUME NEW i \in DOMAIN orders, Cancel(i)
      PROVE  Later'
  <2>1. orders[i].at \in Stamps /\ orders[i].at <= clock
    BY <1>0, <1>3 DEF Cancel, Cancellable, Receiving, Queued, QueueMatchesFile
  <2> QED BY <1>0, <1>3, <2>1 DEF Cancel, Later
<1>4. CASE PopCommitted
  BY <1>0, <1>4, PopTakesHead DEF PopCommitted, Later
<1>5. CASE Conclude \/ LeaveForOperator
  <2>1. Here.at \in Stamps /\ fate[Here.at] = "running"
    BY <1>0, <1>5, TradeAt DEF Conclude, LeaveForOperator, Running, Here, Fated, Typed
  <2>2. \A a \in Stamps : a # Here.at => fate'[a] = fate[a]
    BY <1>0, <1>5, <2>1 DEF Conclude, LeaveForOperator
  <2>3. clock' = clock
    BY <1>5 DEF Conclude, LeaveForOperator
  <2> QED BY <1>1, <2>1, <2>2, <2>3
<1>6. CASE ClearStuckOrder
  BY <1>1, <1>6 DEF ClearStuckOrder
<1>7. CASE QuarantineQueue
  <2>1. \A a \in Stamps : fate[a] = "none" => fate'[a] = "none"
    BY <1>7 DEF QuarantineQueue, Fated, OnlyWaitingQueued
  <2> QED BY <1>1, <1>7, <2>1 DEF QuarantineQueue
<1>8. CASE ArchiveLeftoverFails
  <2>1. \A a \in Stamps : fate[a] = "none" => fate'[a] = "none"
    BY <1>0, <1>8, TradeAt DEF ArchiveLeftoverFails
  <2> QED BY <1>1, <1>8, <2>1 DEF ArchiveLeftoverFails
<1>9. CASE UNCHANGED <<clock, fate>>
  BY <1>9 DEF Later
<1>10. ASSUME \/ \E u \in Users, kind \in Kinds : AddSaveFails(u, kind)
              \/ \E i \in DOMAIN orders : CancelSaveFails(i)
       PROVE  Later'
  BY <1>9, <1>10 DEF AddSaveFails, CancelSaveFails, history
<1>11. CASE \/ Shutdown \/ PersistQueued \/ PersistQueuedFails \/ PopCommittedFails \/ ClearOrphan
            \/ Handler \/ SaveInHandler \/ SaveAfterOrder \/ Drained \/ Autosave
            \/ Watchdog \/ Crash \/ LoadQueue \/ ArchiveLeftover \/ UNCHANGED vars
  BY <1>9, <1>11 DEF Shutdown, PersistQueued, PersistQueuedFails, PopCommittedFails, ClearOrphan,
       Handler, Advance, SaveInHandler, SaveAfterOrder, Drained, Autosave,
       Watchdog, Crash, LoadQueue, ArchiveLeftover, vars, history
<1> QED BY <1>2, <1>3, <1>4, <1>5, <1>6, <1>7, <1>8, <1>10, <1>11
        DEF Next, Player, Operator, Store, Startup

(* The start maps to a start of the abstract service, *)
LEMMA ServiceInit == Init => Service!Init
BY DEF Init, EmptyQueue, Service!Init

(* and every step to a step of it or to none. *)
LEMMA ServiceStep ==
  Typed /\ Queued /\ Fated /\ Later /\ [Next]_vars => [Service!Next]_(Service!vars)
<1> SUFFICES ASSUME Typed, Queued, Fated, Later, [Next]_vars
             PROVE  [Service!Next]_(Service!vars)
  OBVIOUS
<1>0. /\ fate \in [Stamps -> Fates]
      /\ \A i \in DOMAIN queueFile.orders : /\ queueFile.orders[i].at \in Stamps
                                            /\ fate[queueFile.orders[i].at] = "waiting"
      /\ \A a \in Stamps : fate[a] = "waiting"
                          => \E i \in DOMAIN queueFile.orders : queueFile.orders[i].at = a
      /\ current_trade # NoTrade => current_trade \in Trade
      /\ mirror # NoTrade => mirror \in Trade
  BY QueueFacts DEF Fated, OnlyWaitingQueued, InQueue, Typed, TypeOK
<1>1. ASSUME queueFile'.orders = queueFile.orders, fate' = fate
      PROVE  UNCHANGED Service!vars
  BY <1>1 DEF Service!vars
<1>2. ASSUME NEW u \in Users, NEW kind \in Kinds, Add(u, kind)
      PROVE  Service!Next
  <2> DEFINE o == NewOrder(u, kind)
  <2>1. /\ o \in Order /\ o.user = u /\ o.at = clock + 1 /\ clock + 1 \in Stamps
        /\ orders = queueFile.orders
        /\ queueFile'.orders = Append(queueFile.orders, o)
        /\ fate' = [fate EXCEPT ![o.at] = "waiting"]
    BY <1>2, AddAppendsOne DEF NewOrder
  <2>2. fate[o.at] = "none"
    BY <2>1, BoundsAssumption DEF Later, Typed, TypeOK
  <2>3. /\ Len(queueFile.orders) < MaxQueueSize
        /\ Cardinality({i \in DOMAIN queueFile.orders : queueFile.orders[i].user = o.user})
             < MaxOrdersPerUser
    BY <1>2, <2>1 DEF Add, HasRoom, UserOrders
  <2> HIDE DEF o
  <2>4. Service!Accept(o)
    <3>1. \A S : Service!Cardinality(S) = Cardinality(S)
      BY DEF Service!Cardinality, Cardinality
    <3> QED BY <2>1, <2>2, <2>3, <3>1 DEF Service!Accept
  <2> QED BY <2>1, <2>4 DEF Service!Next
<1>3. ASSUME NEW i \in DOMAIN orders, Cancel(i)
      PROVE  Service!Next
  <2>1. orders = queueFile.orders
    BY <1>3 DEF Cancel, Cancellable, Receiving, Queued, QueueMatchesFile
  <2>2. Service!Cancel(i)
    BY <1>0, <1>3, <2>1 DEF Cancel, SaveQueue, RemoveAt, Service!Cancel, Service!RemoveAt
  <2> QED BY <2>1, <2>2 DEF Service!Next
<1>4. CASE PopCommitted
  <2>1. orders = queueFile.orders /\ queueFile.orders # <<>>
    BY <1>4 DEF PopCommitted, Typed, Queued, QueueMatchesFile
  <2>2. fate[Head(queueFile.orders).at] = "waiting"
    BY <1>0, <1>4, <2>1, PopTakesHead
  <2>3. Service!Serve
    BY <1>4, <2>1, <2>2 DEF PopCommitted, SaveQueue, Service!Serve
  <2> QED BY <2>3 DEF Service!Next
<1>5. CASE Conclude \/ LeaveForOperator
  <2>1. Here.at \in Stamps /\ fate[Here.at] = "running" /\ queueFile' = queueFile
    BY <1>0, <1>5, TradeAt DEF Conclude, LeaveForOperator, Running, Here, Fated, Typed
  <2>2. PICK f \in {"concluded", "unfinished"} : fate' = [fate EXCEPT ![Here.at] = f]
    BY <1>5 DEF Conclude, LeaveForOperator
  <2>3. Service!End(Here.at, f)
    BY <2>1, <2>2 DEF Service!End
  <2> QED BY <2>1, <2>3 DEF Service!Next
<1>6. CASE ClearStuckOrder
  <2> DEFINE S == {a \in Stamps : /\ a \in GivenUp({current_trade, mirror})
                                 /\ fate[a] \in {"running", "unfinished"}}
  <2>1. queueFile'.orders = queueFile.orders
    BY <1>6 DEF ClearStuckOrder, Receiving, SaveQueue, Queued, QueueMatchesFile
  <2>2. fate' = [a \in Stamps |-> IF a \in S THEN "cleared" ELSE fate[a]]
    BY <1>6 DEF ClearStuckOrder
  <2>3. Service!GiveUp(S, "cleared")
    BY <2>1, <2>2 DEF Service!GiveUp, Service!InService
  <2> QED BY <2>3 DEF Service!Next
<1>7. CASE QuarantineQueue
  <2>1. queueFile'.orders = <<>>
    BY <1>7 DEF QuarantineQueue, EmptyQueue
  <2>2. fate' = [a \in Stamps |-> IF fate[a] = "waiting" THEN "quarantined" ELSE fate[a]]
    BY <1>0, <1>7 DEF QuarantineQueue
  <2> QED BY <2>1, <2>2 DEF Service!Next, Service!Quarantine
<1>8. CASE ArchiveLeftoverFails
  <2>1. mirror.order.at \in Stamps /\ queueFile' = queueFile
    BY <1>0, <1>8, TradeAt DEF ArchiveLeftoverFails
  <2>2. CASE fate[mirror.order.at] \in {"running", "unfinished"}
    <3> DEFINE S == {mirror.order.at}
    <3>1. fate' = [a \in Stamps |-> IF a \in S THEN "discarded" ELSE fate[a]]
      BY <1>0, <1>8, <2>1, <2>2 DEF ArchiveLeftoverFails
    <3>2. Service!GiveUp(S, "discarded")
      BY <2>1, <2>2, <3>1 DEF Service!GiveUp, Service!InService
    <3>3. S \in SUBSET Stamps
      BY <2>1
    <3> QED BY <3>2, <3>3 DEF Service!Next
  <2>3. CASE fate[mirror.order.at] \notin {"running", "unfinished"}
    BY <1>1, <1>8, <2>1, <2>3 DEF ArchiveLeftoverFails
  <2> QED BY <2>2, <2>3
<1>9. ASSUME \/ \E u \in Users, kind \in Kinds : AddSaveFails(u, kind)
             \/ \E i \in DOMAIN orders : CancelSaveFails(i)
      PROVE  UNCHANGED Service!vars
  BY <1>1, <1>9 DEF AddSaveFails, CancelSaveFails, files, history
<1>10. CASE \/ Shutdown \/ PersistQueued \/ PersistQueuedFails \/ PopCommittedFails \/ ClearOrphan
            \/ Handler \/ SaveInHandler \/ SaveAfterOrder \/ Drained \/ Autosave
            \/ Watchdog \/ Crash \/ LoadQueue \/ ArchiveLeftover \/ UNCHANGED vars
  BY <1>1, <1>10 DEF Shutdown, PersistQueued, PersistQueuedFails, PopCommittedFails, ClearOrphan,
       Handler, Advance, SaveInHandler, SaveAfterOrder, Drained, Autosave,
       Watchdog, Crash, LoadQueue, ArchiveLeftover, vars, files, history
<1> QED BY <1>2, <1>3, <1>4, <1>5, <1>6, <1>7, <1>8, <1>9, <1>10
        DEF Next, Player, Operator, Store, Startup

(* The store implements the abstract service: a durable bounded FIFO queue
   that serves each order at most once. *)
THEOREM Implementation == Spec => ImplementsService
BY ServiceInit, ServiceStep, TypedInit, TypedNext, QueuedInit, QueuedNext,
   FatedInit, FatedNext, LaterInit, LaterNext, PTL
   DEF Spec, ImplementsService, Service!Spec
=============================================================================
