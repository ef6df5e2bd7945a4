----------------------------- MODULE RecordsProofs -----------------------------
(***************************************************************************)
(* Proofs about Records: the types, that what a save skips is on disk,     *)
(* that memory is on disk when no mark is left, and that a save destroys   *)
(* nothing it was not told to, for any number of records, of changes and   *)
(* of failing calls.                                                       *)
(***************************************************************************)
EXTENDS Records, FiniteSetTheorems, WellFoundedInduction, TLAPS

(* A trade's file is that of a trade, which no change touches. *)
TradeFiles == \A t \in Stamps : tradeFile[t] \in {Absent, Bad, 0}

Typed == TypeOK /\ TradeFiles

(* The history is in the order of its timestamps. *)
Sorted == \A i, j \in 1 .. Len(trades) : i < j => trades[i] < trades[j]

UsersStored  == \A u \in Users : users[u] # Absent => userFile[u] = users[u]
PairsStored  == \A p \in Pairs : pairs[p] # Absent => pairFile[p] = pairs[p]
TradesStored == \A i \in 1 .. Len(trades) : tradeFile[trades[i]] = 0

(* A save without an error so far has stored what its sub-saves are for. *)
AfterPairs  == {"users", "orders", "trades", "storage"}
AfterUsers  == {"orders", "trades", "storage"}

SavedSoFar ==
  /\ ~up => step = "idle"
  /\ step # "idle" => dirty
  /\ ~failed =>
       /\ step \in AfterPairs => PairsStored
       /\ step \in AfterUsers => UsersStored
       /\ step = "storage" => TradesStored

(* What is on disk is in memory, and memory is not behind it; or the last  *)
(* load left it unread, or the operator removed it, or it is a trade older *)
(* than all that is kept.                                                  *)
UserIsKnown(u) == userFile[u] \in Version /\ u \notin unseen.user
                    => users[u] \in Version /\ users[u] >= userFile[u]
PairIsKnown(p) == pairFile[p] # Absent /\ p \notin unseen.pair \union removed
                    => pairs[p] # Absent
InHistory(t) == \E i \in 1 .. Len(trades) : trades[i] = t
TradeIsKnown(t) == tradeFile[t] # Absent /\ t \notin unseen.trade
                     => InHistory(t) \/ \A i \in 1 .. Len(trades) : trades[i] > t

Known == up => /\ \A u \in Users : UserIsKnown(u)
               /\ \A p \in Pairs : PairIsKnown(p)
               /\ \A t \in Stamps : TradeIsKnown(t)

Inv == Typed /\ Sorted /\ SkippedIsStored /\ SavedSoFar /\ CleanIsMirrored /\ Known

---------------------------------------------------------------------------
(* The order of timestamps. *)

(* A set of numbers that is not empty has a least one. *)
LEMMA Least ==
  ASSUME NEW S \in SUBSET Nat, S # {}
  PROVE  \E i \in S : \A j \in S : i <= j
<1>1. PICK i \in S : \A j \in S : <<j, i>> \notin OpToRel(<, Nat)
  BY WFMin, NatLessThanWellFounded, Zenon
<1>2. ASSUME NEW j \in S PROVE i <= j
  <2>1. i \in Nat /\ j \in Nat
    OBVIOUS
  <2>2. ~(j < i)
    BY <1>1, <2>1 DEF OpToRel
  <2> QED
    BY <2>1, <2>2
<1> QED
  BY <1>2

Below(S, t) == {s \in S : s < t}
Rank(S, t)  == Cardinality(Below(S, t))

(* The rank of a number in a set tells it from the others, and is less than *)
(* the size of the set.                                                     *)
LEMMA Ranks ==
  ASSUME NEW S \in SUBSET Nat, IsFiniteSet(S), NEW t \in S
  PROVE  /\ Rank(S, t) \in Nat /\ Rank(S, t) < Cardinality(S)
         /\ \A s \in S : s < t => Rank(S, s) < Rank(S, t)
<1>1. \A T \in SUBSET S : IsFiniteSet(T) /\ Cardinality(T) \in Nat
  BY FS_Subset, FS_CardinalityType
<1>2. ASSUME NEW T \in SUBSET S, NEW R \in SUBSET T, NEW x \in T, x \notin R
      PROVE  Cardinality(R) < Cardinality(T)
  <2>1. Cardinality(R) <= Cardinality(T) /\ (Cardinality(T) = Cardinality(R) => T = R)
    BY <1>1, FS_Subset
  <2>2. Cardinality(R) \in Nat /\ Cardinality(T) \in Nat /\ T # R
    BY <1>1, <1>2
  <2> QED
    BY <2>1, <2>2
<1>3. Below(S, t) \in SUBSET S /\ t \notin Below(S, t)
  BY DEF Below
<1>4. Rank(S, t) \in Nat /\ Rank(S, t) < Cardinality(S)
  BY <1>1, <1>2, <1>3 DEF Rank
<1>5. ASSUME NEW s \in S, s < t PROVE Rank(S, s) < Rank(S, t)
  <2>1. s \in Nat /\ t \in Nat /\ \A r \in S : r \in Nat
    OBVIOUS
  <2>2. Below(S, s) \subseteq Below(S, t) /\ s \in Below(S, t) /\ s \notin Below(S, s)
    <3>1. ASSUME NEW r \in S, r < s PROVE r < t
      BY <1>5, <2>1, <3>1
    <3>2. ~(s < s)
      BY <2>1
    <3> QED
      BY <1>5, <3>1, <3>2 DEF Below
  <2> QED
    BY <1>2, <1>3, <2>2 DEF Rank
<1> QED
  BY <1>4, <1>5

(* Every rank less than the size of the set is that of one of its numbers. *)
LEMMA EveryRank ==
  ASSUME NEW S \in SUBSET Nat, IsFiniteSet(S), NEW i \in Nat, i < Cardinality(S)
  PROVE  \E t \in S : Rank(S, t) = i
<1> DEFINE Missing == {j \in Nat : j < Cardinality(S) /\ \A t \in S : Rank(S, t) # j}
<1> SUFFICES ASSUME Missing # {} PROVE FALSE
  OBVIOUS
<1>1. PICK m \in Missing : \A j \in Missing : m <= j
  BY Least
<1>2. Cardinality(S) \in Nat
  BY FS_CardinalityType
<1>3. \A R \in SUBSET S : IsFiniteSet(R)
  BY FS_Subset
<1>n. \A s \in S : s \in Nat
  OBVIOUS
<1>4. CASE m = 0
  <2>1. S # {}
    BY <1>1, <1>4, <1>2, FS_EmptySet
  <2>2. PICK t \in S : \A s \in S : t <= s
    BY <2>1, Least
  <2>3. Below(S, t) = {}
    <3>1. ASSUME NEW s \in S PROVE ~(s < t)
      BY <1>n, <2>2
    <3> QED
      BY <3>1 DEF Below
  <2>4. Rank(S, t) = 0
    BY <2>3, FS_EmptySet DEF Rank
  <2> QED
    BY <1>1, <1>4, <2>4
<1>5. CASE m # 0
  <2>1. m - 1 \in Nat /\ m - 1 < Cardinality(S) /\ m - 1 \notin Missing
    BY <1>1, <1>2, <1>5
  <2>2. PICK t \in S : Rank(S, t) = m - 1
    BY <2>1
  <2>3. Cardinality(Below(S, t) \union {t}) = m
    <3>1. IsFiniteSet(Below(S, t)) /\ t \notin Below(S, t)
      BY <1>n, <1>3 DEF Below
    <3>2. Cardinality(Below(S, t) \union {t}) = Cardinality(Below(S, t)) + 1
      BY <3>1, FS_AddElement
    <3> QED
      BY <1>1, <2>2, <3>2 DEF Rank
  <2>4. PICK u \in {s \in S : s > t} : \A s \in {s \in S : s > t} : u <= s
    <3>1. Below(S, t) \union {t} # S
      BY <1>1, <2>3
    <3>2. PICK s \in S : s \notin Below(S, t) \union {t}
      BY <3>1 DEF Below
    <3>3. s > t
      BY <1>n, <3>2 DEF Below
    <3>4. {r \in S : r > t} # {} /\ {r \in S : r > t} \in SUBSET Nat
      BY <3>3
    <3> QED
      BY <3>4, Least
  <2>5. Below(S, u) = Below(S, t) \union {t}
    <3>1. ASSUME NEW s \in S PROVE s < u <=> s < t \/ s = t
      <4>1. s \in Nat /\ t \in Nat /\ u \in Nat /\ t < u
        BY <1>n, <2>4
      <4>2. s > t => u <= s
        BY <2>4
      <4> QED
        BY <4>1, <4>2
    <3> QED
      BY <3>1 DEF Below
  <2> QED
    BY <1>1, <2>3, <2>4, <2>5 DEF Rank
<1> QED
  BY <1>4, <1>5

(* InOrder lists a set, every one of its numbers, from the least up. *)
LEMMA Listed ==
  ASSUME NEW S \in SUBSET Nat, IsFiniteSet(S)
  PROVE  /\ \A T : S \subseteq T => InOrder(S) \in Seq(T)
         /\ Len(InOrder(S)) = Cardinality(S)
         /\ \A i, j \in 1 .. Cardinality(S) : i < j => InOrder(S)[i] < InOrder(S)[j]
         /\ \A t \in S : \E i \in 1 .. Cardinality(S) : InOrder(S)[i] = t
<1> DEFINE n == Cardinality(S)
           At(i) == CHOOSE t \in S : Rank(S, t) = i - 1
<1>1. n \in Nat /\ \A s \in S : s \in Nat
  BY FS_CardinalityType
<1>2. InOrder(S) = [i \in 1 .. n |-> At(i)]
  BY DEF InOrder, Rank, Below
<1>3. ASSUME NEW i \in 1 .. n PROVE At(i) \in S /\ Rank(S, At(i)) = i - 1
  <2>1. i - 1 \in Nat /\ i - 1 < n
    BY <1>1
  <2>2. \E t \in S : Rank(S, t) = i - 1
    BY <2>1, EveryRank
  <2> QED
    BY <2>2
<1> HIDE DEF At
<1>4. (\A T : S \subseteq T => InOrder(S) \in Seq(T)) /\ Len(InOrder(S)) = n
  <2>1. \A i \in 1 .. n : At(i) \in S
    BY <1>3
  <2>2. ASSUME NEW T, S \subseteq T PROVE InOrder(S) \in Seq(T)
    <3>1. InOrder(S) \in [1 .. n -> T]
      BY <1>2, <2>1, <2>2
    <3> QED
      BY <1>1, <3>1
  <2>3. Len(InOrder(S)) = n
    BY <1>1, <1>2
  <2> QED
    BY <2>2, <2>3
<1>5. ASSUME NEW i \in 1 .. n, NEW j \in 1 .. n, i < j PROVE At(i) < At(j)
  <2>1. At(i) \in S /\ At(j) \in S /\ Rank(S, At(i)) < Rank(S, At(j))
    BY <1>1, <1>3, <1>5
  <2>2. At(j) < At(i) => Rank(S, At(j)) < Rank(S, At(i))
    BY <2>1, Ranks
  <2>3. Rank(S, At(i)) \in Nat /\ Rank(S, At(j)) \in Nat
    BY <2>1, Ranks
  <2>4. At(i) \in Nat /\ At(j) \in Nat /\ At(i) # At(j)
    <3>1. At(i) \in Nat /\ At(j) \in Nat
      BY <1>1, <2>1
    <3>2. At(i) # At(j)
      BY <2>1, <2>3
    <3> QED
      BY <3>1, <3>2
  <2> QED
    BY <2>1, <2>2, <2>3, <2>4
<1>6. ASSUME NEW t \in S PROVE \E i \in 1 .. n : At(i) = t
  <2>1. Rank(S, t) \in Nat /\ Rank(S, t) < n
    BY Ranks
  <2> DEFINE i == Rank(S, t) + 1
  <2>2. i \in 1 .. n /\ i - 1 = Rank(S, t)
    BY <1>1, <2>1
  <2>3. At(i) \in S /\ Rank(S, At(i)) = Rank(S, t)
    BY <1>3, <2>2
  <2>4. /\ t < At(i) => Rank(S, t) < Rank(S, At(i))
        /\ At(i) < t => Rank(S, At(i)) < Rank(S, t)
    BY <2>3, Ranks
  <2>5. At(i) = t
    <3>1. t \in Nat /\ At(i) \in Nat
      BY <1>1, <2>3
    <3>2. ~(t < At(i)) /\ ~(At(i) < t)
      BY <2>1, <2>3, <2>4
    <3> QED
      BY <3>1, <3>2
  <2> QED
    BY <2>2, <2>5
<1> QED
  BY <1>2, <1>4, <1>5, <1>6

(* What is not among the newest is older than all that are. *)
LEMMA NewestAreNewer ==
  ASSUME NEW S \in SUBSET Nat, IsFiniteSet(S), NEW t \in S \ Newest(S), NEW u \in Newest(S)
  PROVE  u > t
<1> DEFINE Above(x) == {s \in S : s > x}
<1>1. Cardinality(Above(u)) < MaxTrades /\ ~(Cardinality(Above(t)) < MaxTrades) /\ u \in S
  BY DEF Newest
<1>2. Cardinality(Above(u)) \in Nat /\ Cardinality(Above(t)) \in Nat /\ MaxTrades \in Nat
  BY FS_Subset, FS_CardinalityType, RecordsAssumption
<1>3. CASE u <= t
  <2>1. \A s \in S : s \in Nat
    OBVIOUS
  <2>2. Above(t) \in SUBSET Above(u) /\ Above(u) \in SUBSET S
    <3>1. ASSUME NEW s \in S, s > t PROVE s > u
      BY <1>1, <1>3, <2>1, <3>1
    <3> QED
      BY <3>1
  <2>3. IsFiniteSet(Above(u))
    BY <2>2, FS_Subset
  <2>4. Cardinality(Above(t)) <= Cardinality(Above(u))
    BY <2>2, <2>3, FS_Subset
  <2> QED
    BY <1>1, <1>2, <2>4
<1> QED
  BY <1>1, <1>3

---------------------------------------------------------------------------
(* What a load and the save of a directory leave. *)

(* What is loaded is in its file; and what is in a file was loaded, or the  *)
(* load left it.                                                            *)
LEMMA Loaded ==
  ASSUME NEW D, NEW f \in [D -> File], NEW o \in LoadOutcomes(f)
  PROVE  /\ o.got \in [D -> Memory] /\ o.file \in [D -> File] /\ o.left \in SUBSET D
         /\ \A n \in D : o.got[n] # Absent => o.got[n] = f[n] /\ o.file[n] = f[n]
         /\ \A n \in D : o.file[n] # Absent => n \in o.left \/ o.got[n] # Absent
         /\ \A n \in D : o.file[n] \in {f[n], Absent}
<1>1. PICK left \in SUBSET Present(f), hurt \in SUBSET {n \in Present(f) : f[n] # Bad} :
        o = [got |-> [n \in DOMAIN f |-> IF n \in left \union hurt \/ f[n] = Bad
                                        THEN Absent ELSE f[n]],
             file |-> [n \in DOMAIN f |-> IF n \in hurt \/ (f[n] = Bad /\ n \notin left)
                                         THEN Absent ELSE f[n]],
             left |-> left,
             fault |-> left \union hurt # {}]
  BY DEF LoadOutcomes
<1>2. /\ \A n \in D : o.got[n] = IF n \in left \union hurt \/ f[n] = Bad THEN Absent ELSE f[n]
      /\ \A n \in D : o.file[n] = IF n \in hurt \/ (f[n] = Bad /\ n \notin left) THEN Absent ELSE f[n]
      /\ o.left = left
  BY <1>1
<1>3. o.got \in [D -> Memory] /\ o.file \in [D -> File] /\ o.left \in SUBSET D
  BY <1>1 DEF File, Memory, Present
<1> QED
  BY <1>2, <1>3 DEF Present

(* The same of the history's directory, of which only the newest are opened. *)
LEMMA LoadedTrades ==
  ASSUME NEW f \in [Stamps -> File], NEW o \in LoadTrades(f)
  PROVE  /\ o.got \in [Stamps -> Memory] /\ o.file \in [Stamps -> File]
         /\ o.left \in SUBSET Stamps
         /\ \A t \in Stamps : o.got[t] # Absent =>
               t \in Newest(Present(f)) /\ o.got[t] = f[t] /\ o.file[t] = f[t]
         /\ \A t \in Stamps : o.file[t] # Absent =>
               \/ t \in o.left \/ o.got[t] # Absent
               \/ t \in Present(f) \ Newest(Present(f))
         /\ \A t \in Stamps : o.file[t] \in {f[t], Absent}
<1> DEFINE opened == Newest(Present(f))
           young  == [t \in DOMAIN f |-> IF t \in opened THEN f[t] ELSE Absent]
<1>1. PICK y \in LoadOutcomes(young) :
        o = [y EXCEPT !.file = [t \in DOMAIN f |-> IF t \in opened THEN y.file[t] ELSE f[t]]]
  BY DEF LoadTrades
<1>2. young \in [Stamps -> File]
  BY DEF File
<1>3. /\ y.got \in [Stamps -> Memory] /\ y.file \in [Stamps -> File]
      /\ y.left \in SUBSET Stamps
      /\ \A n \in Stamps : y.got[n] # Absent => y.got[n] = young[n] /\ y.file[n] = young[n]
      /\ \A n \in Stamps : y.file[n] # Absent => n \in y.left \/ y.got[n] # Absent
      /\ \A n \in Stamps : y.file[n] \in {young[n], Absent}
  BY <1>2, Loaded
<1>4. /\ o.got = y.got /\ o.left = y.left
      /\ o.file = [t \in Stamps |-> IF t \in opened THEN y.file[t] ELSE f[t]]
  <2>1. PICK l, h : y = [got |-> l, file |-> h, left |-> y.left, fault |-> y.fault]
    BY DEF LoadOutcomes
  <2> QED
    BY <1>1, <2>1
<1> HIDE DEF opened
<1> QED
  BY <1>3, <1>4 DEF File, Present, opened

(* The save of a directory writes only marked records, and removes only     *)
(* files of records that are not in memory; without an error it wrote every *)
(* marked one.                                                              *)
LEMMA Mirrored ==
  ASSUME NEW D, NEW f \in [D -> File], NEW mem \in [D -> Memory], NEW marked \in SUBSET D,
         NEW o \in MirrorOutcomes(f, mem, marked)
  PROVE  /\ o.file \in [D -> File] /\ o.ok \in BOOLEAN
         /\ \A n \in D : \/ o.file[n] = f[n]
                         \/ mem[n] # Absent /\ n \in marked /\ o.file[n] = mem[n]
                         \/ mem[n] = Absent /\ o.file[n] = Absent
         /\ o.ok => \A n \in marked : mem[n] # Absent => o.file[n] = mem[n]
<1> DEFINE todo    == {n \in marked : mem[n] # Absent}
           orphans == {n \in Present(f) : mem[n] = Absent}
<1>1. CASE Present(mem) = {}
  <2>1. o = [file |-> f, ok |-> Present(f) = {}, fault |-> FALSE]
    BY <1>1 DEF MirrorOutcomes
  <2>2. \A n \in D : mem[n] = Absent
    BY <1>1 DEF Present
  <2> QED
    BY <2>1, <2>2
<1>2. CASE Present(mem) # {}
  <2>1. PICK written \in SUBSET todo, swept \in SUBSET orphans :
          /\ o.file = [n \in DOMAIN f |-> IF n \in written THEN mem[n]
                                          ELSE IF n \in swept THEN Absent ELSE f[n]]
          /\ o.ok = (written = todo /\ swept = orphans)
    BY <1>2 DEF MirrorOutcomes
  <2>2. o.file \in [D -> File] /\ o.ok \in BOOLEAN
    BY <2>1 DEF File, Memory
  <2> QED
    BY <2>1, <2>2
<1> QED
  BY <1>1, <1>2

(* A trade is kept, or it is not. *)
LEMMA KeptIs ==
  ASSUME TypeOK
  PROVE  /\ Kept \in [Stamps -> Memory]
         /\ \A t \in Stamps : Kept[t] = IF InHistory(t) THEN 0 ELSE Absent
         /\ Tail_(cursor) \in SUBSET Stamps
<1>1. DOMAIN trades = 1 .. Len(trades) /\ \A i \in 1 .. Len(trades) : trades[i] \in Stamps
  BY DEF TypeOK
<1>2. Tail_(cursor) \in SUBSET Stamps
  BY <1>1 DEF Tail_, TypeOK
<1> QED
  BY <1>1, <1>2, RecordsAssumption DEF Kept, Memory, Version, InHistory

(* Trimming drops trades from the front. *)
LEMMA Trimmed ==
  ASSUME NEW S, NEW s \in Seq(S), NEW d \in 0 .. Len(s)
  PROVE  LET r == SubSeq(s, d + 1, Len(s))
         IN  /\ r \in Seq(S) /\ Len(r) = Len(s) - d
             /\ \A i \in 1 .. Len(r) : r[i] = s[i + d]
OBVIOUS

---------------------------------------------------------------------------
(* The start of the program. *)

(* The history a start loads is in order, is all that was read, and each of *)
(* its trades has its file.                                                 *)
LEMMA HistoryLoaded ==
  ASSUME Typed, NEW t \in LoadTrades(tradeFile),
         trades' = InOrder(Present(t.got)), cursor' = Cardinality(Present(t.got)),
         tradeFile' = t.file, unseen'.trade = t.left
  PROVE  /\ trades' \in Seq(Stamps) /\ cursor' = Len(trades') /\ cursor' \in Nat
         /\ Sorted' /\ TradesStored' /\ TradeFiles'
         /\ \A x \in Stamps : TradeIsKnown(x)'
<1> DEFINE S      == Present(t.got)
           opened == Newest(Present(tradeFile))
<1>1. /\ t.got \in [Stamps -> Memory] /\ t.file \in [Stamps -> File]
      /\ \A x \in Stamps : t.got[x] # Absent =>
            x \in opened /\ t.got[x] = tradeFile[x] /\ t.file[x] = tradeFile[x]
      /\ \A x \in Stamps : t.file[x] # Absent =>
            x \in t.left \/ t.got[x] # Absent \/ x \in Present(tradeFile) \ opened
      /\ \A x \in Stamps : t.file[x] \in {tradeFile[x], Absent}
  BY LoadedTrades DEF Typed, TypeOK
<1>2. Stamps \in SUBSET Nat /\ IsFiniteSet(Stamps)
  BY RecordsAssumption, FS_Interval DEF Stamps
<1>3. S \in SUBSET Stamps /\ S \in SUBSET Nat /\ IsFiniteSet(S)
  BY <1>1, <1>2, FS_Subset DEF Present
<1>4. Present(tradeFile) \in SUBSET Nat /\ IsFiniteSet(Present(tradeFile))
  <2>1. Present(tradeFile) \in SUBSET Stamps
    BY DEF Present, Typed, TypeOK
  <2> QED
    BY <1>2, <2>1, FS_Subset
<1>5. /\ trades' \in Seq(Stamps) /\ Len(trades') = Cardinality(S)
      /\ \A i, j \in 1 .. Len(trades') : i < j => trades'[i] < trades'[j]
      /\ \A x \in S : \E i \in 1 .. Len(trades') : trades'[i] = x
      /\ \A i \in 1 .. Len(trades') : trades'[i] \in S
  <2>1. trades' \in Seq(S) /\ trades' \in Seq(Stamps)
    BY <1>3, Listed
  <2>2. \A i \in 1 .. Len(trades') : trades'[i] \in S
    BY <2>1
  <2> QED
    BY <1>3, <2>1, <2>2, Listed
<1>6. \A x \in S : t.got[x] # Absent /\ x \in Stamps
  BY <1>1 DEF Present
<1>7. TradeFiles' /\ \A x \in S : tradeFile'[x] = 0
  <2>1. \A x \in Stamps : tradeFile[x] \in {Absent, Bad, 0}
    BY DEF Typed, TradeFiles
  <2>2. \A x \in S : t.got[x] \in Memory
    BY <1>1, <1>6
  <2> QED
    BY <1>1, <1>6, <2>1, <2>2, RecordsAssumption DEF TradeFiles, Memory, Version
<1>8. ASSUME NEW x \in Stamps, tradeFile'[x] # Absent, x \notin t.left
      PROVE  \/ \E i \in 1 .. Len(trades') : trades'[i] = x
             \/ \A i \in 1 .. Len(trades') : trades'[i] > x
  <2>1. CASE t.got[x] # Absent
    BY <1>1, <1>5, <2>1 DEF Present
  <2>2. CASE x \in Present(tradeFile) \ opened
    <3>1. \A y \in S : y \in opened
      BY <1>1, <1>6
    <3>2. \A y \in opened : y > x
      BY <1>4, <2>2, NewestAreNewer
    <3> QED
      BY <1>5, <3>1, <3>2
  <2> QED
    BY <1>1, <1>8, <2>1, <2>2
<1>9. cursor' = Len(trades') /\ cursor' \in Nat
  BY <1>3, <1>5, FS_CardinalityType
<1>10. \A x \in Stamps : TradeIsKnown(x)'
  BY <1>8 DEF TradeIsKnown, InHistory
<1> QED
  BY <1>5, <1>7, <1>9, <1>10 DEF Sorted, TradesStored

(* A start establishes the invariant from what is saved. *)
LEMMA StartInv ==
  ASSUME Typed, SavedSoFar, Start
  PROVE  Inv'
<1>1. PICK u \in LoadUsers, p \in LoadPairs, n \in LoadNodes, t \in LoadTrades(tradeFile),
           written \in BOOLEAN :
        /\ StorageStarts(n.got)
        /\ Present(n.got) # {} => written
        /\ Fault(u.fault \/ p.fault \/ n.fault \/ t.fault \/ ~written)
        /\ users' = u.got /\ pairs' = p.got
        /\ trades' = InOrder(Present(t.got))
        /\ cursor' = Cardinality(Present(t.got))
        /\ userFile' = u.file /\ pairFile' = p.file /\ tradeFile' = t.file
        /\ IF Present(n.got) = {}
           THEN /\ nodes' = [n.got EXCEPT ![0] = 0]
                /\ nodeFile' = IF written THEN [n.file EXCEPT ![0] = 0] ELSE n.file
           ELSE nodes' = n.got /\ nodeFile' = n.file
        /\ unseen' = [user |-> u.left, pair |-> p.left, trade |-> t.left]
  BY DEF Start
<1>2. /\ ~up /\ up' /\ up' \in BOOLEAN /\ dirty' = FALSE /\ dirtyUsers' = {} /\ removed' = {}
      /\ step = "idle" /\ step' = "idle" /\ failed' \in BOOLEAN /\ crashes' \in 0 .. MaxCrash
  BY DEF Start, SavedSoFar, Typed, TypeOK
<1>3. /\ u.got \in [Users -> Memory] /\ u.file \in [Users -> File] /\ u.left \in SUBSET Users
      /\ \A x \in Users : u.got[x] # Absent => u.got[x] = userFile[x] /\ u.file[x] = userFile[x]
      /\ \A x \in Users : u.file[x] # Absent => x \in u.left \/ u.got[x] # Absent
  BY Loaded DEF LoadUsers, Typed, TypeOK
<1>4. /\ p.got \in [Pairs -> Memory] /\ p.file \in [Pairs -> File] /\ p.left \in SUBSET Pairs
      /\ \A x \in Pairs : p.got[x] # Absent => p.got[x] = pairFile[x] /\ p.file[x] = pairFile[x]
      /\ \A x \in Pairs : p.file[x] # Absent => x \in p.left \/ p.got[x] # Absent
  BY Loaded DEF LoadPairs, Typed, TypeOK
<1>5. /\ n.got \in [Nodes -> Memory] /\ n.file \in [Nodes -> File]
      /\ \A x \in Nodes : n.got[x] # Absent => n.got[x] = nodeFile[x] /\ n.file[x] = nodeFile[x]
  BY Loaded DEF LoadNodes, Typed, TypeOK
<1>6. /\ trades' \in Seq(Stamps) /\ cursor' = Len(trades') /\ cursor' \in Nat
      /\ Sorted' /\ TradesStored' /\ TradeFiles'
      /\ \A x \in Stamps : TradeIsKnown(x)'
      /\ tradeFile' \in [Stamps -> File] /\ t.left \in SUBSET Stamps
  BY <1>1, HistoryLoaded, LoadedTrades DEF Typed, TypeOK
<1>7. /\ nodes' \in [Nodes -> Memory] /\ nodeFile' \in [Nodes -> File]
      /\ \A x \in Nodes : nodes'[x] \notin {Absent, 0} => nodeFile'[x] = nodes'[x]
  <2>1. 0 \in Memory /\ 0 \in File
    BY RecordsAssumption DEF Memory, File, Version
  <2>2. CASE Present(n.got) = {}
    <3>1. \A x \in Nodes : n.got[x] = Absent
      BY <1>5, <2>2 DEF Present
    <3> QED
      BY <1>1, <1>5, <2>1, <2>2, <3>1
  <2>3. CASE Present(n.got) # {}
    BY <1>1, <1>5, <2>3
  <2> QED
    BY <2>2, <2>3
<1>8. faults' \in 0 .. MaxFault
  BY <1>1, RecordsAssumption DEF Fault, Typed, TypeOK
<1>9. Typed'
  BY <1>1, <1>2, <1>3, <1>4, <1>6, <1>7, <1>8 DEF Typed, TypeOK
<1>10. SavedSoFar'
  BY <1>2 DEF SavedSoFar, AfterPairs, AfterUsers
<1>11. UsersStored' /\ PairsStored'
  BY <1>1, <1>3, <1>4 DEF UsersStored, PairsStored
<1>12. SkippedIsStored'
  BY <1>6, <1>11 DEF SkippedIsStored, UsersStored, TradesStored
<1>13. CleanIsMirrored'
  BY <1>6, <1>7, <1>11 DEF CleanIsMirrored, UsersStored, PairsStored, TradesStored
<1>14. Known'
  <2>1. ASSUME NEW x \in Users PROVE UserIsKnown(x)'
    <3>1. ASSUME userFile'[x] \in Version, x \notin u.left
          PROVE  users'[x] \in Version /\ users'[x] >= userFile'[x]
      <4>1. userFile'[x] # Absent /\ userFile'[x] \in Int
        BY <3>1, RecordsAssumption DEF Version
      <4>2. users'[x] = userFile'[x]
        BY <1>1, <1>3, <3>1, <4>1
      <4> QED
        BY <3>1, <4>1, <4>2
    <3> QED
      BY <1>1, <3>1 DEF UserIsKnown
  <2>2. \A x \in Pairs : PairIsKnown(x)'
    BY <1>1, <1>4 DEF PairIsKnown
  <2> QED
    BY <1>6, <2>1, <2>2 DEF Known
<1> QED
  BY <1>6, <1>9, <1>10, <1>12, <1>13, <1>14 DEF Inv

---------------------------------------------------------------------------
(* The sub-saves. *)

(* What a save of the pairs leaves in each file, and in all of them if it succeeds. *)
LEMMA PairsSaved ==
  ASSUME Typed, NEW o \in PairOutcomes
  PROVE  /\ o.file \in [Pairs -> File] /\ o.ok \in BOOLEAN
         /\ \A p \in Pairs : \/ o.file[p] = pairFile[p]
                             \/ pairs[p] # Absent /\ o.file[p] = pairs[p]
                             \/ pairs[p] = Absent /\ o.file[p] = Absent
         /\ o.ok => \A p \in Pairs : pairs[p] # Absent => o.file[p] = pairs[p]
BY Mirrored DEF PairOutcomes, Typed, TypeOK

(* The same of the users, of which only the changed ones are written, *)
LEMMA UsersSaved ==
  ASSUME Typed, NEW o \in UserOutcomes
  PROVE  /\ o.file \in [Users -> File] /\ o.ok \in BOOLEAN
         /\ \A u \in Users : \/ o.file[u] = userFile[u]
                             \/ users[u] # Absent /\ o.file[u] = users[u]
                             \/ users[u] = Absent /\ o.file[u] = Absent
         /\ o.ok => \A u \in dirtyUsers : users[u] # Absent => o.file[u] = users[u]
BY Mirrored DEF UserOutcomes, Typed, TypeOK

(* of the trades, of which those behind the cursor are, *)
LEMMA TradesSaved ==
  ASSUME Typed, NEW o \in TradeOutcomes
  PROVE  /\ o.file \in [Stamps -> File] /\ o.ok \in BOOLEAN
         /\ \A t \in Stamps : \/ o.file[t] = tradeFile[t]
                              \/ InHistory(t) /\ o.file[t] = 0
                              \/ ~InHistory(t) /\ o.file[t] = Absent
         /\ o.ok => \A i \in cursor + 1 .. Len(trades) : o.file[trades[i]] = 0
<1>1. /\ Kept \in [Stamps -> Memory]
      /\ \A t \in Stamps : Kept[t] = IF InHistory(t) THEN 0 ELSE Absent
      /\ Tail_(cursor) \in SUBSET Stamps
  BY KeptIs DEF Typed
<1>2. 0 # Absent
  BY RecordsAssumption
<1>3. /\ o.file \in [Stamps -> File] /\ o.ok \in BOOLEAN
      /\ \A t \in Stamps : \/ o.file[t] = tradeFile[t]
                           \/ Kept[t] # Absent /\ t \in Tail_(cursor) /\ o.file[t] = Kept[t]
                           \/ Kept[t] = Absent /\ o.file[t] = Absent
      /\ o.ok => \A t \in Tail_(cursor) : Kept[t] # Absent => o.file[t] = Kept[t]
  <2>1. o \in MirrorOutcomes(tradeFile, Kept, Tail_(cursor))
    BY DEF TradeOutcomes
  <2>2. tradeFile \in [Stamps -> File]
    BY DEF Typed, TypeOK
  <2> QED
    BY <1>1, <2>1, <2>2, Mirrored
<1>4. ASSUME o.ok, NEW i \in cursor + 1 .. Len(trades) PROVE o.file[trades[i]] = 0
  <2>1. i \in 1 .. Len(trades) /\ trades[i] \in Stamps
    BY DEF Typed, TypeOK
  <2>2. trades[i] \in Tail_(cursor) /\ InHistory(trades[i])
    BY <2>1 DEF Tail_, InHistory
  <2> QED
    BY <1>1, <1>2, <1>3, <1>4, <2>1, <2>2
<1> QED
  BY <1>1, <1>2, <1>3, <1>4

(* and of the nodes. *)
LEMMA NodesSaved ==
  ASSUME Typed, NEW o \in NodeOutcomes
  PROVE  /\ o.file \in [Nodes -> File] /\ o.ok \in BOOLEAN
         /\ o.ok => \A n \in Nodes : nodes[n] # Absent => o.file[n] = nodes[n]
<1>1. PICK written \in SUBSET Present(nodes) :
        /\ o.file = [n \in Nodes |-> IF n \in written THEN nodes[n] ELSE nodeFile[n]]
        /\ o.ok = (written = Present(nodes))
  BY DEF NodeOutcomes
<1> QED
  BY <1>1 DEF Typed, TypeOK, Present, File, Memory

(* What the saves do to the history's files. *)
LEMMA TradeFilesSaved ==
  ASSUME Typed, NEW o \in TradeOutcomes
  PROVE  \A t \in Stamps : o.file[t] \in {Absent, Bad, 0}
BY TradesSaved DEF Typed, TradeFiles

---------------------------------------------------------------------------
(* Types. *)

(* The faults are counted up to their bound. *)
LEMMA FaultTyped ==
  ASSUME faults \in 0 .. MaxFault, NEW b, Fault(b)
  PROVE  faults' \in 0 .. MaxFault
BY RecordsAssumption DEF Fault

(* The actions of the handlers and of the operator. *)
Handling ==
  \/ \E u \in Users : EnsureUser(u) \/ ChangeUser(u)
  \/ \E p \in Pairs : AddPair(p) \/ RemovePair(p)
  \/ \E p \in Pairs, t \in Stamps : Commit(p, t)
  \/ \E n \in Nodes : AddNode(n) \/ RemoveNode(n) \/ SyncChest(n)

(* Handling keeps the types. *)
LEMMA HandlingTyped ==
  ASSUME Typed, Handling
  PROVE  Typed'
<1> USE DEF Apart, memory, files, TradeFiles
<1>0. /\ 0 \in Memory /\ 0 \in File /\ Absent \in Memory /\ Absent \in File
      /\ \A x \in Memory : x # Absent /\ x < MaxChange => x + 1 \in Memory
  BY RecordsAssumption DEF Memory, File, Version
<1>1. ASSUME NEW u \in Users, EnsureUser(u) \/ ChangeUser(u) PROVE Typed'
  <2>1. dirty' \in BOOLEAN /\ dirtyUsers' \subseteq Users
    BY <1>1 DEF EnsureUser, ChangeUser, Typed, TypeOK
  <2>2. users' \in [Users -> Memory]
    <3>1. CASE EnsureUser(u)
      BY <1>0, <3>1 DEF EnsureUser, Typed, TypeOK
    <3>2. CASE ChangeUser(u)
      <4>1. users[u] \in Memory /\ users[u] # Absent /\ users[u] < MaxChange
        BY <3>2 DEF ChangeUser, Typed, TypeOK
      <4> QED
        BY <1>0, <3>2, <4>1 DEF ChangeUser, Typed, TypeOK
    <3> QED
      BY <1>1, <3>1, <3>2
  <2> QED
    BY <1>1, <2>1, <2>2 DEF EnsureUser, ChangeUser, Typed, TypeOK
<1>2. ASSUME NEW p \in Pairs, AddPair(p) PROVE Typed'
  BY <1>0, <1>2 DEF AddPair, Typed, TypeOK
<1>3. ASSUME NEW p \in Pairs, RemovePair(p) PROVE Typed'
  <2>1. pairFile' \in [Pairs -> File] /\ faults' \in 0 .. MaxFault
    BY <1>0, <1>3, FaultTyped DEF RemovePair, Typed, TypeOK
  <2> QED
    BY <1>0, <1>3, <2>1 DEF RemovePair, Typed, TypeOK
<1>4. ASSUME NEW p \in Pairs, NEW t \in Stamps, Commit(p, t) PROVE Typed'
  BY <1>0, <1>4 DEF Commit, Typed, TypeOK
<1>5. ASSUME NEW n \in Nodes, AddNode(n) PROVE Typed'
  <2>1. nodeFile' \in [Nodes -> File] /\ faults' \in 0 .. MaxFault
    BY <1>0, <1>5, FaultTyped DEF AddNode, NewNodeFile, Typed, TypeOK
  <2> QED
    BY <1>0, <1>5, <2>1 DEF AddNode, Typed, TypeOK
<1>6. ASSUME NEW n \in Nodes, RemoveNode(n) PROVE Typed'
  <2>1. nodeFile' \in [Nodes -> File] /\ faults' \in 0 .. MaxFault
    BY <1>0, <1>6, FaultTyped DEF RemoveNode, Typed, TypeOK
  <2> QED
    BY <1>0, <1>6, <2>1 DEF RemoveNode, Typed, TypeOK
<1>7. ASSUME NEW n \in Nodes, SyncChest(n) PROVE Typed'
  BY <1>0, <1>7 DEF SyncChest, Typed, TypeOK
<1> QED
  BY <1>1, <1>2, <1>3, <1>4, <1>5, <1>6, <1>7 DEF Handling

(* How many trades are over the cap. *)
Drop == IF Len(trades) > MaxTrades THEN Len(trades) - MaxTrades ELSE 0

(* The cap drops the oldest trades and moves the cursor with them. *)
LEMMA DropIs ==
  ASSUME Typed, BeginSave
  PROVE  /\ trades' \in Seq(Stamps) /\ Drop \in 0 .. Len(trades)
         /\ Len(trades') = Len(trades) - Drop
         /\ \A i \in 1 .. Len(trades') : trades'[i] = trades[i + Drop]
         /\ cursor' = IF cursor > Drop THEN cursor - Drop ELSE 0
<1>1. trades' = SubSeq(trades, Drop + 1, Len(trades)) /\ cursor' = TrimCursor(Drop)
  BY DEF BeginSave, Drop
<1>2. Drop \in 0 .. Len(trades) /\ trades \in Seq(Stamps)
  BY RecordsAssumption DEF Drop, Typed, TypeOK
<1> HIDE DEF Drop
<1> QED
  BY <1>1, <1>2, Trimmed DEF TrimCursor

(* Every step but a start keeps the types, *)
LEMMA TypesKept ==
  ASSUME Typed, Next, ~Start
  PROVE  Typed'
<1> USE DEF memory, files, Running, TradeFiles
<1>1. CASE Handling
  BY <1>1, HandlingTyped
<1>2. CASE BeginSave
  <2>1. trades' \in Seq(Stamps) /\ cursor' \in Nat
    BY <1>2, DropIs DEF Typed, TypeOK
  <2> QED
    BY <1>2, <2>1 DEF BeginSave, Typed, TypeOK
<1>3. CASE SavePairs
  <2>1. PICK o \in PairOutcomes : pairFile' = o.file /\ failed' = (failed \/ ~o.ok) /\ Fault(o.fault)
    BY <1>3 DEF SavePairs
  <2> QED
    BY <1>3, <2>1, PairsSaved, FaultTyped DEF SavePairs, Typed, TypeOK
<1>4. CASE SaveUsers
  <2>1. PICK o \in UserOutcomes : userFile' = o.file /\ failed' = (failed \/ ~o.ok) /\ Fault(o.fault)
    BY <1>4 DEF SaveUsers
  <2> QED
    BY <1>4, <2>1, UsersSaved, FaultTyped DEF SaveUsers, Typed, TypeOK
<1>5. CASE SaveOrders
  BY <1>5, FaultTyped DEF SaveOrders, Typed, TypeOK
<1>6. CASE SaveTrades
  <2>1. PICK o \in TradeOutcomes : /\ tradeFile' = o.file /\ failed' = (failed \/ ~o.ok)
                                   /\ cursor' = CursorAfter(o.ok) /\ Fault(o.fault)
    BY <1>6 DEF SaveTrades
  <2>2. cursor' \in Nat
    BY <2>1 DEF CursorAfter, Typed, TypeOK
  <2> QED
    BY <1>6, <2>1, <2>2, TradesSaved, TradeFilesSaved, FaultTyped DEF SaveTrades, Typed, TypeOK
<1>7. CASE SaveStorage
  <2>1. PICK o \in NodeOutcomes : nodeFile' = o.file /\ Fault(o.fault) /\ MarksAfter(~failed /\ o.ok)
    BY <1>7 DEF SaveStorage
  <2>2. dirty' \in BOOLEAN /\ dirtyUsers' \subseteq Users
    BY <2>1 DEF MarksAfter, Typed, TypeOK
  <2> QED
    BY <1>7, <2>1, <2>2, NodesSaved, FaultTyped DEF SaveStorage, Typed, TypeOK
<1>8. CASE Crash
  <2>1. /\ pairFile' \in [Pairs -> File] /\ userFile' \in [Users -> File]
        /\ nodeFile' \in [Nodes -> File]
    BY <1>8, PairsSaved, UsersSaved, NodesSaved DEF Crash, Typed, TypeOK
  <2>2. tradeFile' \in [Stamps -> File] /\ \A t \in Stamps : tradeFile'[t] \in {Absent, Bad, 0}
    BY <1>8, TradesSaved, TradeFilesSaved DEF Crash, Typed, TypeOK
  <2>3. crashes' \in 0 .. MaxCrash
    BY <1>8, RecordsAssumption DEF Crash, Typed, TypeOK
  <2>4. up' \in BOOLEAN /\ failed' \in BOOLEAN /\ dirty' \in BOOLEAN
    BY <1>8 DEF Crash
  <2> QED
    BY <1>8, <2>1, <2>2, <2>3, <2>4 DEF Crash, Typed, TypeOK, Memory
<1>9. CASE Damage
  <2>1. /\ userFile' \in [Users -> File] /\ pairFile' \in [Pairs -> File]
        /\ tradeFile' \in [Stamps -> File] /\ \A t \in Stamps : tradeFile'[t] \in {Absent, Bad, 0}
    BY <1>9 DEF Damage, Typed, TypeOK, File, Present
  <2> QED
    BY <1>9, <2>1, FaultTyped DEF Damage, Typed, TypeOK
<1> QED
  BY <1>1, <1>2, <1>3, <1>4, <1>5, <1>6, <1>7, <1>8, <1>9 DEF Next, Handling

---------------------------------------------------------------------------
(* The history. *)

(* A commit appends a trade newer than every other, in memory and on disk. *)
LEMMA Appended ==
  ASSUME Typed, NEW p \in Pairs, NEW t \in Stamps, Commit(p, t)
  PROVE  /\ Len(trades') = Len(trades) + 1 /\ trades'[Len(trades) + 1] = t
         /\ \A i \in 1 .. Len(trades) : trades'[i] = trades[i] /\ trades[i] < t
         /\ \A s \in Stamps : tradeFile[s] # Absent => s < t
<1>1. trades \in Seq(Stamps) /\ DOMAIN trades = 1 .. Len(trades) /\ trades' = Append(trades, t)
  BY DEF Commit, Typed, TypeOK
<1>2. t \in Int /\ \A s \in Stamps : s \in Int
  BY DEF Stamps
<1>3. \A s \in Present(tradeFile) \union {trades[i] : i \in DOMAIN trades} : t > s
  BY DEF Commit
<1>4. \A i \in 1 .. Len(trades) : trades[i] < t
  BY <1>1, <1>2, <1>3
<1>5. \A s \in Stamps : tradeFile[s] # Absent => s < t
  BY <1>2, <1>3 DEF Present, Typed, TypeOK
<1> QED
  BY <1>1, <1>4, <1>5

(* the order of the trades, *)
LEMMA SortedKept ==
  ASSUME Typed, Sorted, Next, ~Start
  PROVE  Sorted'
<1>1. CASE UNCHANGED trades
  BY <1>1 DEF Sorted
<1>2. ASSUME NEW p \in Pairs, NEW t \in Stamps, Commit(p, t) PROVE Sorted'
  <2>1. /\ Len(trades') = Len(trades) + 1 /\ trades'[Len(trades) + 1] = t /\ Len(trades) \in Nat
        /\ \A i \in 1 .. Len(trades) : trades'[i] = trades[i] /\ trades[i] < t
    BY <1>2, Appended DEF Typed, TypeOK
  <2> QED
    BY <2>1 DEF Sorted
<1>3. CASE BeginSave
  <2>1. /\ Drop \in 0 .. Len(trades) /\ Len(trades) \in Nat /\ Len(trades') = Len(trades) - Drop
        /\ \A i \in 1 .. Len(trades') : trades'[i] = trades[i + Drop]
    BY <1>3, DropIs DEF Typed, TypeOK
  <2> HIDE DEF Drop
  <2>2. ASSUME NEW i \in 1 .. Len(trades'), NEW j \in 1 .. Len(trades'), i < j
        PROVE  trades'[i] < trades'[j]
    <3>1. i + Drop \in 1 .. Len(trades) /\ j + Drop \in 1 .. Len(trades) /\ i + Drop < j + Drop
      BY <2>1, <2>2
    <3> QED
      BY <2>1, <3>1 DEF Sorted
  <2> QED
    BY <2>2 DEF Sorted
<1>4. CASE Crash
  BY <1>4 DEF Crash, Sorted
<1> QED
  BY <1>1, <1>2, <1>3, <1>4
     DEF Next, SavePairs, SaveUsers, SaveOrders, SaveTrades, SaveStorage, Running, Damage, memory,
         EnsureUser, ChangeUser, AddPair, RemovePair, AddNode, RemoveNode, SyncChest

---------------------------------------------------------------------------
(* What a save skips, and what it has stored so far. *)

(* that what a save skips is already stored, *)
LEMMA SkippedKept ==
  ASSUME Typed, SkippedIsStored, SavedSoFar, Next, ~Start
  PROVE  SkippedIsStored'
<1> DEFINE Marked == \A u \in Users : users[u] # Absent /\ u \notin dirtyUsers => userFile[u] = users[u]
           Before == cursor <= Len(trades) /\ \A i \in 1 .. cursor : tradeFile[trades[i]] = 0
<1> SUFFICES ASSUME up' PROVE Marked' /\ Before'
  BY DEF SkippedIsStored
<1>1. up
  BY DEF Next, BeginSave, SavePairs, SaveUsers, SaveOrders, SaveTrades, SaveStorage, Crash, Damage,
         EnsureUser, ChangeUser, AddPair, RemovePair, Commit, AddNode, RemoveNode, SyncChest, Ready
<1>2. Marked /\ Before /\ cursor \in Nat /\ Len(trades) \in Nat
  BY <1>1 DEF SkippedIsStored, Typed, TypeOK
<1>3. UNCHANGED <<users, dirtyUsers, userFile>> => Marked'
  BY <1>2
<1>4. UNCHANGED <<trades, cursor, tradeFile>> => Before'
  BY <1>2
<1>5. ASSUME NEW u \in Users, EnsureUser(u) \/ ChangeUser(u) PROVE Marked' /\ Before'
  BY <1>2, <1>4, <1>5 DEF EnsureUser, ChangeUser, files, Typed, TypeOK
<1>6. ASSUME NEW p \in Pairs, NEW t \in Stamps, Commit(p, t) PROVE Marked' /\ Before'
  <2>1. /\ Len(trades') = Len(trades) + 1
        /\ \A i \in 1 .. Len(trades) : trades'[i] = trades[i]
    BY <1>6, Appended
  <2>2. Before'
    BY <1>2, <1>6, <2>1 DEF Commit, files
  <2> QED
    BY <1>3, <1>6, <2>2 DEF Commit, files
<1>7. CASE BeginSave
  <2>1. /\ Drop \in 0 .. Len(trades) /\ Len(trades') = Len(trades) - Drop
        /\ \A i \in 1 .. Len(trades') : trades'[i] = trades[i + Drop]
        /\ cursor' = IF cursor > Drop THEN cursor - Drop ELSE 0
    BY <1>7, DropIs
  <2> HIDE DEF Drop
  <2>2. Before'
    <3>1. cursor' <= Len(trades')
      BY <1>2, <2>1
    <3>2. ASSUME NEW i \in 1 .. cursor' PROVE tradeFile'[trades'[i]] = 0
      <4>1. i \in 1 .. Len(trades') /\ i + Drop \in 1 .. cursor
        BY <1>2, <2>1, <3>1
      <4> QED
        BY <1>2, <1>7, <2>1, <4>1 DEF BeginSave, files
    <3> QED
      BY <3>1, <3>2
  <2> QED
    BY <1>3, <1>7, <2>2 DEF BeginSave, files
<1>8. CASE SaveUsers
  <2>1. PICK o \in UserOutcomes : userFile' = o.file
    BY <1>8 DEF SaveUsers
  <2>2. Marked'
    BY <1>2, <1>8, <2>1, UsersSaved DEF SaveUsers, Running
  <2> QED
    BY <1>4, <1>8, <2>2 DEF SaveUsers, Running
<1>9. CASE SaveTrades
  <2>1. PICK o \in TradeOutcomes : tradeFile' = o.file /\ cursor' = CursorAfter(o.ok)
    BY <1>9 DEF SaveTrades
  <2>2. ASSUME NEW i \in 1 .. Len(trades), i <= cursor \/ o.ok PROVE tradeFile'[trades[i]] = 0
    <3>1. trades[i] \in Stamps /\ InHistory(trades[i])
      BY DEF InHistory, Typed, TypeOK
    <3>2. CASE i <= cursor
      BY <1>2, <2>1, <3>1, <3>2, TradesSaved
    <3>3. CASE i > cursor
      <4>1. i \in cursor + 1 .. Len(trades) /\ o.ok
        BY <1>2, <2>2, <3>3
      <4> QED
        BY <2>1, <4>1, TradesSaved
    <3> QED
      BY <1>2, <3>2, <3>3
  <2>3. Before'
    BY <1>2, <1>9, <2>1, <2>2 DEF SaveTrades, Running, CursorAfter
  <2> QED
    BY <1>3, <1>9, <2>3 DEF SaveTrades, Running
<1>10. CASE SaveStorage
  <2>1. Marked'
    <3>1. CASE dirtyUsers' = dirtyUsers
      BY <1>2, <1>10, <3>1 DEF SaveStorage
    <3>2. CASE ~failed
      BY <1>10, <3>2 DEF SaveStorage, SavedSoFar, AfterUsers, UsersStored
    <3> QED
      BY <1>10, <3>1, <3>2 DEF SaveStorage, MarksAfter
  <2> QED
    BY <1>4, <1>10, <2>1 DEF SaveStorage
<1> QED
  BY <1>1, <1>3, <1>4, <1>5, <1>6, <1>7, <1>8, <1>9, <1>10
     DEF Next, SavePairs, SaveOrders, Running, Crash, Damage, files,
         AddPair, RemovePair, AddNode, RemoveNode, SyncChest

(* the progress of a save under way, *)
LEMMA SavedKept ==
  ASSUME Typed, SkippedIsStored, SavedSoFar, Next, ~Start
  PROVE  SavedSoFar'
<1> USE DEF AfterPairs, AfterUsers
<1>1. CASE step' = "idle" \/ BeginSave
  BY <1>1 DEF SavedSoFar, BeginSave, Ready
<1>2. CASE SavePairs
  <2>1. PICK o \in PairOutcomes : pairFile' = o.file /\ failed' = (failed \/ ~o.ok)
    BY <1>2 DEF SavePairs
  <2>2. ~failed' => PairsStored'
    BY <1>2, <2>1, PairsSaved DEF SavePairs, Running, PairsStored
  <2> QED
    BY <1>2, <2>2 DEF SavePairs, Running, SavedSoFar
<1>3. CASE SaveUsers
  <2>1. PICK o \in UserOutcomes : userFile' = o.file /\ failed' = (failed \/ ~o.ok)
    BY <1>3 DEF SaveUsers
  <2>2. ~failed' => UsersStored'
    <3>1. \A u \in Users : users[u] # Absent /\ u \notin dirtyUsers => userFile[u] = users[u]
      BY <1>3 DEF SaveUsers, SkippedIsStored
    <3> QED
      BY <1>3, <2>1, <3>1, UsersSaved DEF SaveUsers, Running, UsersStored
  <2>3. ~failed' => PairsStored'
    BY <1>3, <2>1 DEF SaveUsers, Running, SavedSoFar, PairsStored
  <2> QED
    BY <1>3, <2>2, <2>3 DEF SaveUsers, Running, SavedSoFar
<1>4. CASE SaveOrders
  <2>1. ~failed' => ~failed
    BY <1>4 DEF SaveOrders
  <2> QED
    BY <1>4, <2>1 DEF SaveOrders, Running, files, SavedSoFar, PairsStored, UsersStored
<1>5. CASE SaveTrades
  <2>1. PICK o \in TradeOutcomes : tradeFile' = o.file /\ failed' = (failed \/ ~o.ok)
    BY <1>5 DEF SaveTrades
  <2>2. ~failed' => TradesStored'
    <3> SUFFICES ASSUME o.ok, NEW i \in 1 .. Len(trades) PROVE o.file[trades[i]] = 0
      BY <1>5, <2>1 DEF SaveTrades, Running, TradesStored
    <3>1. trades[i] \in Stamps /\ InHistory(trades[i]) /\ cursor \in Nat /\ Len(trades) \in Nat
      BY DEF InHistory, Typed, TypeOK
    <3>2. CASE i <= cursor
      <4>1. tradeFile[trades[i]] = 0
        BY <1>5, <3>1, <3>2 DEF SaveTrades, SkippedIsStored
      <4> QED
        BY <3>1, <4>1, TradesSaved
    <3>3. CASE i > cursor
      <4>1. i \in cursor + 1 .. Len(trades)
        BY <3>1, <3>3
      <4> QED
        BY <4>1, TradesSaved
    <3> QED
      BY <3>1, <3>2, <3>3
  <2>3. ~failed' => PairsStored' /\ UsersStored'
    BY <1>5, <2>1 DEF SaveTrades, Running, SavedSoFar, PairsStored, UsersStored
  <2> QED
    BY <1>5, <2>2, <2>3 DEF SaveTrades, Running, SavedSoFar
<1> QED
  BY <1>1, <1>2, <1>3, <1>4, <1>5
     DEF Next, SaveStorage, Crash, Damage, SavedSoFar, Ready, Apart,
         EnsureUser, ChangeUser, AddPair, RemovePair, Commit, AddNode, RemoveNode, SyncChest

---------------------------------------------------------------------------
(* With the dirty mark clear. *)

(* and that clean records are mirrored. *)
LEMMA CleanKept ==
  ASSUME Typed, SavedSoFar, CleanIsMirrored, Next, ~Start
  PROVE  CleanIsMirrored'
<1> SUFFICES ASSUME up', step' = "idle", ~dirty' PROVE CleanIsMirrored'
  BY DEF CleanIsMirrored
<1>1. CASE SaveStorage
  <2>1. PICK o \in NodeOutcomes : nodeFile' = o.file /\ MarksAfter(~failed /\ o.ok)
    BY <1>1 DEF SaveStorage
  <2>2. step = "storage" /\ dirty
    BY <1>1 DEF SaveStorage, SavedSoFar
  <2>3. ~failed /\ o.ok
    BY <2>1, <2>2 DEF MarksAfter
  <2>4. PairsStored /\ UsersStored /\ TradesStored
    BY <2>2, <2>3 DEF SavedSoFar, AfterPairs, AfterUsers
  <2>5. \A n \in Nodes : nodes[n] # Absent => o.file[n] = nodes[n]
    BY <2>3, NodesSaved
  <2>6. DOMAIN trades = 1 .. Len(trades)
    BY DEF Typed, TypeOK
  <2> QED
    BY <1>1, <2>1, <2>4, <2>5, <2>6
       DEF SaveStorage, CleanIsMirrored, PairsStored, UsersStored, TradesStored
<1> QED
  BY <1>1 DEF Next, BeginSave, SavePairs, SaveUsers, SaveOrders, SaveTrades, Crash, Damage,
              EnsureUser, ChangeUser, AddPair, RemovePair, Commit, AddNode, RemoveNode, SyncChest

---------------------------------------------------------------------------
(* What is on disk is known. *)

(* A user that was ever known is in memory or in its file, *)
LEMMA UserKnownKept ==
  ASSUME Typed, Known, Next, up, up', NEW u \in Users
  PROVE  UserIsKnown(u)'
<1>1. UserIsKnown(u) /\ users[u] \in Memory /\ userFile[u] \in File
  BY DEF Known, Typed, TypeOK
<1>2. Absent \notin Version /\ \A x \in Version : x \in Int
  BY RecordsAssumption DEF Version
<1>3. CASE UNCHANGED <<users, userFile, unseen>>
  BY <1>1, <1>3 DEF UserIsKnown
<1>4. ASSUME NEW v \in Users, EnsureUser(v) \/ ChangeUser(v) PROVE UserIsKnown(u)'
  <2>1. UNCHANGED <<userFile, unseen>>
    BY <1>4 DEF EnsureUser, ChangeUser, Apart, files
  <2>2. CASE v # u
    <3>1. users'[u] = users[u]
      BY <1>4, <2>2 DEF EnsureUser, ChangeUser, Typed, TypeOK
    <3> QED
      BY <1>1, <2>1, <3>1 DEF UserIsKnown
  <2>3. CASE v = u /\ users[u] = Absent
    BY <1>1, <1>2, <2>1, <2>3 DEF UserIsKnown
  <2>4. CASE v = u /\ users[u] # Absent
    <3>1. /\ users[u] \in Version /\ users[u] < MaxChange /\ users'[u] = users[u] + 1
      BY <1>1, <1>4, <2>4 DEF EnsureUser, ChangeUser, Typed, TypeOK, Memory
    <3>2. users'[u] \in Version
      BY <3>1, RecordsAssumption DEF Version
    <3>3. UserIsKnown(u) => (userFile[u] \in Version /\ u \notin unseen.user => users[u] >= userFile[u])
      BY DEF UserIsKnown
    <3>4. userFile[u] \in Version /\ u \notin unseen.user => users'[u] >= userFile[u]
      BY <1>1, <1>2, <3>1, <3>3
    <3> QED
      BY <2>1, <3>2, <3>4 DEF UserIsKnown
  <2> QED
    BY <2>2, <2>3, <2>4
<1>5. CASE SaveUsers
  <2>1. PICK o \in UserOutcomes : userFile' = o.file
    BY <1>5 DEF SaveUsers
  <2>2. UNCHANGED <<users, unseen>>
    BY <1>5 DEF SaveUsers, Running
  <2>3. CASE o.file[u] = userFile[u]
    BY <1>1, <2>1, <2>2, <2>3 DEF UserIsKnown
  <2>4. CASE users[u] # Absent /\ o.file[u] = users[u]
    BY <1>1, <1>2, <2>1, <2>2, <2>4 DEF UserIsKnown, Memory
  <2>5. CASE o.file[u] = Absent
    BY <1>2, <2>1, <2>5 DEF UserIsKnown
  <2> QED
    BY <2>3, <2>4, <2>5, UsersSaved
<1> QED
  BY <1>3, <1>4, <1>5
     DEF Next, Start, BeginSave, SavePairs, SaveOrders, SaveTrades, SaveStorage, Running, Crash,
         Damage, AddPair, RemovePair, Commit, AddNode, RemoveNode, SyncChest, Apart, files

(* a pair is, *)
LEMMA PairKnownKept ==
  ASSUME Typed, Known, Next, up, up', NEW p \in Pairs
  PROVE  PairIsKnown(p)'
<1>1. PairIsKnown(p) /\ pairs[p] \in Memory
  BY DEF Known, Typed, TypeOK
<1>2. Absent \notin Nat /\ \A x \in Memory : x # Absent => x \in Nat
  BY RecordsAssumption DEF Memory, Version
<1>3. CASE UNCHANGED <<pairs, pairFile, unseen, removed>>
  BY <1>1, <1>3 DEF PairIsKnown
<1>4. ASSUME NEW q \in Pairs, AddPair(q) \/ \E t \in Stamps : Commit(q, t)
      PROVE  PairIsKnown(p)'
  <2>1. UNCHANGED <<pairFile, unseen, removed>>
    BY <1>4 DEF AddPair, Commit, Apart, files
  <2>2. pairs'[p] = pairs[p] \/ pairs'[p] \in Nat
    BY <1>2, <1>4 DEF AddPair, Commit, Typed, TypeOK
  <2> QED
    BY <1>1, <1>2, <2>1, <2>2 DEF PairIsKnown
<1>5. ASSUME NEW q \in Pairs, RemovePair(q) PROVE PairIsKnown(p)'
  <2>1. removed' = removed \union {q} /\ unseen' = unseen
    BY <1>5 DEF RemovePair
  <2>2. q # p => pairs'[p] = pairs[p] /\ pairFile'[p] = pairFile[p]
    BY <1>5 DEF RemovePair, Typed, TypeOK
  <2> QED
    BY <1>1, <2>1, <2>2 DEF PairIsKnown
<1>6. CASE SavePairs
  <2>1. PICK o \in PairOutcomes : pairFile' = o.file
    BY <1>6 DEF SavePairs
  <2>2. UNCHANGED <<pairs, unseen, removed>>
    BY <1>6 DEF SavePairs, Running
  <2> QED
    BY <1>1, <2>1, <2>2, PairsSaved DEF PairIsKnown
<1> QED
  BY <1>3, <1>4, <1>5, <1>6
     DEF Next, Start, BeginSave, SaveUsers, SaveOrders, SaveTrades, SaveStorage, Running, Crash,
         Damage, EnsureUser, ChangeUser, AddNode, RemoveNode, SyncChest, Apart, files

(* and a trade is, unless the cap dropped it. *)
LEMMA TradeKnownKept ==
  ASSUME Typed, Sorted, Known, Next, up, up', NEW t \in Stamps
  PROVE  TradeIsKnown(t)'
<1>1. TradeIsKnown(t) /\ Len(trades) \in Nat
  BY DEF Known, Typed, TypeOK
<1>n. t \in Int /\ \A i \in 1 .. Len(trades) : trades[i] \in Int
  <2>1. \A s \in Stamps : s \in Int
    BY DEF Stamps
  <2>2. \A i \in 1 .. Len(trades) : trades[i] \in Stamps
    BY DEF Typed, TypeOK
  <2> QED
    BY <2>1, <2>2
<1>2. CASE UNCHANGED <<trades, tradeFile, unseen>>
  BY <1>1, <1>2 DEF TradeIsKnown, InHistory
<1>3. ASSUME NEW p \in Pairs, NEW s \in Stamps, Commit(p, s) PROVE TradeIsKnown(t)'
  <2>1. /\ Len(trades') = Len(trades) + 1 /\ trades'[Len(trades) + 1] = s
        /\ \A i \in 1 .. Len(trades) : trades'[i] = trades[i]
        /\ tradeFile[t] # Absent => t < s
    BY <1>3, Appended
  <2>2. UNCHANGED <<tradeFile, unseen>>
    BY <1>3 DEF Commit, Apart, files
  <2>3. ASSUME tradeFile[t] # Absent, t \notin unseen.trade
        PROVE  InHistory(t)' \/ \A i \in 1 .. Len(trades') : trades'[i] > t
    <3>1. CASE InHistory(t)
      BY <1>1, <2>1, <3>1 DEF InHistory
    <3>2. CASE \A i \in 1 .. Len(trades) : trades[i] > t
      <4>1. s > t
        BY <1>n, <2>1, <2>3 DEF Stamps
      <4> QED
        BY <1>1, <2>1, <3>2, <4>1
    <3> QED
      BY <1>1, <2>3, <3>1, <3>2 DEF TradeIsKnown
  <2> QED
    BY <2>2, <2>3 DEF TradeIsKnown
<1>4. CASE BeginSave
  <2>1. /\ Drop \in 0 .. Len(trades) /\ Len(trades') = Len(trades) - Drop
        /\ \A i \in 1 .. Len(trades') : trades'[i] = trades[i + Drop]
    BY <1>4, DropIs
  <2>2. UNCHANGED <<tradeFile, unseen>>
    BY <1>4 DEF BeginSave, files
  <2> HIDE DEF Drop
  <2>3. ASSUME InHistory(t) PROVE InHistory(t)' \/ \A i \in 1 .. Len(trades') : trades'[i] > t
    <3>1. PICK j \in 1 .. Len(trades) : trades[j] = t
      BY <2>3 DEF InHistory
    <3>2. CASE j > Drop
      <4>1. j - Drop \in 1 .. Len(trades') /\ (j - Drop) + Drop = j
        BY <1>1, <2>1, <3>2
      <4> QED
        BY <2>1, <3>1, <4>1 DEF InHistory
    <3>3. CASE j <= Drop
      <4>1. ASSUME NEW i \in 1 .. Len(trades') PROVE trades'[i] > t
        <5>1. i + Drop \in 1 .. Len(trades) /\ j < i + Drop
          BY <1>1, <2>1, <3>3
        <5>2. trades[j] < trades[i + Drop]
          BY <5>1 DEF Sorted
        <5> QED
          BY <1>n, <2>1, <3>1, <5>1, <5>2
      <4> QED
        BY <4>1
    <3> QED
      BY <2>1, <3>2, <3>3
  <2>4. ASSUME \A i \in 1 .. Len(trades) : trades[i] > t
        PROVE  \A i \in 1 .. Len(trades') : trades'[i] > t
    <3>1. \A i \in 1 .. Len(trades') : i + Drop \in 1 .. Len(trades)
      BY <1>1, <2>1
    <3> QED
      BY <2>1, <2>4, <3>1
  <2> QED
    BY <1>1, <2>2, <2>3, <2>4 DEF TradeIsKnown
<1>5. CASE SaveTrades
  <2>1. PICK o \in TradeOutcomes : tradeFile' = o.file
    BY <1>5 DEF SaveTrades
  <2>2. UNCHANGED <<trades, unseen>>
    BY <1>5 DEF SaveTrades, Running
  <2>3. \/ o.file[t] = tradeFile[t] \/ InHistory(t) \/ o.file[t] = Absent
    BY TradesSaved
  <2> QED
    BY <1>1, <2>1, <2>2, <2>3 DEF TradeIsKnown, InHistory
<1> QED
  BY <1>2, <1>3, <1>4, <1>5
     DEF Next, Start, SavePairs, SaveUsers, SaveOrders, SaveStorage, Running, Crash, Damage,
         EnsureUser, ChangeUser, AddPair, RemovePair, AddNode, RemoveNode, SyncChest, Apart, files

(* The three together. *)
LEMMA KnownKept ==
  ASSUME Typed, Sorted, Known, Next, ~Start
  PROVE  Known'
<1>1. up' => up
  BY DEF Next, BeginSave, SavePairs, SaveUsers, SaveOrders, SaveTrades, SaveStorage, Crash, Damage,
         EnsureUser, ChangeUser, AddPair, RemovePair, Commit, AddNode, RemoveNode, SyncChest, Ready
<1> QED
  BY <1>1, UserKnownKept, PairKnownKept, TradeKnownKept DEF Known

---------------------------------------------------------------------------
(* The invariant. *)

(* The invariant holds at the start, *)
LEMMA InitInv == Init => Inv
<1> SUFFICES ASSUME Init PROVE Inv
  OBVIOUS
<1> USE DEF Init
<1>1. Len(trades) = 0 /\ ~up
  OBVIOUS
<1>2. Typed
  <2>b. up \in BOOLEAN /\ dirty \in BOOLEAN /\ failed \in BOOLEAN
    OBVIOUS
  <2>1. /\ trades \in Seq(Stamps) /\ cursor \in Nat
        /\ dirtyUsers \subseteq Users /\ removed \subseteq Pairs
        /\ unseen \in [user : SUBSET Users, pair : SUBSET Pairs, trade : SUBSET Stamps]
    OBVIOUS
  <2>2. faults \in 0 .. MaxFault /\ crashes \in 0 .. MaxCrash
    BY RecordsAssumption
  <2>3. /\ users \in [Users -> Memory] /\ pairs \in [Pairs -> Memory]
        /\ nodes \in [Nodes -> Memory]
        /\ userFile \in [Users -> File] /\ pairFile \in [Pairs -> File]
        /\ nodeFile \in [Nodes -> File] /\ tradeFile \in [Stamps -> File] /\ TradeFiles
    BY DEF Memory, File, TradeFiles
  <2> QED
    BY <2>b, <2>1, <2>2, <2>3 DEF Typed, TypeOK
<1>3. SkippedIsStored /\ CleanIsMirrored /\ Known
  BY <1>1 DEF SkippedIsStored, CleanIsMirrored, Known
<1> QED
  BY <1>1, <1>2, <1>3 DEF Inv, Sorted, SavedSoFar, AfterPairs, AfterUsers

(* every step keeps it, *)
LEMMA StepInv == Inv /\ [Next]_vars => Inv'
<1> SUFFICES ASSUME Inv, [Next]_vars PROVE Inv'
  OBVIOUS
<1>1. CASE Start
  BY <1>1, StartInv DEF Inv
<1>2. CASE Next /\ ~Start
  BY <1>2, TypesKept, SortedKept, SkippedKept, SavedKept, CleanKept, KnownKept DEF Inv
<1>3. CASE UNCHANGED vars
  <2> USE <1>3 DEF vars, memory, files
  <2>1. Typed' /\ Sorted'
    BY DEF Inv, Typed, TypeOK, TradeFiles, Sorted
  <2>2. SkippedIsStored' /\ CleanIsMirrored'
    BY DEF Inv, SkippedIsStored, CleanIsMirrored
  <2>3. SavedSoFar'
    BY DEF Inv, SavedSoFar, PairsStored, UsersStored, TradesStored
  <2>4. Known'
    BY DEF Inv, Known, UserIsKnown, PairIsKnown, TradeIsKnown, InHistory
  <2> QED
    BY <2>1, <2>2, <2>3, <2>4 DEF Inv
<1> QED
  BY <1>1, <1>2, <1>3

(* and so it always holds. *)
LEMMA InvHolds == Spec => []Inv
BY InitInv, StepInv, PTL DEF Spec

---------------------------------------------------------------------------
(* A step of a running store. *)

(* The files of a directory after a step: as they were, or as its sub-save, *)
(* ended or broken off, left them; the operator's removals aside.           *)
LEMMA FilesAfter ==
  ASSUME Typed, Next, up
  PROVE  /\ userFile' = userFile \/ \E o \in UserOutcomes : userFile' = o.file
         /\ \/ pairFile' = pairFile \/ \E o \in PairOutcomes : pairFile' = o.file
            \/ \E p \in Pairs : /\ removed' = removed \union {p}
                                /\ pairFile' = [pairFile EXCEPT ![p] = Absent]
         /\ tradeFile' = tradeFile \/ \E o \in TradeOutcomes : tradeFile' = o.file
         /\ removed \subseteq removed'
BY DEF Next, Start, BeginSave, SavePairs, SaveUsers, SaveOrders, SaveTrades, SaveStorage, Running,
       Crash, Damage, EnsureUser, ChangeUser, AddPair, RemovePair, Commit, AddNode, RemoveNode,
       SyncChest, Apart, files

(* What a step of a running store may do to the files. *)
Knowingly ==
  up => /\ \A u \in Users : userFile[u] \in Version /\ u \notin unseen.user
             => userFile'[u] \in Version /\ userFile'[u] >= userFile[u]
        /\ \A p \in Pairs : pairFile[p] # Absent /\ pairFile'[p] = Absent
             => p \in unseen.pair \cup removed'
        /\ \A t \in Stamps : tradeFile[t] # Absent /\ tradeFile'[t] = Absent
             => t \in unseen.trade \/ \A i \in DOMAIN trades : trades[i] > t

(* A step takes no user back to an older version, and removes only what it knows of or what
   the store was never shown. *)
LEMMA StepKnowingly == Inv /\ Next => Knowingly
<1> SUFFICES ASSUME Inv, Next, up PROVE Knowingly
  BY DEF Knowingly
<1>1. /\ Typed
      /\ \A u \in Users : UserIsKnown(u)
      /\ \A p \in Pairs : PairIsKnown(p)
      /\ \A t \in Stamps : TradeIsKnown(t)
  BY DEF Inv, Known
<1>2. Absent \notin Version /\ \A x \in Version : x \in Int
  BY RecordsAssumption DEF Version
<1>3. /\ \A u \in Users : userFile[u] \in Version /\ u \notin unseen.user
           => userFile'[u] \in Version /\ userFile'[u] >= userFile[u]
  <2> SUFFICES ASSUME NEW u \in Users, userFile[u] \in Version, u \notin unseen.user
               PROVE  userFile'[u] \in Version /\ userFile'[u] >= userFile[u]
    OBVIOUS
  <2>1. userFile[u] \in Int /\ users[u] \in Version /\ users[u] >= userFile[u]
    BY <1>1, <1>2 DEF UserIsKnown
  <2>2. userFile'[u] = userFile[u] \/ userFile'[u] = users[u]
    <3>1. CASE userFile' = userFile
      BY <3>1
    <3>2. ASSUME NEW o \in UserOutcomes, userFile' = o.file
          PROVE  o.file[u] = userFile[u] \/ o.file[u] = users[u]
      BY <1>1, <1>2, <2>1, UsersSaved
    <3> QED
      BY <1>1, <3>1, <3>2, FilesAfter
  <2>3. userFile[u] >= userFile[u]
    BY <2>1
  <2> QED
    BY <2>1, <2>2, <2>3
<1>4. \A p \in Pairs : pairFile[p] # Absent /\ pairFile'[p] = Absent
        => p \in unseen.pair \union removed'
  <2> SUFFICES ASSUME NEW p \in Pairs, pairFile[p] # Absent, pairFile'[p] = Absent,
                      p \notin unseen.pair \union removed'
               PROVE  FALSE
    OBVIOUS
  <2>1. pairs[p] # Absent
    <3>1. removed \subseteq removed'
      BY <1>1, FilesAfter
    <3>2. p \notin unseen.pair \union removed
      BY <3>1
    <3> QED
      BY <1>1, <3>2 DEF PairIsKnown
  <2>2. ASSUME NEW o \in PairOutcomes, pairFile' = o.file PROVE FALSE
    BY <1>1, <2>1, <2>2, PairsSaved
  <2>3. ASSUME NEW q \in Pairs, removed' = removed \union {q},
               pairFile' = [pairFile EXCEPT ![q] = Absent]
        PROVE  FALSE
    BY <1>1, <2>3 DEF Typed, TypeOK
  <2> QED
    BY <1>1, <2>2, <2>3, FilesAfter
<1>5. \A t \in Stamps : tradeFile[t] # Absent /\ tradeFile'[t] = Absent
        => t \in unseen.trade \/ \A i \in DOMAIN trades : trades[i] > t
  <2> SUFFICES ASSUME NEW t \in Stamps, tradeFile[t] # Absent, tradeFile'[t] = Absent,
                      t \notin unseen.trade
               PROVE  \A i \in DOMAIN trades : trades[i] > t
    OBVIOUS
  <2>1. DOMAIN trades = 1 .. Len(trades) /\ 0 # Absent
    BY <1>1, RecordsAssumption DEF Typed, TypeOK
  <2>2. ASSUME NEW o \in TradeOutcomes, tradeFile' = o.file PROVE ~InHistory(t)
    BY <1>1, <2>1, <2>2, TradesSaved
  <2>3. ~InHistory(t)
    BY <1>1, <2>2, FilesAfter
  <2> QED
    BY <1>1, <2>1, <2>3 DEF TradeIsKnown
<1> QED
  BY <1>3, <1>4, <1>5 DEF Knowingly

---------------------------------------------------------------------------
(* Memory, disk and history have their types in every state: every load     *)
(* gives records, every save of a directory files.                          *)
THEOREM TypesHold == Spec => []TypeOK
BY InvHolds, PTL DEF Inv, Typed

(* What the incremental save skips is on disk (state::save, the trades'     *)
(* cursor and the users' marks): whatever failed, was trimmed or retried.   *)
THEOREM SkippedAreStored == Spec => []SkippedIsStored
BY InvHolds, PTL DEF Inv

(* With Store.dirty clear, memory is what a restart would load: the marks   *)
(* are cleared only by a save whose five parts all succeeded.               *)
THEOREM CleanAreMirrored == Spec => []CleanIsMirrored
BY InvHolds, PTL DEF Inv

(* The sweeps of a save destroy nothing they were not told to, a crash in   *)
(* the middle of one included.                                              *)
THEOREM RemovalsAreKnown == Spec => RemovedKnowingly
<1>1. Inv /\ [Next]_vars =>
        [up => /\ \A u \in Users : userFile[u] \in Version /\ u \notin unseen.user
                    => userFile'[u] \in Version /\ userFile'[u] >= userFile[u]
               /\ \A p \in Pairs : pairFile[p] # Absent /\ pairFile'[p] = Absent
                    => p \in unseen.pair \cup removed'
               /\ \A t \in Stamps : tradeFile[t] # Absent /\ tradeFile'[t] = Absent
                    => t \in unseen.trade \/ \A i \in DOMAIN trades : trades[i] > t]_vars
  BY StepKnowingly DEF Knowingly
<1> QED
  BY <1>1, InvHolds, PTL DEF Spec, RemovedKnowingly

=============================================================================
