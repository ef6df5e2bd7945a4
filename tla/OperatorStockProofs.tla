-------------------------- MODULE OperatorStockProofs --------------------------
(***************************************************************************)
(* Proofs about OperatorStock: goods are neither lost nor made, the books  *)
(* follow the picture of the chests, the picture is true, and a plan fits  *)
(* the chests, for any goods, chests, nodes and number of faults.          *)
(*                                                                         *)
(* A sum, a plan and a storage that grows are recursive functions: what is *)
(* said of all their values holds because there is no least counterexample *)
(* (LeastOf).                                                              *)
(***************************************************************************)
EXTENDS OperatorStock, FiniteSetTheorems, SequenceTheorems, WellFoundedInduction, TLAPS

---------------------------------------------------------------------------
(* Sums over finite sets. *)

(* A set of numbers that is not empty has a least one. *)
LEMMA LeastOf ==
  ASSUME NEW S \in SUBSET Nat, S # {}
  PROVE  \E i \in S : \A j \in S : i <= j
<1>1. PICK i \in S : \A j \in S : <<j, i>> \notin OpToRel(<, Nat)
  BY WFMin, NatLessThanWellFounded, Zenon
<1>2. ASSUME NEW j \in S PROVE i <= j
  <2>1. i \in Nat /\ j \in Nat
    OBVIOUS
  <2>2. ~(j < i)
    BY <1>1, <2>1 DEF OpToRel
  <2> QED
    BY <2>1, <2>2
<1> QED
  BY <1>2

Chosen(T) == CHOOSE x \in T : TRUE
Adds(f, S, sum) ==
  sum = [T \in SUBSET S |-> IF T = {} THEN 0 ELSE f[Chosen(T)] + sum[T \ {Chosen(T)}]]

(* SumFunction is that sum over the whole domain. *)
LEMMA SumIs ==
  ASSUME NEW f, NEW S, S = DOMAIN f
  PROVE  SumFunction(f) = (CHOOSE sum : Adds(f, S, sum))[S]
BY DEF SumFunction, SumFunctionOnSet, FoldFunctionOnSet, MapThenFoldSet, Adds, Chosen

(* A set without one of its elements is smaller. *)
LEMMA Without ==
  ASSUME NEW S, IsFiniteSet(S), NEW T \in SUBSET S, T # {}
  PROVE  /\ Chosen(T) \in T /\ T \ {Chosen(T)} \in SUBSET S
         /\ Cardinality(T) \in Nat /\ Cardinality(T \ {Chosen(T)}) = Cardinality(T) - 1
         /\ 1 <= Cardinality(T)
<1>1. Chosen(T) \in T
  BY DEF Chosen
<1>2. IsFiniteSet(T) /\ Cardinality(T) \in Nat
  BY FS_Subset, FS_CardinalityType
<1>3. Cardinality(T) # 0
  BY <1>2, FS_EmptySet
<1>4. Cardinality(T \ {Chosen(T)}) = Cardinality(T) - 1
  BY <1>1, <1>2, FS_RemoveElement
<1>5. 1 <= Cardinality(T)
  BY <1>2, <1>3
<1> QED
  BY <1>1, <1>2, <1>4, <1>5

(* What a function of numbers sums up to over each part of a finite set is defined, *)
LEMMA SumExists ==
  ASSUME NEW S, IsFiniteSet(S), NEW f \in [S -> Nat]
  PROVE  \E sum : Adds(f, S, sum)
<1> DEFINE Small(n) == {T \in SUBSET S : Cardinality(T) <= n}
           Step(h, T) == IF T = {} THEN 0 ELSE f[Chosen(T)] + h[T \ {Chosen(T)}]
           Partial(n, h) == h = [T \in Small(n) |-> Step(h, T)]
           Missing == {n \in Nat : ~ \E h : Partial(n, h)}
<1>1. Cardinality({}) = 0 /\ {} \in SUBSET S
  BY FS_EmptySet
<1>2. Missing = {}
  <2> SUFFICES ASSUME Missing # {} PROVE FALSE
    OBVIOUS
  <2>1. PICK n \in Missing : \A m \in Missing : n <= m
    BY LeastOf
  <2>2. CASE n = 0
    <3> DEFINE h == [T \in Small(0) |-> 0]
    <3>1. ASSUME NEW T \in Small(0) PROVE T = {}
      <4>1. T \in SUBSET S /\ Cardinality(T) <= 0
        OBVIOUS
      <4>2. T # {} => Cardinality(T) \in Nat /\ 1 <= Cardinality(T)
        BY <4>1, Without
      <4> QED
        BY <4>1, <4>2
    <3>2. h = [T \in Small(0) |-> Step(h, T)]
      BY <3>1
    <3> QED
      BY <2>1, <2>2, <3>2
  <2>3. CASE n # 0
    <3>1. n - 1 \in Nat /\ n - 1 \notin Missing
      <4> HIDE DEF Missing
      <4>1. n \in Nat
        BY <2>1 DEF Missing
      <4> QED
        BY <2>1, <2>3, <4>1
    <3>2. PICK g : Partial(n - 1, g)
      BY <3>1
    <3> DEFINE h == [T \in Small(n) |-> Step(g, T)]
    <3>3. ASSUME NEW T \in Small(n), T # {} PROVE T \ {Chosen(T)} \in Small(n - 1)
      BY <3>3, <2>1, Without
    <3>4. ASSUME NEW T \in Small(n - 1) PROVE T \in Small(n) /\ h[T] = g[T]
      <4>1. Cardinality(T) \in Nat
        BY FS_Subset, FS_CardinalityType
      <4>2. T \in Small(n)
        BY <4>1, <2>1
      <4> QED
        BY <4>2, <3>2
    <3>5. ASSUME NEW T \in Small(n) PROVE Step(g, T) = Step(h, T)
      <4> HIDE DEF h, Small
      <4> QED
        BY <3>3, <3>4
    <3>6. h = [T \in Small(n) |-> Step(h, T)]
      <4>1. h = [T \in Small(n) |-> Step(g, T)]
        OBVIOUS
      <4> HIDE DEF h, Small, Step
      <4> QED
        BY <4>1, <3>5
    <3> QED
      BY <2>1, <3>6
  <2> QED
    BY <2>2, <2>3
<1>3. Cardinality(S) \in Nat
  BY FS_CardinalityType
<1>4. PICK h : Partial(Cardinality(S), h)
  BY <1>2, <1>3
<1>5. Small(Cardinality(S)) = SUBSET S
  BY FS_Subset
<1> QED
  BY <1>4, <1>5 DEF Adds

(* and is a number. *)
LEMMA SumsAre ==
  ASSUME NEW S, IsFiniteSet(S), NEW f \in [S -> Nat], NEW sum, Adds(f, S, sum), NEW T \in SUBSET S
  PROVE  sum[T] \in Nat
<1> DEFINE Wrong == {n \in Nat : \E U \in SUBSET S : Cardinality(U) = n /\ sum[U] \notin Nat}
<1>1. Wrong = {}
  <2> SUFFICES ASSUME Wrong # {} PROVE FALSE
    OBVIOUS
  <2>1. PICK n \in Wrong : \A m \in Wrong : n <= m
    BY LeastOf
  <2>2. PICK U \in SUBSET S : Cardinality(U) = n /\ sum[U] \notin Nat
    BY <2>1
  <2>e. sum[U] = IF U = {} THEN 0 ELSE f[Chosen(U)] + sum[U \ {Chosen(U)}]
    BY DEF Adds
  <2>f. sum[U] \notin Nat
    BY <2>2
  <2>3. U # {} /\ sum[U] = f[Chosen(U)] + sum[U \ {Chosen(U)}]
    BY ONLY <2>e, <2>f
  <2>4. /\ Chosen(U) \in S /\ U \ {Chosen(U)} \in SUBSET S
        /\ Cardinality(U \ {Chosen(U)}) = n - 1 /\ 1 <= n
    BY <2>2, <2>3, Without
  <2>5. n - 1 \in Nat /\ n - 1 \notin Wrong
    BY <2>1, <2>4
  <2>6. sum[U \ {Chosen(U)}] \in Nat
    BY <2>4, <2>5
  <2> QED
    BY <2>2, <2>3, <2>4, <2>6
<1>2. Cardinality(T) \in Nat
  BY FS_Subset, FS_CardinalityType
<1> QED
  BY <1>1, <1>2

(* The sum of a function of numbers with a finite domain is a number, 0 if there is none. *)
LEMMA SumIsNat ==
  ASSUME NEW S, IsFiniteSet(S), NEW f \in [S -> Nat]
  PROVE  SumFunction(f) \in Nat /\ (S = {} => SumFunction(f) = 0)
<1> DEFINE sum == CHOOSE s : Adds(f, S, s)
<1>1. Adds(f, S, sum)
  BY SumExists
<1>2. SumFunction(f) = sum[S]
  BY SumIs
<1> HIDE DEF sum
<1>3. sum[S] \in Nat
  BY <1>1, SumsAre
<1>4. S = {} => sum[S] = 0
  BY <1>1 DEF Adds
<1> QED
  BY <1>2, <1>3, <1>4

(* The sum of nothing but zeros is zero. *)
LEMMA SumOfZeros ==
  ASSUME NEW S, IsFiniteSet(S), NEW f \in [S -> Nat], \A x \in S : f[x] = 0
  PROVE  SumFunction(f) = 0
<1> DEFINE sum == CHOOSE s : Adds(f, S, s)
<1>1. Adds(f, S, sum)
  BY SumExists
<1>2. SumFunction(f) = sum[S]
  BY SumIs
<1> HIDE DEF sum
<1> DEFINE Wrong == {n \in Nat : \E U \in SUBSET S : Cardinality(U) = n /\ sum[U] # 0}
<1>3. Wrong = {}
  <2> SUFFICES ASSUME Wrong # {} PROVE FALSE
    OBVIOUS
  <2>1. PICK n \in Wrong : \A m \in Wrong : n <= m
    BY LeastOf
  <2>2. PICK U \in SUBSET S : Cardinality(U) = n /\ sum[U] # 0
    BY <2>1
  <2>3. U # {}
    BY <1>1, <2>2 DEF Adds
  <2>4. sum[U] = f[Chosen(U)] + sum[U \ {Chosen(U)}]
    BY <1>1, <2>3 DEF Adds
  <2>5. /\ Chosen(U) \in S /\ U \ {Chosen(U)} \in SUBSET S
        /\ Cardinality(U \ {Chosen(U)}) = n - 1 /\ 1 <= n
    BY <2>2, <2>3, Without
  <2>6. n - 1 \in Nat /\ n - 1 \notin Wrong
    BY <2>1, <2>5
  <2>7. sum[U \ {Chosen(U)}] = 0 /\ f[Chosen(U)] = 0
    BY <2>5, <2>6
  <2> QED
    BY <2>2, <2>4, <2>7
<1>4. Cardinality(S) \in Nat
  BY FS_CardinalityType
<1> QED
  BY <1>2, <1>3, <1>4

(* Functions that differ at one point have sums that differ by as much. *)
LEMMA SumChanges ==
  ASSUME NEW S, IsFiniteSet(S), NEW f \in [S -> Nat], NEW g \in [S -> Nat], NEW x \in S,
         \A y \in S \ {x} : g[y] = f[y]
  PROVE  SumFunction(g) = (SumFunction(f) - f[x]) + g[x]
<1> DEFINE sf == CHOOSE s : Adds(f, S, s)
           sg == CHOOSE s : Adds(g, S, s)
<1>1. Adds(f, S, sf) /\ Adds(g, S, sg)
  BY SumExists
<1>2. SumFunction(f) = sf[S] /\ SumFunction(g) = sg[S]
  BY SumIs
<1> HIDE DEF sf, sg
<1> DEFINE Follows(U) == sg[U] = IF x \in U THEN (sf[U] - f[x]) + g[x] ELSE sf[U]
           Wrong == {n \in Nat : \E U \in SUBSET S : Cardinality(U) = n /\ ~Follows(U)}
<1>3. Wrong = {}
  <2> SUFFICES ASSUME Wrong # {} PROVE FALSE
    OBVIOUS
  <2>1. PICK n \in Wrong : \A m \in Wrong : n <= m
    BY LeastOf
  <2>2. PICK U \in SUBSET S : Cardinality(U) = n /\ ~Follows(U)
    BY <2>1
  <2>3. U # {}
    BY <1>1, <2>2 DEF Adds
  <2> DEFINE c == Chosen(U)
             V == U \ {c}
  <2>4. sf[U] = f[c] + sf[V] /\ sg[U] = g[c] + sg[V]
    BY <1>1, <2>3 DEF Adds
  <2>5. c \in U /\ V \in SUBSET S /\ Cardinality(V) = n - 1 /\ 1 <= n
    BY <2>2, <2>3, Without
  <2>6. n - 1 \in Nat /\ n - 1 \notin Wrong
    BY <2>1, <2>5
  <2>7. Follows(V)
    BY <2>5, <2>6
  <2>8. sf[V] \in Nat /\ sg[V] \in Nat /\ f[c] \in Nat /\ g[c] \in Nat /\ f[x] \in Nat /\ g[x] \in Nat
    BY <1>1, <2>5, SumsAre
  <2>9. c = x \/ g[c] = f[c]
    BY <2>5
  <2>10. x \in V <=> x \in U /\ c # x
    OBVIOUS
  <2> HIDE DEF c, V
  <2>11. Follows(U)
    BY <2>4, <2>5, <2>7, <2>8, <2>9, <2>10
  <2> QED
    BY <2>2, <2>11
<1>4. Cardinality(S) \in Nat
  BY FS_CardinalityType
<1>5. Follows(S)
  BY <1>3, <1>4
<1> QED
  BY <1>2, <1>5

---------------------------------------------------------------------------
(* The order of the visits. *)

(* The chests are finitely many numbers, the two reserved ones among them. *)
LEMMA ChestsAre == IsFiniteSet(Chests) /\ Chests \subseteq Nat /\ {DiamondChest, OverflowChest} \subseteq Chests
<1>1. MaxNode \in Nat /\ ChestsPerNode \in Nat /\ ChestsPerNode >= 3
  BY StorageAssumption
<1>2. (MaxNode + 1) * ChestsPerNode \in Int /\ (MaxNode + 1) * ChestsPerNode >= 3
  BY <1>1
<1> DEFINE n == (MaxNode + 1) * ChestsPerNode
<1>3. Chests = 0 .. n - 1
  BY DEF Chests
<1> HIDE DEF n
<1>4. n \in Int /\ n >= 3
  BY <1>2 DEF n
<1> QED
  BY <1>3, <1>4, FS_Interval DEF DiamondChest, OverflowChest

StorageOK(st) ==
  /\ st.nodes \in Seq(NodeIds)
  /\ st.chest \in [Chests -> Chest]

(* A chest of the storage is in a node that has a place in the order. *)
LEMMA PlaceIs ==
  ASSUME NEW st, StorageOK(st), NEW c \in AllChests(st)
  PROVE  Place(st, c) \in DOMAIN st.nodes /\ Place(st, c) \in Nat /\ st.nodes[Place(st, c)] = NodeOf(c)
<1>1. \E i \in DOMAIN st.nodes : st.nodes[i] = NodeOf(c)
  BY DEF AllChests, Range
<1>2. Place(st, c) \in DOMAIN st.nodes /\ st.nodes[Place(st, c)] = NodeOf(c)
  BY <1>1 DEF Place
<1>3. DOMAIN st.nodes \subseteq Nat
  BY DEF StorageOK
<1> QED
  BY <1>2, <1>3

(* The order of the visits is a strict total order. *)
LEMMA BeforeIs ==
  ASSUME NEW st, StorageOK(st)
  PROVE  /\ \A c \in AllChests(st) : ~Before(st, c, c)
         /\ \A c, d \in AllChests(st) : Before(st, c, d) \/ Before(st, d, c) \/ c = d
         /\ \A c, d, e \in AllChests(st) : Before(st, c, d) /\ Before(st, d, e) => Before(st, c, e)
<1>1. \A c \in AllChests(st) : c \in Nat /\ Place(st, c) \in Nat
  BY ChestsAre, PlaceIs DEF AllChests
<1> QED
  BY <1>1 DEF Before

(* Chests of a set have different ranks, each less than their number. *)
LEMMA RankIs ==
  ASSUME NEW st, StorageOK(st), NEW S \in SUBSET AllChests(st)
  PROVE  /\ IsFiniteSet(S) /\ Cardinality(S) \in Nat
         /\ \A c \in S : Rank(st, S, c) \in 0 .. Cardinality(S) - 1
         /\ \A c, d \in S : Rank(st, S, c) = Rank(st, S, d) => c = d
<1> DEFINE Prior(c) == {d \in S : Before(st, d, c)}
<1>1. \A T \in SUBSET S : IsFiniteSet(T) /\ Cardinality(T) \in Nat
  <2>1. \A T \in SUBSET S : T \in SUBSET Chests
    BY DEF AllChests
  <2> QED
    BY <2>1, ChestsAre, FS_Subset, FS_CardinalityType
<1>2. ASSUME NEW T \in SUBSET S, NEW R \in SUBSET T, NEW x \in T, x \notin R
      PROVE  Cardinality(R) < Cardinality(T)
  <2>1. Cardinality(R) <= Cardinality(T) /\ (Cardinality(T) = Cardinality(R) => T = R)
    BY <1>1, FS_Subset
  <2>2. Cardinality(R) \in Nat /\ Cardinality(T) \in Nat /\ T # R
    BY <1>1, <1>2
  <2> QED
    BY <2>1, <2>2
<1>3. ASSUME NEW c \in S PROVE Cardinality(Prior(c)) \in 0 .. Cardinality(S) - 1
  <2>1. Prior(c) \in SUBSET S /\ c \notin Prior(c)
    BY BeforeIs
  <2>2. Cardinality(Prior(c)) < Cardinality(S)
    BY <1>2, <2>1
  <2> QED
    BY <1>1, <2>1, <2>2
<1>4. ASSUME NEW c \in S, NEW d \in S, Before(st, c, d)
      PROVE  Cardinality(Prior(c)) < Cardinality(Prior(d))
  <2>1. c \in AllChests(st) /\ d \in AllChests(st)
    OBVIOUS
  <2>2. Prior(c) \in SUBSET Prior(d) /\ c \in Prior(d) /\ c \notin Prior(c)
    BY <1>4, <2>1, BeforeIs
  <2>3. Prior(d) \in SUBSET S
    OBVIOUS
  <2> HIDE DEF Prior
  <2> QED
    BY <1>2, <2>2, <2>3
<1>5. ASSUME NEW c \in S, NEW d \in S, Cardinality(Prior(c)) = Cardinality(Prior(d)) PROVE c = d
  <2>1. Cardinality(Prior(c)) \in Nat /\ Cardinality(Prior(d)) \in Nat
    BY <1>3, <1>1
  <2>2. ~Before(st, c, d) /\ ~Before(st, d, c)
    <3> HIDE DEF Prior
    <3> QED
      BY <1>4, <1>5, <2>1
  <2> QED
    BY <2>2, BeforeIs
<1> QED
  BY <1>1, <1>3, <1>5 DEF Rank

(* A visit goes to every chest of a set, once. *)
LEMMA VisitIs ==
  ASSUME NEW st, StorageOK(st), NEW S \in SUBSET AllChests(st)
  PROVE  /\ Visit(st, S) \in Seq(S)
         /\ Len(Visit(st, S)) = Cardinality(S)
         /\ \A i, j \in 1 .. Cardinality(S) : Visit(st, S)[i] = Visit(st, S)[j] => i = j
         /\ \A c \in S : \E k \in 1 .. Cardinality(S) : Visit(st, S)[k] = c
         /\ Cardinality(S) \in Nat
<1> DEFINE n == Cardinality(S)
           T == 0 .. n - 1
           f == [c \in S |-> Rank(st, S, c)]
<1>1. n \in Nat /\ IsFiniteSet(S)
  BY RankIs
<1>2. IsFiniteSet(T) /\ Cardinality(T) = n
  <2> HIDE DEF n
  <2>1. 0 \in Int /\ n - 1 \in Int
    BY <1>1
  <2>2. Cardinality(T) = IF 0 > n - 1 THEN 0 ELSE (n - 1) - 0 + 1
    BY <2>1, FS_Interval
  <2> QED
    BY <1>1, <2>1, <2>2, FS_Interval
<1>3. f \in Injection(S, T)
  <2>1. f \in [S -> T]
    BY RankIs
  <2>2. \A c, d \in S : f[c] = f[d] => c = d
    BY RankIs
  <2> QED
    BY <2>1, <2>2 DEF Injection, IsInjective
<1>4. f \in Surjection(S, T)
  BY <1>2, <1>3, FS_Injection
<1>5. ASSUME NEW k \in 1 .. n PROVE \E c \in S : Rank(st, S, c) = k - 1
  <2>1. k - 1 \in T
    BY <1>1
  <2>2. \E c \in S : f[c] = k - 1
    BY <1>4, <2>1 DEF Surjection
  <2> QED
    BY <2>2
<1> DEFINE v == [k \in 1 .. n |-> CHOOSE c \in S : Rank(st, S, c) = k - 1]
<1>6. ASSUME NEW k \in 1 .. n PROVE v[k] \in S /\ Rank(st, S, v[k]) = k - 1
  BY <1>5
<1>7. Visit(st, S) = v
  BY DEF Visit
<1>8. v \in [1 .. n -> S]
  BY <1>6
<1>9. \A i, j \in 1 .. n : v[i] = v[j] => i = j
  <2> HIDE DEF v
  <2> TAKE i, j \in 1 .. n
  <2> HAVE v[i] = v[j]
  <2>1. i - 1 = j - 1
    BY <1>6
  <2> QED
    BY <2>1, <1>1
<1> HIDE DEF v, n
<1>10. v \in Seq(S) /\ Len(v) = n
  BY <1>1, <1>8
<1>11. ASSUME NEW c \in S PROVE \E k \in 1 .. n : v[k] = c
  <2>1. Rank(st, S, c) \in 0 .. n - 1
    BY RankIs DEF n
  <2>2. Rank(st, S, c) + 1 \in 1 .. n /\ (Rank(st, S, c) + 1) - 1 = Rank(st, S, c)
    BY <1>1, <2>1
  <2>3. v[Rank(st, S, c) + 1] = c
    BY <1>6, <2>2, RankIs
  <2> QED
    BY <2>2, <2>3
<1> QED
  BY <1>1, <1>7, <1>9, <1>10, <1>11 DEF n

---------------------------------------------------------------------------
(* Plans. *)

(* The least element of a set of numbers is in it, and below all others. *)
LEMMA MinIs ==
  ASSUME NEW S \in SUBSET Nat, S # {}
  PROVE  Min(S) \in S /\ \A i \in S : Min(S) <= i
BY LeastOf DEF Min

Upto(order, can, up) ==
  up = [k \in 0 .. Len(order) |-> IF k = 0 THEN 0 ELSE up[k - 1] + can[order[k]]]

Until(order, q, up) ==
  LET enough == {k \in 0 .. Len(order) : up[k] >= q}
  IN IF enough = {} THEN Len(order) ELSE Min(enough)

(* A plan, with the sums its amounts are computed from given a name. *)
LEMMA SpreadIs ==
  ASSUME NEW order, NEW can, NEW q
  PROVE  LET up == CHOOSE u : Upto(order, can, u)
         IN Spread(order, can, q) =
              [k \in 1 .. Until(order, q, up) |->
                 [chest |-> order[k], amount |-> Least(can[order[k]], q - up[k - 1])]]
BY DEF Spread, Upto, Until

(* What the chests up to each can take is defined, *)
LEMMA UptoExists ==
  ASSUME NEW order \in Seq(Chests), NEW can
  PROVE  \E up : Upto(order, can, up)
<1> DEFINE n == Len(order)
           Step(h, k) == IF k = 0 THEN 0 ELSE h[k - 1] + can[order[k]]
           Partial(m, h) == h = [k \in 0 .. m |-> Step(h, k)]
           Missing == {m \in Nat : ~ \E h : Partial(m, h)}
<1>1. Missing = {}
  <2> SUFFICES ASSUME Missing # {} PROVE FALSE
    OBVIOUS
  <2>1. PICK m \in Missing : \A l \in Missing : m <= l
    BY LeastOf
  <2>2. CASE m = 0
    <3> DEFINE h == [k \in 0 .. 0 |-> 0]
    <3>1. h = [k \in 0 .. 0 |-> Step(h, k)]
      BY \A k \in 0 .. 0 : k = 0
    <3> QED
      BY <2>1, <2>2, <3>1
  <2>3. CASE m # 0
    <3>1. m - 1 \in Nat /\ m - 1 \notin Missing
      <4> HIDE DEF Missing
      <4>1. m \in Nat
        BY <2>1 DEF Missing
      <4> QED
        BY <2>1, <2>3, <4>1
    <3>2. PICK g : Partial(m - 1, g)
      BY <3>1
    <3> DEFINE h == [k \in 0 .. m |-> Step(g, k)]
    <3>3. ASSUME NEW k \in 0 .. m PROVE Step(g, k) = Step(h, k)
      <4>1. CASE k = 0
        BY <4>1
      <4>2. CASE k # 0
        <5>1. k - 1 \in 0 .. m - 1 /\ k - 1 \in 0 .. m
          BY <2>1, <4>2
        <5>2. g[k - 1] = Step(g, k - 1)
          BY <3>2, <5>1
        <5>3. h[k - 1] = Step(g, k - 1)
          BY <5>1
        <5> QED
          BY <4>2, <5>2, <5>3
      <4> QED
        BY <4>1, <4>2
    <3>4. h = [k \in 0 .. m |-> Step(h, k)]
      <4>1. h = [k \in 0 .. m |-> Step(g, k)]
        OBVIOUS
      <4> HIDE DEF h, Step
      <4> QED
        BY <4>1, <3>3
    <3> QED
      BY <2>1, <3>4
  <2> QED
    BY <2>2, <2>3
<1>2. n \in Nat
  OBVIOUS
<1>3. PICK h : Partial(n, h)
  BY <1>1, <1>2
<1> QED
  BY <1>3 DEF Upto

(* and is a number. *)
LEMMA UptoAre ==
  ASSUME NEW order \in Seq(Chests), NEW can, \A k \in 1 .. Len(order) : can[order[k]] \in Nat,
         NEW up, Upto(order, can, up), NEW i \in 0 .. Len(order)
  PROVE  up[i] \in Nat
<1> DEFINE Wrong == {k \in 0 .. Len(order) : up[k] \notin Nat}
<1>1. Len(order) \in Nat
  OBVIOUS
<1>2. Wrong = {}
  <2> SUFFICES ASSUME Wrong # {} PROVE FALSE
    OBVIOUS
  <2>0. Wrong \in SUBSET Nat
    BY <1>1
  <2>1. PICK k \in Wrong : \A l \in Wrong : k <= l
    BY <2>0, LeastOf
  <2>2. k \in 0 .. Len(order) /\ k \in Nat /\ up[k] \notin Nat
    BY <2>1, <1>1
  <2>3. up[k] = IF k = 0 THEN 0 ELSE up[k - 1] + can[order[k]]
    BY <2>2 DEF Upto
  <2>4. k # 0
    BY <2>2, <2>3
  <2>5. k - 1 \in 0 .. Len(order) /\ k - 1 \notin Wrong /\ k \in 1 .. Len(order)
    <3> HIDE DEF Wrong
    <3> QED
      BY <1>1, <2>1, <2>2, <2>4
  <2>6. up[k - 1] \in Nat /\ can[order[k]] \in Nat
    BY <2>5
  <2> QED
    BY <2>2, <2>3, <2>4, <2>6
<1> QED
  BY <1>2

(* A plan goes over the chests in their order and asks no more of one than it can. *)
LEMMA PlanIs ==
  ASSUME NEW order \in Seq(Chests), NEW q \in Nat,
         NEW can, \A k \in 1 .. Len(order) : can[order[k]] \in Nat
  PROVE  LET p == Spread(order, can, q)
         IN /\ p \in Seq(Transfer) /\ Len(p) <= Len(order)
            /\ \A k \in 1 .. Len(p) : /\ k \in 1 .. Len(order)
                                         /\ p[k].chest = order[k]
                                         /\ p[k].amount <= can[order[k]]
<1> DEFINE up == CHOOSE u : Upto(order, can, u)
           last == Until(order, q, up)
           p == [k \in 1 .. last |->
                      [chest |-> order[k], amount |-> Least(can[order[k]], q - up[k - 1])]]
<1>1. Upto(order, can, up)
  BY UptoExists
<1>2. Spread(order, can, q) = p
  BY SpreadIs
<1> HIDE DEF up
<1>3. \A k \in 0 .. Len(order) : up[k] \in Nat
  BY <1>1, UptoAre
<1> DEFINE enough == {k \in 0 .. Len(order) : up[k] >= q}
<1>4. Len(order) \in Nat /\ enough \in SUBSET Nat
  OBVIOUS
<1>5. last \in 0 .. Len(order) /\ \A k \in 0 .. last - 1 : up[k] < q
  <2>1. CASE enough = {}
    <3>1. last = Len(order)
      BY <2>1 DEF Until
    <3>2. ASSUME NEW k \in 0 .. last - 1 PROVE up[k] < q
      <4>1. k \in 0 .. Len(order) /\ k \notin enough
        BY <2>1, <3>1, <1>4
      <4> QED
        BY <4>1, <1>3
    <3> QED
      BY <1>4, <3>1, <3>2
  <2>2. CASE enough # {}
    <3>1. last = Min(enough)
      BY <2>2 DEF Until
    <3>2. last \in enough /\ \A i \in enough : last <= i
      BY <1>4, <2>2, <3>1, MinIs
    <3>3. ASSUME NEW k \in 0 .. last - 1 PROVE up[k] < q
      <4>1. last \in 0 .. Len(order)
        BY <3>2
      <4>2. k \in 0 .. Len(order) /\ ~(last <= k)
        BY <4>1, <1>4
      <4>3. k \notin enough
        BY <3>2, <4>2
      <4> QED
        BY <4>2, <4>3, <1>3
    <3> QED
      BY <3>2, <3>3
  <2> QED
    BY <2>1, <2>2
<1> HIDE DEF last, enough
<1>6. ASSUME NEW k \in 1 .. last
      PROVE  /\ k \in 1 .. Len(order)
             /\ p[k] \in Transfer /\ p[k].chest = order[k]
             /\ p[k].amount <= can[order[k]]
  <2>1. k \in 1 .. Len(order) /\ k - 1 \in 0 .. last - 1 /\ k - 1 \in 0 .. Len(order)
    BY <1>4, <1>5
  <2>2. can[order[k]] \in Nat /\ up[k - 1] \in Nat /\ up[k - 1] < q /\ order[k] \in Chests
    BY <1>3, <1>5, <2>1
  <2> DEFINE a == Least(can[order[k]], q - up[k - 1])
  <2>3. a \in Nat /\ a <= can[order[k]]
    BY <2>2 DEF Least
  <2> HIDE DEF a
  <2>4. p[k] = [chest |-> order[k], amount |-> a]
    BY DEF a
  <2> QED
    BY <2>1, <2>2, <2>3, <2>4 DEF Transfer
<1> HIDE DEF p
<1>7. p \in [1 .. last -> Transfer]
  <2>1. p = [k \in 1 .. last |-> p[k]]
    BY DEF p
  <2> QED
    BY <1>6, <2>1
<1>8. p \in Seq(Transfer) /\ Len(p) = last
  BY <1>4, <1>5, <1>7
<1> QED
  BY <1>2, <1>4, <1>5, <1>6, <1>8

Distinct(p) == \A i, j \in DOMAIN p : p[i].chest = p[j].chest => i = j

(* A plan over visits that meet no chest twice does not either. *)
LEMMA PlanOnce ==
  ASSUME NEW order \in Seq(Chests), NEW q \in Nat,
         NEW can, \A k \in 1 .. Len(order) : can[order[k]] \in Nat,
         \A i, j \in 1 .. Len(order) : order[i] = order[j] => i = j
  PROVE  Distinct(Spread(order, can, q))
<1> DEFINE p == Spread(order, can, q)
<1>1. p \in Seq(Transfer) /\ \A k \in 1 .. Len(p) : k \in 1 .. Len(order) /\ p[k].chest = order[k]
  BY PlanIs
<1> HIDE DEF p
<1>2. DOMAIN p = 1 .. Len(p)
  BY <1>1
<1>3. Distinct(p)
  BY <1>1, <1>2 DEF Distinct
<1> QED
  BY <1>3 DEF p

(* The chests a plan goes through are chests of the storage; no empty one is of a good. *)
LEMMA SetsAre ==
  ASSUME NEW st, StorageOK(st), NEW g \in Goods
  PROVE  /\ Holding(st, g) \in SUBSET AllChests(st) /\ Empty(st, g) \in SUBSET AllChests(st)
         /\ NotFull(st, g) \in SUBSET Own(st, g) /\ Own(st, g) \in SUBSET Holding(st, g)
         /\ NotFull(st, g) \in SUBSET AllChests(st)
         /\ AllChests(st) \in SUBSET Chests
         /\ \A c \in Empty(st, g) : c \notin NotFull(st, g)
<1>1. Unassigned \notin Goods
  BY StorageAssumption
<1> QED
  BY <1>1 DEF Holding, Own, Empty, NotFull, AllChests

(* A withdrawal visits chests that hold the good, each once, for no more than they hold. *)
LEMMA WithdrawIs ==
  ASSUME NEW st, StorageOK(st), NEW g \in Goods, NEW q \in Nat
  PROVE  LET p == simulate_withdraw_plan(st, g, q)
         IN /\ p \in Seq(Transfer) /\ Distinct(p)
            /\ \A k \in DOMAIN p : /\ p[k].chest \in Holding(st, g)
                                   /\ p[k].amount <= st.chest[p[k].chest].amount
<1> DEFINE S == {c \in Holding(st, g) : st.chest[c].amount > 0}
           order == Visit(st, S)
           can == [c \in Chests |-> st.chest[c].amount]
           p == Spread(order, can, q)
<1>1. S \in SUBSET AllChests(st) /\ S \in SUBSET Chests /\ S \in SUBSET Holding(st, g)
  BY SetsAre
<1>2. /\ order \in Seq(S) /\ Len(order) = Cardinality(S)
      /\ \A i, j \in 1 .. Cardinality(S) : order[i] = order[j] => i = j
  BY <1>1, VisitIs
<1> HIDE DEF order
<1>3. order \in Seq(Chests) /\ \A k \in 1 .. Len(order) : order[k] \in S
  <2> HIDE DEF S
  <2> QED
    BY <1>1, <1>2
<1>4. \A c \in Chests : st.chest[c].amount \in Nat
  BY DEF StorageOK, Chest
<1>5. \A c \in Chests : can[c] = st.chest[c].amount
  OBVIOUS
<1> HIDE DEF can, S
<1>6. \A k \in 1 .. Len(order) : can[order[k]] \in Nat
  BY <1>1, <1>3, <1>4, <1>5
<1>7. Distinct(p)
  BY <1>2, <1>3, <1>6, PlanOnce
<1>8. /\ p \in Seq(Transfer)
      /\ \A k \in 1 .. Len(p) : /\ k \in 1 .. Len(order)
                                /\ p[k].chest = order[k] /\ p[k].amount <= can[order[k]]
  BY <1>3, <1>6, PlanIs
<1> HIDE DEF p
<1>9. ASSUME NEW k \in DOMAIN p
      PROVE  p[k].chest \in Holding(st, g) /\ p[k].amount <= st.chest[p[k].chest].amount
  <2>1. k \in 1 .. Len(p)
    BY <1>8
  <2>2. order[k] \in S
    BY <1>3, <1>8, <2>1
  <2> QED
    BY <1>1, <1>5, <1>8, <2>1, <2>2
<1>10. simulate_withdraw_plan(st, g, q) = p
  BY DEF simulate_withdraw_plan, p, can, order, S
<1> QED
  BY <1>7, <1>8, <1>9, <1>10

(* A deposit goes through the chests of the good that are not full and the empty
   ones, through each once, and each can take a number of items. *)
LEMMA DepositOrderIs ==
  ASSUME NEW st, StorageOK(st), NEW g \in Goods
  PROVE  LET S == NotFull(st, g) \union Empty(st, g)
             order == Visit(st, NotFull(st, g)) \o Visit(st, Empty(st, g))
         IN /\ S \in SUBSET Chests /\ order \in Seq(Chests)
            /\ \A c \in S : Space(st, g, c) \in Nat
            /\ \A k \in 1 .. Len(order) : order[k] \in S
            /\ \A i, j \in 1 .. Len(order) : order[i] = order[j] => i = j
            /\ \A c \in S : \E k \in 1 .. Len(order) : order[k] = c
<1> DEFINE A == NotFull(st, g)
           B == Empty(st, g)
           one == Visit(st, A)
           two == Visit(st, B)
           order == one \o two
<1>1. /\ A \in SUBSET AllChests(st) /\ B \in SUBSET AllChests(st)
      /\ A \in SUBSET Chests /\ B \in SUBSET Chests /\ A \in SUBSET Own(st, g)
      /\ \A c \in B : c \notin A
  BY SetsAre
<1>2. /\ one \in Seq(A) /\ two \in Seq(B)
      /\ \A i, j \in 1 .. Len(one) : one[i] = one[j] => i = j
      /\ \A i, j \in 1 .. Len(two) : two[i] = two[j] => i = j
  BY <1>1, VisitIs
<1>3. /\ \A c \in A : \E k \in 1 .. Len(one) : one[k] = c
      /\ \A c \in B : \E k \in 1 .. Len(two) : two[k] = c
  BY <1>1, VisitIs
<1>4. \A c \in A \union B : Space(st, g, c) \in Nat
  <2>1. \A c \in Chests : st.chest[c].amount \in Nat
    BY DEF StorageOK, Chest
  <2>2. Room[g] \in Nat
    BY StorageAssumption
  <2>3. ASSUME NEW c \in A PROVE Space(st, g, c) \in Nat
    BY <1>1, <2>1, <2>2 DEF NotFull, Space, Left, Own, Holding
  <2>4. ASSUME NEW c \in B PROVE Space(st, g, c) \in Nat
    <3>1. st.chest[c].item # g
      BY StorageAssumption DEF Empty
    <3> QED
      BY <2>2, <3>1 DEF Space
  <2> QED
    BY <2>3, <2>4
<1> HIDE DEF one, two, A, B
<1>5. /\ order \in Seq(Chests)
      /\ Len(order) = Len(one) + Len(two)
      /\ \A k \in 1 .. Len(order) : order[k] = IF k <= Len(one) THEN one[k] ELSE two[k - Len(one)]
  <2>1. one \in Seq(Chests) /\ two \in Seq(Chests)
    BY <1>1, <1>2
  <2> QED
    BY <2>1
<1>6. \A k \in 1 .. Len(order) : order[k] \in A \union B
  <2>1. \A k \in 1 .. Len(one) : one[k] \in A
    BY <1>2
  <2>2. \A k \in 1 .. Len(two) : two[k] \in B
    BY <1>2
  <2>3. Len(one) \in Nat /\ Len(two) \in Nat
    BY <1>2
  <2> HIDE DEF order
  <2> QED
    BY <1>5, <2>1, <2>2, <2>3
<1>7. \A i, j \in 1 .. Len(order) : order[i] = order[j] => i = j
  <2>1. \A k \in 1 .. Len(one) : one[k] \in A
    BY <1>2
  <2>2. \A k \in 1 .. Len(two) : two[k] \in B
    BY <1>2
  <2>3. Len(one) \in Nat /\ Len(two) \in Nat
    BY <1>2
  <2> HIDE DEF order
  <2> TAKE i, j \in 1 .. Len(order)
  <2>4. CASE i <= Len(one) /\ j <= Len(one)
    BY <1>2, <1>5, <2>3, <2>4
  <2>5. CASE i > Len(one) /\ j > Len(one)
    <3>1. i - Len(one) \in 1 .. Len(two) /\ j - Len(one) \in 1 .. Len(two)
      BY <1>5, <2>3, <2>5
    <3>2. order[i] = two[i - Len(one)] /\ order[j] = two[j - Len(one)]
      BY <1>5, <2>3, <2>5
    <3>3. order[i] = order[j] => i - Len(one) = j - Len(one)
      BY <1>2, <3>1, <3>2
    <3> QED
      BY <2>3, <3>3, <1>5
  <2>6. CASE i <= Len(one) /\ j > Len(one)
    <3>1. order[i] \in A /\ order[j] \in B
      BY <1>5, <2>1, <2>2, <2>3, <2>6
    <3> QED
      BY <1>1, <3>1
  <2>7. CASE i > Len(one) /\ j <= Len(one)
    <3>1. order[j] \in A /\ order[i] \in B
      BY <1>5, <2>1, <2>2, <2>3, <2>7
    <3> QED
      BY <1>1, <3>1
  <2>8. Len(order) \in Nat
    BY <1>5, <2>3
  <2> QED
    BY <2>3, <2>4, <2>5, <2>6, <2>7, <2>8
<1>8. \A c \in A \union B : \E k \in 1 .. Len(order) : order[k] = c
  <2>1. Len(one) \in Nat /\ Len(two) \in Nat
    BY <1>2
  <2> HIDE DEF order
  <2>2. ASSUME NEW c \in A PROVE \E k \in 1 .. Len(order) : order[k] = c
    <3>1. PICK k \in 1 .. Len(one) : one[k] = c
      BY <1>3
    <3>2. k \in 1 .. Len(order) /\ k <= Len(one)
      BY <1>5, <2>1
    <3> QED
      BY <1>5, <3>1, <3>2
  <2>3. ASSUME NEW c \in B PROVE \E k \in 1 .. Len(order) : order[k] = c
    <3>1. PICK k \in 1 .. Len(two) : two[k] = c
      BY <1>3
    <3>2. k + Len(one) \in 1 .. Len(order) /\ ~(k + Len(one) <= Len(one))
      BY <1>5, <2>1
    <3>3. (k + Len(one)) - Len(one) = k
      BY <2>1
    <3>4. order[k + Len(one)] = c
      BY <1>5, <3>1, <3>2, <3>3
    <3> QED
      BY <3>2, <3>4
  <2> QED
    BY <2>2, <2>3
<1> QED
  BY <1>1, <1>4, <1>5, <1>6, <1>7, <1>8 DEF A, B, one, two

(* A deposit visits chests of the good and empty ones, each once, for no more than
   they have room for. *)
LEMMA DepositIs ==
  ASSUME NEW st, StorageOK(st), NEW g \in Goods, NEW q \in Nat
  PROVE  LET p == simulate_deposit_plan(st, g, q)
         IN /\ p \in Seq(Transfer) /\ Distinct(p)
            /\ \A k \in DOMAIN p : /\ p[k].chest \in Own(st, g) \union Empty(st, g)
                                   /\ p[k].amount <= Space(st, g, p[k].chest)
<1> DEFINE A == NotFull(st, g)
           B == Empty(st, g)
           order == Visit(st, A) \o Visit(st, B)
           can == [c \in Chests |-> Space(st, g, c)]
           p == Spread(order, can, q)
<1>1. A \in SUBSET Own(st, g)
  BY SetsAre
<1>2. \A c \in Chests : can[c] = Space(st, g, c)
  OBVIOUS
<1>3. /\ A \union B \in SUBSET Chests /\ order \in Seq(Chests)
      /\ \A c \in A \union B : Space(st, g, c) \in Nat
      /\ \A k \in 1 .. Len(order) : order[k] \in A \union B
      /\ \A i, j \in 1 .. Len(order) : order[i] = order[j] => i = j
  BY DepositOrderIs
<1> HIDE DEF can, A, B, order
<1>4. \A k \in 1 .. Len(order) : can[order[k]] \in Nat
  BY <1>2, <1>3
<1>5. Distinct(p)
  BY <1>3, <1>4, PlanOnce
<1>6. /\ p \in Seq(Transfer)
      /\ \A k \in 1 .. Len(p) : /\ k \in 1 .. Len(order)
                                /\ p[k].chest = order[k] /\ p[k].amount <= can[order[k]]
  BY <1>3, <1>4, PlanIs
<1> HIDE DEF p
<1>7. ASSUME NEW k \in DOMAIN p
      PROVE  p[k].chest \in Own(st, g) \union Empty(st, g) /\ p[k].amount <= Space(st, g, p[k].chest)
  <2>1. k \in 1 .. Len(p)
    BY <1>6
  <2>2. order[k] \in A \union B /\ order[k] \in Chests
    BY <1>3, <1>6, <2>1
  <2>3. p[k].chest = order[k] /\ p[k].amount <= can[order[k]]
    BY <1>6, <2>1
  <2>4. A \union B \subseteq Own(st, g) \union Empty(st, g)
    BY <1>1 DEF B
  <2> QED
    BY <1>2, <2>2, <2>3, <2>4
<1>8. simulate_deposit_plan(st, g, q) = p
  BY DEF simulate_deposit_plan, p, can, order, A, B
<1> QED
  BY <1>5, <1>6, <1>7, <1>8

---------------------------------------------------------------------------
(* The storage grows. *)

(* What a storage had stays as it is, and what is new is empty. *)
Extends(a, b) ==
  /\ Range(a.nodes) \subseteq Range(b.nodes)
  /\ \A c \in AllChests(a) : b.chest[c] = a.chest[c]
  /\ \A c \in AllChests(b) \ AllChests(a) : b.chest[c] = FreshChest(c)
  /\ \A c \in Chests : b.chest[c] \in {a.chest[c], FreshChest(c)}

NodesOK(st) == StorageOK(st) /\ IsInjective(st.nodes)

(* A new chest is empty and of no pair. *)
LEMMA FreshIs ==
  ASSUME NEW c \in Chests
  PROVE  /\ FreshChest(c) \in Chest /\ FreshChest(c).amount = 0
         /\ FreshChest(c).item \in {"diamond", "overflow", Unassigned}
         /\ FreshChest(c).item \notin Pairs
         /\ FreshChest(DiamondChest).item = "diamond" /\ FreshChest(OverflowChest).item = "overflow"
BY StorageAssumption DEF FreshChest, Chest, Pairs, DiamondChest, OverflowChest

(* There are finitely many node ids. *)
LEMMA NodesAre ==
  /\ IsFiniteSet(NodeIds) /\ Cardinality(NodeIds) = MaxNode + 1
  /\ MaxNode \in Nat /\ NodeIds \subseteq Nat
BY StorageAssumption, FS_Interval DEF NodeIds

(* Nodes that are all different are no more than there are ids. *)
LEMMA NodesCount ==
  ASSUME NEW st, NodesOK(st)
  PROVE  /\ Len(st.nodes) \in Nat /\ Len(st.nodes) <= MaxNode + 1
         /\ IsFiniteSet(Range(st.nodes)) /\ Cardinality(Range(st.nodes)) <= Len(st.nodes)
         /\ Range(st.nodes) \in SUBSET NodeIds
<1> DEFINE s == st.nodes
           n == Len(s)
<1>1. s \in Seq(NodeIds) /\ IsInjective(s)
  BY DEF NodesOK, StorageOK
<1> HIDE DEF s
<1>2. n \in Nat /\ DOMAIN s = 1 .. n /\ s \in [1 .. n -> NodeIds]
  BY <1>1
<1> HIDE DEF n
<1>3. IsFiniteSet(1 .. n) /\ Cardinality(1 .. n) = n
  BY <1>2, FS_Interval
<1>4. s \in Injection(1 .. n, NodeIds)
  BY <1>1, <1>2 DEF Injection, IsInjective
<1>5. n <= MaxNode + 1
  BY <1>3, <1>4, NodesAre, FS_Injection
<1>6. s \in Surjection(1 .. n, Range(s))
  BY <1>2 DEF Surjection, Range
<1>7. IsFiniteSet(Range(s)) /\ Cardinality(Range(s)) <= n
  BY <1>3, <1>6, FS_Surjection
<1>8. Range(s) \in SUBSET NodeIds
  BY <1>2 DEF Range
<1> QED
  BY <1>2, <1>5, <1>7, <1>8 DEF s, n

(* The id of a new node is not in use, and is in range while there is one left. *)
LEMMA FreeIs ==
  ASSUME NEW st, NodesOK(st)
  PROVE  /\ FreeId(st.nodes) \in 0 .. MaxNode + 1 /\ FreeId(st.nodes) \notin Range(st.nodes)
         /\ Len(st.nodes) <= MaxNode => FreeId(st.nodes) \in NodeIds
<1> DEFINE F == {n \in 0 .. MaxNode + 1 : n \notin Range(st.nodes)}
<1>1. MaxNode \in Nat /\ Range(st.nodes) \subseteq NodeIds
  BY NodesCount, NodesAre
<1>2. F \in SUBSET Nat /\ MaxNode + 1 \in F
  BY <1>1 DEF NodeIds
<1>3. Min(F) \in F /\ \A i \in F : Min(F) <= i
  BY <1>2, MinIs
<1>4. ASSUME Len(st.nodes) <= MaxNode PROVE \E i \in F : i \in NodeIds
  <2> SUFFICES ASSUME \A i \in F : i \notin NodeIds PROVE FALSE
    OBVIOUS
  <2>1. NodeIds \subseteq Range(st.nodes)
    BY <1>1 DEF NodeIds
  <2>2. Cardinality(NodeIds) <= Cardinality(Range(st.nodes))
    BY <2>1, NodesCount, FS_Subset
  <2>3. Cardinality(Range(st.nodes)) \in Nat
    BY NodesCount, FS_CardinalityType
  <2> QED
    BY <1>4, <2>2, <2>3, NodesCount, NodesAre
<1>5. Len(st.nodes) <= MaxNode => Min(F) \in NodeIds
  <2> SUFFICES ASSUME Len(st.nodes) <= MaxNode PROVE Min(F) \in NodeIds
    OBVIOUS
  <2>1. PICK i \in F : i \in NodeIds
    BY <1>4
  <2>2. Min(F) \in Nat /\ Min(F) <= i
    BY <1>2, <1>3
  <2> QED
    BY <1>1, <2>1, <2>2 DEF NodeIds
<1>6. FreeId(st.nodes) = Min(F)
  BY DEF FreeId
<1> QED
  BY <1>3, <1>5, <1>6

(* A node more: the storage is extended by that node and by nothing else. *)
LEMMA WithNodeIs ==
  ASSUME NEW st, NodesOK(st), FreeId(st.nodes) \in NodeIds
  PROVE  /\ NodesOK(WithNode(st)) /\ Extends(st, WithNode(st))
         /\ Len(WithNode(st).nodes) = Len(st.nodes) + 1
         /\ Range(WithNode(st).nodes) = Range(st.nodes) \union {FreeId(st.nodes)}
         /\ \A c \in Chests : WithNode(st).chest[c] =
                                IF NodeOf(c) = FreeId(st.nodes) THEN FreshChest(c) ELSE st.chest[c]
<1> DEFINE n == FreeId(st.nodes)
           s == st.nodes
           t == Append(s, n)
           h == [c \in Chests |-> IF NodeOf(c) = n THEN FreshChest(c) ELSE st.chest[c]]
<1>1. WithNode(st).nodes = t /\ WithNode(st).chest = h
  BY DEF WithNode
<1>2. s \in Seq(NodeIds) /\ IsInjective(s) /\ n \in NodeIds /\ n \notin Range(s)
  BY FreeIs DEF NodesOK, StorageOK
<1>3. h \in [Chests -> Chest]
  BY FreshIs DEF NodesOK, StorageOK
<1> HIDE DEF s, n
<1>4. /\ t \in Seq(NodeIds) /\ Len(t) = Len(s) + 1 /\ Len(s) \in Nat
      /\ t[Len(s) + 1] = n /\ \A i \in 1 .. Len(s) : t[i] = s[i]
      /\ DOMAIN s = 1 .. Len(s) /\ DOMAIN t = 1 .. Len(s) + 1
  BY <1>2
<1> HIDE DEF t
<1>5. Range(t) = Range(s) \union {n}
  <2>1. ASSUME NEW i \in DOMAIN t PROVE t[i] \in Range(s) \union {n}
    BY <1>4 DEF Range
  <2>2. ASSUME NEW i \in DOMAIN s PROVE s[i] \in Range(t)
    BY <1>4 DEF Range
  <2>3. n \in Range(t)
    BY <1>4 DEF Range
  <2> QED
    BY <2>1, <2>2, <2>3 DEF Range
<1>6. IsInjective(t)
  <2> SUFFICES ASSUME NEW i \in DOMAIN t, NEW j \in DOMAIN t, t[i] = t[j] PROVE i = j
    BY DEF IsInjective
  <2>1. \A k \in 1 .. Len(s) : s[k] # n
    BY <1>2, <1>4 DEF Range
  <2>2. \A k \in DOMAIN t : k \in 1 .. Len(s) \/ k = Len(s) + 1
    BY <1>4
  <2> QED
    BY <1>2, <1>4, <2>1, <2>2 DEF IsInjective
<1>7. NodesOK(WithNode(st))
  BY <1>1, <1>3, <1>4, <1>6 DEF NodesOK, StorageOK
<1>8. Extends(st, WithNode(st))
  <2>1. \A c \in AllChests(st) : NodeOf(c) # n /\ c \in Chests
    BY <1>2 DEF AllChests, s
  <2>2. \A c \in AllChests(WithNode(st)) \ AllChests(st) : NodeOf(c) = n /\ c \in Chests
    BY <1>1, <1>5 DEF AllChests, s
  <2> QED
    BY <1>1, <1>5, <2>1, <2>2 DEF Extends, s
<1> QED
  BY <1>1, <1>4, <1>5, <1>7, <1>8 DEF s, n

(* Two extensions make one. *)
LEMMA ExtendsTransitive ==
  ASSUME NEW a, NEW b, NEW c, Extends(a, b), Extends(b, c)
  PROVE  Extends(a, c)
<1>1. AllChests(a) \subseteq AllChests(b) /\ AllChests(b) \subseteq AllChests(c) /\ AllChests(c) \subseteq Chests
  BY DEF Extends, AllChests
<1> QED
  BY <1>1 DEF Extends

(* Pairs have no more in a storage that has grown. *)
LEMMA TotalSame ==
  ASSUME NEW a, NEW b, Extends(a, b), NEW g \in Pairs
  PROVE  total_item_amount(a, g) = total_item_amount(b, g)
<1>1. AllChests(a) \subseteq AllChests(b) /\ AllChests(b) \subseteq Chests
  BY DEF Extends, AllChests
<1>2. \A c \in AllChests(b) \ AllChests(a) : b.chest[c].item # g
  BY <1>1, FreshIs DEF Extends
<1>3. \A c \in AllChests(a) : b.chest[c] = a.chest[c]
  BY DEF Extends
<1>4. Holding(a, g) = Holding(b, g) /\ Holding(a, g) \subseteq AllChests(a)
  BY <1>1, <1>2, <1>3 DEF Holding
<1>5. [c \in Holding(a, g) |-> a.chest[c].amount] = [c \in Holding(b, g) |-> b.chest[c].amount]
  BY <1>3, <1>4
<1> QED
  BY <1>5 DEF total_item_amount

---------------------------------------------------------------------------
(* Node after node. *)

Grows(a, most, st) ==
  st = [k \in 0 .. most |-> IF k = 0 THEN a ELSE WithNode(st[k - 1])]

(* The storages that nodes added one by one give are well defined, *)
LEMMA GrowsExists ==
  ASSUME NEW a, NEW most \in Nat
  PROVE  \E st : Grows(a, most, st)
<1> DEFINE Step(h, k) == IF k = 0 THEN a ELSE WithNode(h[k - 1])
           Partial(m, h) == h = [k \in 0 .. m |-> Step(h, k)]
           Missing == {m \in Nat : ~ \E h : Partial(m, h)}
<1>1. Missing = {}
  <2> SUFFICES ASSUME Missing # {} PROVE FALSE
    OBVIOUS
  <2>1. PICK m \in Missing : \A l \in Missing : m <= l
    BY LeastOf
  <2>2. CASE m = 0
    <3> DEFINE h == [k \in 0 .. 0 |-> a]
    <3>1. h = [k \in 0 .. 0 |-> Step(h, k)]
      BY \A k \in 0 .. 0 : k = 0
    <3> QED
      BY <2>1, <2>2, <3>1
  <2>3. CASE m # 0
    <3>1. m - 1 \in Nat /\ m - 1 \notin Missing
      <4> HIDE DEF Missing
      <4>1. m \in Nat
        BY <2>1 DEF Missing
      <4> QED
        BY <2>1, <2>3, <4>1
    <3>2. PICK g : Partial(m - 1, g)
      BY <3>1
    <3> DEFINE h == [k \in 0 .. m |-> Step(g, k)]
    <3>3. ASSUME NEW k \in 0 .. m PROVE Step(g, k) = Step(h, k)
      <4>1. CASE k = 0
        BY <4>1
      <4>2. CASE k # 0
        <5>1. k - 1 \in 0 .. m - 1 /\ k - 1 \in 0 .. m
          BY <2>1, <4>2
        <5>2. g[k - 1] = Step(g, k - 1)
          BY <3>2, <5>1
        <5>3. h[k - 1] = Step(g, k - 1)
          BY <5>1
        <5> QED
          BY <4>2, <5>2, <5>3
      <4> QED
        BY <4>1, <4>2
    <3>4. h = [k \in 0 .. m |-> Step(h, k)]
      <4>1. h = [k \in 0 .. m |-> Step(g, k)]
        OBVIOUS
      <4> HIDE DEF h, Step
      <4> QED
        BY <4>1, <3>3
    <3> QED
      BY <2>1, <3>4
  <2> QED
    BY <2>2, <2>3
<1>2. PICK h : Partial(most, h)
  BY <1>1
<1> QED
  BY <1>2 DEF Grows

(* A storage extends itself. *)
LEMMA ExtendsItself ==
  ASSUME NEW a
  PROVE  Extends(a, a)
BY DEF Extends, AllChests

(* and each extends the one before. *)
LEMMA GrowsIs ==
  ASSUME NEW a, NodesOK(a), NEW most \in Nat, Len(a.nodes) + most <= MaxNode + 1,
         NEW st, Grows(a, most, st)
  PROVE  \A i \in 0 .. most :
           /\ NodesOK(st[i]) /\ Extends(a, st[i]) /\ Len(st[i].nodes) = Len(a.nodes) + i
           /\ i > 0 => Extends(st[i - 1], st[i])
<1> DEFINE Right(i) == NodesOK(st[i]) /\ Extends(a, st[i]) /\ Len(st[i].nodes) = Len(a.nodes) + i
           Wrong == {k \in 0 .. most : ~Right(k)}
<1>0. Len(a.nodes) \in Nat /\ MaxNode \in Nat
  BY NodesCount, NodesAre
<1>1. ASSUME NEW k \in 0 .. most, k # 0, Right(k - 1)
      PROVE  Right(k) /\ Extends(st[k - 1], st[k])
  <2>1. st[k] = WithNode(st[k - 1])
    BY <1>1 DEF Grows
  <2>2. Len(st[k - 1].nodes) <= MaxNode
    BY <1>0, <1>1
  <2>3. FreeId(st[k - 1].nodes) \in NodeIds
    BY <1>1, <2>2, FreeIs
  <2>4. /\ NodesOK(st[k]) /\ Extends(st[k - 1], st[k])
        /\ Len(st[k].nodes) = Len(st[k - 1].nodes) + 1
    BY <1>1, <2>1, <2>3, WithNodeIs
  <2>5. Extends(a, st[k])
    BY <1>1, <2>4, ExtendsTransitive
  <2>6. Len(st[k].nodes) = Len(a.nodes) + k
    BY <1>0, <1>1, <2>4
  <2> QED
    BY <2>4, <2>5, <2>6
<1>2. Wrong = {}
  <2> SUFFICES ASSUME Wrong # {} PROVE FALSE
    OBVIOUS
  <2>0. Wrong \in SUBSET Nat
    OBVIOUS
  <2>1. PICK k \in Wrong : \A l \in Wrong : k <= l
    BY <2>0, LeastOf
  <2>2. k \in 0 .. most /\ k \in Nat /\ ~Right(k)
    BY <2>1
  <2>3. k # 0
    <3>1. 0 \in 0 .. most
      OBVIOUS
    <3>2. st[0] = a
      BY <3>1 DEF Grows
    <3>3. Right(0)
      BY <1>0, <3>2, ExtendsItself
    <3> QED
      BY <2>2, <3>3
  <2>4. k - 1 \in 0 .. most /\ k - 1 \notin Wrong
    <3> HIDE DEF Wrong
    <3> QED
      BY <2>1, <2>2, <2>3, ConcatProperties
  <2>5. Right(k - 1)
    BY <2>4
  <2> QED
    BY <1>1, <2>2, <2>3, <2>5
<1>3. ASSUME NEW i \in 0 .. most PROVE Right(i)
  BY <1>2
<1>4. ASSUME NEW i \in 0 .. most, i > 0 PROVE Extends(st[i - 1], st[i])
  <2>1. i # 0 /\ i - 1 \in 0 .. most
    BY <1>4
  <2>2. Right(i - 1)
    BY <2>1, <1>3
  <2> QED
    BY <1>1, <2>1, <2>2
<1> QED
  BY <1>3, <1>4

(* What a deposit can aim at, of a storage that has grown: a chest of the good
   or one that is to be its first. *)
LEMMA GrownIs ==
  ASSUME NodesOK(St), NEW n \in Nat, NEW failsAt \in Nat
  PROVE  LET g == Grown(n, failsAt)
         IN /\ NodesOK(g.storage) /\ Extends(St, g.storage)
            /\ g.plan \in Seq(Transfer)
            /\ \A k \in DOMAIN g.plan :
                 g.storage.chest[g.plan[k].chest].item \in {"diamond", Unassigned}
            /\ g.saved \in SUBSET NodeIds
<1> DEFINE most == Least(MaxGrowth, MaxNode + 1 - Len(nodes))
           st == CHOOSE h : Grows(St, most, h)
           covers(k) == Planned(simulate_deposit_plan(st[k], "diamond", n))
           stops(k)  == \/ covers(k) = n \/ k = most
                        \/ k > 0 /\ (k = failsAt \/ covers(k) <= covers(k - 1))
           stopping == {k \in 0 .. most : stops(k)}
           last == Min(stopping)
           used == IF last > 0 /\ last = failsAt THEN last - 1 ELSE last
           p == simulate_deposit_plan(st[used], "diamond", n)
           saved == Range(st[used].nodes) \ Range(nodes)
<1>1. Grown(n, failsAt) = [storage |-> st[last], plan |-> p, saved |-> saved, fails |-> used < last]
  BY DEF Grown, Grows
<1>2. St.nodes = nodes /\ Len(nodes) \in Nat /\ Len(nodes) <= MaxNode + 1 /\ MaxNode \in Nat
  <2>1. St.nodes = nodes
    BY DEF St
  <2> QED
    BY <2>1, NodesCount, NodesAre
<1>3. most \in Nat /\ Len(St.nodes) + most <= MaxNode + 1
  BY <1>2, OperatorAssumption DEF Least
<1> HIDE DEF most
<1>4. Grows(St, most, st)
  BY <1>3, GrowsExists
<1> HIDE DEF st
<1>5. \A i \in 0 .. most : /\ NodesOK(st[i]) /\ Extends(St, st[i])
                           /\ i > 0 => Extends(st[i - 1], st[i])
  BY <1>3, <1>4, GrowsIs
<1>6. last \in 0 .. most
  <2>1. most \in stopping
    BY <1>3
  <2>2. stopping \in SUBSET Nat
    BY <1>3
  <2> HIDE DEF stopping
  <2>3. last \in stopping
    BY <2>1, <2>2, MinIs
  <2> QED
    BY <2>3 DEF stopping
<1> HIDE DEF last
<1>7. used \in 0 .. most /\ Extends(st[used], st[last])
  <2>1. CASE last > 0 /\ last = failsAt
    <3>1. used = last - 1
      BY <2>1
    <3> QED
      BY <1>3, <1>5, <1>6, <2>1, <3>1
  <2>2. CASE ~(last > 0 /\ last = failsAt)
    <3>1. used = last
      BY <2>2
    <3> QED
      BY <1>6, <3>1, ExtendsItself
  <2> QED
    BY <2>1, <2>2
<1> HIDE DEF used
<1>8. StorageOK(st[used]) /\ "diamond" \in Goods
  BY <1>5, <1>7, StorageAssumption DEF NodesOK
<1>9. /\ p \in Seq(Transfer)
      /\ \A k \in DOMAIN p : p[k].chest \in Own(st[used], "diamond") \union Empty(st[used], "diamond")
  BY <1>8, DepositIs
<1>10. ASSUME NEW k \in DOMAIN p PROVE st[last].chest[p[k].chest].item \in {"diamond", Unassigned}
  <2> DEFINE c == p[k].chest
  <2>1. c \in Own(st[used], "diamond") \union Empty(st[used], "diamond")
    BY <1>9
  <2> HIDE DEF c, p
  <2>2. c \in AllChests(st[used]) /\ st[used].chest[c].item \in {"diamond", Unassigned}
    BY <2>1 DEF Own, Holding, Empty
  <2>3. st[last].chest[c] = st[used].chest[c]
    BY <1>7, <2>2 DEF Extends
  <2> QED
    BY <2>2, <2>3 DEF c
<1>11. saved \in SUBSET NodeIds
  BY <1>5, <1>7, NodesCount
<1> HIDE DEF p, saved
<1> QED
  BY <1>1, <1>5, <1>6, <1>9, <1>10, <1>11

(* A node taken out of the order they were added in. *)
LEMMA RemovedIs ==
  ASSUME NEW s \in Seq(NodeIds), IsInjective(s), NEW i \in DOMAIN s
  PROVE  /\ RemoveAt(s, i) \in Seq(NodeIds) /\ IsInjective(RemoveAt(s, i))
         /\ Range(RemoveAt(s, i)) = Range(s) \ {s[i]}
<1> DEFINE r == RemoveAt(s, i)
           At1(j) == IF j < i THEN j ELSE j + 1
<1>1. /\ Len(s) \in Nat /\ i \in 1 .. Len(s) /\ DOMAIN s = 1 .. Len(s)
  OBVIOUS
<1>2. /\ r \in Seq(NodeIds) /\ Len(r) = Len(s) - 1
      /\ \A j \in 1 .. Len(s) - 1 : r[j] = s[At1(j)]
  <2> DEFINE a == SubSeq(s, 1, i - 1)
             b == SubSeq(s, i + 1, Len(s))
  <2>1. a \in Seq(NodeIds) /\ Len(a) = i - 1 /\ \A j \in 1 .. i - 1 : a[j] = s[j]
    BY <1>1
  <2>2. b \in Seq(NodeIds) /\ Len(b) = Len(s) - i /\ \A j \in 1 .. Len(s) - i : b[j] = s[i + j]
    BY <1>1
  <2>3. r = a \o b
    BY DEF RemoveAt
  <2> HIDE DEF a, b, r
  <2>4. /\ r \in Seq(NodeIds) /\ Len(r) = Len(a) + Len(b)
        /\ \A j \in 1 .. Len(a) + Len(b) : r[j] = IF j <= Len(a) THEN a[j] ELSE b[j - Len(a)]
    BY <2>1, <2>2, <2>3, ConcatProperties
  <2>5. ASSUME NEW j \in 1 .. Len(s) - 1 PROVE r[j] = s[At1(j)]
    <3>1. CASE j < i
      BY <1>1, <2>1, <2>2, <2>4, <3>1
    <3>2. CASE ~(j < i)
      <4>1. j - Len(a) \in 1 .. Len(s) - i /\ i + (j - Len(a)) = j + 1 /\ ~(j <= Len(a))
        BY <1>1, <2>1, <3>2
      <4>2. j \in 1 .. Len(a) + Len(b)
        BY <1>1, <2>1, <2>2
      <4>3. r[j] = b[j - Len(a)]
        BY <2>4, <4>1, <4>2
      <4> QED
        BY <2>2, <3>2, <4>1, <4>3
    <3> QED
      BY <3>1, <3>2
  <2> QED
    BY <1>1, <2>1, <2>2, <2>4, <2>5
<1> HIDE DEF r
<1>3. DOMAIN r = 1 .. Len(s) - 1
  BY <1>2
<1>4. ASSUME NEW j \in DOMAIN r PROVE At1(j) \in DOMAIN s \ {i} /\ r[j] = s[At1(j)]
  BY <1>1, <1>2, <1>3
<1>5. ASSUME NEW k \in DOMAIN s \ {i}
      PROVE  \E j \in DOMAIN r : r[j] = s[k]
  <2>1. CASE k < i
    <3>1. k \in DOMAIN r /\ At1(k) = k
      BY <1>1, <1>3, <2>1
    <3> QED
      BY <1>4, <3>1
  <2>2. CASE ~(k < i)
    <3>1. k - 1 \in DOMAIN r /\ At1(k - 1) = k
      BY <1>1, <1>3, <2>2
    <3> QED
      BY <1>4, <3>1
  <2> QED
    BY <2>1, <2>2
<1>6. IsInjective(r)
  <2> SUFFICES ASSUME NEW j \in DOMAIN r, NEW k \in DOMAIN r, r[j] = r[k] PROVE j = k
    BY DEF IsInjective
  <2>1. At1(j) = At1(k)
    <3> HIDE DEF At1
    <3> QED
      BY <1>4 DEF IsInjective
  <2> QED
    BY <1>1, <1>3, <2>1
<1> HIDE DEF At1
<1>7. Range(r) = Range(s) \ {s[i]}
  <2>1. ASSUME NEW j \in DOMAIN r PROVE r[j] \in Range(s) \ {s[i]}
    BY <1>4 DEF Range, IsInjective
  <2>2. ASSUME NEW x \in Range(s) \ {s[i]} PROVE x \in Range(r)
    <3>1. PICK k \in DOMAIN s : s[k] = x
      BY DEF Range
    <3> QED
      BY <1>5, <3>1 DEF Range
  <2> QED
    BY <2>1, <2>2 DEF Range
<1> QED
  BY <1>2, <1>6, <1>7 DEF r

---------------------------------------------------------------------------
(* The inductive invariant. *)

(* What reached the bot is with the bot or in a chest. *)
Stacked(g)  == SumFunction([c \in Chests |-> world[c][g]])
Conserved   == \A g \in Goods : supplied[g] = bot[g] + Stacked(g)

(* The assignment of the first two chests is never changed. *)
Reserved == chest[DiamondChest].item = "diamond" /\ chest[OverflowChest].item = "overflow"

(* Which good a handler has in hand, and that none is left between two. *)
Kind == /\ pc = "idle" => good = "diamond" /\ plan = <<>> /\ done = <<>>
        /\ pc \notin {"idle", "putback"} => good \in Pairs

(* A transfer goes to a chest of the good, or to one that is to be its first. *)
Meant(p) == \A k \in DOMAIN p : chest[p[k].chest].item \in {good, Unassigned}
Aimed    == Meant(plan) /\ Meant(done)

(* A plan visits a chest once, of a node in memory, for what the picture says
   it holds or has room for. *)
Fits ==
  pc \in {"trade", "store", "pull"} =>
    /\ Distinct(plan)
    /\ \A k \in DOMAIN plan :
         LET c == plan[k].chest
         IN /\ NodeOf(c) \in Range(nodes)
            /\ IF pc = "pull" THEN chest[c].item = good /\ plan[k].amount <= chest[c].amount
               ELSE plan[k].amount <= Space(St, good, c)

(* While no handler has a pair's goods under way, the books are the picture. *)
Books == (pc = "trade" \/ good = "diamond") /\ ~unbooked => Booked

Inv == /\ TypeOK /\ Conserved /\ Reserved /\ Kind /\ Aimed /\ Fits /\ PictureIsTrue /\ Books

(* The storage of the variables is one of the lemmas above. *)
LEMMA StOK ==
  ASSUME TypeOK
  PROVE  NodesOK(St) /\ St.nodes = nodes /\ St.chest = chest
BY DEF TypeOK, NodesOK, StorageOK, St

(* It holds of a storage of one node, all of it empty. *)
LEMMA Initially ==
  ASSUME Init
  PROVE  Inv
<1> USE DEF Init
<1>1. TypeOK
  <2>1. nodes \in Seq(NodeIds) /\ IsInjective(nodes) /\ disk \subseteq NodeIds
    <3>1. 0 \in NodeIds
      BY StorageAssumption DEF NodeIds
    <3> QED
      BY <3>1 DEF IsInjective
  <2>2. chest \in [Chests -> Chest]
    BY FreshIs
  <2>3. item_stock \in [Pairs -> Nat] /\ world \in [Chests -> [Goods -> Nat]]
        /\ bot \in [Goods -> Nat] /\ supplied \in [Goods -> Nat]
    BY DEF Zero
  <2>4. good \in Goods /\ qty \in Nat /\ faults \in 0 .. MaxFault /\ unsynced \subseteq Chests
    BY StorageAssumption, OperatorAssumption
  <2>5. plan \in Seq(Transfer) /\ done \in Seq(Transfer)
        /\ pc \in {"idle", "trade", "store", "giveback", "pull", "unpull", "hand", "putback", "tail"}
    OBVIOUS
  <2>6. unbooked \in BOOLEAN
    OBVIOUS
  <2> HIDE DEF Init
  <2> QED
    BY <2>1, <2>2, <2>3, <2>4, <2>5, <2>6 DEF TypeOK
<1>2. Conserved
  <2> SUFFICES ASSUME NEW g \in Goods PROVE supplied[g] = bot[g] + Stacked(g)
    BY DEF Conserved
  <2>1. \A c \in Chests : world[c][g] = 0
    BY DEF Zero
  <2>2. Stacked(g) = 0
    BY <2>1, ChestsAre, SumOfZeros DEF Stacked
  <2> QED
    BY <2>2 DEF Zero
<1>3. Reserved
  BY ChestsAre, FreshIs DEF Reserved
<1>4. Kind /\ Aimed /\ Fits
  BY DEF Kind, Aimed, Meant, Fits
<1>5. PictureIsTrue
  BY ChestsAre, FreshIs DEF PictureIsTrue, Zero
<1>6. Books
  <2> SUFFICES ASSUME NEW g \in Pairs PROVE item_stock[g] = Total(g)
    BY DEF Books, Booked
  <2>1. Holding(St, g) = {}
    BY FreshIs DEF Holding, AllChests, St
  <2>2. Total(g) = 0
    <3> DEFINE f == [c \in Holding(St, g) |-> St.chest[c].amount]
    <3>1. f \in [Holding(St, g) -> Nat] /\ IsFiniteSet(Holding(St, g))
      BY <2>1, FS_EmptySet
    <3> HIDE DEF f
    <3>2. SumFunction(f) = 0
      BY <2>1, <3>1, SumIsNat
    <3> QED
      BY <3>2 DEF f, Total, total_item_amount
  <2> QED
    BY <2>2
<1> QED
  BY <1>1, <1>2, <1>3, <1>4, <1>5, <1>6 DEF Inv

---------------------------------------------------------------------------
(* Steps that leave the storage and the chests as they are. *)

(* What the chests hold of a good is a number, *)
LEMMA StackedIs ==
  ASSUME TypeOK, NEW g \in Goods
  PROVE  Stacked(g) \in Nat
<1> DEFINE f == [c \in Chests |-> world[c][g]]
<1>1. f \in [Chests -> Nat]
  BY DEF TypeOK
<1> HIDE DEF f
<1>2. SumFunction(f) \in Nat
  BY <1>1, ChestsAre, SumIsNat
<1> QED
  BY <1>2 DEF Stacked, f

(* and so is what their picture holds. *)
LEMMA TotalIs ==
  ASSUME TypeOK, NEW g \in Goods
  PROVE  Total(g) \in Nat
<1> DEFINE f == [c \in Holding(St, g) |-> St.chest[c].amount]
<1>1. Holding(St, g) \in SUBSET Chests
  BY DEF Holding, AllChests
<1>2. IsFiniteSet(Holding(St, g))
  BY <1>1, ChestsAre, FS_Subset
<1>3. f \in [Holding(St, g) -> Nat]
  BY <1>1, StOK DEF TypeOK, Chest
<1> HIDE DEF f
<1>4. SumFunction(f) \in Nat
  BY <1>2, <1>3, SumIsNat
<1> QED
  BY <1>4 DEF Total, total_item_amount, f

(* With the same chests in the world and in the picture, what is true of them stays so. *)
LEMMA PictureStays ==
  ASSUME Inv, UNCHANGED <<nodes, chest, world, unsynced>>
  PROVE  /\ Reserved' /\ PictureIsTrue'
         /\ \A g \in Goods : Stacked(g)' = Stacked(g)
         /\ Booked' <=> \A g \in Pairs : item_stock'[g] = Total(g)
<1>1. Reserved'
  BY DEF Inv, Reserved
<1>2. PictureIsTrue'
  BY DEF Inv, PictureIsTrue
<1>3. St' = St
  BY DEF St
<1> QED
  BY <1>1, <1>2, <1>3 DEF Stacked, Booked, Total

(* Goods that come from outside, and goods that leave. *)
LEMMA Received ==
  ASSUME Inv, NEW g \in Goods, NEW n \in Nat,
         bot' = [bot EXCEPT ![g] = @ + n], supplied' = [supplied EXCEPT ![g] = @ + n]
  PROVE  /\ bot' \in [Goods -> Nat] /\ supplied' \in [Goods -> Nat]
         /\ \A h \in Goods : supplied'[h] = bot'[h] + Stacked(h)
<1>1. /\ bot \in [Goods -> Nat] /\ supplied \in [Goods -> Nat]
      /\ \A h \in Goods : supplied[h] = bot[h] + Stacked(h)
  BY DEF Inv, TypeOK, Conserved
<1>2. \A h \in Goods : Stacked(h) \in Nat
  BY StackedIs DEF Inv
<1> QED
  BY <1>1, <1>2

(* Goods that leave with the operator: no more than the bot has. *)
LEMMA Given ==
  ASSUME Inv, NEW g \in Goods, NEW n \in Nat, n <= bot[g],
         bot' = [bot EXCEPT ![g] = @ - n], supplied' = [supplied EXCEPT ![g] = @ - n]
  PROVE  /\ bot' \in [Goods -> Nat] /\ supplied' \in [Goods -> Nat]
         /\ \A h \in Goods : supplied'[h] = bot'[h] + Stacked(h)
<1>1. /\ bot \in [Goods -> Nat] /\ supplied \in [Goods -> Nat]
      /\ \A h \in Goods : supplied[h] = bot[h] + Stacked(h)
  BY DEF Inv, TypeOK, Conserved
<1>2. \A h \in Goods : Stacked(h) \in Nat
  BY StackedIs DEF Inv
<1>3. bot[g] - n \in Nat /\ supplied[g] - n \in Nat
  BY <1>1, <1>2
<1> QED
  BY <1>1, <1>2, <1>3

(* The books that have the picture's totals. *)
LEMMA RepairedIs ==
  ASSUME TypeOK, Repaired
  PROVE  /\ item_stock' \in [Pairs -> Nat]
         /\ \A g \in Pairs : item_stock'[g] = Total(g)
BY TotalIs DEF Repaired, Pairs

(* A handler that returns, its goods and its books in order. *)
LEMMA Ends ==
  ASSUME Inv, Rest, UNCHANGED <<storage, disk, world, unsynced>>,
         item_stock' \in [Pairs -> Nat], faults' \in 0 .. MaxFault, unbooked' \in BOOLEAN,
         bot' \in [Goods -> Nat], supplied' \in [Goods -> Nat],
         \A h \in Goods : supplied'[h] = bot'[h] + Stacked(h),
         ~unbooked' => \A g \in Pairs : item_stock'[g] = Total(g)
  PROVE  Inv'
<1>1. UNCHANGED <<nodes, chest, disk, world, unsynced>>
  BY DEF storage
<1>2. pc' = "idle" /\ good' = "diamond" /\ qty' = 0 /\ plan' = <<>> /\ done' = <<>>
  BY DEF Rest, Goto
<1>3. TypeOK'
  <2>1. /\ (nodes \in Seq(NodeIds) /\ IsInjective(nodes))'
        /\ (chest \in [Chests -> Chest] /\ disk \subseteq NodeIds)'
        /\ (world \in [Chests -> [Goods -> Nat]] /\ unsynced \subseteq Chests)'
    BY <1>1 DEF Inv, TypeOK
  <2>2. /\ pc' \in {"idle", "trade", "store", "giveback", "pull", "unpull", "hand", "putback", "tail"}
        /\ good' \in Goods /\ qty' \in Nat /\ plan' \in Seq(Transfer) /\ done' \in Seq(Transfer)
    BY <1>2, StorageAssumption
  <2> QED
    BY <2>1, <2>2 DEF TypeOK
<1>4. Reserved' /\ PictureIsTrue' /\ Conserved'
  BY <1>1, PictureStays DEF Conserved
<1>5. Kind' /\ Aimed' /\ Fits'
  BY <1>2 DEF Kind, Aimed, Meant, Fits
<1>6. Books'
  BY <1>1, PictureStays DEF Books
<1> QED
  BY <1>3, <1>4, <1>5, <1>6 DEF Inv

(* A handler that goes on with what it has in hand. *)
LEMMA GoesOn ==
  ASSUME Inv, UNCHANGED <<storage, disk, world, item_stock, good, qty, unsynced, unbooked>>,
         pc' \in {"store", "hand", "putback", "tail"},
         pc' = "store" => pc = "trade" /\ plan' = plan, pc' # "putback" => good \in Pairs,
         (plan' = plan /\ done' = done) \/ (plan' = done /\ done' = <<>>),
         bot' \in [Goods -> Nat], supplied' \in [Goods -> Nat], faults' \in 0 .. MaxFault,
         \A h \in Goods : supplied'[h] = bot'[h] + Stacked(h)
  PROVE  Inv'
<1>1. UNCHANGED <<nodes, chest, disk, world, item_stock, good, qty, unsynced>> /\ unbooked' = unbooked
  BY DEF storage
<1>2. TypeOK'
  <2>1. /\ (nodes \in Seq(NodeIds) /\ IsInjective(nodes))'
        /\ (chest \in [Chests -> Chest] /\ disk \subseteq NodeIds /\ item_stock \in [Pairs -> Nat])'
        /\ (world \in [Chests -> [Goods -> Nat]] /\ unsynced \subseteq Chests)'
        /\ (good \in Goods /\ qty \in Nat)'
    BY <1>1 DEF Inv, TypeOK
  <2>2. plan' \in Seq(Transfer) /\ done' \in Seq(Transfer)
    <3>1. plan \in Seq(Transfer) /\ done \in Seq(Transfer)
      BY DEF Inv, TypeOK
    <3>2. <<>> \in Seq(Transfer)
      OBVIOUS
    <3>3. CASE plan' = plan /\ done' = done
      BY ONLY <3>1, <3>3
    <3>4. CASE plan' = done /\ done' = <<>>
      BY ONLY <3>1, <3>2, <3>4
    <3> QED
      BY <3>3, <3>4
  <2>3. pc' \in {"idle", "trade", "store", "giveback", "pull", "unpull", "hand", "putback", "tail"}
    OBVIOUS
  <2>4. unbooked' \in BOOLEAN
    BY <1>1 DEF Inv, TypeOK
  <2> QED
    BY <2>1, <2>2, <2>3, <2>4 DEF TypeOK
<1>3. Reserved' /\ PictureIsTrue' /\ Conserved'
  BY <1>1, PictureStays DEF Conserved
<1>4. Kind'
  BY <1>1 DEF Kind
<1>5. Aimed'
  <2>1. Meant(plan)' /\ Meant(done)'
    BY <1>1 DEF Inv, Aimed, Meant
  <2> QED
    BY <2>1 DEF Aimed
<1>6. Fits'
  <2>1. CASE pc' = "store"
    <3>1. plan' = plan /\ pc = "trade" /\ St' = St
      BY <2>1, <1>1 DEF St
    <3>2. /\ Distinct(plan)
          /\ \A k \in DOMAIN plan : /\ NodeOf(plan[k].chest) \in Range(nodes)
                                    /\ plan[k].amount <= Space(St, good, plan[k].chest)
      BY <3>1 DEF Inv, Fits
    <3> QED
      BY <2>1, <1>1, <3>1, <3>2 DEF Fits, Distinct
  <2>2. CASE pc' # "store"
    BY <2>2 DEF Fits
  <2> QED
    BY <2>1, <2>2
<1>7. Books'
  <2>1. good = "diamond" /\ ~unbooked => Booked
    BY DEF Inv, Books
  <2>2. good' = "diamond" /\ ~unbooked' => Booked'
    BY <1>1, <2>1, PictureStays DEF Booked
  <2> QED
    BY <2>2 DEF Books
<1> QED
  BY <1>2, <1>3, <1>4, <1>5, <1>6, <1>7 DEF Inv

(* No goods come or go. *)
LEMMA SameGoods ==
  ASSUME Inv, bot' = bot, supplied' = supplied
  PROVE  /\ bot' \in [Goods -> Nat] /\ supplied' \in [Goods -> Nat]
         /\ \A h \in Goods : supplied'[h] = bot'[h] + Stacked(h)
BY DEF Inv, TypeOK, Conserved

(* The number of faults stays within its bound. *)
LEMMA FaultIs ==
  ASSUME TypeOK, faults' = faults \/ Fault
  PROVE  faults' \in 0 .. MaxFault
BY OperatorAssumption DEF TypeOK, Fault

(* A handler that goes on, or returns, without a look at the chests. *)
LEMMA QuietSteps ==
  ASSUME Inv, \/ Handed \/ GivenBack \/ NotGivenBack \/ HandedOver \/ NotHandedOver
              \/ PutbackEnds /\ good # "diamond"
  PROVE  Inv'
<1>1. /\ good \in Goods /\ qty \in Nat /\ TypeOK /\ bot \in [Goods -> Nat]
      /\ pc \notin {"idle", "putback"} => good \in Pairs
      /\ good # "diamond" => good \in Pairs
  BY DEF Inv, TypeOK, Kind, Pairs
<1>2. CASE Handed
  <2> USE <1>2 DEF Handed, Exchanged, Goto
  <2>1. /\ bot' \in [Goods -> Nat] /\ supplied' \in [Goods -> Nat]
        /\ \A h \in Goods : supplied'[h] = bot'[h] + Stacked(h)
    BY <1>1, Received
  <2>2. faults' \in 0 .. MaxFault
    BY <1>1, FaultIs
  <2>3. /\ UNCHANGED <<storage, disk, world, item_stock, good, qty, unsynced, unbooked>>
        /\ pc' = "store" /\ pc = "trade" /\ good \in Pairs /\ plan' = plan /\ done' = done
    BY <1>1
  <2> QED
    BY ONLY <2>1, <2>2, <2>3, GoesOn, Inv
<1>3. CASE GivenBack
  <2> DEFINE rest == qty - Planned(done)
  <2>1. /\ rest \in 0 .. bot[good]
        /\ bot' = [bot EXCEPT ![good] = @ - rest]
        /\ supplied' = [supplied EXCEPT ![good] = @ - rest]
    BY <1>3 DEF GivenBack
  <2> HIDE DEF rest
  <2>2. rest \in Nat /\ rest <= bot[good]
    BY <1>1, <2>1
  <2>3. /\ bot' \in [Goods -> Nat] /\ supplied' \in [Goods -> Nat]
        /\ \A h \in Goods : supplied'[h] = bot'[h] + Stacked(h)
    BY <1>1, <2>1, <2>2, Given
  <2>4. faults' \in 0 .. MaxFault
    BY <1>1, <1>3, FaultIs DEF GivenBack
  <2>5. /\ UNCHANGED <<storage, disk, world, item_stock, good, qty, unsynced, unbooked>>
        /\ pc' = "tail" /\ good \in Pairs /\ plan' = plan /\ done' = done
    BY <1>1, <1>3 DEF GivenBack, Goto
  <2> QED
    BY ONLY <2>3, <2>4, <2>5, GoesOn, Inv
<1>4. CASE NotGivenBack
  <2> USE <1>4 DEF NotGivenBack, Goto, bounds
  <2>1. faults' \in 0 .. MaxFault
    BY <1>1, FaultIs
  <2>2. /\ UNCHANGED <<storage, disk, world, item_stock, good, qty, unsynced, unbooked>>
        /\ pc' = "tail" /\ good \in Pairs /\ plan' = plan /\ done' = done
        /\ bot' = bot /\ supplied' = supplied
    BY <1>1
  <2> QED
    BY ONLY <2>1, <2>2, SameGoods, GoesOn, Inv
<1>5. CASE HandedOver
  <2> USE <1>5 DEF HandedOver, Goto
  <2>1. /\ bot' \in [Goods -> Nat] /\ supplied' \in [Goods -> Nat]
        /\ \A h \in Goods : supplied'[h] = bot'[h] + Stacked(h)
    BY <1>1, Given
  <2>2. faults' \in 0 .. MaxFault
    BY <1>1, FaultIs
  <2>3. /\ UNCHANGED <<storage, disk, world, item_stock, good, qty, unsynced, unbooked>>
        /\ pc' = "tail" /\ good \in Pairs /\ plan' = plan /\ done' = done
    BY <1>1
  <2> QED
    BY ONLY <2>1, <2>2, <2>3, GoesOn, Inv
<1>6. CASE NotHandedOver
  <2> USE <1>6 DEF NotHandedOver, Goto, bounds
  <2>1. faults' \in 0 .. MaxFault
    BY <1>1, FaultIs
  <2>2. /\ UNCHANGED <<storage, disk, world, item_stock, good, qty, unsynced, unbooked>>
        /\ pc' = "putback" /\ plan' = done /\ done' = <<>>
        /\ bot' = bot /\ supplied' = supplied
    BY <1>1
  <2> QED
    BY ONLY <2>1, <2>2, SameGoods, GoesOn, Inv
<1>7. CASE PutbackEnds /\ good # "diamond"
  <2> USE <1>7 DEF PutbackEnds, Goto, bounds
  <2>1. faults' \in 0 .. MaxFault
    BY <1>1, FaultIs
  <2>2. /\ UNCHANGED <<storage, disk, world, item_stock, good, qty, unsynced, unbooked>>
        /\ pc' = "tail" /\ good \in Pairs /\ plan' = plan /\ done' = done
        /\ bot' = bot /\ supplied' = supplied
    BY <1>1
  <2> QED
    BY ONLY <2>1, <2>2, SameGoods, GoesOn, Inv
<1> QED
  BY <1>2, <1>3, <1>4, <1>5, <1>6, <1>7

(* A handler that returns. *)
LEMMA LastSteps ==
  ASSUME Inv, \/ NotHanded \/ HandedUnheard \/ HandoverUnheard \/ UnpullEnds \/ Settle
              \/ PutbackEnds /\ good = "diamond"
  PROVE  Inv'
<1>1. /\ good \in Goods /\ qty \in Nat /\ TypeOK /\ item_stock \in [Pairs -> Nat]
  BY DEF Inv, TypeOK
<1>2. unbooked \in BOOLEAN
  BY DEF Inv, TypeOK
<1>3. (pc = "trade" \/ good = "diamond") /\ ~unbooked => \A g \in Pairs : item_stock[g] = Total(g)
  BY DEF Inv, Books, Booked
<1>4. CASE NotHanded
  <2>1. pc = "trade" /\ Rest /\ UNCHANGED <<storage, disk, world, item_stock, unsynced, bot, supplied, faults>>
    BY <1>4 DEF NotHanded, bounds
  <2>2. unbooked' = unbooked
    BY <1>4 DEF NotHanded
  <2>3. faults' \in 0 .. MaxFault
    BY <1>1, <2>1, FaultIs
  <2> QED
    BY <1>1, <1>2, <1>3, <2>1, <2>2, <2>3, SameGoods, Ends
<1>5. CASE HandedUnheard
  <2>1. pc = "trade" /\ Rest /\ Fault /\ Exchanged /\ UNCHANGED <<storage, disk, world, item_stock, unsynced>>
    BY <1>5 DEF HandedUnheard
  <2>2. unbooked' = unbooked
    BY <1>5 DEF HandedUnheard
  <2>3. faults' \in 0 .. MaxFault
    BY <1>1, <2>1, FaultIs
  <2>4. /\ bot' \in [Goods -> Nat] /\ supplied' \in [Goods -> Nat]
        /\ \A h \in Goods : supplied'[h] = bot'[h] + Stacked(h)
    BY <1>1, <2>1, Received DEF Exchanged
  <2> QED
    BY <1>1, <1>2, <1>3, <2>1, <2>2, <2>3, <2>4, Ends
<1>6. CASE HandoverUnheard
  <2>1. Rest /\ Fault /\ UNCHANGED <<storage, disk, world, item_stock, unsynced>>
    BY <1>6 DEF HandoverUnheard
  <2>2. unbooked' = TRUE
    BY <1>6 DEF HandoverUnheard
  <2>3. faults' \in 0 .. MaxFault
    BY <1>1, <2>1, FaultIs
  <2>4. /\ bot' \in [Goods -> Nat] /\ supplied' \in [Goods -> Nat]
        /\ \A h \in Goods : supplied'[h] = bot'[h] + Stacked(h)
    <3>1. CASE bot' = bot /\ supplied' = supplied
      BY <3>1, SameGoods
    <3>2. CASE /\ qty <= bot[good]
               /\ bot' = [bot EXCEPT ![good] = @ - qty]
               /\ supplied' = [supplied EXCEPT ![good] = @ - qty]
      BY <1>1, <3>2, Given
    <3> QED
      BY <1>6, <3>1, <3>2 DEF HandoverUnheard
  <2> QED
    BY <1>1, <2>1, <2>2, <2>3, <2>4, Ends
<1>7. CASE UnpullEnds
  <2>1. Rest /\ UNCHANGED <<storage, disk, world, item_stock, unsynced, bot, supplied, faults>>
    BY <1>7 DEF UnpullEnds, bounds
  <2>2. unbooked' = TRUE
    BY <1>7 DEF UnpullEnds
  <2>3. faults' \in 0 .. MaxFault
    BY <1>1, <2>1, FaultIs
  <2> QED
    BY <1>1, <2>1, <2>2, <2>3, SameGoods, Ends
<1>8. CASE Settle
  <2>1. Repaired /\ Rest /\ UNCHANGED <<storage, disk, world, unsynced, bot, supplied, faults>>
    BY <1>8 DEF Settle, bounds
  <2>2. unbooked' = FALSE
    BY <1>8 DEF Settle
  <2>3. faults' \in 0 .. MaxFault
    BY <1>1, <2>1, FaultIs
  <2>4. unbooked' \in BOOLEAN
    BY <2>2
  <2> QED
    BY <1>1, <2>1, <2>3, <2>4, RepairedIs, SameGoods, Ends
<1>9. CASE PutbackEnds /\ good = "diamond"
  <2>1. Rest /\ UNCHANGED <<storage, disk, world, item_stock, unsynced, bot, supplied, faults>>
    BY <1>9 DEF PutbackEnds, bounds
  <2>2. unbooked' = unbooked
    BY <1>9 DEF PutbackEnds
  <2>3. faults' \in 0 .. MaxFault
    BY <1>1, <2>1, FaultIs
  <2> QED
    BY <1>1, <1>2, <1>3, <1>9, <2>1, <2>2, <2>3, SameGoods, Ends
<1> QED
  BY <1>4, <1>5, <1>6, <1>7, <1>8, <1>9

(* The audit. *)
LEMMA Audited ==
  ASSUME Inv, AuditState
  PROVE  Inv'
<1>1. /\ pc = "idle" /\ good = "diamond" /\ plan = <<>> /\ done = <<>> /\ TypeOK
  BY DEF Inv, Kind, AuditState
<1>2. /\ UNCHANGED <<nodes, chest, disk, world, bot, pc, good, qty, plan, done, unsynced, supplied, faults>>
      /\ Repaired
  BY DEF AuditState, storage, handler, bounds
<1>3. unbooked' \in BOOLEAN
  BY DEF AuditState
<1>4. item_stock' \in [Pairs -> Nat] /\ \A g \in Pairs : item_stock'[g] = Total(g)
  BY <1>1, <1>2, RepairedIs
<1>5. TypeOK'
  BY <1>1, <1>2, <1>3, <1>4 DEF TypeOK
<1>6. Reserved' /\ PictureIsTrue' /\ Conserved'
  BY <1>2, PictureStays, SameGoods DEF Conserved
<1>7. Kind' /\ Aimed' /\ Fits'
  BY <1>1, <1>2 DEF Kind, Aimed, Meant, Fits
<1>8. Books'
  BY <1>2, <1>4, PictureStays DEF Books
<1> QED
  BY <1>5, <1>6, <1>7, <1>8 DEF Inv

(* A handler that begins, with the plan it has made. *)
LEMMA Begins ==
  ASSUME Inv, UNCHANGED <<storage, disk, world, item_stock, bot, supplied, faults, unsynced>>,
         unbooked' = unbooked, pc = "idle", pc' \in {"trade", "pull"},
         good' \in Pairs, qty' \in Nat, done' = <<>>, plan' \in Seq(Transfer), Distinct(plan'),
         \A k \in DOMAIN plan' :
           LET c == plan'[k].chest
           IN /\ NodeOf(c) \in Range(nodes) /\ chest[c].item \in {good', Unassigned}
              /\ IF pc' = "pull" THEN chest[c].item = good' /\ plan'[k].amount <= chest[c].amount
                 ELSE plan'[k].amount <= Space(St, good', c)
  PROVE  Inv'
<1>1. UNCHANGED <<nodes, chest, disk, world, item_stock, bot, supplied, faults, unsynced>>
  BY DEF storage
<1>2. TypeOK'
  <2>1. /\ (nodes \in Seq(NodeIds) /\ IsInjective(nodes))'
        /\ (chest \in [Chests -> Chest] /\ disk \subseteq NodeIds /\ item_stock \in [Pairs -> Nat])'
        /\ (world \in [Chests -> [Goods -> Nat]] /\ unsynced \subseteq Chests)'
        /\ (bot \in [Goods -> Nat] /\ supplied \in [Goods -> Nat] /\ faults \in 0 .. MaxFault)'
    BY <1>1 DEF Inv, TypeOK
  <2>2. /\ pc' \in {"idle", "trade", "store", "giveback", "pull", "unpull", "hand", "putback", "tail"}
        /\ good' \in Goods /\ qty' \in Nat /\ plan' \in Seq(Transfer) /\ done' \in Seq(Transfer)
    BY DEF Pairs
  <2>3. unbooked' \in BOOLEAN
    BY DEF Inv, TypeOK
  <2> QED
    BY <2>1, <2>2, <2>3 DEF TypeOK
<1>3. Reserved' /\ PictureIsTrue' /\ Conserved'
  BY <1>1, PictureStays, SameGoods DEF Conserved
<1>4. Kind'
  BY DEF Kind
<1>5. Aimed'
  BY <1>1 DEF Aimed, Meant
<1>6. Fits'
  BY <1>1 DEF Fits, Distinct, St
<1>7. Books'
  <2>1. ~unbooked => Booked
    BY DEF Inv, Books, Kind
  <2>2. Booked <=> Booked'
    BY <1>1, PictureStays DEF Booked
  <2> QED
    BY <2>1, <2>2 DEF Books
<1> QED
  BY <1>2, <1>3, <1>4, <1>5, <1>6, <1>7 DEF Inv

(* additem and removeitem begin: the plan they make is the one the invariant asks for. *)
LEMMA FirstSteps ==
  ASSUME Inv, NEW g \in Pairs, NEW n \in 1 .. MaxQty,
         handle_additem_order(g, n) \/ handle_removeitem_order(g, n)
  PROVE  Inv'
<1>1. StorageOK(St) /\ St.nodes = nodes /\ St.chest = chest /\ g \in Goods /\ n \in Nat
  BY StOK, OperatorAssumption DEF Inv, NodesOK, Pairs
<1>2. CASE handle_additem_order(g, n)
  <2>1. /\ pc = "idle" /\ pc' = "trade" /\ good' = g /\ qty' = n /\ done' = <<>>
        /\ plan' = simulate_deposit_plan(St, g, n)
        /\ UNCHANGED <<storage, disk, world, item_stock, bot, supplied, faults, unsynced>>
    BY <1>2 DEF handle_additem_order, Goto, bounds
  <2>2. unbooked' = unbooked
    BY <1>2 DEF handle_additem_order
  <2>3. /\ plan' \in Seq(Transfer) /\ Distinct(plan')
        /\ \A k \in DOMAIN plan' : /\ plan'[k].chest \in Own(St, g) \union Empty(St, g)
                                   /\ plan'[k].amount <= Space(St, g, plan'[k].chest)
    BY <1>1, <2>1, DepositIs
  <2>4. \A c \in Own(St, g) \union Empty(St, g) :
           NodeOf(c) \in Range(nodes) /\ chest[c].item \in {g, Unassigned}
    BY <1>1 DEF Own, Empty, Holding, AllChests
  <2> QED
    BY <1>1, <2>1, <2>2, <2>3, <2>4, Begins
<1>3. CASE handle_removeitem_order(g, n)
  <2>1. /\ pc = "idle" /\ pc' = "pull" /\ good' = g /\ qty' = n /\ done' = <<>>
        /\ plan' = simulate_withdraw_plan(St, g, n)
        /\ UNCHANGED <<storage, disk, world, item_stock, bot, supplied, faults, unsynced>>
    BY <1>3 DEF handle_removeitem_order, Goto, bounds
  <2>2. unbooked' = unbooked
    BY <1>3 DEF handle_removeitem_order
  <2>3. /\ plan' \in Seq(Transfer) /\ Distinct(plan')
        /\ \A k \in DOMAIN plan' : /\ plan'[k].chest \in Holding(St, g)
                                   /\ plan'[k].amount <= chest[plan'[k].chest].amount
    BY <1>1, <2>1, WithdrawIs
  <2>4. \A c \in Holding(St, g) : NodeOf(c) \in Range(nodes) /\ chest[c].item = g
    BY <1>1 DEF Holding, AllChests
  <2> QED
    BY <1>1, <2>1, <2>2, <2>3, <2>4, Begins
<1> QED
  BY <1>2, <1>3

---------------------------------------------------------------------------
(* A transfer. *)

(* The transfer at hand, the plan without it, and the record of it. *)
LEMMA NowIs ==
  ASSUME TypeOK, plan # <<>>
  PROVE  /\ Now \in Transfer /\ 1 \in DOMAIN plan /\ Now = plan[1]
         /\ Tail(plan) \in Seq(Transfer)
         /\ \A k \in DOMAIN Tail(plan) : k + 1 \in DOMAIN plan /\ Tail(plan)[k] = plan[k + 1] /\ k \in Nat \ {0}
         /\ Append(done, Now) \in Seq(Transfer)
         /\ \A k \in DOMAIN Append(done, Now) :
              Append(done, Now)[k] = Now \/ (k \in DOMAIN done /\ Append(done, Now)[k] = done[k])
<1>1. plan \in Seq(Transfer) /\ done \in Seq(Transfer)
  BY DEF TypeOK
<1>2. Now \in Transfer /\ 1 \in DOMAIN plan /\ Now = plan[1]
  BY <1>1 DEF Now
<1>3. /\ Tail(plan) \in Seq(Transfer)
      /\ \A k \in DOMAIN Tail(plan) : k + 1 \in DOMAIN plan /\ Tail(plan)[k] = plan[k + 1] /\ k \in Nat \ {0}
  BY <1>1
<1> HIDE DEF Now
<1>4. /\ Append(done, Now) \in Seq(Transfer)
      /\ \A k \in DOMAIN Append(done, Now) :
           Append(done, Now)[k] = Now \/ (k \in DOMAIN done /\ Append(done, Now)[k] = done[k])
  BY <1>1, <1>2
<1> QED
  BY <1>2, <1>3, <1>4

(* Goods that go from the bot to a chest, or back, are neither lost nor made. *)
LEMMA Moved ==
  ASSUME Inv, plan # <<>>, NEW n \in Int, Move(n), supplied' = supplied,
         bot[good] - n >= 0, world[Now.chest][good] + n >= 0
  PROVE  /\ bot' \in [Goods -> Nat] /\ world' \in [Chests -> [Goods -> Nat]]
         /\ Conserved' /\ supplied' \in [Goods -> Nat]
         /\ \A d \in Chests, g \in Goods :
              world'[d][g] = IF d = Now.chest /\ g = good THEN world[d][g] + n ELSE world[d][g]
<1> DEFINE c == Now.chest
<1>1. c \in Chests /\ good \in Goods
  BY NowIs DEF Inv, TypeOK, Transfer
<1>2. /\ world \in [Chests -> [Goods -> Nat]] /\ bot \in [Goods -> Nat] /\ supplied \in [Goods -> Nat]
      /\ \A g \in Goods : supplied[g] = bot[g] + Stacked(g)
  BY DEF Inv, TypeOK, Conserved
<1>3. world' = [world EXCEPT ![c][good] = @ + n] /\ bot' = [bot EXCEPT ![good] = @ - n]
  BY DEF Move
<1>4. bot[good] - n \in Nat /\ world[c][good] + n \in Nat
  BY <1>1, <1>2
<1> HIDE DEF c
<1>5. bot' \in [Goods -> Nat] /\ \A g \in Goods : bot'[g] = IF g = good THEN bot[g] - n ELSE bot[g]
  BY <1>1, <1>2, <1>3, <1>4
<1>6. /\ world' \in [Chests -> [Goods -> Nat]]
      /\ \A d \in Chests, g \in Goods :
              world'[d][g] = IF d = c /\ g = good THEN world[d][g] + n ELSE world[d][g]
  <2> DEFINE inner == [world[c] EXCEPT ![good] = @ + n]
  <2>1. inner \in [Goods -> Nat] /\ \A g \in Goods : inner[g] = IF g = good THEN world[c][g] + n ELSE world[c][g]
    BY <1>1, <1>2, <1>4
  <2>2. world' = [world EXCEPT ![c] = inner]
    BY <1>1, <1>2, <1>3
  <2> HIDE DEF inner
  <2> QED
    BY <1>1, <1>2, <2>1, <2>2
<1>7. ASSUME NEW g \in Goods
      PROVE  supplied'[g] = bot'[g] + Stacked(g)'
  <2> DEFINE f == [d \in Chests |-> world[d][g]]
             h == [d \in Chests |-> world'[d][g]]
  <2>1. Stacked(g) = SumFunction(f) /\ Stacked(g)' = SumFunction(h)
    BY DEF Stacked
  <2>2. f \in [Chests -> Nat] /\ h \in [Chests -> Nat] /\ \A d \in Chests : f[d] = world[d][g] /\ h[d] = world'[d][g]
    BY <1>2, <1>6
  <2> HIDE DEF f, h
  <2>3. SumFunction(f) \in Nat
    BY <2>2, ChestsAre, SumIsNat
  <2>4. \A d \in Chests \ {c} : h[d] = f[d]
    BY <1>6, <2>2
  <2>5. SumFunction(h) = (SumFunction(f) - f[c]) + h[c]
    <3>1. IsFiniteSet(Chests) /\ f \in [Chests -> Nat] /\ h \in [Chests -> Nat] /\ c \in Chests
      BY <1>1, <2>2, ChestsAre
    <3> QED
      BY ONLY <3>1, <2>4, SumChanges
  <2>6. f[c] \in Nat /\ h[c] = IF g = good THEN f[c] + n ELSE f[c]
    BY <1>1, <1>6, <2>2
  <2>7. supplied[g] = bot[g] + SumFunction(f) /\ bot[g] \in Nat
    BY <1>2, <2>1
  <2>8. bot'[g] = IF g = good THEN bot[g] - n ELSE bot[g]
    BY <1>5
  <2> QED
    BY <2>1, <2>3, <2>5, <2>6, <2>7, <2>8
<1>8. Conserved'
  BY <1>7 DEF Conserved
<1> QED
  BY <1>2, <1>5, <1>6, <1>8 DEF c

(* A transfer that is made: its chest is of the good afterwards, and is pictured
   as it is if it was before. *)
LEMMA DoneIs ==
  ASSUME Inv, NEW dir \in {1, -1}, Done(dir)
  PROVE  /\ plan # <<>> /\ Now \in Transfer
         /\ TypeOK' <=> pc' \in {"idle", "trade", "store", "giveback", "pull", "unpull", "hand", "putback", "tail"}
         /\ Conserved' /\ Reserved' /\ Aimed' /\ PictureIsTrue'
         /\ plan' = Tail(plan) /\ UNCHANGED <<nodes, item_stock, good, unsynced>> /\ unbooked' = unbooked
         /\ \A d \in Chests \ {Now.chest} : chest'[d] = chest[d]
         /\ \A g \in Pairs \ {good} : Total(g)' = Total(g)
<1> DEFINE c == Now.chest
           n == dir * Now.amount
<1>1. /\ plan # <<>> /\ Move(n) /\ apply_chest_sync(c, good, n)
      /\ bot[good] - n >= 0 /\ world[c][good] + n >= 0
      /\ plan' = Tail(plan) /\ done' = Append(done, Now) /\ faults' = faults
      /\ UNCHANGED <<nodes, disk, item_stock, good, qty, supplied, unsynced>>
  BY DEF Done
<1>2. unbooked' = unbooked
  BY DEF Done
<1>3. /\ TypeOK /\ Now \in Transfer /\ Now = plan[1] /\ 1 \in DOMAIN plan
      /\ Tail(plan) \in Seq(Transfer) /\ Append(done, Now) \in Seq(Transfer)
      /\ \A k \in DOMAIN Tail(plan) : k + 1 \in DOMAIN plan /\ Tail(plan)[k] = plan[k + 1]
      /\ \A k \in DOMAIN Append(done, Now) :
           Append(done, Now)[k] = Now \/ (k \in DOMAIN done /\ Append(done, Now)[k] = done[k])
  BY <1>1, NowIs DEF Inv
<1>4. c \in Chests /\ n \in Int /\ good \in Goods
  BY <1>3 DEF Transfer, TypeOK
<1>5. /\ bot' \in [Goods -> Nat] /\ world' \in [Chests -> [Goods -> Nat]]
      /\ Conserved' /\ supplied' \in [Goods -> Nat]
      /\ \A d \in Chests, g \in Goods :
           world'[d][g] = IF d = c /\ g = good THEN world[d][g] + n ELSE world[d][g]
  <2> HIDE DEF n
  <2> QED
    BY <1>1, <1>4, Moved
<1>6. chest[c].item \in {good, Unassigned}
  BY <1>1, <1>3 DEF Inv, Aimed, Meant
<1> DEFINE held == IF chest[c].item = good THEN chest[c].amount ELSE 0
           after == held + n
           real == world'[c][good]
<1>7. PICK seen \in (after .. real) \union (real .. after) :
        /\ seen >= 0
        /\ chest' = [chest EXCEPT ![c] =
             [item |-> IF c \in {DiamondChest, OverflowChest} THEN @.item ELSE good, amount |-> seen]]
  BY <1>1 DEF apply_chest_sync
<1> HIDE DEF c, n
<1>8. chest \in [Chests -> Chest]
  BY <1>3 DEF TypeOK
<1>9. held \in Nat /\ real \in Nat
  BY <1>4, <1>5, <1>8 DEF Chest
<1>10. seen \in Nat
  <2> HIDE DEF held, real
  <2> QED
    BY <1>4, <1>7, <1>9
<1>11. IF c \in {DiamondChest, OverflowChest} THEN chest[c].item = good ELSE TRUE
  <2>1. chest[DiamondChest].item = "diamond" /\ chest[OverflowChest].item = "overflow"
    BY DEF Inv, Reserved
  <2>2. "diamond" \in Goods /\ "overflow" \notin Goods /\ Unassigned \notin Goods /\ Unassigned # "overflow"
    BY StorageAssumption DEF Unassigned
  <2> QED
    BY <1>4, <1>6, <2>1, <2>2
<1>12. /\ chest'[c] = [item |-> good, amount |-> seen]
       /\ \A d \in Chests \ {c} : chest'[d] = chest[d]
       /\ chest' \in [Chests -> Chest]
  <2> DEFINE new == [item |-> IF c \in {DiamondChest, OverflowChest} THEN chest[c].item ELSE good, amount |-> seen]
  <2>1. new = [item |-> good, amount |-> seen]
    BY <1>11
  <2>2. new \in Chest
    BY <1>4, <1>10, <2>1 DEF Chest
  <2>3. chest' = [chest EXCEPT ![c] = new]
    BY <1>4, <1>7, <1>8
  <2> HIDE DEF new
  <2> QED
    BY <1>4, <1>8, <2>1, <2>2, <2>3
<1>13. chest'[c].item = good /\ chest'[c].amount = seen
  BY <1>12
<1>14. PictureIsTrue'
  <2> SUFFICES ASSUME NEW d \in Chests \ unsynced, NodeOf(d) \in Range(nodes), NEW g \in Goods
               PROVE  world'[d][g] = IF chest'[d].item = g THEN chest'[d].amount ELSE 0
    BY <1>1 DEF PictureIsTrue
  <2>1. \A h \in Goods : world[d][h] = IF chest[d].item = h THEN chest[d].amount ELSE 0
    BY DEF Inv, PictureIsTrue
  <2>2. CASE d # c
    BY <1>5, <1>12, <2>1, <2>2
  <2>3. CASE d = c
    <3>1. Unassigned \notin Goods
      BY StorageAssumption
    <3>2. world[c][good] = held
      BY <1>4, <2>1, <2>3
    <3>3. real = held + n
      BY <1>4, <1>5, <3>2
    <3>4. seen = real
      <4> HIDE DEF held, real
      <4> QED
        BY <1>4, <1>7, <1>9, <3>3
    <3>5. CASE g = good
      BY <1>13, <2>3, <3>4, <3>5
    <3>6. CASE g # good
      <4>1. chest[c].item # g
        BY <1>6, <3>1, <3>6
      <4>2. world'[c][g] = 0
        BY <1>4, <1>5, <2>1, <2>3, <3>6, <4>1
      <4> QED
        BY <1>13, <2>3, <3>6, <4>2
    <3> QED
      BY <3>5, <3>6
  <2> QED
    BY <2>2, <2>3
<1>15. ASSUME NEW d \in Chests, chest[d].item \in {good, Unassigned}
       PROVE  chest'[d].item \in {good', Unassigned}
  BY <1>1, <1>12, <1>13, <1>15
<1>16. Aimed'
  <2>1. /\ \A k \in DOMAIN plan : plan[k].chest \in Chests /\ chest[plan[k].chest].item \in {good, Unassigned}
        /\ \A k \in DOMAIN done : done[k].chest \in Chests /\ chest[done[k].chest].item \in {good, Unassigned}
    <3>1. /\ \A k \in DOMAIN plan : plan[k] \in Transfer
          /\ \A k \in DOMAIN done : done[k] \in Transfer
      BY <1>3 DEF TypeOK
    <3> QED
      BY <3>1 DEF Inv, Aimed, Meant, Transfer
  <2>2. ASSUME NEW k \in DOMAIN plan' PROVE chest'[plan'[k].chest].item \in {good', Unassigned}
    <3>1. k + 1 \in DOMAIN plan /\ plan'[k] = plan[k + 1]
      BY <1>1, <1>3
    <3> QED
      BY <1>15, <2>1, <3>1
  <2>3. ASSUME NEW k \in DOMAIN done' PROVE chest'[done'[k].chest].item \in {good', Unassigned}
    <3>1. done'[k] = Now \/ (k \in DOMAIN done /\ done'[k] = done[k])
      BY <1>1, <1>3
    <3>2. Now.chest \in Chests /\ chest[Now.chest].item \in {good, Unassigned}
      BY <1>4, <1>6 DEF c
    <3> QED
      BY <1>15, <2>1, <3>1, <3>2
  <2> QED
    BY <2>2, <2>3 DEF Aimed, Meant
<1>17. Reserved'
  BY <1>11, <1>12, <1>13, ChestsAre DEF Inv, Reserved
<1>18. TypeOK' <=> pc' \in {"idle", "trade", "store", "giveback", "pull", "unpull", "hand", "putback", "tail"}
  <2>1. /\ (nodes \in Seq(NodeIds) /\ IsInjective(nodes))'
        /\ (disk \subseteq NodeIds /\ item_stock \in [Pairs -> Nat] /\ unsynced \subseteq Chests)'
        /\ (good \in Goods /\ qty \in Nat /\ faults \in 0 .. MaxFault)'
    BY <1>1, <1>3 DEF TypeOK
  <2>2. unbooked' \in BOOLEAN
    BY <1>2, <1>3 DEF TypeOK
  <2>3. plan' \in Seq(Transfer) /\ done' \in Seq(Transfer)
    BY <1>1, <1>3
  <2> QED
    BY <1>5, <1>12, <2>1, <2>2, <2>3 DEF TypeOK
<1>19. ASSUME NEW g \in Pairs \ {good}
       PROVE  Total(g)' = Total(g)
  <2>1. Unassigned \notin Goods /\ g \in Goods
    BY StorageAssumption DEF Pairs
  <2>2. St.chest = chest /\ St'.chest = chest' /\ St.nodes = nodes /\ St'.nodes = nodes
    BY <1>1 DEF St
  <2>3. Holding(St', g) = Holding(St, g) /\ Holding(St, g) \subseteq Chests \ {c}
    BY <1>6, <1>12, <1>13, <2>1, <2>2 DEF Holding, AllChests
  <2>4. [d \in Holding(St', g) |-> St'.chest[d].amount] = [d \in Holding(St, g) |-> St.chest[d].amount]
    BY <1>12, <2>2, <2>3
  <2> QED
    BY <2>4 DEF Total, total_item_amount
<1> QED
  BY <1>1, <1>2, <1>3, <1>5, <1>12, <1>14, <1>16, <1>17, <1>18, <1>19 DEF c

(* What is left of the plan still fits: it goes to other chests. *)
LEMMA DoneGoesOn ==
  ASSUME Inv, NEW dir \in {1, -1}, Done(dir),
         pc' \in {"store", "pull", "unpull", "hand", "putback", "tail"},
         pc' \in {"store", "pull"} => pc' = pc, pc' # "putback" => good \in Pairs
  PROVE  Inv'
<1>1. /\ plan # <<>> /\ Now \in Transfer
      /\ Conserved' /\ Reserved' /\ Aimed' /\ PictureIsTrue'
      /\ plan' = Tail(plan) /\ UNCHANGED <<nodes, item_stock, good, unsynced>>
      /\ \A d \in Chests \ {Now.chest} : chest'[d] = chest[d]
      /\ \A g \in Pairs \ {good} : Total(g)' = Total(g)
  BY DoneIs
<1>2. unbooked' = unbooked
  BY DoneIs
<1>3. TypeOK'
  BY DoneIs
<1>4. Kind'
  BY <1>1 DEF Kind
<1>5. Fits'
  <2>1. CASE pc' \in {"store", "pull"}
    <3>1. /\ Now = plan[1] /\ 1 \in DOMAIN plan /\ plan \in Seq(Transfer)
          /\ \A k \in DOMAIN Tail(plan) :
               k + 1 \in DOMAIN plan /\ Tail(plan)[k] = plan[k + 1] /\ k \in Nat \ {0}
      BY <1>1, NowIs DEF Inv, TypeOK
    <3>2. /\ pc = pc' /\ Distinct(plan)
          /\ \A k \in DOMAIN plan :
               LET c == plan[k].chest
               IN /\ NodeOf(c) \in Range(nodes)
                  /\ IF pc = "pull" THEN chest[c].item = good /\ plan[k].amount <= chest[c].amount
                     ELSE plan[k].amount <= Space(St, good, c)
      BY <2>1 DEF Inv, Fits
    <3>3. Distinct(plan')
      <4> SUFFICES ASSUME NEW i \in DOMAIN Tail(plan), NEW j \in DOMAIN Tail(plan),
                          Tail(plan)[i].chest = Tail(plan)[j].chest
                   PROVE  i = j
        BY <1>1 DEF Distinct
      <4>1. i + 1 = j + 1
        BY <3>1, <3>2 DEF Distinct
      <4> QED
        BY <3>1, <4>1
    <3>4. ASSUME NEW k \in DOMAIN plan'
          PROVE  LET c == plan'[k].chest
                 IN /\ NodeOf(c) \in Range(nodes')
                    /\ IF pc' = "pull" THEN chest'[c].item = good' /\ plan'[k].amount <= chest'[c].amount
                       ELSE plan'[k].amount <= Space(St', good', c)
      <4> DEFINE c == plan'[k].chest
      <4>1. k + 1 \in DOMAIN plan /\ plan'[k] = plan[k + 1] /\ k \in Nat \ {0}
        BY <1>1, <3>1
      <4>2. plan[k + 1] \in Transfer /\ plan[k + 1].chest # Now.chest
        BY <3>1, <3>2, <4>1 DEF Distinct
      <4>3. c \in Chests \ {Now.chest}
        BY <4>1, <4>2 DEF Transfer
      <4>4. /\ NodeOf(c) \in Range(nodes)
            /\ IF pc = "pull" THEN chest[c].item = good /\ plan'[k].amount <= chest[c].amount
               ELSE plan'[k].amount <= Space(St, good, c)
        BY <3>2, <4>1
      <4> HIDE DEF c
      <4>5. chest'[c] = chest[c] /\ St'.chest = chest' /\ St.chest = chest
        BY <1>1, <4>3 DEF St
      <4>6. Space(St', good', c) = Space(St, good, c)
        BY <1>1, <4>5 DEF Space, Left
      <4>7. /\ NodeOf(c) \in Range(nodes')
            /\ IF pc' = "pull" THEN chest'[c].item = good' /\ plan'[k].amount <= chest'[c].amount
               ELSE plan'[k].amount <= Space(St', good', c)
        BY <1>1, <3>2, <4>4, <4>5, <4>6
      <4> QED
        BY <4>7 DEF c
    <3> QED
      BY <3>3, <3>4 DEF Fits
  <2>2. CASE pc' \notin {"store", "pull"}
    BY <2>2 DEF Fits
  <2> QED
    BY <2>1, <2>2
<1>6. Books'
  <2>1. good = "diamond" /\ ~unbooked => \A g \in Pairs : item_stock[g] = Total(g)
    BY DEF Inv, Books, Booked
  <2>2. good = "diamond" => \A g \in Pairs : Total(g)' = Total(g)
    BY <1>1 DEF Pairs
  <2>3. good' = "diamond" /\ ~unbooked' => Booked'
    BY <1>1, <1>2, <2>1, <2>2 DEF Booked
  <2> QED
    BY <2>3 DEF Books
<1> QED
  BY <1>1, <1>3, <1>4, <1>5, <1>6 DEF Inv

(* A transfer that fails half-way, or cannot be made: the picture stays as it is. *)
LEMMA FailedIs ==
  ASSUME Inv, NEW dir \in {1, -1}, Failed(dir) \/ Impossible(dir)
  PROVE  /\ plan # <<>> /\ UNCHANGED <<nodes, chest, disk, item_stock, good, qty, supplied>>
         /\ unbooked' = unbooked
         /\ bot' \in [Goods -> Nat] /\ world' \in [Chests -> [Goods -> Nat]]
         /\ faults' \in 0 .. MaxFault /\ unsynced' \in SUBSET Chests
         /\ Conserved' /\ Reserved' /\ PictureIsTrue'
<1>1. TypeOK /\ Reserved /\ PictureIsTrue /\ Conserved
  BY DEF Inv
<1>2. CASE Failed(dir)
  <2>1. /\ plan # <<>> /\ UNCHANGED <<nodes, chest, disk, item_stock, good, qty, supplied>> /\ Fault
        /\ \E n \in 0 .. Now.amount :
             /\ bot[good] - dir * n >= 0
             /\ world[Now.chest][good] + dir * n >= 0
             /\ Move(dir * n)
             /\ unsynced' = IF n = 0 THEN unsynced ELSE unsynced \union {Now.chest}
    BY <1>2 DEF Failed
  <2>2. unbooked' = unbooked
    BY <1>2 DEF Failed
  <2>3. PICK n \in 0 .. Now.amount :
             /\ bot[good] - dir * n >= 0
             /\ world[Now.chest][good] + dir * n >= 0
             /\ Move(dir * n)
             /\ unsynced' = IF n = 0 THEN unsynced ELSE unsynced \union {Now.chest}
    BY <2>1
  <2>4. Now.chest \in Chests /\ Now.amount \in Nat
    BY <1>1, <2>1, NowIs DEF Transfer
  <2> DEFINE m == dir * n
  <2>5. m \in Int /\ (n = 0 => m = 0) /\ n \in Int
    BY <2>4
  <2> HIDE DEF m
  <2>6. Move(m) /\ bot[good] - m >= 0 /\ world[Now.chest][good] + m >= 0
    BY <2>3 DEF m
  <2>7. /\ bot' \in [Goods -> Nat] /\ world' \in [Chests -> [Goods -> Nat]] /\ Conserved'
        /\ \A d \in Chests, g \in Goods :
              world'[d][g] = IF d = Now.chest /\ g = good THEN world[d][g] + m ELSE world[d][g]
    BY <2>1, <2>5, <2>6, Moved
  <2>8. unsynced' \in SUBSET Chests /\ unsynced \subseteq unsynced'
    BY <1>1, <2>3, <2>4 DEF TypeOK
  <2>9. PictureIsTrue'
    <3> SUFFICES ASSUME NEW d \in Chests \ unsynced', NodeOf(d) \in Range(nodes), NEW g \in Goods
                 PROVE  world'[d][g] = IF chest[d].item = g THEN chest[d].amount ELSE 0
      BY <2>1 DEF PictureIsTrue
    <3>1. world[d][g] = IF chest[d].item = g THEN chest[d].amount ELSE 0
      BY <1>1, <2>8 DEF PictureIsTrue
    <3>2. world[d][g] \in Nat
      BY <1>1 DEF TypeOK
    <3>3. d = Now.chest => m = 0
      BY <2>3, <2>5
    <3>4. world'[d][g] = world[d][g]
      BY <2>7, <3>2, <3>3
    <3> QED
      BY <3>1, <3>4
  <2>10. faults' \in 0 .. MaxFault
    BY <1>1, <2>1, FaultIs
  <2>11. Reserved'
    BY <1>1, <2>1 DEF Reserved
  <2> QED
    BY <2>1, <2>2, <2>7, <2>8, <2>9, <2>10, <2>11
<1>3. CASE Impossible(dir)
  <2>1. plan # <<>> /\ UNCHANGED <<nodes, chest, disk, item_stock, world, bot, good, qty, supplied, faults, unsynced>>
    BY <1>3 DEF Impossible, storage, bounds
  <2>2. unbooked' = unbooked
    BY <1>3 DEF Impossible
  <2>3. Reserved' /\ PictureIsTrue' /\ Conserved'
    BY <1>1, <2>1 DEF Reserved, PictureIsTrue, Conserved, Stacked
  <2>4. /\ bot' \in [Goods -> Nat] /\ world' \in [Chests -> [Goods -> Nat]]
        /\ faults' \in 0 .. MaxFault /\ unsynced' \in SUBSET Chests
    BY <1>1, <2>1 DEF TypeOK
  <2> QED
    BY <2>1, <2>2, <2>3, <2>4
<1> QED
  BY <1>2, <1>3

(* After a failure the handler has the rest of its plan, or what was done to undo. *)
LEMMA FailedGoesOn ==
  ASSUME Inv, NEW dir \in {1, -1}, Failed(dir) \/ Impossible(dir),
         pc' \in {"giveback", "unpull", "putback"}, pc' # "putback" => good \in Pairs,
         plan' \in {plan, done, Tail(plan)}, done' \in {done, <<>>}
  PROVE  Inv'
<1>1. /\ plan # <<>> /\ UNCHANGED <<nodes, chest, disk, item_stock, good, qty, supplied>>
      /\ bot' \in [Goods -> Nat] /\ world' \in [Chests -> [Goods -> Nat]]
      /\ faults' \in 0 .. MaxFault /\ unsynced' \in SUBSET Chests
      /\ Conserved' /\ Reserved' /\ PictureIsTrue'
  BY FailedIs
<1>2. unbooked' = unbooked
  BY FailedIs
<1>3. /\ TypeOK /\ plan \in Seq(Transfer) /\ done \in Seq(Transfer) /\ Tail(plan) \in Seq(Transfer)
      /\ \A k \in DOMAIN Tail(plan) : k + 1 \in DOMAIN plan /\ Tail(plan)[k] = plan[k + 1]
  BY <1>1, NowIs DEF Inv, TypeOK
<1>4. TypeOK'
  <2>1. /\ (nodes \in Seq(NodeIds) /\ IsInjective(nodes))'
        /\ (chest \in [Chests -> Chest] /\ disk \subseteq NodeIds /\ item_stock \in [Pairs -> Nat])'
        /\ (good \in Goods /\ qty \in Nat /\ supplied \in [Goods -> Nat])'
    BY <1>1, <1>3 DEF TypeOK
  <2>2. unbooked' \in BOOLEAN
    BY <1>2, <1>3 DEF TypeOK
  <2>3. plan' \in Seq(Transfer) /\ done' \in Seq(Transfer)
    <3>1. <<>> \in Seq(Transfer)
      OBVIOUS
    <3>2. plan' = plan \/ plan' = done \/ plan' = Tail(plan)
      OBVIOUS
    <3>3. done' = done \/ done' = <<>>
      OBVIOUS
    <3>4. plan' \in Seq(Transfer)
      BY ONLY <1>3, <3>2
    <3>5. done' \in Seq(Transfer)
      BY ONLY <1>3, <3>1, <3>3
    <3> QED
      BY <3>4, <3>5
  <2>4. pc' \in {"idle", "trade", "store", "giveback", "pull", "unpull", "hand", "putback", "tail"}
    OBVIOUS
  <2> QED
    BY <1>1, <2>1, <2>2, <2>3, <2>4 DEF TypeOK
<1>5. Kind' /\ Fits'
  BY <1>1 DEF Kind, Fits
<1>6. Aimed'
  <2>1. /\ \A k \in DOMAIN plan : chest[plan[k].chest].item \in {good, Unassigned}
        /\ \A k \in DOMAIN done : chest[done[k].chest].item \in {good, Unassigned}
    BY DEF Inv, Aimed, Meant
  <2>2. \A k \in DOMAIN Tail(plan) : chest[Tail(plan)[k].chest].item \in {good, Unassigned}
    BY <1>3, <2>1
  <2>3. \A k \in DOMAIN plan' : chest[plan'[k].chest].item \in {good, Unassigned}
    BY <2>1, <2>2
  <2>4. \A k \in DOMAIN done' : chest[done'[k].chest].item \in {good, Unassigned}
    <3>1. DOMAIN <<>> = {}
      OBVIOUS
    <3> QED
      BY <2>1, <3>1
  <2> QED
    BY <1>1, <2>3, <2>4 DEF Aimed, Meant
<1>7. Books'
  <2>1. good = "diamond" /\ ~unbooked => Booked
    BY DEF Inv, Books
  <2>2. Booked' <=> Booked
    BY <1>1 DEF Booked, Total, St
  <2>3. good' = "diamond" /\ ~unbooked' => Booked'
    BY <1>1, <1>2, <2>1, <2>2
  <2> QED
    BY <2>3 DEF Books
<1> QED
  BY <1>1, <1>4, <1>5, <1>6, <1>7 DEF Inv

(* The steps at the chests. *)
LEMMA TransferSteps ==
  ASSUME Inv, Stored \/ StoreFailed \/ Pulled \/ PullFailed \/ deposit_transfers
  PROVE  Inv'
<1>1. pc \notin {"idle", "putback"} => good \in Pairs
  BY DEF Inv, Kind
<1>2. CASE Stored
  <2>1. Done(1) /\ pc = "store" /\ pc' \in {"tail", "store"}
    BY <1>2 DEF Stored, Goto
  <2> QED
    BY <1>1, <2>1, DoneGoesOn
<1>3. CASE Pulled
  <2>1. Done(-1) /\ pc = "pull" /\ pc' \in {"hand", "pull"}
    BY <1>3 DEF Pulled, Goto
  <2> QED
    BY <1>1, <2>1, DoneGoesOn
<1>4. CASE StoreFailed
  <2>1. (Failed(1) \/ Impossible(1)) /\ pc = "store" /\ pc' = "giveback" /\ plan' = plan /\ done' = done
    BY <1>4 DEF StoreFailed, Goto
  <2> QED
    BY <1>1, <2>1, FailedGoesOn
<1>5. CASE PullFailed
  <2>1. (Failed(-1) \/ Impossible(-1)) /\ pc = "pull" /\ pc' = "unpull" /\ plan' = done /\ done' = <<>>
    BY <1>5 DEF PullFailed, Goto
  <2> QED
    BY <1>1, <2>1, FailedGoesOn
<1>6. CASE deposit_transfers
  <2>1. pc \in {"unpull", "putback"} /\ pc' = pc
    BY <1>6 DEF deposit_transfers
  <2>2. CASE Done(1)
    BY <1>1, <2>1, <2>2, DoneGoesOn
  <2>3. CASE (Failed(1) \/ Impossible(1)) /\ plan' = Tail(plan) /\ done' = done
    BY <1>1, <2>1, <2>3, FailedGoesOn
  <2> QED
    BY <1>6, <2>2, <2>3 DEF deposit_transfers
<1> QED
  BY <1>2, <1>3, <1>4, <1>5, <1>6

---------------------------------------------------------------------------
(* The nodes. *)

(* Storage that has grown: the new chests are pictured as empty, and those that are
   not are among the unsynced. *)
LEMMA Grew ==
  ASSUME Inv, NEW st, NodesOK(st), Extends(St, st), nodes' = st.nodes, chest' = st.chest,
         UNCHANGED <<world, item_stock>>,
         unsynced' = unsynced \union
           {c \in Chests : NodeOf(c) \in Range(st.nodes) \ Range(nodes) /\ world[c] # Zero}
  PROVE  /\ (nodes \in Seq(NodeIds) /\ IsInjective(nodes) /\ chest \in [Chests -> Chest])'
         /\ unsynced' \in SUBSET Chests
         /\ Reserved' /\ PictureIsTrue' /\ (Booked => Booked')
<1>1. St.nodes = nodes /\ St.chest = chest
  BY DEF St
<1>2. (nodes \in Seq(NodeIds) /\ IsInjective(nodes) /\ chest \in [Chests -> Chest])'
  BY DEF NodesOK, StorageOK
<1>3. Reserved'
  <2>1. \A c \in Chests : chest'[c] \in {chest[c], FreshChest(c)}
    BY <1>1 DEF Extends
  <2> QED
    BY <2>1, ChestsAre, FreshIs DEF Inv, Reserved
<1>4. PictureIsTrue'
  <2> SUFFICES ASSUME NEW c \in Chests \ unsynced', NodeOf(c) \in Range(st.nodes), NEW g \in Goods
               PROVE  world[c][g] = IF st.chest[c].item = g THEN st.chest[c].amount ELSE 0
    BY DEF PictureIsTrue
  <2>1. CASE NodeOf(c) \in Range(nodes)
    <3>1. st.chest[c] = chest[c] /\ c \notin unsynced
      BY <1>1, <2>1 DEF Extends, AllChests
    <3> QED
      BY <2>1, <3>1 DEF Inv, PictureIsTrue
  <2>2. CASE NodeOf(c) \notin Range(nodes)
    <3>1. st.chest[c] = FreshChest(c)
      BY <1>1, <2>2 DEF Extends, AllChests
    <3>2. world[c] = Zero
      BY <2>2
    <3> QED
      BY <3>1, <3>2, FreshIs DEF Zero
  <2> QED
    BY <2>1, <2>2
<1>5. ASSUME Booked PROVE Booked'
  <2>1. St' = [nodes |-> st.nodes, chest |-> st.chest]
    BY DEF St
  <2>2. Extends(St, St')
    BY <2>1 DEF Extends, AllChests
  <2>3. \A g \in Pairs : total_item_amount(St, g) = total_item_amount(St', g)
    BY <2>2, TotalSame
  <2> QED
    BY <1>5, <2>3 DEF Booked, Total
<1>6. unsynced' \in SUBSET Chests
  BY DEF Inv, TypeOK
<1> QED
  BY <1>2, <1>3, <1>4, <1>5, <1>6

(* A node is added by the operator. *)
LEMMA NodeAdded ==
  ASSUME Inv, pc = "idle", Added
  PROVE  Inv'
<1> DEFINE st == WithNode(St)
           n  == FreeId(nodes)
<1>1. /\ n \in NodeIds /\ nodes' = st.nodes /\ chest' = st.chest
      /\ disk' \in {disk, disk \union {n}} /\ (faults' = faults \/ Fault)
      /\ unsynced' = unsynced \union {c \in Chests : NodeOf(c) = n /\ world[c] # Zero}
      /\ UNCHANGED <<item_stock, world, bot, pc, good, qty, plan, done, supplied>>
  BY DEF Added, handler
<1>2. unbooked' = unbooked
  BY DEF Added
<1>3. /\ TypeOK /\ good = "diamond" /\ plan = <<>> /\ done = <<>> /\ (~unbooked => Booked)
  BY DEF Inv, Kind, Books
<1>4. /\ NodesOK(st) /\ Extends(St, st) /\ Range(st.nodes) = Range(nodes) \union {n} /\ n \notin Range(nodes)
  BY <1>1, <1>3, StOK, WithNodeIs, FreeIs
<1> HIDE DEF st, n
<1>5. unsynced' = unsynced \union
           {c \in Chests : NodeOf(c) \in Range(st.nodes) \ Range(nodes) /\ world[c] # Zero}
  BY <1>1, <1>4
<1>6. /\ (nodes \in Seq(NodeIds) /\ IsInjective(nodes) /\ chest \in [Chests -> Chest])'
      /\ unsynced' \in SUBSET Chests
      /\ Reserved' /\ PictureIsTrue' /\ (Booked => Booked')
  BY <1>1, <1>4, <1>5, Grew
<1>7. TypeOK'
  <2>1. /\ (disk \subseteq NodeIds /\ item_stock \in [Pairs -> Nat] /\ world \in [Chests -> [Goods -> Nat]])'
        /\ (bot \in [Goods -> Nat] /\ supplied \in [Goods -> Nat] /\ good \in Goods /\ qty \in Nat)'
        /\ (plan \in Seq(Transfer) /\ done \in Seq(Transfer))'
    BY <1>1, <1>3 DEF TypeOK
  <2>2. unbooked' \in BOOLEAN
    BY <1>2, <1>3 DEF TypeOK
  <2>3. faults' \in 0 .. MaxFault
    BY <1>1, <1>3, FaultIs
  <2>4. pc' \in {"idle", "trade", "store", "giveback", "pull", "unpull", "hand", "putback", "tail"}
    BY <1>1
  <2> QED
    BY <1>6, <2>1, <2>2, <2>3, <2>4 DEF TypeOK
<1>8. Conserved'
  BY <1>1 DEF Inv, Conserved, Stacked
<1>9. Kind' /\ Aimed' /\ Fits'
  BY <1>1, <1>3 DEF Kind, Aimed, Meant, Fits
<1>10. Books'
  BY <1>2, <1>3, <1>6 DEF Books
<1> QED
  BY <1>6, <1>7, <1>8, <1>9, <1>10 DEF Inv

(* The diamonds of an order that is undone, for which nodes may be added. *)
LEMMA RollbackBegins ==
  ASSUME Inv, NEW n \in 1 .. MaxQty, NEW failsAt \in 0 .. MaxGrowth,
         rollback_amount_to_storage(n, failsAt)
  PROVE  Inv'
<1> DEFINE g == Grown(n, failsAt)
           st == g.storage
<1>1. /\ pc = "idle" /\ nodes' = st.nodes /\ chest' = st.chest /\ plan' = g.plan
      /\ disk' = disk \union g.saved /\ (faults' = faults \/ Fault)
      /\ bot' = [bot EXCEPT !["diamond"] = @ + n]
      /\ supplied' = [supplied EXCEPT !["diamond"] = @ + n]
      /\ unsynced' = unsynced \union
           {c \in Chests : NodeOf(c) \in Range(st.nodes) \ Range(nodes) /\ world[c] # Zero}
      /\ pc' = "putback" /\ good' = "diamond" /\ qty' = n /\ done' = <<>>
      /\ UNCHANGED <<item_stock, world>>
  BY DEF rollback_amount_to_storage, Goto
<1>2. unbooked' = unbooked
  BY DEF rollback_amount_to_storage
<1>3. /\ TypeOK /\ (~unbooked => Booked)
  BY <1>1 DEF Inv, Kind, Books
<1>4. n \in Nat /\ failsAt \in Nat /\ "diamond" \in Goods
  BY OperatorAssumption, StorageAssumption
<1>5. /\ NodesOK(st) /\ Extends(St, st) /\ g.plan \in Seq(Transfer) /\ g.saved \in SUBSET NodeIds
      /\ \A k \in DOMAIN g.plan : st.chest[g.plan[k].chest].item \in {"diamond", Unassigned}
  BY <1>3, <1>4, StOK, GrownIs
<1> HIDE DEF g
<1>6. /\ (nodes \in Seq(NodeIds) /\ IsInjective(nodes) /\ chest \in [Chests -> Chest])'
      /\ unsynced' \in SUBSET Chests
      /\ Reserved' /\ PictureIsTrue' /\ (Booked => Booked')
  BY <1>1, <1>5, Grew
<1>7. /\ bot' \in [Goods -> Nat] /\ supplied' \in [Goods -> Nat]
      /\ \A h \in Goods : supplied'[h] = bot'[h] + Stacked(h)
  BY <1>1, <1>4, Received
<1>8. TypeOK'
  <2>1. /\ (disk \subseteq NodeIds /\ item_stock \in [Pairs -> Nat] /\ world \in [Chests -> [Goods -> Nat]])'
        /\ (good \in Goods /\ qty \in Nat /\ plan \in Seq(Transfer))'
    BY <1>1, <1>3, <1>4, <1>5 DEF TypeOK
  <2>2. unbooked' \in BOOLEAN
    BY <1>2, <1>3 DEF TypeOK
  <2>3. faults' \in 0 .. MaxFault
    BY <1>1, <1>3, FaultIs
  <2>4. /\ pc' \in {"idle", "trade", "store", "giveback", "pull", "unpull", "hand", "putback", "tail"}
        /\ done' \in Seq(Transfer)
    BY <1>1
  <2> QED
    BY <1>6, <1>7, <2>1, <2>2, <2>3, <2>4 DEF TypeOK
<1>9. Conserved'
  <2>1. \A h \in Goods : Stacked(h)' = Stacked(h)
    BY <1>1 DEF Stacked
  <2> QED
    BY <1>7, <2>1 DEF Conserved
<1>10. Kind' /\ Fits'
  BY <1>1 DEF Kind, Fits
<1>11. Aimed'
  <2>1. \A k \in DOMAIN plan' : chest'[plan'[k].chest].item \in {good', Unassigned}
    BY <1>1, <1>5
  <2> QED
    BY <1>1, <2>1 DEF Aimed, Meant
<1>12. Books'
  BY <1>2, <1>3, <1>6 DEF Books
<1> QED
  BY <1>6, <1>8, <1>9, <1>10, <1>11, <1>12 DEF Inv

(* A node is removed: its chests are in no picture any more. *)
LEMMA NodeRemoved ==
  ASSUME Inv, NEW n \in NodeIds, RemoveNode(n)
  PROVE  Inv'
<1>1. /\ pc = "idle"
      /\ chest' = [c \in Chests |-> IF NodeOf(c) = n THEN FreshChest(c) ELSE chest[c]]
      /\ disk' \in {disk, disk \ {n}} /\ (faults' = faults \/ Fault)
      /\ unsynced' = {c \in unsynced : NodeOf(c) # n}
      /\ UNCHANGED <<item_stock, world, bot, pc, good, qty, plan, done, supplied>>
  BY DEF RemoveNode, handler
<1>2. unbooked' = TRUE
  BY DEF RemoveNode
<1>3. /\ TypeOK /\ good = "diamond" /\ plan = <<>> /\ done = <<>>
  BY <1>1 DEF Inv, Kind
<1>4. nodes' \in Seq(NodeIds) /\ IsInjective(nodes') /\ Range(nodes') = Range(nodes) \ {n}
  <2>1. PICK i \in DOMAIN nodes : nodes[i] = n /\ nodes' = RemoveAt(nodes, i)
    BY DEF RemoveNode
  <2>2. nodes \in Seq(NodeIds) /\ IsInjective(nodes)
    BY <1>3 DEF TypeOK
  <2> QED
    BY <2>1, <2>2, RemovedIs
<1>5. chest' \in [Chests -> Chest]
  BY <1>1, <1>3, FreshIs DEF TypeOK
<1>6. Reserved'
  BY <1>1, ChestsAre, FreshIs DEF Inv, Reserved
<1>7. PictureIsTrue'
  BY <1>1, <1>4 DEF Inv, PictureIsTrue
<1>8. TypeOK'
  <2>1. /\ (disk \subseteq NodeIds /\ item_stock \in [Pairs -> Nat] /\ world \in [Chests -> [Goods -> Nat]])'
        /\ (bot \in [Goods -> Nat] /\ supplied \in [Goods -> Nat] /\ good \in Goods /\ qty \in Nat)'
        /\ (plan \in Seq(Transfer) /\ done \in Seq(Transfer) /\ unsynced \in SUBSET Chests)'
    BY <1>1, <1>3 DEF TypeOK
  <2>2. unbooked' \in BOOLEAN
    BY <1>2
  <2>3. faults' \in 0 .. MaxFault
    BY <1>1, <1>3, FaultIs
  <2>4. pc' \in {"idle", "trade", "store", "giveback", "pull", "unpull", "hand", "putback", "tail"}
    BY <1>1
  <2> QED
    BY <1>4, <1>5, <2>1, <2>2, <2>3, <2>4 DEF TypeOK
<1>9. Conserved'
  BY <1>1 DEF Inv, Conserved, Stacked
<1>10. Kind' /\ Aimed' /\ Fits'
  BY <1>1, <1>3 DEF Kind, Aimed, Meant, Fits
<1>11. Books'
  BY <1>2 DEF Books
<1> QED
  BY <1>6, <1>7, <1>8, <1>9, <1>10, <1>11 DEF Inv

---------------------------------------------------------------------------
(* The results. *)

(* Every step keeps the invariant. *)
LEMMA EachStep ==
  ASSUME Inv, [Next]_vars
  PROVE  Inv'
<1>1. CASE UNCHANGED vars
  <2>1. /\ UNCHANGED <<nodes, chest, disk, item_stock, world, bot, pc, good, qty, plan, done,
                       supplied, faults, unsynced>>
    BY <1>1 DEF vars
  <2>2. unbooked' = unbooked
    BY <1>1 DEF vars
  <2>3. TypeOK'
    <3>1. unbooked' \in BOOLEAN
      BY <2>2 DEF Inv, TypeOK
    <3> QED
      BY <2>1, <3>1 DEF Inv, TypeOK
  <2>4. Reserved' /\ PictureIsTrue' /\ Conserved' /\ Kind' /\ Aimed'
    BY <2>1 DEF Inv, Reserved, PictureIsTrue, Conserved, Stacked, Kind, Aimed, Meant
  <2>5. Fits'
    BY <2>1 DEF Inv, Fits, Distinct, St
  <2>6. Books'
    BY <2>1, <2>2 DEF Inv, Books, Booked, Total, St
  <2> QED
    BY <2>3, <2>4, <2>5, <2>6 DEF Inv
<1>2. CASE Next
  <2>1. CASE \E g \in Pairs, n \in 1 .. MaxQty :
               handle_additem_order(g, n) \/ handle_removeitem_order(g, n)
    BY <2>1, FirstSteps
  <2>2. CASE Handed \/ GivenBack \/ NotGivenBack \/ HandedOver \/ NotHandedOver
    BY <2>2, QuietSteps
  <2>3. CASE NotHanded \/ HandedUnheard \/ HandoverUnheard \/ UnpullEnds \/ Settle
    BY <2>3, LastSteps
  <2>4. CASE PutbackEnds
    BY <2>4, QuietSteps, LastSteps
  <2>5. CASE Stored \/ StoreFailed \/ Pulled \/ PullFailed \/ deposit_transfers
    BY <2>5, TransferSteps
  <2>6. CASE \E n \in 1 .. MaxQty, k \in 0 .. MaxGrowth : rollback_amount_to_storage(n, k)
    BY <2>6, RollbackBegins
  <2>7. CASE AddNode \/ AddNodeWithValidation \/ DiscoverStorage
    BY <2>7, NodeAdded DEF AddNode, AddNodeWithValidation, DiscoverStorage
  <2>8. CASE AuditState
    BY <2>8, Audited
  <2>9. CASE \E n \in NodeIds : RemoveNode(n)
    BY <2>9, NodeRemoved
  <2> QED
    BY <1>2, <2>1, <2>2, <2>3, <2>4, <2>5, <2>6, <2>7, <2>8, <2>9 DEF Next
<1> QED
  BY <1>1, <1>2

(* The invariant: types, goods neither lost nor made, chests assigned once, a
   handler's plan that goes to chests of its good. *)
THEOREM StockInvariant == Spec => []Inv
<1>1. Init => Inv
  BY Initially
<1>2. Inv /\ [Next]_vars => Inv'
  BY EachStep
<1> QED
  BY <1>1, <1>2, PTL DEF Spec

(* Goods are neither lost nor made: what reached the bot and has not left
   it again is with the bot or in a chest, whatever failed (execute_chest_transfers,
   rollback_applied_prefix, deposit_transfers). *)
THEOREM GoodsConserved == Spec => []Conserved
<1>1. Inv => Conserved
  BY DEF Inv
<1> QED
  BY <1>1, StockInvariant, PTL

(* Between two handlers the books are what the picture of the chests holds, or
   an end that skips them has been taken (handle_additem_order,
   handle_removeitem_order, audit_state). *)
THEOREM BooksFollow == Spec => []StockFollowsChests
<1>1. Inv => StockFollowsChests
  BY DEF Inv, Kind, Books, StockFollowsChests
<1> QED
  BY <1>1, StockInvariant, PTL

(* The picture of a chest is the chest, but where a transfer failed half-way
   (apply_chest_sync). *)
THEOREM PictureStaysTrue == Spec => []PictureIsTrue
<1>1. Inv => PictureIsTrue
  BY DEF Inv
<1> QED
  BY <1>1, StockInvariant, PTL

(* No transfer asks for more than a chest holds or has room for, at a chest
   where none has failed (simulate_withdraw_plan, simulate_deposit_plan). *)
THEOREM PlansFit == Spec => []PlanFitsWorld
<1>1. ASSUME Inv PROVE PlanFitsWorld
  <2> SUFFICES ASSUME NEW k \in DOMAIN plan, pc \in {"store", "pull"}, plan[k].chest \notin unsynced
               PROVE  LET c == plan[k].chest
                      IN /\ NodeOf(c) \in Range(nodes)
                         /\ IF pc = "pull" THEN world[c][good] >= plan[k].amount
                            ELSE world[c][good] + plan[k].amount <= Room[good]
    BY DEF PlanFitsWorld
  <2> DEFINE c == plan[k].chest
             n == plan[k].amount
  <2>1. plan[k] \in Transfer
    BY <1>1 DEF Inv, TypeOK
  <2>2. c \in Chests /\ n \in Nat
    BY <2>1 DEF Transfer
  <2>3. /\ NodeOf(c) \in Range(nodes)
        /\ IF pc = "pull" THEN chest[c].item = good /\ n <= chest[c].amount
           ELSE n <= Space(St, good, c)
    BY <1>1 DEF Inv, Fits
  <2> HIDE DEF c, n
  <2>4. c \notin unsynced
    BY DEF c
  <2>5. good \in Goods /\ chest[c] \in Chest /\ St.chest = chest
    BY <1>1, <2>2 DEF Inv, TypeOK, St
  <2>6. world[c][good] = IF chest[c].item = good THEN chest[c].amount ELSE 0
    BY <1>1, <2>2, <2>3, <2>4, <2>5 DEF Inv, PictureIsTrue
  <2>7. chest[c].amount \in Nat /\ Room[good] \in Nat
    BY <2>5, StorageAssumption DEF Chest
  <2>8. Space(St, good, c) = IF chest[c].item = good THEN Room[good] - chest[c].amount ELSE Room[good]
    BY <2>5 DEF Space, Left
  <2>9. /\ NodeOf(c) \in Range(nodes)
        /\ IF pc = "pull" THEN world[c][good] >= n ELSE world[c][good] + n <= Room[good]
    BY <2>2, <2>3, <2>6, <2>7, <2>8
  <2> QED
    BY <2>9 DEF c, n
<1> QED
  BY <1>1, StockInvariant, PTL

---------------------------------------------------------------------------
(* What a plan sums up to. *)

(* A sum loses with a member what the member adds, whichever member it is. *)
LEMMA SumSplits ==
  ASSUME NEW S, IsFiniteSet(S), NEW f \in [S -> Nat], NEW sum, Adds(f, S, sum),
         NEW T \in SUBSET S, NEW x \in T
  PROVE  sum[T] = sum[T \ {x}] + f[x]
<1> DEFINE Splits(U) == \A y \in U : sum[U] = sum[U \ {y}] + f[y]
           Wrong == {n \in Nat : \E U \in SUBSET S : Cardinality(U) = n /\ ~Splits(U)}
<1>1. Wrong = {}
  <2> SUFFICES ASSUME Wrong # {} PROVE FALSE
    OBVIOUS
  <2>1. PICK n \in Wrong : \A m \in Wrong : n <= m
    BY LeastOf
  <2>2. PICK U \in SUBSET S : Cardinality(U) = n /\ ~Splits(U)
    BY <2>1
  <2>3. PICK y \in U : sum[U] # sum[U \ {y}] + f[y]
    BY <2>2
  <2> DEFINE c == Chosen(U)
             V == U \ {c}
             W == U \ {y}
  <2>4. sum[U] = f[c] + sum[V]
    BY <2>3 DEF Adds
  <2>5. c \in U /\ V \in SUBSET S /\ Cardinality(V) = n - 1 /\ 1 <= n
    BY <2>2, <2>3, Without
  <2>6. Cardinality(W) = n - 1 /\ W \in SUBSET S
    BY <2>2, FS_Subset, FS_RemoveElement
  <2>7. n - 1 \in Nat /\ n - 1 \notin Wrong
    BY <2>1, <2>5
  <2>8. Splits(V) /\ Splits(W)
    BY <2>5, <2>6, <2>7
  <2>9. f[c] \in Nat /\ f[y] \in Nat /\ sum[V] \in Nat /\ sum[W] \in Nat /\ sum[V \ {y}] \in Nat
    <3>1. c \in S /\ y \in S /\ V \ {y} \in SUBSET S
      BY <2>5
    <3> QED
      BY <2>5, <2>6, <3>1, SumsAre
  <2>10. c # y
    BY <2>3, <2>4, <2>9
  <2>11. V \ {y} = W \ {c} /\ y \in V /\ c \in W
    BY <2>5, <2>10
  <2> HIDE DEF c, V, W
  <2>12. sum[V] = sum[V \ {y}] + f[y] /\ sum[W] = sum[V \ {y}] + f[c]
    BY <2>8, <2>11
  <2>13. sum[U] = sum[W] + f[y]
    BY <2>4, <2>9, <2>12
  <2> QED
    BY <2>3, <2>13 DEF W
<1>2. Cardinality(T) \in Nat
  BY FS_Subset, FS_CardinalityType
<1> QED
  BY <1>1, <1>2

(* What adds nothing can be left out. *)
LEMMA ZerosLeftOut ==
  ASSUME NEW S, IsFiniteSet(S), NEW f \in [S -> Nat], NEW sum, Adds(f, S, sum),
         NEW T \in SUBSET S, \A x \in S \ T : f[x] = 0
  PROVE  sum[S] = sum[T]
<1> DEFINE Same(U) == sum[U] = sum[U \intersect T]
           Wrong == {n \in Nat : \E U \in SUBSET S : Cardinality(U) = n /\ ~Same(U)}
<1>1. Wrong = {}
  <2> SUFFICES ASSUME Wrong # {} PROVE FALSE
    OBVIOUS
  <2>1. PICK n \in Wrong : \A m \in Wrong : n <= m
    BY LeastOf
  <2>2. PICK U \in SUBSET S : Cardinality(U) = n /\ ~Same(U)
    BY <2>1
  <2>3. U # {}
    <3>1. U = {} => U \intersect T = U
      OBVIOUS
    <3> QED
      BY <2>2, <3>1
  <2> DEFINE c == Chosen(U)
             V == U \ {c}
  <2>4. sum[U] = f[c] + sum[V]
    BY <2>3 DEF Adds
  <2>5. c \in U /\ V \in SUBSET S /\ Cardinality(V) = n - 1 /\ 1 <= n
    BY <2>2, <2>3, Without
  <2>6. n - 1 \in Nat /\ n - 1 \notin Wrong
    <3>1. n \in Nat /\ 1 <= n
      BY <2>1, <2>5
    <3>2. n - 1 \in Nat /\ ~(n <= n - 1)
      BY <3>1
    <3> HIDE DEF Wrong
    <3> QED
      BY <2>1, <3>2
  <2>7. sum[V] = sum[V \intersect T]
    BY <2>5, <2>6
  <2>8. f[c] \in Nat /\ sum[V] \in Nat
    BY <2>5, SumsAre
  <2>9. CASE c \in T
    <3>1. U \intersect T \in SUBSET S /\ c \in U \intersect T
      BY <2>5, <2>9
    <3>2. (U \intersect T) \ {c} = V \intersect T
      OBVIOUS
    <3> HIDE DEF c, V
    <3>3. sum[U \intersect T] = sum[V \intersect T] + f[c]
      BY <3>1, <3>2, SumSplits
    <3> QED
      BY <2>2, <2>4, <2>7, <2>8, <3>3
  <2>10. CASE c \notin T
    <3>1. U \intersect T = V \intersect T /\ f[c] = 0
      BY <2>5, <2>10
    <3> HIDE DEF c, V
    <3>2. sum[U] = sum[V]
      BY <2>4, <2>8, <3>1
    <3> QED
      BY <2>2, <2>7, <3>1, <3>2
  <2> QED
    BY <2>9, <2>10
<1>2. Cardinality(S) \in Nat
  BY FS_CardinalityType
<1>3. Same(S)
  BY <1>1, <1>2
<1>4. S \intersect T = T
  OBVIOUS
<1> QED
  BY <1>3, <1>4

(* An order visits each chest once, and a plan over it can take at each what a
   function gives. *)
Once(order)    == \A i, j \in 1 .. Len(order) : order[i] = order[j] => i = j
Visited(order) == {order[i] : i \in 1 .. Len(order)}
Takes(order, can, S, f) ==
  \A k \in 1 .. Len(order) : order[k] \in S /\ f[order[k]] = can[order[k]]

(* What the chests up to each can take is the sum of what each of them can. *)
LEMMA UptoIsSum ==
  ASSUME NEW order \in Seq(Chests), Once(order), NEW can, NEW up, Upto(order, can, up),
         NEW S, IsFiniteSet(S), NEW f \in [S -> Nat], NEW sum, Adds(f, S, sum),
         Takes(order, can, S, f)
  PROVE  up[Len(order)] = sum[Visited(order)]
<1> DEFINE Seen(k) == {order[i] : i \in 1 .. k}
           Wrong == {k \in 0 .. Len(order) : up[k] # sum[Seen(k)]}
<1>0. /\ \A k \in 1 .. Len(order) : order[k] \in S /\ f[order[k]] = can[order[k]]
      /\ \A m, n \in 1 .. Len(order) : order[m] = order[n] => m = n
  BY DEF Once, Takes
<1>1. Len(order) \in Nat
  OBVIOUS
<1>2. Wrong = {}
  <2> SUFFICES ASSUME Wrong # {} PROVE FALSE
    OBVIOUS
  <2>0. Wrong \in SUBSET Nat
    BY <1>1
  <2>1. PICK k \in Wrong : \A l \in Wrong : k <= l
    BY <2>0, LeastOf
  <2>2. k \in 0 .. Len(order) /\ k \in Nat /\ up[k] # sum[Seen(k)]
    BY <2>1, <1>1
  <2>3. up[k] = IF k = 0 THEN 0 ELSE up[k - 1] + can[order[k]]
    BY <2>2 DEF Upto
  <2>4. k # 0
    <3>1. Seen(0) = {}
      OBVIOUS
    <3>2. sum[{}] = 0
      BY DEF Adds
    <3> QED
      BY <2>2, <2>3, <3>1, <3>2
  <2>5. k - 1 \in 0 .. Len(order) /\ k - 1 \notin Wrong /\ k \in 1 .. Len(order)
    <3> HIDE DEF Wrong
    <3> QED
      BY <1>1, <2>1, <2>2, <2>4
  <2>6. up[k - 1] = sum[Seen(k - 1)]
    BY <2>5
  <2>7. Seen(k) \in SUBSET S /\ order[k] \in Seen(k) /\ Seen(k) \ {order[k]} = Seen(k - 1)
    <3>1. \A i \in 1 .. k : i \in 1 .. Len(order)
      BY <1>1, <2>5
    <3>2. \A i \in 1 .. k : i = k \/ i \in 1 .. k - 1
      BY <2>2
    <3>3. \A i \in 1 .. k - 1 : i \in 1 .. k /\ i # k
      BY <2>2
    <3>4. k \in 1 .. k
      BY <2>5
    <3>5. Seen(k) \in SUBSET S /\ order[k] \in Seen(k)
      BY <1>0, <3>1, <3>4
    <3>6. ASSUME NEW x \in Seen(k) \ {order[k]} PROVE x \in Seen(k - 1)
      BY <3>2
    <3>7. ASSUME NEW x \in Seen(k - 1) PROVE x \in Seen(k) \ {order[k]}
      <4>1. PICK i \in 1 .. k - 1 : x = order[i]
        OBVIOUS
      <4>2. i \in 1 .. Len(order) /\ i # k /\ i \in 1 .. k
        BY <3>1, <3>3
      <4> QED
        BY <1>0, <2>5, <4>1, <4>2
    <3> QED
      BY <3>5, <3>6, <3>7
  <2>8. sum[Seen(k)] = sum[Seen(k - 1)] + f[order[k]]
    <3>1. IsFiniteSet(S) /\ f \in [S -> Nat] /\ Adds(f, S, sum)
      OBVIOUS
    <3> DEFINE U == Seen(k)
               y == order[k]
    <3>2. U \in SUBSET S /\ y \in U /\ U \ {y} = Seen(k - 1)
      BY <2>7
    <3> HIDE DEF U, y
    <3>3. sum[U] = sum[U \ {y}] + f[y]
      BY ONLY <3>1, <3>2, SumSplits
    <3> USE DEF U, y
    <3> HIDE DEF Seen
    <3> QED
      BY <3>2, <3>3
  <2> QED
    BY <1>0, <2>2, <2>3, <2>4, <2>5, <2>6, <2>8
<1>3. Len(order) \in 0 .. Len(order) /\ Len(order) \notin Wrong
  <2>1. Len(order) \in 0 .. Len(order)
    BY <1>1
  <2> HIDE DEF Wrong
  <2> QED
    BY <1>2, <2>1
<1>4. Seen(Len(order)) = Visited(order)
  BY DEF Visited
<1> QED
  BY <1>3, <1>4

(* The chests up to a later one can take no less. *)
LEMMA UptoGrows ==
  ASSUME NEW order \in Seq(Chests), NEW can, \A k \in 1 .. Len(order) : can[order[k]] \in Nat,
         NEW up, Upto(order, can, up), NEW i \in 0 .. Len(order)
  PROVE  up[i] <= up[Len(order)]
<1> DEFINE Wrong == {k \in i .. Len(order) : ~(up[i] <= up[k])}
<1>1. Len(order) \in Nat /\ i \in Nat
  OBVIOUS
<1>2. \A k \in 0 .. Len(order) : up[k] \in Nat
  BY UptoAre
<1>3. Wrong = {}
  <2> SUFFICES ASSUME Wrong # {} PROVE FALSE
    OBVIOUS
  <2>1. Wrong \in SUBSET Nat
    BY <1>1
  <2>2. PICK k \in Wrong : \A l \in Wrong : k <= l
    BY <2>1, LeastOf
  <2>3. k \in i .. Len(order) /\ k \in Nat /\ ~(up[i] <= up[k])
    BY <1>1, <2>2
  <2>4. k # i
    BY <1>2, <2>3
  <2>5. /\ k - 1 \in i .. Len(order) /\ k - 1 \in 0 .. Len(order) /\ k - 1 \notin Wrong
        /\ k \in 1 .. Len(order) /\ k \in 0 .. Len(order) /\ k # 0
    <3> HIDE DEF Wrong
    <3> QED
      BY <1>1, <2>2, <2>3, <2>4
  <2>6. up[i] <= up[k - 1]
    BY <2>5
  <2>7. up[k] = up[k - 1] + can[order[k]] /\ can[order[k]] \in Nat
    BY <2>5 DEF Upto
  <2>8. up[i] \in Nat /\ up[k - 1] \in Nat
    BY <1>2, <2>5
  <2> QED
    BY <2>3, <2>6, <2>7, <2>8
<1>4. Len(order) \in i .. Len(order) /\ Len(order) \notin Wrong
  <2>1. Len(order) \in i .. Len(order)
    BY <1>1
  <2> HIDE DEF Wrong
  <2> QED
    BY <1>3, <2>1
<1> QED
  BY <1>4

(* A plan asks for all that was wanted, or for all that the chests can take. *)
LEMMA PlannedIs ==
  ASSUME NEW order \in Seq(Chests), NEW q \in Nat,
         NEW can, \A k \in 1 .. Len(order) : can[order[k]] \in Nat
  PROVE  LET up == CHOOSE u : Upto(order, can, u)
         IN Planned(Spread(order, can, q)) = Least(up[Len(order)], q)
<1> DEFINE up == CHOOSE u : Upto(order, can, u)
           last == Until(order, q, up)
           p == [k \in 1 .. last |->
                      [chest |-> order[k], amount |-> Least(can[order[k]], q - up[k - 1])]]
           a == [k \in DOMAIN p |-> p[k].amount]
<1>1. Upto(order, can, up)
  BY UptoExists
<1>2. Spread(order, can, q) = p
  BY SpreadIs
<1> HIDE DEF up
<1>3. \A k \in 0 .. Len(order) : up[k] \in Nat
  BY <1>1, UptoAre
<1> DEFINE enough == {k \in 0 .. Len(order) : up[k] >= q}
<1>4. Len(order) \in Nat /\ enough \in SUBSET Nat
  OBVIOUS
<1>5. /\ last \in 0 .. Len(order) /\ \A k \in 0 .. last - 1 : up[k] < q
      /\ last = Len(order) \/ up[last] >= q
  <2>1. CASE enough = {}
    <3>1. last = Len(order)
      BY <2>1 DEF Until
    <3>2. ASSUME NEW k \in 0 .. last - 1 PROVE up[k] < q
      <4>1. k \in 0 .. Len(order) /\ k \notin enough
        BY <2>1, <3>1, <1>4
      <4> QED
        BY <4>1, <1>3
    <3> QED
      BY <1>4, <3>1, <3>2
  <2>2. CASE enough # {}
    <3>1. last = Min(enough)
      BY <2>2 DEF Until
    <3>2. last \in enough /\ \A i \in enough : last <= i
      BY <1>4, <2>2, <3>1, MinIs
    <3>3. last \in 0 .. Len(order) /\ up[last] >= q
      BY <3>2
    <3>4. ASSUME NEW k \in 0 .. last - 1 PROVE up[k] < q
      <4>1. k \in 0 .. Len(order) /\ ~(last <= k)
        BY <3>3, <1>4
      <4>2. k \notin enough
        BY <3>2, <4>1
      <4> QED
        BY <4>1, <4>2, <1>3
    <3> QED
      BY <3>3, <3>4
  <2> QED
    BY <2>1, <2>2
<1> HIDE DEF last, enough
<1>6. ASSUME NEW k \in 1 .. last
      PROVE  /\ k \in 1 .. Len(order) /\ k - 1 \in 0 .. last - 1 /\ k - 1 \in 0 .. Len(order)
             /\ a[k] = Least(can[order[k]], q - up[k - 1]) /\ a[k] \in Nat
             /\ up[k] = up[k - 1] + can[order[k]] /\ can[order[k]] \in Nat
             /\ up[k - 1] < q /\ up[k - 1] \in Nat
  <2>1. k \in 1 .. Len(order) /\ k - 1 \in 0 .. last - 1 /\ k - 1 \in 0 .. Len(order) /\ k \in 0 .. Len(order) /\ k # 0
    BY <1>4, <1>5
  <2>2. can[order[k]] \in Nat /\ up[k - 1] \in Nat /\ up[k - 1] < q
    BY <1>3, <1>5, <2>1
  <2>3. a[k] = Least(can[order[k]], q - up[k - 1])
    OBVIOUS
  <2>4. up[k] = up[k - 1] + can[order[k]]
    BY <1>1, <2>1 DEF Upto
  <2> HIDE DEF a
  <2>5. a[k] \in Nat
    BY <2>2, <2>3 DEF Least
  <2> QED
    BY <2>1, <2>2, <2>3, <2>4, <2>5
<1>7. DOMAIN p = 1 .. last /\ a = [k \in 1 .. last |-> a[k]]
  OBVIOUS
<1> HIDE DEF a
<1>8. a \in [1 .. last -> Nat] /\ IsFiniteSet(1 .. last) /\ last \in Nat
  <2>1. last \in Nat
    BY <1>4, <1>5
  <2>2. IsFiniteSet(1 .. last)
    BY <2>1, FS_Interval
  <2>3. \A k \in 1 .. last : a[k] \in Nat
    BY <1>6
  <2> QED
    BY <1>7, <2>1, <2>2, <2>3
<1> DEFINE sum == CHOOSE s : Adds(a, 1 .. last, s)
<1>9. Adds(a, 1 .. last, sum)
  BY <1>8, SumExists
<1>10. Planned(p) = sum[1 .. last]
  <2>1. Planned(p) = SumFunction(a)
    BY DEF Planned, a
  <2>2. DOMAIN a = 1 .. last
    BY <1>8
  <2> QED
    BY <2>1, <2>2, SumIs
<1> HIDE DEF sum, p
<1> DEFINE Wrong == {k \in 0 .. last : sum[1 .. k] # Least(up[k], q)}
<1>11. Wrong = {}
  <2> SUFFICES ASSUME Wrong # {} PROVE FALSE
    OBVIOUS
  <2>0. Wrong \in SUBSET Nat
    BY <1>8
  <2>1. PICK k \in Wrong : \A l \in Wrong : k <= l
    BY <2>0, LeastOf
  <2>2. k \in 0 .. last /\ k \in Nat /\ sum[1 .. k] # Least(up[k], q)
    BY <2>1, <1>8
  <2>3. k # 0
    <3>1. 1 .. 0 = {}
      OBVIOUS
    <3>2. sum[{}] = 0
      BY <1>9 DEF Adds
    <3>3. 0 \in 0 .. Len(order)
      BY <1>4
    <3>4. up[0] = 0
      BY <1>1, <3>3 DEF Upto
    <3> QED
      BY <2>2, <3>1, <3>2, <3>4 DEF Least
  <2>4. k - 1 \in 0 .. last /\ k - 1 \notin Wrong /\ k \in 1 .. last
    <3> HIDE DEF Wrong
    <3> QED
      BY <1>8, <2>1, <2>2, <2>3
  <2>5. sum[1 .. k - 1] = Least(up[k - 1], q)
    BY <2>4
  <2>6. (1 .. k) \ {k} = 1 .. k - 1 /\ k \in 1 .. k /\ 1 .. k \in SUBSET (1 .. last)
    BY <1>8, <2>4
  <2>7. sum[1 .. k] = sum[1 .. k - 1] + a[k]
    <3> DEFINE all == 1 .. last
               U == 1 .. k
               y == k
    <3>1. IsFiniteSet(all) /\ a \in [all -> Nat] /\ Adds(a, all, sum)
      BY <1>8, <1>9
    <3>2. U \in SUBSET all /\ y \in U
      BY <2>6
    <3>3. U \ {y} = 1 .. k - 1
      BY <2>6
    <3> HIDE DEF all, U, y, Wrong
    <3>4. sum[U] = sum[U \ {y}] + a[y]
      BY ONLY <3>1, <3>2, SumSplits
    <3> QED
      BY <3>3, <3>4 DEF U, y
  <2>8. /\ a[k] = Least(can[order[k]], q - up[k - 1])
        /\ up[k] = up[k - 1] + can[order[k]] /\ can[order[k]] \in Nat
        /\ up[k - 1] < q /\ up[k - 1] \in Nat
    BY <1>6, <2>4
  <2>9. sum[1 .. k] = Least(up[k], q)
    BY <2>5, <2>7, <2>8 DEF Least
  <2> QED
    BY <2>2, <2>9
<1>12. sum[1 .. last] = Least(up[last], q) /\ up[last] \in Nat
  <2>1. last \in 0 .. last /\ last \in 0 .. Len(order)
    BY <1>5, <1>8
  <2> QED
    BY <1>3, <1>11, <2>1
<1>13. Planned(p) = Least(up[Len(order)], q)
  <2>1. up[last] <= up[Len(order)]
    BY <1>1, <1>5, UptoGrows
  <2>2. up[Len(order)] \in Nat
    BY <1>3, <1>4
  <2>3. CASE last = Len(order)
    BY <1>10, <1>12, <2>3
  <2>4. CASE up[last] >= q
    BY <1>10, <1>12, <2>1, <2>2, <2>4 DEF Least
  <2> QED
    BY <1>5, <2>3, <2>4
<1> QED
  BY <1>2, <1>13 DEF up

(* What a plan asks for is the sum of what the chests it goes through can take,
   or all that was wanted where that is less. *)
LEMMA SpreadSums ==
  ASSUME NEW order \in Seq(Chests), Once(order), NEW q \in Nat, NEW can,
         NEW S, IsFiniteSet(S), NEW f \in [S -> Nat], Takes(order, can, S, f),
         \A x \in S : f[x] = 0 \/ x \in Visited(order)
  PROVE  Planned(Spread(order, can, q)) = Least(SumFunction(f), q)
<1> DEFINE sum == CHOOSE s : Adds(f, S, s)
           up == CHOOSE u : Upto(order, can, u)
<1>1. Adds(f, S, sum) /\ Upto(order, can, up)
  BY SumExists, UptoExists
<1>2. \A k \in 1 .. Len(order) : can[order[k]] \in Nat
  BY DEF Takes
<1>3. Planned(Spread(order, can, q)) = Least(up[Len(order)], q)
  BY <1>2, PlannedIs
<1>4. SumFunction(f) = sum[S]
  BY SumIs
<1> HIDE DEF sum, up
<1>5. up[Len(order)] = sum[Visited(order)]
  BY <1>1, UptoIsSum
<1>6. Visited(order) \in SUBSET S /\ \A x \in S \ Visited(order) : f[x] = 0
  BY DEF Takes, Visited
<1>7. sum[S] = sum[Visited(order)]
  BY <1>1, <1>6, ZerosLeftOut
<1> QED
  BY <1>3, <1>4, <1>5, <1>7

(* A withdrawal is planned in full where the storage holds as much of the good,
   and for all that it holds otherwise (simulate_withdraw_plan): the handlers take
   a plan of less than was asked to mean that the goods are not there. *)
THEOREM WithdrawalIsEnough ==
  ASSUME NEW st, StorageOK(st), NEW g \in Goods, NEW q \in Nat
  PROVE  Planned(simulate_withdraw_plan(st, g, q)) = Least(total_item_amount(st, g), q)
<1> DEFINE H == Holding(st, g)
           S == {c \in H : st.chest[c].amount > 0}
           order == Visit(st, S)
           can == [c \in Chests |-> st.chest[c].amount]
           f == [c \in H |-> st.chest[c].amount]
<1>1. S \in SUBSET AllChests(st) /\ H \in SUBSET Chests
  BY SetsAre
<1>2. IsFiniteSet(H)
  BY <1>1, ChestsAre, FS_Subset
<1>3. f \in [H -> Nat]
  BY <1>1 DEF StorageOK, Chest
<1>4. \A c \in H : f[c] = can[c] /\ (c \in S \/ f[c] = 0)
  <2>1. \A c \in H : f[c] \in Nat /\ f[c] = st.chest[c].amount /\ can[c] = st.chest[c].amount
    BY <1>1, <1>3
  <2> HIDE DEF f, can, H
  <2> QED
    BY <2>1
<1>5. S \in SUBSET H /\ S \in SUBSET Chests
  BY <1>1
<1>6. /\ order \in Seq(S) /\ Len(order) = Cardinality(S)
      /\ \A i, j \in 1 .. Cardinality(S) : order[i] = order[j] => i = j
      /\ \A c \in S : \E k \in 1 .. Cardinality(S) : order[k] = c
  BY <1>1, VisitIs
<1> HIDE DEF order, f, can, S, H
<1>7. order \in Seq(Chests) /\ \A k \in 1 .. Len(order) : order[k] \in S
  BY <1>5, <1>6
<1>8. Once(order) /\ Takes(order, can, H, f)
  BY <1>4, <1>5, <1>6, <1>7 DEF Once, Takes
<1>9. \A c \in H : f[c] = 0 \/ c \in Visited(order)
  BY <1>4, <1>6 DEF Visited
<1>10. Planned(Spread(order, can, q)) = Least(SumFunction(f), q)
  BY <1>2, <1>3, <1>7, <1>8, <1>9, SpreadSums
<1>11. simulate_withdraw_plan(st, g, q) = Spread(order, can, q)
  BY DEF simulate_withdraw_plan, order, can, S, H
<1>12. total_item_amount(st, g) = SumFunction(f)
  BY DEF total_item_amount, f, H
<1> QED
  BY <1>10, <1>11, <1>12

(* A deposit is planned in full where the chests of the good and the empty ones it
   may use have room for it, and for all the room they have otherwise
   (simulate_deposit_plan). *)
THEOREM DepositIsEnough ==
  ASSUME NEW st, StorageOK(st), NEW g \in Goods, NEW q \in Nat
  PROVE  Planned(simulate_deposit_plan(st, g, q)) =
           Least(SumFunction([c \in NotFull(st, g) \union Empty(st, g) |-> Space(st, g, c)]), q)
<1> DEFINE S == NotFull(st, g) \union Empty(st, g)
           order == Visit(st, NotFull(st, g)) \o Visit(st, Empty(st, g))
           can == [c \in Chests |-> Space(st, g, c)]
           f == [c \in S |-> Space(st, g, c)]
<1>1. /\ S \in SUBSET Chests /\ order \in Seq(Chests)
      /\ \A c \in S : Space(st, g, c) \in Nat
      /\ \A k \in 1 .. Len(order) : order[k] \in S
      /\ \A i, j \in 1 .. Len(order) : order[i] = order[j] => i = j
      /\ \A c \in S : \E k \in 1 .. Len(order) : order[k] = c
  BY DepositOrderIs
<1>2. IsFiniteSet(S)
  BY <1>1, ChestsAre, FS_Subset
<1>3. \A c \in S : f[c] = can[c]
  BY <1>1
<1> HIDE DEF S, order
<1>4. f \in [S -> Nat]
  BY <1>1
<1> HIDE DEF f, can
<1>5. Once(order) /\ Takes(order, can, S, f)
  BY <1>1, <1>3 DEF Once, Takes
<1>6. \A c \in S : f[c] = 0 \/ c \in Visited(order)
  BY <1>1 DEF Visited
<1>7. Planned(Spread(order, can, q)) = Least(SumFunction(f), q)
  BY <1>1, <1>2, <1>4, <1>5, <1>6, SpreadSums
<1>8. simulate_deposit_plan(st, g, q) = Spread(order, can, q)
  BY DEF simulate_deposit_plan, order, can
<1> QED
  BY <1>7, <1>8 DEF f, S

---------------------------------------------------------------------------
(* What the picture is after a withdrawal. *)

(* The sum of two functions is the sum of their sums. *)
LEMMA SumOfSums ==
  ASSUME NEW S, IsFiniteSet(S), NEW f \in [S -> Nat], NEW g \in [S -> Nat], NEW h \in [S -> Nat],
         \A x \in S : f[x] = g[x] + h[x]
  PROVE  SumFunction(f) = SumFunction(g) + SumFunction(h)
<1> DEFINE sf == CHOOSE s : Adds(f, S, s)
           sg == CHOOSE s : Adds(g, S, s)
           sh == CHOOSE s : Adds(h, S, s)
<1>1. Adds(f, S, sf) /\ Adds(g, S, sg) /\ Adds(h, S, sh)
  BY SumExists
<1>2. SumFunction(f) = sf[S] /\ SumFunction(g) = sg[S] /\ SumFunction(h) = sh[S]
  BY SumIs
<1> HIDE DEF sf, sg, sh
<1> DEFINE Follows(U) == sf[U] = sg[U] + sh[U]
           Wrong == {n \in Nat : \E U \in SUBSET S : Cardinality(U) = n /\ ~Follows(U)}
<1>3. Wrong = {}
  <2> SUFFICES ASSUME Wrong # {} PROVE FALSE
    OBVIOUS
  <2>1. PICK n \in Wrong : \A m \in Wrong : n <= m
    BY LeastOf
  <2>2. PICK U \in SUBSET S : Cardinality(U) = n /\ ~Follows(U)
    BY <2>1
  <2>3. U # {}
    BY <1>1, <2>2 DEF Adds
  <2> DEFINE c == Chosen(U)
             V == U \ {c}
  <2>4. sf[U] = f[c] + sf[V] /\ sg[U] = g[c] + sg[V] /\ sh[U] = h[c] + sh[V]
    BY <1>1, <2>3 DEF Adds
  <2>5. c \in U /\ V \in SUBSET S /\ Cardinality(V) = n - 1 /\ 1 <= n
    BY <2>2, <2>3, Without
  <2>6. n - 1 \in Nat /\ n - 1 \notin Wrong
    BY <2>1, <2>5
  <2>7. Follows(V) /\ f[c] = g[c] + h[c]
    BY <2>5, <2>6
  <2>8. sg[V] \in Nat /\ sh[V] \in Nat /\ g[c] \in Nat /\ h[c] \in Nat
    BY <1>1, <2>5, SumsAre
  <2> HIDE DEF c, V
  <2> QED
    BY <2>2, <2>4, <2>7, <2>8
<1>4. Cardinality(S) \in Nat
  BY FS_CardinalityType
<1>5. Follows(S)
  BY <1>3, <1>4
<1> QED
  BY <1>2, <1>5

(* A plan that visits no chest twice does at one what its transfer there says,
   and at the others nothing. *)
LEMMA AtIs ==
  ASSUME NEW p \in Seq(Transfer), Distinct(p), NEW c
  PROVE  /\ \A k \in DOMAIN p : p[k].chest = c => At(p, c) = p[k].amount
         /\ (\A k \in DOMAIN p : p[k].chest # c) => At(p, c) = 0
         /\ At(p, c) \in Nat
<1> DEFINE K == {k \in DOMAIN p : p[k].chest = c}
           f == [k \in K |-> p[k].amount]
<1>1. \A k \in DOMAIN p : p[k].amount \in Nat
  <2>1. \A k \in DOMAIN p : p[k] \in Transfer
    OBVIOUS
  <2> QED
    BY <2>1 DEF Transfer
<1>2. f \in [K -> Nat]
  BY <1>1
<1>3. At(p, c) = SumFunction(f)
  BY DEF At
<1>4. ASSUME NEW k \in K PROVE At(p, c) = p[k].amount /\ p[k].amount \in Nat
  <2>1. K = {k}
    BY DEF Distinct
  <2>2. IsFiniteSet(K)
    BY <2>1, FS_Singleton
  <2> DEFINE sum == CHOOSE s : Adds(f, K, s)
  <2>3. Adds(f, K, sum)
    BY <1>2, <2>2, SumExists
  <2>4. SumFunction(f) = sum[K]
    BY SumIs
  <2> HIDE DEF sum
  <2>5. sum[K] = f[Chosen(K)] + sum[K \ {Chosen(K)}] /\ sum[{}] = 0
    BY <2>1, <2>3 DEF Adds
  <2>6. Chosen(K) = k
    BY <2>1 DEF Chosen
  <2>7. K \ {k} = {} /\ f[k] = p[k].amount /\ p[k].amount \in Nat
    BY <1>1, <2>1
  <2> HIDE DEF f, K
  <2>8. sum[K] = p[k].amount + sum[{}]
    BY <2>5, <2>6, <2>7
  <2>9. sum[K] = p[k].amount
    BY <2>5, <2>7, <2>8
  <2> QED
    BY <1>3, <2>4, <2>7, <2>9
<1>5. ASSUME K = {} PROVE At(p, c) = 0
  <2>1. IsFiniteSet(K)
    BY <1>5, FS_EmptySet
  <2> QED
    BY <1>2, <1>3, <1>5, <2>1, SumIsNat
<1> HIDE DEF f
<1>6. At(p, c) \in Nat
  BY <1>4, <1>5
<1> QED
  BY <1>4, <1>5, <1>6

(* What a plan asks for is what it does at the chests it visits. *)
LEMMA PlannedByChest ==
  ASSUME NEW p \in Seq(Transfer), Distinct(p), NEW S \in SUBSET Chests,
         \A k \in DOMAIN p : p[k].chest \in S
  PROVE  Planned(p) = SumFunction([c \in S |-> At(p, c)])
<1> DEFINE last == Len(p)
           all == 1 .. last
           order == [k \in 1 .. last |-> p[k].chest]
           f == [c \in S |-> At(p, c)]
           a == [k \in DOMAIN p |-> p[k].amount]
           up == CHOOSE u : Upto(order, f, u)
           sa == CHOOSE s : Adds(a, all, s)
           sf == CHOOSE s : Adds(f, S, s)
<1>1. last \in Nat /\ DOMAIN p = all /\ \A k \in all : p[k].amount \in Nat /\ p[k].chest \in S
  <2>1. last \in Nat /\ DOMAIN p = 1 .. last
    OBVIOUS
  <2>2. \A k \in 1 .. last : p[k] \in Transfer
    OBVIOUS
  <2> QED
    BY <2>1, <2>2 DEF Transfer
<1>2. IsFiniteSet(S) /\ IsFiniteSet(all)
  <2>1. IsFiniteSet(S)
    BY ChestsAre, FS_Subset
  <2>2. IsFiniteSet(all)
    BY <1>1, FS_Interval
  <2> QED
    BY <2>1, <2>2
<1>3. f \in [S -> Nat] /\ \A c \in S : f[c] = At(p, c)
  BY AtIs
<1>4. a \in [all -> Nat] /\ \A k \in all : a[k] = p[k].amount
  BY <1>1
<1>5. order \in Seq(S) /\ Len(order) = last /\ \A k \in all : order[k] = p[k].chest
  <2> HIDE DEF last
  <2>1. order \in [1 .. last -> S] /\ last \in Nat
    BY <1>1
  <2> QED
    BY <2>1
<1>6. order \in Seq(Chests)
  <2> HIDE DEF order
  <2> QED
    BY <1>5
<1> HIDE DEF f, a, order, last
<1>7. Adds(a, all, sa) /\ Adds(f, S, sf)
  BY <1>2, <1>3, <1>4, SumExists
<1>8. Upto(order, f, up)
  BY <1>6, UptoExists
<1> HIDE DEF sa, sf, up
<1>9. Once(order) /\ Takes(order, f, S, f)
  BY <1>1, <1>5 DEF Once, Takes, Distinct
<1>10. \A k \in all : a[k] = f[order[k]]
  BY <1>1, <1>3, <1>4, <1>5, AtIs
<1>11. up[last] = sf[Visited(order)]
  BY <1>2, <1>3, <1>5, <1>6, <1>7, <1>8, <1>9, UptoIsSum
<1>12. Visited(order) \in SUBSET S /\ \A x \in S \ Visited(order) : f[x] = 0
  <2>1. Visited(order) \in SUBSET S
    BY <1>1, <1>5 DEF Visited
  <2>2. ASSUME NEW x \in S, x \notin Visited(order) PROVE f[x] = 0
    <3>1. \A k \in DOMAIN p : p[k].chest # x
      BY <1>1, <1>5, <2>2 DEF Visited
    <3> QED
      BY <1>3, <3>1, AtIs
  <2> QED
    BY <2>1, <2>2
<1>13. sf[S] = sf[Visited(order)]
  BY <1>2, <1>3, <1>7, <1>12, ZerosLeftOut
<1> DEFINE Wrong == {k \in 0 .. last : sa[1 .. k] # up[k]}
<1>14. Wrong = {}
  <2> SUFFICES ASSUME Wrong # {} PROVE FALSE
    OBVIOUS
  <2>1. Wrong \in SUBSET Nat
    BY <1>1
  <2>2. PICK k \in Wrong : \A l \in Wrong : k <= l
    BY <2>1, LeastOf
  <2>3. k \in 0 .. last /\ k \in Nat /\ sa[1 .. k] # up[k]
    BY <1>1, <2>2
  <2>4. up[k] = IF k = 0 THEN 0 ELSE up[k - 1] + f[order[k]]
    BY <1>5, <1>8, <2>3 DEF Upto
  <2>5. k # 0
    <3>1. 1 .. 0 = {}
      OBVIOUS
    <3>2. sa[{}] = 0
      BY <1>7 DEF Adds
    <3> QED
      BY <2>3, <2>4, <3>1, <3>2
  <2>6. k - 1 \in 0 .. last /\ k - 1 \notin Wrong /\ k \in all
    <3> HIDE DEF Wrong
    <3> QED
      BY <1>1, <2>2, <2>3, <2>5
  <2>7. sa[1 .. k - 1] = up[k - 1]
    BY <2>6
  <2> DEFINE U == 1 .. k
             y == k
  <2>8. U \in SUBSET all /\ y \in U /\ U \ {y} = 1 .. k - 1
    BY <1>1, <2>6
  <2> HIDE DEF U, y, Wrong, all
  <2>9. sa[U] = sa[U \ {y}] + a[y]
    BY ONLY <1>2, <1>4, <1>7, <2>8, SumSplits
  <2>10. sa[1 .. k] = sa[1 .. k - 1] + a[k]
    BY <2>8, <2>9 DEF U, y
  <2> QED
    BY <1>10, <2>3, <2>4, <2>5, <2>6, <2>7, <2>10
<1>15. sa[all] = up[last]
  <2>1. last \in 0 .. last
    BY <1>1
  <2> QED
    BY <1>14, <2>1
<1>16. Planned(p) = sa[all]
  <2>1. Planned(p) = SumFunction(a)
    BY DEF Planned, a
  <2>2. DOMAIN a = all
    BY <1>4
  <2> QED
    BY <2>1, <2>2, SumIs DEF sa
<1>17. SumFunction(f) = sf[S]
  BY <1>3, SumIs DEF sf
<1> QED
  BY <1>11, <1>13, <1>15, <1>16, <1>17 DEF f

Storages == [nodes : Seq(NodeIds), chest : [Chests -> Chest]]

(* A withdrawal takes out of the picture what it planned, of that good alone
   (withdraw_plan): chests keep their place and their good, none goes below zero. *)
THEOREM WithdrawnIs ==
  ASSUME NEW st \in Storages, NEW g \in Goods, NEW q \in Nat
  PROVE  LET after == withdraw_plan(st, g, q)
             had   == total_item_amount(st, g)
         IN /\ after \in Storages /\ after.nodes = st.nodes
            /\ total_item_amount(after, g) = had - Least(had, q)
            /\ \A h \in Goods \ {g} : total_item_amount(after, h) = total_item_amount(st, h)
<1> DEFINE p == simulate_withdraw_plan(st, g, q)
           m == [c \in Chests |-> [item |-> st.chest[c].item, amount |-> st.chest[c].amount - At(p, c)]]
           after == withdraw_plan(st, g, q)
           H == Holding(st, g)
<1>1. StorageOK(st)
  BY DEF Storages, StorageOK
<1>2. /\ p \in Seq(Transfer) /\ Distinct(p)
      /\ \A k \in DOMAIN p : p[k].chest \in H /\ p[k].amount <= st.chest[p[k].chest].amount
  BY <1>1, WithdrawIs
<1>3. H \in SUBSET Chests /\ IsFiniteSet(H)
  BY <1>1, SetsAre, ChestsAre, FS_Subset
<1>4. after = [st EXCEPT !.chest = m]
  BY DEF withdraw_plan
<1> HIDE DEF p, H
<1>5. ASSUME NEW c \in Chests
      PROVE  /\ At(p, c) \in Nat /\ At(p, c) <= st.chest[c].amount /\ st.chest[c].amount \in Nat
             /\ c \in H \/ At(p, c) = 0
  <2>1. st.chest[c].amount \in Nat
    BY <1>1 DEF StorageOK, Chest
  <2>2. CASE \E k \in DOMAIN p : p[k].chest = c
    BY <1>2, <2>1, <2>2, AtIs
  <2>3. CASE \A k \in DOMAIN p : p[k].chest # c
    BY <1>2, <2>1, <2>3, AtIs
  <2> QED
    BY <2>2, <2>3
<1>6. ASSUME NEW c \in Chests
      PROVE  /\ m[c] \in Chest /\ m[c].item = st.chest[c].item
             /\ m[c].amount = st.chest[c].amount - At(p, c)
  <2>1. st.chest[c] \in Chest
    BY <1>1 DEF StorageOK
  <2>2. st.chest[c].amount - At(p, c) \in Nat
    BY <1>5
  <2> QED
    BY <2>1, <2>2 DEF Chest
<1>7. m \in [Chests -> Chest]
  BY <1>6
<1> HIDE DEF m, after
<1>8. after \in Storages /\ after.nodes = st.nodes /\ after.chest = m
  BY <1>4, <1>7 DEF Storages
<1>9. AllChests(after) = AllChests(st) /\ AllChests(st) \in SUBSET Chests
  BY <1>8 DEF AllChests
<1>10. \A h \in Goods : Holding(after, h) = Holding(st, h) /\ Holding(st, h) \in SUBSET Chests
  BY <1>6, <1>8, <1>9 DEF Holding
<1>11. total_item_amount(after, g) = total_item_amount(st, g) - Least(total_item_amount(st, g), q)
  <2> DEFINE had  == [c \in H |-> st.chest[c].amount]
             has  == [c \in H |-> m[c].amount]
             took == [c \in H |-> At(p, c)]
  <2>1. \A c \in H : /\ st.chest[c].amount \in Nat /\ m[c].amount \in Nat /\ At(p, c) \in Nat
                     /\ st.chest[c].amount = m[c].amount + At(p, c)
    BY <1>3, <1>5, <1>6
  <2>2. /\ had \in [H -> Nat] /\ has \in [H -> Nat] /\ took \in [H -> Nat]
        /\ \A c \in H : had[c] = has[c] + took[c]
    BY <2>1
  <2>3. SumFunction(took) = Least(total_item_amount(st, g), q)
    <3>1. Planned(p) = SumFunction(took)
      BY <1>2, <1>3, PlannedByChest
    <3>2. Planned(p) = Least(total_item_amount(st, g), q)
      BY <1>1, WithdrawalIsEnough DEF p
    <3> QED
      BY <3>1, <3>2
  <2>4. total_item_amount(st, g) = SumFunction(had)
    BY DEF total_item_amount, H
  <2>5. total_item_amount(after, g) = SumFunction(has)
    <3>1. Holding(after, g) = H
      BY <1>10 DEF H
    <3> QED
      BY <1>8, <3>1 DEF total_item_amount
  <2> HIDE DEF had, has, took
  <2>6. SumFunction(had) = SumFunction(has) + SumFunction(took)
    BY <1>3, <2>2, SumOfSums
  <2>7. SumFunction(has) \in Nat /\ SumFunction(took) \in Nat
    BY <1>3, <2>2, SumIsNat
  <2> QED
    BY <2>3, <2>4, <2>5, <2>6, <2>7
<1>12. ASSUME NEW h \in Goods, h # g PROVE total_item_amount(after, h) = total_item_amount(st, h)
  <2>1. ASSUME NEW c \in Holding(st, h) PROVE m[c].amount = st.chest[c].amount
    <3>1. c \in Chests /\ c \notin H
      BY <1>10, <1>12 DEF H, Holding
    <3> QED
      BY <1>5, <1>6, <3>1
  <2>2. [c \in Holding(after, h) |-> after.chest[c].amount] = [c \in Holding(st, h) |-> st.chest[c].amount]
    BY <1>8, <1>10, <2>1
  <2> QED
    BY <2>2 DEF total_item_amount
<1> QED
  BY <1>8, <1>11, <1>12 DEF after

================================================================================
