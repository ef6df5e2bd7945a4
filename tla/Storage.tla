------------------------------- MODULE Storage -------------------------------
(***************************************************************************)
(* The store's picture of its chests, and the plans it makes over them.    *)
(*                                                                         *)
(* Nodes are kept in the order they were added, which is not the order of  *)
(* their ids once one has been removed: a rule about "node 0" that looks   *)
(* at the index holds of whichever node comes first.  A chest is known by  *)
(* its id, and is here the good it is assigned to and how much of it it    *)
(* holds; its 54 slots are one amount, Room[g] being what they hold of g.  *)
(* A plan is a sequence of transfers, in the order of the visits.          *)
(***************************************************************************)
EXTENDS Integers, Sequences, FiniteSets, FiniteSetsExt, SequencesExt

CONSTANTS Goods,          \* what is stored: "diamond" and the goods of the pairs
          ChestsPerNode,
          Room,           \* what a chest holds of each good
          MaxNode         \* bound: the largest node id

Unassigned == "none"

ASSUME StorageAssumption == /\ "diamond" \in Goods /\ {"overflow", Unassigned} \intersect Goods = {}
                            /\ ChestsPerNode \in Nat \ {0, 1, 2}
                            /\ Room \in [Goods -> Nat \ {0}]
                            /\ MaxNode \in Nat

NodeIds == 0 .. MaxNode
Chests  == 0 .. (MaxNode + 1) * ChestsPerNode - 1
Chest   == [item : Goods \union {"overflow", Unassigned}, amount : Nat]

ChestId(n, i) == n * ChestsPerNode + i
NodeOf(c)     == c \div ChestsPerNode
DiamondChest  == 0
OverflowChest == 1

(* Chest::new and Node::new *)
FreshChest(c) ==
  [item |-> IF c = DiamondChest THEN "diamond"
            ELSE IF c = OverflowChest THEN "overflow" ELSE Unassigned,
   amount |-> 0]

(* A storage is [nodes, chest]: the ids of its nodes and the chests of all. *)
FreeId(nodes) == Min({n \in 0 .. MaxNode + 1 : n \notin Range(nodes)})

WithNode(st) ==
  LET n == FreeId(st.nodes)
  IN [nodes |-> Append(st.nodes, n),
      chest |-> [c \in Chests |-> IF NodeOf(c) = n THEN FreshChest(c) ELSE st.chest[c]]]

---------------------------------------------------------------------------
(* The order of the visits: node after node as they were added, and in a node
   by the number of the chest. *)

AllChests(st) == {c \in Chests : NodeOf(c) \in Range(st.nodes)}
Place(st, c)  == CHOOSE i \in DOMAIN st.nodes : st.nodes[i] = NodeOf(c)

Before(st, c, d) == \/ Place(st, c) < Place(st, d)
                    \/ Place(st, c) = Place(st, d) /\ c < d

Rank(st, chests, c) == Cardinality({d \in chests : Before(st, d, c)})
Visit(st, chests)   == [k \in 1 .. Cardinality(chests) |->
                          CHOOSE c \in chests : Rank(st, chests, c) = k - 1]

(* is_reserved_chest_blocked_for: by index, not by id *)
Blocked(st, g, c) ==
  /\ Place(st, c) = 1
  /\ \/ c % ChestsPerNode = DiamondChest /\ g # "diamond"
     \/ c % ChestsPerNode = OverflowChest /\ g # "overflow"

Holding(st, g) == {c \in AllChests(st) : st.chest[c].item = g}
Own(st, g)     == {c \in Holding(st, g) : ~Blocked(st, g, c)}

(* find_empty_chest_index: the reserved chests, the others of the first node
   and those of the rest follow the order of the visits *)
Empty(st, g) == {c \in AllChests(st) : st.chest[c].item = Unassigned /\ ~Blocked(st, g, c)}

total_item_amount(st, g) == SumFunction([c \in Holding(st, g) |-> st.chest[c].amount])

---------------------------------------------------------------------------
(* Plans. *)

Least(m, n) == IF m < n THEN m ELSE n

(* qty spread over the chests in their order, each taking what it can before
   the next, until it is all there. *)
Spread(order, can, qty) ==
  LET upto[k \in 0 .. Len(order)] == IF k = 0 THEN 0 ELSE upto[k - 1] + can[order[k]]
      enough == {k \in 0 .. Len(order) : upto[k] >= qty}
      last   == IF enough = {} THEN Len(order) ELSE Min(enough)
  IN [k \in 1 .. last |-> [chest  |-> order[k],
                           amount |-> Least(can[order[k]], qty - upto[k - 1])]]

Planned(plan) == SumFunction([k \in DOMAIN plan |-> plan[k].amount])

simulate_withdraw_plan(st, g, qty) ==
  Spread(Visit(st, {c \in Holding(st, g) : st.chest[c].amount > 0}),
         [c \in Chests |-> st.chest[c].amount], qty)

(* Mutant: what a chest already holds is not counted against its room. *)
LeftWhole(st, g, c) == Room[g]

(* deposit_into_chest *)
Left(st, g, c) == Room[g] - st.chest[c].amount

(* What a chest can take: of its own good, or the first of a good. *)
Space(st, g, c) == IF st.chest[c].item = g THEN Left(st, g, c) ELSE Room[g]
NotFull(st, g)  == {c \in Own(st, g) : Left(st, g, c) > 0}

simulate_deposit_plan(st, g, qty) ==
  Spread(Visit(st, NotFull(st, g)) \o Visit(st, Empty(st, g)),
         [c \in Chests |-> Space(st, g, c)], qty)

(* What a plan does at a chest. *)
At(plan, c) == SumFunction([k \in {k \in DOMAIN plan : plan[k].chest = c} |-> plan[k].amount])

(* withdraw_plan takes the goods out of the picture at once. *)
withdraw_plan(st, g, qty) ==
  LET plan == simulate_withdraw_plan(st, g, qty)
  IN [st EXCEPT !.chest = [c \in Chests |-> [item   |-> st.chest[c].item,
                                              amount |-> st.chest[c].amount - At(plan, c)]]]

(* deposit_plan: first the chests of the good, then empty ones, node after
   node being added while there is none. *)
deposit_plan(st, g, qty) ==
  LET own    == Spread(Visit(st, NotFull(st, g)), [c \in Chests |-> Left(st, g, c)], qty)
      rest   == qty - Planned(own)
      grown[k \in Nat] == IF k = 0 THEN st ELSE WithNode(grown[k - 1])
      enough == {k \in 0 .. MaxNode + 1 - Len(st.nodes) :
                   Cardinality(Empty(grown[k], g)) * Room[g] >= rest}
      last   == grown[Min(enough)]
      plan   == own \o Spread(Visit(last, Empty(last, g)), [c \in Chests |-> Room[g]], rest)
  IN [plan |-> plan,
      storage |-> [last EXCEPT !.chest =
        [c \in Chests |-> IF At(plan, c) = 0 THEN @[c]
                          ELSE [item |-> g, amount |-> @[c].amount + At(plan, c)]]]]

=============================================================================
