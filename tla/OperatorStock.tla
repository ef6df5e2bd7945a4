--------------------------- MODULE OperatorStock ---------------------------
(***************************************************************************)
(* The operator's hand on the stock: additem and removeitem, the nodes     *)
(* added, validated, discovered and removed, the audit; and the return of  *)
(* diamonds to storage when an order is undone, which may add a node.      *)
(*                                                                         *)
(* The store does one thing at a time and awaits the bot at each step; a   *)
(* step of the handler and the bot's part in it are one action, with all   *)
(* the answers the bot can give.  The world (what the chests hold, what    *)
(* the bot carries) is apart from the picture (Storage) and the books      *)
(* (item_stock).                                                           *)
(***************************************************************************)
EXTENDS Storage

CONSTANTS Built,      \* nodes that stand in the world
          Supply,     \* bound: of each good, how much ever reaches the bot
          MaxQty,     \* bound: the quantity of one request
          MaxFault,   \* bound: answers of the bot that are errors
          MaxGrowth   \* grow_attempts: 16 in the code

ASSUME OperatorAssumption == /\ Built \subseteq NodeIds
                             /\ Supply \in [Goods -> Nat]
                             /\ {MaxQty, MaxFault, MaxGrowth} \subseteq Nat

Pairs == Goods \ {"diamond"}

VARIABLES
  nodes, chest,    \* Storage
  disk,            \* nodes that have a file
  item_stock,      \* of each pair
  world, bot,      \* what each chest holds and the bot carries, of each good
  pc, good, qty,   \* the handler
  plan, done,      \* the transfers still to make, and those made
  supplied, faults,
  unsynced,        \* chests a transfer failed at, or that stood there before
  unbooked         \* the stock was changed and the books not brought up to date

storage == <<nodes, chest>>
handler == <<pc, good, qty, plan, done>>
bounds  == <<supplied, faults>>
vars == <<nodes, chest, disk, item_stock, world, bot, pc, good, qty, plan, done,
          supplied, faults, unsynced, unbooked>>

St       == [nodes |-> nodes, chest |-> chest]
Total(g) == total_item_amount(St, g)
Zero     == [g \in Goods |-> 0]
Transfer == [chest : Chests, amount : Nat]

TypeOK ==
  /\ nodes \in Seq(NodeIds) /\ IsInjective(nodes)
  /\ chest \in [Chests -> Chest]
  /\ disk \subseteq NodeIds
  /\ item_stock \in [Pairs -> Nat]
  /\ world \in [Chests -> [Goods -> Nat]]
  /\ bot \in [Goods -> Nat]
  /\ pc \in {"idle", "trade", "store", "giveback", "pull", "unpull", "hand", "putback", "tail"}
  /\ good \in Goods /\ qty \in Nat
  /\ plan \in Seq(Transfer) /\ done \in Seq(Transfer)
  /\ supplied \in [Goods -> Nat] /\ faults \in 0 .. MaxFault
  /\ unsynced \subseteq Chests /\ unbooked \in BOOLEAN

Init ==
  /\ nodes = <<0>> /\ chest = [c \in Chests |-> FreshChest(c)]
  /\ disk = {0}
  /\ item_stock = [g \in Pairs |-> 0]
  /\ world = [c \in Chests |-> Zero] /\ bot = Zero
  /\ pc = "idle" /\ good = "diamond" /\ qty = 0
  /\ plan = <<>> /\ done = <<>>
  /\ supplied = Zero /\ faults = 0
  /\ unsynced = {} /\ unbooked = FALSE

Goto(p) == pc' = p
Rest    == Goto("idle") /\ good' = "diamond" /\ qty' = 0 /\ plan' = <<>> /\ done' = <<>>
Fault   == faults < MaxFault /\ faults' = faults + 1

(* assert_invariants before an order: the books agree with the picture. *)
Booked == \A g \in Pairs : item_stock[g] = Total(g)
(* ... and after one, repairing: audit_state rewrites the books. *)
Repaired == item_stock' = [g \in Pairs |-> Total(g)]

---------------------------------------------------------------------------
(* One transfer. *)

Now == Head(plan)

(* Mutant: a chest that was not assigned stays so, with its new amounts. *)
SyncUnassigned(c, g, n) ==
  chest' = [chest EXCEPT ![c].amount = @ + n]

(* apply_chest_sync: the assignment of the first two chests is not changed;
   the slots the bot looked at are set to what it saw. *)
apply_chest_sync(c, g, n) ==
  LET held  == IF chest[c].item = g THEN chest[c].amount ELSE 0
      after == held + n
      real  == world'[c][g]
  IN \E seen \in (after .. real) \union (real .. after) :
       /\ seen >= 0
       /\ chest' = [chest EXCEPT ![c] =
            [item |-> IF c \in {DiamondChest, OverflowChest} THEN @.item ELSE g,
             amount |-> seen]]

Move(n) == /\ world' = [world EXCEPT ![Now.chest][good] = @ + n]
           /\ bot' = [bot EXCEPT ![good] = @ - n]

(* The bot stores or fetches all of it, and the picture follows. *)
Done(dir) ==
  LET n == dir * Now.amount
  IN /\ plan # <<>>
     /\ bot[good] - n >= 0
     /\ world[Now.chest][good] + n \in 0 .. Room[good]
     /\ Move(n)
     /\ apply_chest_sync(Now.chest, good, n)
     /\ plan' = Tail(plan)
     /\ done' = Append(done, Now)
     /\ UNCHANGED <<nodes, disk, item_stock, good, qty, supplied, unsynced, unbooked>>
     /\ faults' = faults

(* It reports an error, or too late, or not at all, having moved some. *)
Failed(dir) ==
  /\ plan # <<>> /\ Fault
  /\ \E n \in 0 .. Now.amount :
       /\ bot[good] - dir * n >= 0
       /\ world[Now.chest][good] + dir * n >= 0
       /\ Move(dir * n)
       /\ unsynced' = IF n = 0 THEN unsynced ELSE unsynced \union {Now.chest}
  /\ UNCHANGED <<nodes, chest, disk, item_stock, good, qty, supplied, unbooked>>

(* What the chest has no room for, or does not hold, is an error too: only
   a chest that is not as pictured comes to this. *)
Impossible(dir) ==
  /\ plan # <<>>
  /\ \/ bot[good] - dir * Now.amount < 0
     \/ world[Now.chest][good] + dir * Now.amount \notin 0 .. Room[good]
  /\ UNCHANGED <<storage, disk, item_stock, world, bot, good, qty, bounds,
                 unsynced, unbooked>>

---------------------------------------------------------------------------
(* additem *)

handle_additem_order(g, n) ==
  /\ pc = "idle" /\ Booked
  /\ g \in Pairs /\ n > 0 /\ supplied[g] + n <= Supply[g]
  /\ LET p == simulate_deposit_plan(St, g, n)
     IN Planned(p) = n /\ plan' = p
  /\ Goto("trade") /\ good' = g /\ qty' = n /\ done' = <<>>
  /\ UNCHANGED <<storage, disk, item_stock, world, bot, bounds, unsynced, unbooked>>

Exchanged ==
  /\ bot' = [bot EXCEPT ![good] = @ + qty]
  /\ supplied' = [supplied EXCEPT ![good] = @ + qty]

Handed ==
  /\ pc = "trade" /\ Exchanged
  /\ Goto("store")
  /\ UNCHANGED <<storage, disk, item_stock, world, good, qty, plan, done, faults,
                 unsynced, unbooked>>

(* Refused; or no answer came in time, whatever the operator gave. *)
NotHanded ==
  /\ pc = "trade" /\ Rest
  /\ UNCHANGED <<storage, disk, item_stock, world, bot, bounds, unsynced, unbooked>>
HandedUnheard ==
  /\ pc = "trade" /\ Fault /\ Exchanged /\ Rest
  /\ UNCHANGED <<storage, disk, item_stock, world, unsynced, unbooked>>

Stored ==
  /\ pc = "store" /\ Done(1)
  /\ Goto(IF Tail(plan) = <<>> THEN "tail" ELSE "store")

StoreFailed ==
  /\ pc = "store" /\ (Failed(1) \/ Impossible(1))
  /\ Goto("giveback")
  /\ UNCHANGED <<plan, done>>

(* The rest goes back to the operator, if the bot has it all and the trade
   is made; what does not stays with the bot. *)
GivenBack ==
  /\ pc = "giveback"
  /\ LET rest == qty - Planned(done)
     IN /\ rest \in 0 .. bot[good]
        /\ bot' = [bot EXCEPT ![good] = @ - rest]
        /\ supplied' = [supplied EXCEPT ![good] = @ - rest]
  /\ Goto("tail")
  /\ UNCHANGED <<storage, disk, item_stock, world, good, qty, plan, done, faults,
                 unsynced, unbooked>>
NotGivenBack ==
  /\ pc = "giveback"
  /\ Goto("tail")
  /\ UNCHANGED <<storage, disk, item_stock, world, bot, good, qty, plan, done, bounds,
                 unsynced, unbooked>>

(* Mutant: only an order that went well brings the books up to date. *)
SettleIfWell ==
  /\ pc = "tail" /\ Rest
  /\ IF plan = <<>> /\ Planned(done) = qty THEN Repaired ELSE UNCHANGED item_stock
  /\ unbooked' = FALSE
  /\ UNCHANGED <<storage, disk, world, bot, bounds, unsynced>>

(* Whatever came before: the books follow the picture, and the audit
   repairs those of the other pairs. *)
Settle ==
  /\ pc = "tail" /\ Repaired /\ Rest
  /\ unbooked' = FALSE
  /\ UNCHANGED <<storage, disk, world, bot, bounds, unsynced>>

---------------------------------------------------------------------------
(* removeitem *)

handle_removeitem_order(g, n) ==
  /\ pc = "idle" /\ Booked
  /\ g \in Pairs /\ n > 0 /\ Total(g) >= n
  /\ LET p == simulate_withdraw_plan(St, g, n)
     IN Planned(p) = n /\ plan' = p
  /\ Goto("pull") /\ good' = g /\ qty' = n /\ done' = <<>>
  /\ UNCHANGED <<storage, disk, item_stock, world, bot, bounds, unsynced, unbooked>>

Pulled ==
  /\ pc = "pull" /\ Done(-1)
  /\ Goto(IF Tail(plan) = <<>> THEN "hand" ELSE "pull")

(* execute_chest_transfers puts back what it had fetched. *)
PullFailed ==
  /\ pc = "pull" /\ (Failed(-1) \/ Impossible(-1))
  /\ Goto("unpull")
  /\ plan' = done /\ done' = <<>>

HandedOver ==
  /\ pc = "hand" /\ qty <= bot[good]
  /\ bot' = [bot EXCEPT ![good] = @ - qty]
  /\ supplied' = [supplied EXCEPT ![good] = @ - qty]
  /\ Goto("tail")
  /\ UNCHANGED <<storage, disk, item_stock, world, good, qty, plan, done, faults,
                 unsynced, unbooked>>

(* The trade is rejected, or cannot be asked for. *)
NotHandedOver ==
  /\ pc = "hand"
  /\ Goto("putback")
  /\ plan' = done /\ done' = <<>>
  /\ UNCHANGED <<storage, disk, item_stock, world, bot, good, qty, bounds, unsynced,
                 unbooked>>

(* No answer in time: the handler returns, whether the goods went or not. *)
HandoverUnheard ==
  /\ pc = "hand" /\ Fault
  /\ \/ UNCHANGED <<bot, supplied>>
     \/ /\ qty <= bot[good]
        /\ bot' = [bot EXCEPT ![good] = @ - qty]
        /\ supplied' = [supplied EXCEPT ![good] = @ - qty]
  /\ Rest
  /\ unbooked' = TRUE
  /\ UNCHANGED <<storage, disk, item_stock, world, unsynced>>

---------------------------------------------------------------------------
(* Returning goods to the chests: what removeitem fetched, or the diamonds
   of an order undone. *)

deposit_transfers ==
  /\ pc \in {"unpull", "putback"}
  /\ \/ Done(1)
     \/ (Failed(1) \/ Impossible(1)) /\ plan' = Tail(plan) /\ UNCHANGED done
  /\ UNCHANGED pc

(* A withdrawal that failed ends the handler before its tail. *)
UnpullEnds ==
  /\ pc = "unpull" /\ plan = <<>> /\ Rest
  /\ unbooked' = TRUE
  /\ UNCHANGED <<storage, disk, item_stock, world, bot, bounds, unsynced>>
PutbackEnds ==
  /\ pc = "putback" /\ plan = <<>>
  /\ IF good = "diamond" THEN Rest
     ELSE Goto("tail") /\ UNCHANGED <<good, qty, plan, done>>
  /\ UNCHANGED <<storage, disk, item_stock, world, bot, bounds, unsynced, unbooked>>

(* Nodes are added until the plan covers it all, adding does not help, or
   the file of a new one, which stays in memory, cannot be written. *)
Grown(n, failsAt) ==
  LET most  == Least(MaxGrowth, MaxNode + 1 - Len(nodes))
      st[k \in 0 .. most] == IF k = 0 THEN St ELSE WithNode(st[k - 1])
      covers(k) == Planned(simulate_deposit_plan(st[k], "diamond", n))
      stops(k)  == \/ covers(k) = n \/ k = most
                   \/ k > 0 /\ (k = failsAt \/ covers(k) <= covers(k - 1))
      last == Min({k \in 0 .. most : stops(k)})
      used == IF last > 0 /\ last = failsAt THEN last - 1 ELSE last
  IN [storage |-> st[last],
      plan    |-> simulate_deposit_plan(st[used], "diamond", n),
      saved   |-> Range(st[used].nodes) \ Range(nodes),
      fails   |-> used < last]

rollback_amount_to_storage(n, failsAt) ==
  /\ pc = "idle" /\ n > 0 /\ supplied["diamond"] + n <= Supply["diamond"]
  /\ bot' = [bot EXCEPT !["diamond"] = @ + n]
  /\ supplied' = [supplied EXCEPT !["diamond"] = @ + n]
  /\ LET g == Grown(n, failsAt)
     IN /\ IF failsAt = 0 THEN faults' = faults ELSE Fault /\ g.fails
        /\ nodes' = g.storage.nodes /\ chest' = g.storage.chest
        /\ plan' = g.plan
        /\ disk' = disk \union g.saved
        /\ unsynced' = unsynced \union
             {c \in Chests : /\ NodeOf(c) \in Range(g.storage.nodes) \ Range(nodes)
                             /\ world[c] # Zero}
  /\ Goto("putback") /\ good' = "diamond" /\ qty' = n /\ done' = <<>>
  /\ UNCHANGED <<item_stock, world, unbooked>>

---------------------------------------------------------------------------
(* The nodes and the audit, from the operator's console. *)

(* add_node, then Node::save, of which a failure is only logged. *)
Added ==
  LET st == WithNode(St)
      n  == FreeId(nodes)
  IN /\ n \in NodeIds
     /\ nodes' = st.nodes /\ chest' = st.chest
     /\ \/ disk' = disk \union {n} /\ faults' = faults
        \/ Fault /\ disk' = disk
     /\ unsynced' = unsynced \union {c \in Chests : NodeOf(c) = n /\ world[c] # Zero}
     /\ UNCHANGED <<item_stock, world, bot, handler, supplied, unbooked>>

AddNode == pc = "idle" /\ Added

(* The bot goes to look first; too late an answer is no answer. *)
AddNodeWithValidation == pc = "idle" /\ FreeId(nodes) \in Built /\ Added

(* One node after another until one is not there: each is a step here, the
   scan ends when it likes. *)
DiscoverStorage == AddNodeWithValidation

RemoveNode(n) ==
  /\ pc = "idle"
  /\ \E i \in DOMAIN nodes : nodes[i] = n /\ nodes' = RemoveAt(nodes, i)
  /\ chest' = [c \in Chests |-> IF NodeOf(c) = n THEN FreshChest(c) ELSE chest[c]]
  /\ \/ disk' = disk \ {n} /\ faults' = faults
     \/ Fault /\ disk' = disk
  /\ unbooked' = TRUE
  /\ unsynced' = {c \in unsynced : NodeOf(c) # n}
  /\ UNCHANGED <<item_stock, world, bot, handler, supplied>>

AuditState ==
  /\ pc = "idle" /\ Repaired
  /\ unbooked' = FALSE
  /\ UNCHANGED <<storage, disk, world, bot, handler, bounds, unsynced>>

Next ==
  \/ \E g \in Pairs, n \in 1 .. MaxQty :
       handle_additem_order(g, n) \/ handle_removeitem_order(g, n)
  \/ Handed \/ NotHanded \/ HandedUnheard
  \/ Stored \/ StoreFailed \/ GivenBack \/ NotGivenBack
  \/ Pulled \/ PullFailed \/ HandedOver \/ NotHandedOver \/ HandoverUnheard
  \/ deposit_transfers \/ UnpullEnds \/ PutbackEnds \/ Settle
  \/ \E n \in 1 .. MaxQty, k \in 0 .. MaxGrowth : rollback_amount_to_storage(n, k)
  \/ AddNode \/ AddNodeWithValidation \/ DiscoverStorage \/ AuditState
  \/ \E n \in NodeIds : RemoveNode(n)

Spec == Init /\ [][Next]_vars

---------------------------------------------------------------------------
(* Properties. *)

(* Between two handlers the stock a pair is said to have is what the picture
   of the chests holds, whatever failed on the way; except after the ends
   that are known to skip it: a withdrawal undone, a handover without an
   answer, a node removed, until an audit. *)
StockFollowsChests == pc = "idle" /\ ~unbooked => Booked

(* The picture of a chest is the chest, and it holds nothing else than what
   it is assigned to, unless a transfer to or from it failed half-way. *)
PictureIsTrue ==
  \A c \in Chests \ unsynced :
    NodeOf(c) \in Range(nodes) =>
      \A g \in Goods : world[c][g] = IF chest[c].item = g THEN chest[c].amount ELSE 0

(* What the store sends the bot to do, the bot can do: no transfer asks for
   more than a chest holds or has room for, in a node that exists in memory,
   unless a transfer at that chest failed before. *)
PlanFitsWorld ==
  \A k \in DOMAIN plan :
    LET c == plan[k].chest
    IN pc \in {"store", "pull"} /\ c \notin unsynced =>
         /\ NodeOf(c) \in Range(nodes)
         /\ IF pc = "pull" THEN world[c][good] >= plan[k].amount
            ELSE world[c][good] + plan[k].amount <= Room[good]

=============================================================================
