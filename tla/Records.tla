-------------------------------- MODULE Records --------------------------------
(***************************************************************************)
(* The ledger on disk: data/pairs, data/users and data/trades hold one     *)
(* file per record, data/storage one per node, and data/orders.json the    *)
(* session's orders.  The store keeps all of it in memory, changes it      *)
(* there, and writes it back in state::save, which attempts five sub-saves *)
(* and reports the first error; the caller clears the dirty marks only     *)
(* when there was none.  A sub-save writes what is marked and then sweeps: *)
(* it removes every .json file whose record is not in memory.              *)
(*                                                                         *)
(* A record is the number of changes made to it.  A file is absent, bad    *)
(* (it cannot be parsed, its name and content disagree, ...), or holds a   *)
(* record.  A trade is its timestamp.  The process may crash before, in    *)
(* the middle of, and after each sub-save; any write, removal, read or     *)
(* renaming may fail.                                                      *)
(***************************************************************************)
EXTENDS Integers, Sequences, FiniteSets

CONSTANTS
  Users, Pairs, Nodes,  \* Nodes contains 0
  MaxTrades,            \* config.max_trades_in_memory
  MaxStamp,             \* bound: timestamps of trades
  MaxChange,            \* bound: changes of one record
  MaxFault,             \* bound: failing calls of the file system
  MaxCrash,             \* bound: crashes and restarts
  Absent, Bad

ASSUME RecordsAssumption ==
  /\ 0 \in Nodes /\ Nodes \subseteq Nat
  /\ MaxTrades \in Nat \ {0} /\ MaxStamp \in Nat
  /\ MaxChange \in Nat /\ MaxFault \in Nat /\ MaxCrash \in Nat
  /\ Absent \notin Nat \cup {Bad} /\ Bad \notin Nat

Stamps  == 1 .. MaxStamp
Version == 0 .. MaxChange
Memory  == Version \cup {Absent}
File    == Version \cup {Absent, Bad}

VARIABLES
  up,          \* the process runs
  users, pairs, nodes, trades,  \* Store, in memory
  cursor,      \* Store.saved_trades_count
  dirty, dirtyUsers,
  step,        \* the sub-save that is next, "idle" outside state::save
  failed,      \* first_err is set
  userFile, pairFile, nodeFile, tradeFile,
  unseen,      \* history: files the last load left in place without loading
  removed,     \* history: pairs the operator removed
  faults, crashes

memory == <<users, pairs, nodes, trades, cursor, dirty, dirtyUsers>>
files  == <<userFile, pairFile, nodeFile, tradeFile>>
vars   == <<up, memory, step, failed, files, unseen, removed, faults, crashes>>

Present(f) == {n \in DOMAIN f : f[n] # Absent}

(* Whether one more call may fail. *)
Fault(isOne) == /\ isOne => faults < MaxFault
                /\ faults' = IF isOne THEN faults + 1 ELSE faults

---------------------------------------------------------------------------
(* Loading. *)

(* The files of a directory that are read, moved aside or left.  A bad file *)
(* is moved aside; so is a good one that cannot be read.  One whose entry   *)
(* cannot be listed, or that cannot be moved, stays.                        *)
LoadOutcomes(f) ==
  {[got |-> [n \in DOMAIN f |-> IF n \in left \cup hurt \/ f[n] = Bad
                                THEN Absent ELSE f[n]],
    file |-> [n \in DOMAIN f |-> IF n \in hurt \/ (f[n] = Bad /\ n \notin left)
                                 THEN Absent ELSE f[n]],
    left |-> left,
    fault |-> left \cup hurt # {}] :
   left \in SUBSET Present(f),
   hurt \in SUBSET {n \in Present(f) : f[n] # Bad}}

LoadUsers == LoadOutcomes(userFile)
LoadPairs == LoadOutcomes(pairFile)

(* A node file is bad, too, if node 0 would have to give up goods of another *)
(* kind to the diamonds or the overflow.                                     *)
LoadNodes == LoadOutcomes(nodeFile)

(* Storage with nodes but without node 0 refuses to start. *)
StorageStarts(got) == Present(got) = {} \/ 0 \in Present(got)

(* A trade directory: only the newest MaxTrades files are opened, the older *)
(* ones are neither loaded nor moved.                                       *)
Newest(S) == {t \in S : Cardinality({s \in S : s > t}) < MaxTrades}

LoadTrades(f) ==
  LET opened == Newest(Present(f))
      young  == [t \in DOMAIN f |-> IF t \in opened THEN f[t] ELSE Absent]
  IN {[o EXCEPT !.file = [t \in DOMAIN f |-> IF t \in opened THEN o.file[t]
                                             ELSE f[t]]]
        : o \in LoadOutcomes(young)}

(* The timestamps of S, oldest first. *)
InOrder(S) == [i \in 1 .. Cardinality(S) |->
                 CHOOSE t \in S : Cardinality({s \in S : s < t}) = i - 1]

(* Store::new.  Storage without a node gets node 0, whose save may fail     *)
(* without consequence.                                                     *)
Start ==
  /\ ~up
  /\ \E u \in LoadUsers, p \in LoadPairs, n \in LoadNodes, t \in LoadTrades(tradeFile),
        written \in BOOLEAN :
       /\ StorageStarts(n.got)
       /\ Present(n.got) # {} => written
       /\ Fault(u.fault \/ p.fault \/ n.fault \/ t.fault \/ ~written)
       /\ users' = u.got /\ pairs' = p.got
       /\ trades' = InOrder(Present(t.got))
       /\ cursor' = Cardinality(Present(t.got))
       /\ userFile' = u.file /\ pairFile' = p.file /\ tradeFile' = t.file
       /\ IF Present(n.got) = {}
          THEN /\ nodes' = [n.got EXCEPT ![0] = 0]
               /\ nodeFile' = IF written THEN [n.file EXCEPT ![0] = 0] ELSE n.file
          ELSE nodes' = n.got /\ nodeFile' = n.file
       /\ unseen' = [user |-> u.left, pair |-> p.left, trade |-> t.left]
  /\ up' = TRUE /\ dirty' = FALSE /\ dirtyUsers' = {} /\ removed' = {}
  /\ UNCHANGED <<step, failed, crashes>>

---------------------------------------------------------------------------
(* Changes in memory, made by the handlers between two saves. *)

Ready == up /\ step = "idle"

Apart == UNCHANGED <<up, step, failed, removed, unseen, faults, crashes>>

(* ensure_user_exists for a player not seen before: a record with nothing. *)
EnsureUser(u) ==
  /\ Ready /\ users[u] = Absent
  /\ users' = [users EXCEPT ![u] = 0]
  /\ dirty' = TRUE /\ dirtyUsers' = dirtyUsers \cup {u}
  /\ UNCHANGED <<pairs, nodes, trades, cursor, files>> /\ Apart

(* A balance, a name or the operator flag changes. *)
ChangeUser(u) ==
  /\ Ready /\ users[u] # Absent /\ users[u] < MaxChange
  /\ users' = [users EXCEPT ![u] = @ + 1]
  /\ dirty' = TRUE /\ dirtyUsers' = dirtyUsers \cup {u}
  /\ UNCHANGED <<pairs, nodes, trades, cursor, files>> /\ Apart

AddPair(p) ==
  /\ Ready /\ pairs[p] = Absent
  /\ pairs' = [pairs EXCEPT ![p] = 0] /\ dirty' = TRUE
  /\ UNCHANGED <<users, nodes, trades, cursor, dirtyUsers, files>> /\ Apart

(* A commit: the stock of a pair, and the row of the trade in the history. *)
Commit(p, t) ==
  /\ Ready /\ pairs[p] # Absent /\ pairs[p] < MaxChange
  /\ \A s \in Present(tradeFile) \cup {trades[i] : i \in DOMAIN trades} : t > s
  /\ pairs' = [pairs EXCEPT ![p] = @ + 1]
  /\ trades' = Append(trades, t) /\ dirty' = TRUE
  /\ UNCHANGED <<users, nodes, cursor, dirtyUsers, files>> /\ Apart

(* CLI RemovePair: from memory, and its file, whose removal may fail. *)
RemovePair(p) ==
  /\ Ready /\ pairs[p] # Absent
  /\ pairs' = [pairs EXCEPT ![p] = Absent] /\ dirty' = TRUE
  /\ removed' = removed \cup {p}
  /\ \E gone \in BOOLEAN :
       /\ pairFile' = IF gone THEN [pairFile EXCEPT ![p] = Absent] ELSE pairFile
       /\ Fault(~gone)
  /\ UNCHANGED <<up, users, nodes, trades, cursor, dirtyUsers, step, failed,
                 userFile, nodeFile, tradeFile, unseen, crashes>>

(* Node::save of a new node; its error is only logged. *)
NewNodeFile(n, ok) == IF ok THEN [nodeFile EXCEPT ![n] = 0] ELSE nodeFile

(* CLI AddNode and DiscoverStorage: the lowest free id, saved at once. *)
AddNode(n) ==
  /\ Ready /\ nodes[n] = Absent
  /\ \A m \in Nodes : m < n => nodes[m] # Absent
  /\ nodes' = [nodes EXCEPT ![n] = 0] /\ dirty' = TRUE
  /\ \E ok \in BOOLEAN :
       /\ nodeFile' = NewNodeFile(n, ok)
       /\ Fault(~ok)
  /\ UNCHANGED <<up, users, pairs, trades, cursor, dirtyUsers, step, failed,
                 userFile, pairFile, tradeFile, unseen, removed, crashes>>

(* CLI RemoveNode: as RemovePair, but no later sweep looks for its file. *)
RemoveNode(n) ==
  /\ Ready /\ nodes[n] # Absent
  /\ nodes' = [nodes EXCEPT ![n] = Absent] /\ dirty' = TRUE
  /\ \E gone \in BOOLEAN :
       /\ nodeFile' = IF gone THEN [nodeFile EXCEPT ![n] = Absent] ELSE nodeFile
       /\ Fault(~gone)
  /\ UNCHANGED <<up, users, pairs, trades, cursor, dirtyUsers, step, failed,
                 userFile, pairFile, tradeFile, unseen, removed, crashes>>

(* apply_chest_sync: the stored contents of a chest follow the real ones. *)
SyncChest(n) ==
  /\ Ready /\ nodes[n] # Absent /\ nodes[n] < MaxChange
  /\ nodes' = [nodes EXCEPT ![n] = @ + 1] /\ dirty' = TRUE
  /\ UNCHANGED <<users, pairs, trades, cursor, dirtyUsers, files>> /\ Apart

---------------------------------------------------------------------------
(* state::save, one sub-save after the other. *)

(* Mutant: only the marked records count as expected by the sweep. *)
MirrorOutcomesMarkedOnly(f, mem, marked) ==
  {[file |-> [n \in DOMAIN f |-> IF n \in marked THEN mem[n] ELSE Absent],
    ok |-> TRUE, fault |-> FALSE]}

(* What the save of one directory can leave: the marked records are written *)
(* one by one, every one of them is tried, and then the files of records    *)
(* that are not in memory are removed.  An empty map with files on disk is  *)
(* refused.                                                                 *)
MirrorOutcomes(f, mem, marked) ==
  LET todo    == {n \in marked : mem[n] # Absent}
      orphans == {n \in Present(f) : mem[n] = Absent}
  IN IF Present(mem) = {}
     THEN {[file |-> f, ok |-> Present(f) = {}, fault |-> FALSE]}
     ELSE {[file |-> [n \in DOMAIN f |-> IF n \in written THEN mem[n]
                                         ELSE IF n \in swept THEN Absent ELSE f[n]],
            ok |-> written = todo /\ swept = orphans,
            fault |-> written # todo \/ swept # orphans] :
           written \in SUBSET todo, swept \in SUBSET orphans}

(* Only the records after the cursor are written; none is ever changed. *)
Tail_(c) == {trades[i] : i \in (c + 1) .. Len(trades)}
Kept     == [t \in Stamps |-> IF \E i \in DOMAIN trades : trades[i] = t
                              THEN 0 ELSE Absent]

PairOutcomes  == MirrorOutcomes(pairFile, pairs, Pairs)
UserOutcomes  == MirrorOutcomes(userFile, users, dirtyUsers)
TradeOutcomes == MirrorOutcomes(tradeFile, Kept, Tail_(cursor))

(* Storage::save stops at the first node it cannot write and sweeps nothing. *)
NodeOutcomes ==
  {[file |-> [n \in Nodes |-> IF n \in written THEN nodes[n] ELSE nodeFile[n]],
    ok |-> written = Present(nodes), fault |-> written # Present(nodes)] :
   written \in SUBSET Present(nodes)}

(* Mutants: the cursor does not follow the trim; the subtraction does not   *)
(* stop at zero.                                                            *)
TrimCursorStays(drop) == cursor
TrimCursorWraps(drop) == cursor - drop

(* trim_in_memory_to_caps: the oldest trades go, and the cursor with them. *)
TrimCursor(drop) == IF cursor > drop THEN cursor - drop ELSE 0

BeginSave ==
  /\ Ready /\ dirty
  /\ LET drop == IF Len(trades) > MaxTrades THEN Len(trades) - MaxTrades ELSE 0
     IN /\ trades' = SubSeq(trades, drop + 1, Len(trades))
        /\ cursor' = TrimCursor(drop)
  /\ step' = "pairs" /\ failed' = FALSE
  /\ UNCHANGED <<up, users, pairs, nodes, dirty, dirtyUsers, files, unseen, removed,
                 faults, crashes>>

Running == UNCHANGED <<up, users, pairs, nodes, trades, dirty, dirtyUsers, unseen,
                       removed, crashes>>

SavePairs ==
  /\ up /\ step = "pairs" /\ step' = "users"
  /\ \E o \in PairOutcomes : /\ pairFile' = o.file /\ failed' = (failed \/ ~o.ok)
                             /\ Fault(o.fault)
  /\ UNCHANGED <<cursor, userFile, nodeFile, tradeFile>> /\ Running

SaveUsers ==
  /\ up /\ step = "users" /\ step' = "orders"
  /\ \E o \in UserOutcomes : /\ userFile' = o.file /\ failed' = (failed \/ ~o.ok)
                             /\ Fault(o.fault)
  /\ UNCHANGED <<cursor, pairFile, nodeFile, tradeFile>> /\ Running

(* orders.json is never read back: a start deletes it. *)
SaveOrders ==
  /\ up /\ step = "orders" /\ step' = "trades"
  /\ \E ok \in BOOLEAN : failed' = (failed \/ ~ok) /\ Fault(~ok)
  /\ UNCHANGED <<cursor, files>> /\ Running

(* The cursor moves only when the directory was saved without an error. *)
CursorAfter(ok) == IF ok THEN Len(trades) ELSE cursor

SaveTrades ==
  /\ up /\ step = "trades" /\ step' = "storage"
  /\ \E o \in TradeOutcomes : /\ tradeFile' = o.file /\ failed' = (failed \/ ~o.ok)
                              /\ cursor' = CursorAfter(o.ok)
                              /\ Fault(o.fault)
  /\ UNCHANGED <<userFile, pairFile, nodeFile>> /\ Running

(* The dirty marks after the five sub-saves.  Mutant: the result is ignored. *)
MarksAfterIgnored(ok) == dirty' = FALSE /\ dirtyUsers' = {}
MarksAfter(ok) == IF ok THEN dirty' = FALSE /\ dirtyUsers' = {}
                  ELSE UNCHANGED <<dirty, dirtyUsers>>

(* The last sub-save, and the caller's answer to the result of all five. *)
SaveStorage ==
  /\ up /\ step = "storage" /\ step' = "idle"
  /\ \E o \in NodeOutcomes :
       /\ nodeFile' = o.file /\ Fault(o.fault)
       /\ MarksAfter(~failed /\ o.ok)
  /\ failed' = FALSE
  /\ UNCHANGED <<up, users, pairs, nodes, trades, cursor, userFile, pairFile,
                 tradeFile, unseen, removed, crashes>>

---------------------------------------------------------------------------
(* The process ends: between two calls, or with a sub-save half done. *)
Crash ==
  /\ up /\ crashes < MaxCrash
  /\ crashes' = crashes + 1 /\ up' = FALSE /\ step' = "idle" /\ failed' = FALSE
  /\ users' = [u \in Users |-> Absent] /\ pairs' = [p \in Pairs |-> Absent]
  /\ nodes' = [n \in Nodes |-> Absent] /\ trades' = <<>> /\ cursor' = 0
  /\ dirty' = FALSE /\ dirtyUsers' = {}
  /\ pairFile'  \in IF step = "pairs"   THEN {o.file : o \in PairOutcomes}  ELSE {pairFile}
  /\ userFile'  \in IF step = "users"   THEN {o.file : o \in UserOutcomes}  ELSE {userFile}
  /\ tradeFile' \in IF step = "trades"  THEN {o.file : o \in TradeOutcomes} ELSE {tradeFile}
  /\ nodeFile'  \in IF step = "storage" THEN {o.file : o \in NodeOutcomes}  ELSE {nodeFile}
  /\ UNCHANGED <<unseen, removed, faults>>

(* While the store is down a file is damaged, or edited by hand. *)
Damage ==
  /\ ~up
  /\ \/ \E u \in Present(userFile) :
          userFile' = [userFile EXCEPT ![u] = Bad] /\ UNCHANGED <<pairFile, tradeFile>>
     \/ \E p \in Present(pairFile) :
          pairFile' = [pairFile EXCEPT ![p] = Bad] /\ UNCHANGED <<userFile, tradeFile>>
     \/ \E t \in Present(tradeFile) :
          tradeFile' = [tradeFile EXCEPT ![t] = Bad] /\ UNCHANGED <<userFile, pairFile>>
  /\ Fault(TRUE)
  /\ UNCHANGED <<up, memory, step, failed, nodeFile, unseen, removed, crashes>>

Init ==
  /\ up = FALSE /\ step = "idle" /\ failed = FALSE
  /\ users = [u \in Users |-> Absent] /\ pairs = [p \in Pairs |-> Absent]
  /\ nodes = [n \in Nodes |-> Absent] /\ trades = <<>> /\ cursor = 0
  /\ dirty = FALSE /\ dirtyUsers = {}
  /\ userFile = [u \in Users |-> Absent] /\ pairFile = [p \in Pairs |-> Absent]
  /\ nodeFile = [n \in Nodes |-> Absent] /\ tradeFile = [t \in Stamps |-> Absent]
  /\ unseen = [user |-> {}, pair |-> {}, trade |-> {}] /\ removed = {}
  /\ faults = 0 /\ crashes = 0

Next ==
  \/ Start \/ BeginSave \/ SavePairs \/ SaveUsers \/ SaveOrders \/ SaveTrades
  \/ SaveStorage \/ Crash \/ Damage
  \/ \E u \in Users : EnsureUser(u) \/ ChangeUser(u)
  \/ \E p \in Pairs : AddPair(p) \/ RemovePair(p)
  \/ \E p \in Pairs, t \in Stamps : Commit(p, t)
  \/ \E n \in Nodes : AddNode(n) \/ RemoveNode(n) \/ SyncChest(n)

Spec == Init /\ [][Next]_vars

---------------------------------------------------------------------------
(* Type invariant. *)
TypeOK ==
  /\ up \in BOOLEAN /\ dirty \in BOOLEAN /\ failed \in BOOLEAN
  /\ users \in [Users -> Memory] /\ pairs \in [Pairs -> Memory]
  /\ nodes \in [Nodes -> Memory]
  /\ trades \in Seq(Stamps) /\ cursor \in Nat
  /\ dirtyUsers \subseteq Users /\ removed \subseteq Pairs
  /\ step \in {"idle", "pairs", "users", "orders", "trades", "storage"}
  /\ userFile \in [Users -> File] /\ pairFile \in [Pairs -> File]
  /\ nodeFile \in [Nodes -> File] /\ tradeFile \in [Stamps -> File]
  /\ unseen \in [user : SUBSET Users, pair : SUBSET Pairs, trade : SUBSET Stamps]
  /\ faults \in 0 .. MaxFault /\ crashes \in 0 .. MaxCrash

(* With the dirty mark clear every record in memory is the one on disk,     *)
(* whatever failed and was retried before; the automatic node 0 aside,      *)
(* which the next start makes again.                                        *)
CleanIsMirrored ==
  up /\ step = "idle" /\ ~dirty =>
    /\ \A u \in Users : users[u] # Absent => userFile[u] = users[u]
    /\ \A p \in Pairs : pairs[p] # Absent => pairFile[p] = pairs[p]
    /\ \A i \in DOMAIN trades : tradeFile[trades[i]] = 0
    /\ \A n \in Nodes : nodes[n] \notin {Absent, 0} => nodeFile[n] = nodes[n]

(* What the incremental save skips is on disk: a user who is not marked,    *)
(* and a trade before the cursor.                                           *)
SkippedIsStored ==
  up => /\ \A u \in Users : users[u] # Absent /\ u \notin dirtyUsers
                              => userFile[u] = users[u]
        /\ cursor <= Len(trades)
        /\ \A i \in 1 .. cursor : tradeFile[trades[i]] = 0

(* A save destroys nothing it was not told to: a user's record never        *)
(* disappears or goes back, a pair's disappears when the operator removed   *)
(* it, a trade's only when it is older than all that is kept.  The one      *)
(* exception is a file the last start had to leave in place unread.         *)
RemovedKnowingly ==
  [][up =>
       /\ \A u \in Users : userFile[u] \in Version /\ u \notin unseen.user
            => userFile'[u] \in Version /\ userFile'[u] >= userFile[u]
       /\ \A p \in Pairs : pairFile[p] # Absent /\ pairFile'[p] = Absent
            => p \in unseen.pair \cup removed'
       /\ \A t \in Stamps : tradeFile[t] # Absent /\ tradeFile'[t] = Absent
            => t \in unseen.trade \/ \A i \in DOMAIN trades : trades[i] > t]_vars

===========================================================================
