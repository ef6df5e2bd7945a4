--------------------------- MODULE OrderLifecycle ---------------------------
(***************************************************************************)
(* The life of a queued order in the Store task: it is accepted into the   *)
(* queue (queue.json), handed over to the trade state machine              *)
(* (current_trade.json), driven by its handler, concluded, and its ledger  *)
(* entry saved.  The Store is one task, so a step here is what it does     *)
(* between two points at which the process may die: every write of a file  *)
(* is a step of its own, changes of memory are merged with the write they  *)
(* precede or follow.                                                      *)
(*                                                                         *)
(* A write that fails leaves the old content of the file (write_atomic     *)
(* replaces by rename).  Faults says which operations may fail: "write"    *)
(* (saving or removing a file), "read" (queue.json unreadable or corrupt   *)
(* at startup), "archive" (moving a leftover current_trade.json aside).    *)
(***************************************************************************)
EXTENDS Integers, Sequences, SequencesExt, FiniteSets

CONSTANTS Users,             \* player UUIDs
          Kinds,             \* kinds of order the players place
          MaxQueueSize,      \* MAX_QUEUE_SIZE
          MaxOrdersPerUser,  \* MAX_ORDERS_PER_USER
          MaxOrders,         \* bound: orders accepted in a behaviour
          MaxRestarts,       \* bound: times the process is started again
          Faults             \* the operations that may fail

AllKinds == {"buy", "sell", "deposit", "withdraw"}

ASSUME KindsAssumption  == Kinds \subseteq AllKinds
ASSUME CapsAssumption   == /\ MaxQueueSize \in Nat
                           /\ MaxOrdersPerUser \in Nat
ASSUME BoundsAssumption == /\ MaxOrders \in Nat
                           /\ MaxRestarts \in Nat
ASSUME FaultsAssumption == Faults \subseteq {"write", "read", "archive"}

VARIABLES
  (* memory of the Store *)
  orders,            \* OrderQueue.orders
  next_id,           \* OrderQueue.next_id
  current_trade,     \* Store.current_trade
  processing_order,  \* Store.processing_order
  ledger,            \* orders whose commit is in balances, reserves, trades
  dirty,             \* Store.dirty
  pc,                \* where the Store task is
  (* files *)
  queueFile,         \* queue.json
  mirror,            \* current_trade.json
  archive,           \* current_trade.leftover-*.json
  ledgerFile,        \* users, pairs and trades as last saved
  (* history *)
  clock,             \* orders accepted so far; stamps queued_at
  fate,              \* what became of the order accepted at each instant
  restarts           \* starts of the process after the first

memory  == <<orders, next_id, current_trade, processing_order, ledger, dirty>>
files   == <<queueFile, mirror, archive, ledgerFile>>
history == <<clock, fate, restarts>>
vars    == <<memory, pc, files, history>>

Stamps == 1 .. MaxOrders
Order  == [id: Stamps, user: Users, kind: Kinds, at: Stamps]

LivePhases     == {"queued", "withdrawing", "trading", "depositing"}
TerminalPhases == {"committed", "rolled_back"}
Trade   == [phase: LivePhases \union TerminalPhases, order: Order]
NoTrade == [phase |-> "none"]

EmptyQueue == [orders |-> <<>>, next_id |-> 1]
QueuePersist == [orders: Seq(Order), next_id: 1 .. MaxOrders + 1]

Down    == {"crashed", "stopped", "loading"}
Running == pc = "running"

(* The task waits for a message: parked on recv(), because there is nothing
   it may process, or draining the channel between two orders. *)
Receiving == \/ pc = "drain"
             \/ pc = "top" /\ (processing_order \/ orders = <<>>)

Fails(kind) == kind \in Faults

---------------------------------------------------------------------------
(* Writing the files. *)

PersistTrade(trade) == \/ mirror' = trade
                       \/ Fails("write") /\ mirror' = mirror

ClearTrade == \/ mirror' = NoTrade
              \/ Fails("write") /\ mirror' = mirror

SaveQueue(q, next) == queueFile' = [orders |-> q, next_id |-> next]

---------------------------------------------------------------------------
(* Messages from players and from the operator. *)

UserOrders(u) == {i \in DOMAIN orders : orders[i].user = u}

(* Mutant: the cap of the queue is off by one. *)
HasRoomForOneMore(u) == /\ Len(orders) <= MaxQueueSize
                        /\ Cardinality(UserOrders(u)) < MaxOrdersPerUser

HasRoom(u) == /\ Len(orders) < MaxQueueSize
              /\ Cardinality(UserOrders(u)) < MaxOrdersPerUser

NewOrder(u, kind) == [id |-> next_id, user |-> u, kind |-> kind, at |-> clock + 1]

Add(u, kind) ==
  /\ Receiving
  /\ clock < MaxOrders
  /\ HasRoom(u)
  /\ orders' = Append(orders, NewOrder(u, kind))
  /\ next_id' = next_id + 1
  /\ SaveQueue(orders', next_id')
  /\ clock' = clock + 1
  /\ fate' = [fate EXCEPT ![clock + 1] = "waiting"]
  /\ UNCHANGED <<current_trade, processing_order, ledger, dirty, pc,
                 mirror, archive, ledgerFile, restarts>>

(* Mutant: the id is given back without having been taken. *)
AddSaveFailsTwice(u, kind) ==
  /\ Receiving
  /\ clock < MaxOrders
  /\ HasRoom(u)
  /\ Fails("write")
  /\ next_id' = next_id - 1
  /\ UNCHANGED <<orders, current_trade, processing_order, ledger, dirty, pc, files, history>>

(* The save failed: the push is undone and the id given back. *)
AddSaveFails(u, kind) ==
  /\ Receiving
  /\ clock < MaxOrders
  /\ HasRoom(u)
  /\ Fails("write")
  /\ orders' = Front(Append(orders, NewOrder(u, kind)))
  /\ next_id' = (next_id + 1) - 1
  /\ UNCHANGED <<current_trade, processing_order, ledger, dirty, pc, files, history>>

(* An order that is being processed is refused, by its id, before the queue
   is searched. *)
Cancellable(i) ==
  /\ Receiving
  /\ ~ (current_trade # NoTrade /\ current_trade.order.id = orders[i].id)

Cancel(i) ==
  /\ Cancellable(i)
  /\ orders' = RemoveAt(orders, i)
  /\ SaveQueue(orders', next_id)
  /\ fate' = [fate EXCEPT ![orders[i].at] = "cancelled"]
  /\ UNCHANGED <<next_id, current_trade, processing_order, ledger, dirty, pc,
                 mirror, archive, ledgerFile, clock, restarts>>

(* Mutants: the order is not put back, or is put back behind the others. *)
CancelSaveFailsForgets(i) ==
  /\ Cancellable(i)
  /\ Fails("write")
  /\ orders' = RemoveAt(orders, i)
  /\ UNCHANGED <<next_id, current_trade, processing_order, ledger, dirty, pc,
                 files, history>>

CancelSaveFailsAtEnd(i) ==
  /\ Cancellable(i)
  /\ Fails("write")
  /\ orders' = Append(RemoveAt(orders, i), orders[i])
  /\ UNCHANGED <<next_id, current_trade, processing_order, ledger, dirty, pc,
                 files, history>>

(* The save failed: the order goes back to the place it was taken from. *)
CancelSaveFails(i) ==
  /\ Cancellable(i)
  /\ Fails("write")
  /\ orders' = InsertAt(RemoveAt(orders, i), i, orders[i])
  /\ UNCHANGED <<next_id, current_trade, processing_order, ledger, dirty, pc,
                 files, history>>

(* ClearStuckOrder: the operator gives up the trade in memory and the one
   on disk, whichever they are, and releases the queue. *)
GivenUp(trades) == {t.order.at : t \in trades \ {NoTrade}}

ClearStuckOrder ==
  /\ Receiving
  /\ current_trade # NoTrade \/ processing_order \/ mirror # NoTrade
  /\ processing_order' = FALSE
  /\ current_trade' = NoTrade
  /\ dirty' = TRUE
  /\ ClearTrade
  /\ fate' = [a \in Stamps |->
                IF a \in GivenUp({current_trade, mirror}) /\ fate[a] \in {"running", "unfinished"}
                THEN "cleared" ELSE fate[a]]
  /\ \/ SaveQueue(orders, next_id)
     \/ Fails("write") /\ UNCHANGED queueFile
  /\ UNCHANGED <<orders, next_id, ledger, pc, archive, ledgerFile, clock, restarts>>

(* Shutdown: the state is saved and the loop left.  The mirror is not
   looked at. *)
Shutdown ==
  /\ Receiving
  /\ \/ ledgerFile' = ledger
     \/ Fails("write") /\ UNCHANGED ledgerFile
  /\ pc' = "stopped"
  /\ UNCHANGED <<memory, queueFile, mirror, archive, history>>

---------------------------------------------------------------------------
(* process_next_order: the handover from the queue to the trade state. *)

(* Mutants: an order is taken up while another is held, or only when no trade
   is left over in memory. *)
ReadyWhileHeld == pc = "top" /\ orders # <<>>
ReadyWithoutTrade == pc = "top" /\ ~processing_order /\ orders # <<>> /\ current_trade = NoTrade

Ready == pc = "top" /\ ~processing_order /\ orders # <<>>

(* Mutant: the handler is trusted to write the mirror. *)
PersistQueuedLater ==
  /\ Ready
  /\ pc' = "handover"
  /\ UNCHANGED <<memory, queueFile, mirror, archive, ledgerFile, history>>

(* Peek, then write the mirror of the order still in the queue. *)
PersistQueued ==
  /\ Ready
  /\ mirror' = [phase |-> "queued", order |-> Head(orders)]
  /\ pc' = "handover"
  /\ UNCHANGED <<memory, queueFile, archive, ledgerFile, history>>

(* The mirror cannot be written: the order stays in the queue. *)
PersistQueuedFails ==
  /\ Ready
  /\ Fails("write")
  /\ pc' = "save"
  /\ UNCHANGED <<memory, files, history>>

(* Mutants: the queue is saved before its head is dropped; the youngest order
   is popped. *)
PopAfterSave ==
  /\ pc = "handover"
  /\ SaveQueue(orders, next_id)
  /\ orders' = Tail(orders)
  /\ processing_order' = TRUE
  /\ current_trade' = [phase |-> "queued", order |-> Head(orders)]
  /\ fate' = [fate EXCEPT ![Head(orders).at] = "running"]
  /\ pc' = "running"
  /\ UNCHANGED <<next_id, ledger, dirty, mirror, archive, ledgerFile, clock, restarts>>

PopYoungest ==
  /\ pc = "handover"
  /\ SaveQueue(Front(orders), next_id)
  /\ orders' = Front(orders)
  /\ processing_order' = TRUE
  /\ current_trade' = [phase |-> "queued", order |-> Last(orders)]
  /\ fate' = [fate EXCEPT ![Last(orders).at] = "running"]
  /\ pc' = "running"
  /\ UNCHANGED <<next_id, ledger, dirty, mirror, archive, ledgerFile, clock, restarts>>

(* pop_committed saves the queue without its head, then drops the head and
   makes the trade current. *)
PopCommitted ==
  /\ pc = "handover"
  /\ SaveQueue(Tail(orders), next_id)
  /\ orders' = Tail(orders)
  /\ processing_order' = TRUE
  /\ current_trade' = [phase |-> "queued", order |-> Head(orders)]
  /\ fate' = [fate EXCEPT ![Head(orders).at] = "running"]
  /\ pc' = "running"
  /\ UNCHANGED <<next_id, ledger, dirty, mirror, archive, ledgerFile, clock, restarts>>

PopCommittedFails ==
  /\ pc = "handover"
  /\ Fails("write")
  /\ pc' = "orphan"
  /\ UNCHANGED <<memory, files, history>>

(* Best effort: remove the mirror of an order that stays in the queue. *)
ClearOrphan ==
  /\ pc = "orphan"
  /\ ClearTrade
  /\ pc' = "save"
  /\ UNCHANGED <<memory, queueFile, archive, ledgerFile, history>>

---------------------------------------------------------------------------
(* The handlers.  Here a handler is the phases it drives the trade through
   and the phases at which it may return without having reached a terminal
   one; what it moves meanwhile is the subject of other modules. *)

Ladder ==
  [buy      |-> {<<"queued", "withdrawing">>, <<"withdrawing", "trading">>,
                 <<"withdrawing", "rolled_back">>, <<"trading", "rolled_back">>,
                 <<"trading", "committed">>},
   sell     |-> {<<"queued", "withdrawing">>, <<"withdrawing", "trading">>,
                 <<"withdrawing", "rolled_back">>, <<"trading", "rolled_back">>,
                 <<"trading", "depositing">>, <<"depositing", "rolled_back">>,
                 <<"depositing", "committed">>},
   deposit  |-> {<<"queued", "withdrawing">>, <<"withdrawing", "trading">>,
                 <<"trading", "rolled_back">>, <<"trading", "committed">>},
   withdraw |-> {<<"queued", "withdrawing">>, <<"withdrawing", "trading">>,
                 <<"withdrawing", "rolled_back">>, <<"trading", "rolled_back">>,
                 <<"trading", "committed">>}]

(* Every handler may reject the order in its validation.  A buy and a sell
   return when the whisper of the terms fails, a deposit when the player
   turned the trade down or none of the diamonds reached a chest. *)
EarlyReturn ==
  [buy |-> {"queued", "withdrawing"}, sell |-> {"queued", "withdrawing"},
   deposit |-> {"queued", "trading"}, withdraw |-> {"queued"}]

Here == current_trade.order

(* Whether a step changes balances or reserves: a commit does, so does a
   sell whose deposit failed after the diamonds were paid, and a buy that
   credits an underpayment may. *)
Books(from, to) ==
  CASE to = "committed" -> {TRUE}
    [] to = "rolled_back" /\ <<Here.kind, from>> = <<"sell", "depositing">> -> {TRUE}
    [] to = "rolled_back" /\ <<Here.kind, from>> = <<"buy", "trading">> -> BOOLEAN
    [] OTHER -> {FALSE}

(* advance_trade: the mirror is written before the state in memory changes;
   a failed write is only logged. *)
Advance(phase) ==
  LET next == [current_trade EXCEPT !.phase = phase] IN
  /\ Running
  /\ <<current_trade.phase, phase>> \in Ladder[Here.kind]
  /\ \E booked \in Books(current_trade.phase, phase) :
       ledger' = IF booked THEN ledger \union {Here.at} ELSE ledger
  /\ current_trade' = next
  /\ PersistTrade(next)
  /\ dirty' = TRUE
  /\ UNCHANGED <<orders, next_id, processing_order, pc, queueFile, archive,
                 ledgerFile, history>>

(* Mutant: the queue is not released. *)
ConcludeHolding ==
  /\ Running
  /\ current_trade.phase \in TerminalPhases
  /\ ClearTrade
  /\ current_trade' = IF mirror' = NoTrade THEN NoTrade ELSE current_trade
  /\ fate' = [fate EXCEPT ![Here.at] = "concluded"]
  /\ dirty' = TRUE
  /\ pc' = "save"
  /\ UNCHANGED <<orders, next_id, processing_order, ledger, queueFile, archive,
                 ledgerFile, clock, restarts>>

(* The handler returned in a terminal phase: the mirror is removed, and the
   state in memory only if that succeeded. *)
Conclude ==
  /\ Running
  /\ current_trade.phase \in TerminalPhases
  /\ processing_order' = FALSE
  /\ ClearTrade
  /\ current_trade' = IF mirror' = NoTrade THEN NoTrade ELSE current_trade
  /\ fate' = [fate EXCEPT ![Here.at] = "concluded"]
  /\ dirty' = TRUE
  /\ pc' = "save"
  /\ UNCHANGED <<orders, next_id, ledger, queueFile, archive, ledgerFile, clock, restarts>>

(* The handler returned in a phase that is not terminal: both records are
   left for the operator. *)
LeaveForOperator ==
  /\ Running
  /\ current_trade.phase \in EarlyReturn[Here.kind]
  /\ processing_order' = FALSE
  /\ PersistTrade(current_trade)
  /\ fate' = [fate EXCEPT ![Here.at] = "unfinished"]
  /\ dirty' = TRUE
  /\ pc' = "save"
  /\ UNCHANGED <<orders, next_id, current_trade, ledger, queueFile, archive,
                 ledgerFile, clock, restarts>>

(* ORDER_HARD_TIMEOUT: the handler is dropped at an await.  A deposit has
   none while its phase is Withdrawing. *)
Watchdog ==
  /\ Running
  /\ <<Here.kind, current_trade.phase>> # <<"deposit", "withdrawing">>
  /\ PersistTrade(current_trade)
  /\ dirty' = TRUE
  /\ pc' = "save"
  /\ UNCHANGED <<orders, next_id, current_trade, processing_order, ledger,
                 queueFile, archive, ledgerFile, history>>

(* A handler whose audit fails after the commit saves the state itself; the
   result is ignored and the dirty flag kept. *)
SaveInHandler ==
  /\ Running
  /\ current_trade.phase = "committed"
  /\ ledgerFile' = ledger
  /\ UNCHANGED <<memory, pc, queueFile, mirror, archive, history>>

---------------------------------------------------------------------------
(* The rest of the main loop. *)

(* Mutant: the flag is cleared whether or not the files were written. *)
SaveStateOnce ==
  /\ dirty' = FALSE
  /\ \/ ledgerFile' = ledger
     \/ Fails("write") /\ UNCHANGED ledgerFile

SaveState ==
  \/ ledgerFile' = ledger /\ dirty' = FALSE
  \/ Fails("write") /\ UNCHANGED <<ledgerFile, dirty>>

(* The save that follows every order. *)
SaveAfterOrder ==
  /\ pc = "save"
  /\ IF dirty THEN SaveState ELSE UNCHANGED <<ledgerFile, dirty>>
  /\ pc' = "drain"
  /\ UNCHANGED <<orders, next_id, current_trade, processing_order, ledger,
                 queueFile, mirror, archive, history>>

(* The channel is empty: back to the top of the loop. *)
Drained ==
  /\ pc = "drain"
  /\ pc' = "top"
  /\ UNCHANGED <<memory, files, history>>

(* The debounced save at the top of the loop and after a message. *)
Autosave ==
  /\ pc = "top"
  /\ dirty
  /\ SaveState
  /\ UNCHANGED <<orders, next_id, current_trade, processing_order, ledger, pc,
                 queueFile, mirror, archive, history>>

---------------------------------------------------------------------------
(* Death and restart of the process. *)

Crash ==
  /\ pc # "crashed" /\ pc # "stopped"
  /\ restarts < MaxRestarts
  /\ pc' = "crashed"
  /\ UNCHANGED <<memory, files, history>>

(* The memory of a process that starts: what the files hold. *)
Forget ==
  /\ current_trade' = NoTrade
  /\ processing_order' = FALSE
  /\ ledger' = ledgerFile
  /\ dirty' = FALSE

(* OrderQueue::load. *)
LoadQueue ==
  /\ pc \in {"crashed", "stopped"}
  /\ restarts < MaxRestarts
  /\ restarts' = restarts + 1
  /\ pc' = "loading"
  /\ Forget
  /\ orders' = queueFile.orders
  /\ next_id' = queueFile.next_id
  /\ UNCHANGED <<files, clock, fate>>

(* The file cannot be used: it is moved aside, the queue starts empty and
   the ids start again at 1. *)
QuarantineQueue ==
  /\ pc \in {"crashed", "stopped"}
  /\ restarts < MaxRestarts
  /\ Fails("read")
  /\ restarts' = restarts + 1
  /\ pc' = "loading"
  /\ Forget
  /\ orders' = <<>>
  /\ next_id' = 1
  /\ queueFile' = EmptyQueue
  /\ fate' = [a \in Stamps |->
                IF \E i \in DOMAIN queueFile.orders : queueFile.orders[i].at = a
                THEN "quarantined" ELSE fate[a]]
  /\ UNCHANGED <<mirror, archive, ledgerFile, clock>>

(* A leftover mirror is archived, never resumed. *)
ArchiveLeftover ==
  /\ pc = "loading"
  /\ archive' = IF mirror = NoTrade THEN archive ELSE archive \union {mirror}
  /\ mirror' = NoTrade
  /\ pc' = "top"
  /\ UNCHANGED <<memory, queueFile, ledgerFile, history>>

(* It cannot be archived: it is removed, or left to be overwritten. *)
ArchiveLeftoverFails ==
  /\ pc = "loading"
  /\ Fails("archive")
  /\ mirror # NoTrade
  /\ ClearTrade
  /\ fate' = IF fate[mirror.order.at] \in {"running", "unfinished"}
             THEN [fate EXCEPT ![mirror.order.at] = "discarded"] ELSE fate
  /\ pc' = "top"
  /\ UNCHANGED <<memory, queueFile, archive, ledgerFile, clock, restarts>>

---------------------------------------------------------------------------
Init ==
  /\ orders = <<>> /\ next_id = 1
  /\ current_trade = NoTrade /\ processing_order = FALSE
  /\ ledger = {} /\ dirty = FALSE
  /\ pc = "top"
  /\ queueFile = EmptyQueue /\ mirror = NoTrade
  /\ archive = {} /\ ledgerFile = {}
  /\ clock = 0 /\ restarts = 0
  /\ fate = [a \in Stamps |-> "none"]

Player == \/ \E u \in Users, kind \in Kinds : Add(u, kind) \/ AddSaveFails(u, kind)
          \/ \E i \in DOMAIN orders : Cancel(i) \/ CancelSaveFails(i)

Operator == ClearStuckOrder \/ Shutdown

Handler == \E phase \in LivePhases \union TerminalPhases : Advance(phase)

Store == \/ PersistQueued \/ PersistQueuedFails
         \/ PopCommitted \/ PopCommittedFails \/ ClearOrphan
         \/ Handler \/ SaveInHandler \/ Conclude \/ LeaveForOperator
         \/ SaveAfterOrder \/ Drained \/ Autosave

Startup == LoadQueue \/ QuarantineQueue \/ ArchiveLeftover \/ ArchiveLeftoverFails

Next == Player \/ Operator \/ Store \/ Watchdog \/ Crash \/ Startup

Spec == Init /\ [][Next]_vars

(* The Store task keeps running, a handler ends (each of its awaits has a
   timeout) and a process that died is started again. *)
FairSpec == Spec /\ WF_vars(Store) /\ WF_vars(Startup /\ pc # "stopped")

---------------------------------------------------------------------------
(* Properties. *)

Fates == {"none", "waiting", "running", "concluded", "unfinished", "cancelled",
          "cleared", "quarantined", "discarded"}
PCs == {"top", "handover", "orphan", "running", "save", "drain"} \union Down

(* Every variable has the type its declaration in the code gives it. *)
TypeOK ==
  /\ orders \in Seq(Order) /\ next_id \in 1 .. MaxOrders + 1
  /\ current_trade \in Trade \union {NoTrade}
  /\ processing_order \in BOOLEAN /\ dirty \in BOOLEAN
  /\ ledger \subseteq Stamps /\ ledgerFile \subseteq Stamps
  /\ pc \in PCs
  /\ queueFile \in QueuePersist
  /\ mirror \in Trade \union {NoTrade}
  /\ archive \subseteq Trade
  /\ clock \in 0 .. MaxOrders /\ restarts \in 0 .. MaxRestarts
  /\ fate \in [Stamps -> Fates]

InQueue(q, a) == \E i \in DOMAIN q : q[i].at = a
InTrade(t, a) == t # NoTrade /\ t.order.at = a
OnRecord(a)   == InTrade(mirror, a) \/ \E t \in archive : InTrade(t, a)

(* The handover invariant of process_next_order: an accepted order is never
   in neither file.  While it waits it is in queue.json; from the moment it
   has left queue.json until its handler has returned, or the operator or
   the startup has given it up, it is in current_trade.json or in an archived
   copy of it.  This holds in a process that is down as well. *)
Handover ==
  \A a \in Stamps : /\ fate[a] = "waiting" => InQueue(queueFile.orders, a)
                    /\ fate[a] = "running" => OnRecord(a)

(* No order is served twice and no cancelled order comes back, whatever
   crashes and failed writes do: queue.json, which is what the next start
   loads, holds only orders that are still waiting. *)
OnlyWaitingQueued ==
  \A i \in DOMAIN queueFile.orders : fate[queueFile.orders[i].at] = "waiting"

(* Between two steps the queue in memory is the queue on disk: a failed save
   in add, cancel or pop_committed leaves no trace in memory. *)
QueueMatchesFile ==
  pc \notin {"crashed", "stopped"} => queueFile = [orders |-> orders, next_id |-> next_id]

Increasing(q) == \A i, j \in DOMAIN q : i < j => /\ q[i].at < q[j].at
                                               /\ q[i].id < q[j].id

(* Orders wait in the order in which they were accepted, under distinct ids
   that the counter has already passed: a cancel that fails puts the order
   back where it was, a counter given back is never below an id in use. *)
QueueInArrivalOrder ==
  /\ Increasing(queueFile.orders)
  /\ \A i \in DOMAIN queueFile.orders : queueFile.orders[i].id < queueFile.next_id

Rank == [queued |-> 0, withdrawing |-> 1, trading |-> 2, depositing |-> 3,
         committed |-> 4, rolled_back |-> 4]

(* While a handler runs, or is held by the watchdog, current_trade.json names
   its order and never a later phase than the one it is in, even if some of
   the writes of advance_trade failed: what an operator reads after a crash
   does not overstate the progress of the trade. *)
MirrorNeverAhead ==
  processing_order /\ pc \notin Down =>
    /\ current_trade # NoTrade /\ mirror # NoTrade
    /\ mirror.order = current_trade.order
    /\ Rank[mirror.phase] <= Rank[current_trade.phase]

(* At most one order is in flight: any other order whose handler started and
   neither returned nor was given up was interrupted by a crash, and its
   trade has been archived. *)
OneInFlight ==
  \A a \in Stamps : fate[a] = "running" =>
    \/ pc \notin Down /\ processing_order /\ InTrade(current_trade, a)
    \/ pc \in Down /\ InTrade(mirror, a)
    \/ \E t \in archive : InTrade(t, a)

(* A balance or reserve that differs from the files is marked dirty, so that
   the next save of the loop writes it. *)
UnsavedIsDirty == pc \notin Down /\ ledger # ledgerFile => dirty

(* Orders start in the order they were accepted: when an order leaves the
   queue to be served, every order accepted before it has been served,
   cancelled or quarantined. *)
FirstComeFirstServed ==
  [][\A a \in Stamps : fate[a] = "waiting" /\ fate'[a] = "running" =>
       \A b \in Stamps : b < a => fate[b] # "waiting"]_vars

(* Only the operator or a restart releases an order the watchdog interrupted:
   until then no other order starts and its record stays. *)
HeldUntilReleased ==
  [][processing_order /\ pc \notin Down \union {"running"} =>
       \/ ClearStuckOrder \/ Crash \/ Shutdown
       \/ UNCHANGED <<processing_order, current_trade, mirror>>]_vars

(* The store has stopped, or waits for the operator to clear a stuck order. *)
Halted == \/ pc = "stopped"
          \/ pc = "top" /\ processing_order

(* Every order that waits is eventually served, cancelled or quarantined,
   unless the store halts.  Crashes do not prevent it. *)
EveryOrderLeavesQueue ==
  \A a \in Stamps : fate[a] = "waiting" ~> fate[a] # "waiting" \/ Halted

(* The queue keeps its promise: each step of the Store is a step of the
   abstract service, or is invisible to it, when queue.json is read as its
   queue. *)
Service == INSTANCE OrderService WITH waiting <- queueFile.orders
ImplementsService == Service!Spec

=============================================================================
