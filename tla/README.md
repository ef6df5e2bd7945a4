# TLA+ models of cj-store

cj-store is a Minecraft shop. Players whisper commands to a bot account; a
*Store* task queues their orders, runs them one at a time, keeps balances,
reserves and stock in JSON files, and drives a *Bot* task that walks to chests,
moves items and trades with players. This directory models the parts of it in
which order, failure and time decide whether goods and money are kept.

## 1. Inventory

| Component | State it keeps | Operations | Meets | Hard behaviour | Correct when |
|---|---|---|---|---|---|
| Store task (`src/store/mod.rs`) | `current_trade`, `processing_order`, `dirty`, ledger in memory | main loop, handover, watchdog, debounced and eager saves, startup | every other part: messages from Bot and CLI, files | crash between any two writes, failing writes, watchdog dropping a handler | one order at a time; an accepted order is never in neither file |
| Order queue (`store/queue.rs`) | FIFO of orders, id counter, `queue.json` | add, cancel, pop_committed, load, quarantine | Store task, `fsutil` | a save that fails after memory changed | memory is the file; arrival order; caps; each order served at most once |
| Trade state (`store/trade_state.rs`) | phase of the trade, `current_trade.json` | transitions, persist, clear, archive | Store task | crash, failed persist, leftover at startup | the mirror never overstates the trade and is kept until someone has seen it |
| Order handlers (`store/orders.rs`) | none of their own | buy, sell: validate, withdraw, trade, deposit, commit, roll back | Bot by request and reply, ledger | partial chest operations, answers later than the timeout, rollbacks that fail | goods and money are conserved; books match chests |
| Balance handlers (`handlers/deposit.rs`, `withdraw.rs`) | none | diamonds to balance and back | as above | as above | as above |
| Rollback (`store/rollback.rs`) | none | put withdrawn items back, deposit received ones | Bot, storage | half of it failing | counts what was really returned |
| Save and audit (`store/state.rs`) | dirty users, cursor of saved trades | save of pairs, users, storage, trades; audit, repair | files | one of several writes failing | what was not written is written by a later save |
| Shulker journal (`store/journal.rs`) | one entry, `journal.json` | begin, advance, leftover at startup, archive | Bot chest operations | crash inside an operation | an interrupted operation leaves an entry that names its phase |
| Atomic replacement (`fsutil.rs`) | files | write, rename, fallback by aside copy, archive | every file of the store | crash between two system calls | the live path holds the old or the new content |
| Storage planning (`types/storage.rs`) | chests and their contents | withdraw and deposit plans, nodes | handlers | plans against a limit, partial plans | a plan never exceeds stock or room |
| Rate limiter (`store/rate_limit.rs`) | last message, last attempt, violations and last notice per name and per account | check, forgiveness, periodic and inline sweep | player commands | windows that end at different instants, bounded table | forgetting an entry forgives nobody; who waits as told passes |
| Pricing (`store/pricing.rs`) | none | quotes on reserves | handlers | zero reserves, rounding, overflow | the product of the reserves never shrinks |
| Player and operator commands (`handlers/player.rs`, `info.rs`, `operator.rs`, `cli.rs`) | ledger | queue, cancel, pay, adjust stock, nodes, clear, shut down | Store, Bot | commands between orders, on stale state | books keep balancing |
| Bot (`bot/mod.rs`, `connection.rs`) | connection, current instruction | instruction loop, reconnect with backoff, shutdown | Store by channel, the server | disconnect in the middle of an instruction | every instruction gets an answer or a dropped reply |
| Bot chest, shulker and trade operations (`bot/chest_io.rs`, `shulker.rs`, `trade.rs`) | inventory, open container | transfers, trade window, validation | server | timeouts, partial transfer, player cancelling | the report says what moved |
| Identity (`mojang.rs`, `types/user.rs`) | table of answers, one lookup in flight per name | resolve, lead or follow a lookup, retry, sweep | store and chat as callers, HTTP | a leader that fails, expiry, eviction, names that change owner | no answer outlives its time; a follower is woken |
| Chat (`chat/*`) | `state.json` (spend, notes, pauses), files about players, history and decision log by the day | turns on lines heard and of its own, operator commands, retention, forgetting a player | Bot by a broadcast, the console, HTTP, a writer task of its own | midnight inside a turn, open handles across a rewrite, cancellation, crash between turns | who was forgotten is in no file; spend stays near its cap |
| Console (`cli.rs`) | the request it waits for | menu, confirmations, one request at a time | Store and Chat by channel | waits with no timeout, tasks that end | it always comes back |
| Records (`types/user.rs`, `pair.rs`, `trade.rs`, `node.rs`, ...) | one file per record | load, quarantine, save, sweep of orphans | `state.rs`, `fsutil` | a sweep after a load that skipped a file | a save destroys nothing it was not told to |
| Configuration, start, messages, logging (`config.rs`, `main.rs`, `messages.rs`) | values | parse, validate, wire tasks | all | - | - |

`PROJECT.json` lists them with what is modelled of each, and under `hazards`
what can go wrong in them at which line.

## 2. Modules

### OrderLifecycle

The life of a queued order in the Store task. The task is a single thread, so a
step of the model is what happens between two points at which the process may
die: each write of a file is a step, changes of memory go with the write beside
them. `pc` says where the task is:

| `pc` | code |
|---|---|
| `top` | head of the loop in `Store::run`, or parked on `recv()` |
| `handover` | the mirror is written, `pop_committed` is next |
| `orphan` | `pop_committed` failed, the mirror is to be removed |
| `running` | inside the handler of an order |
| `save` | after the order: the eager save |
| `drain` | `while let Ok(message) = store_rx.try_recv()` |
| `crashed`, `stopped`, `loading` | no process; `Store::new` between loading the queue and looking at the mirror |

Memory (`orders`, `next_id`, `current_trade`, `processing_order`, `ledger`,
`dirty`), files (`queueFile`, `mirror`, `archive`, `ledgerFile`) and history
(`clock`, `fate`, `restarts`) are separate. The history is what the properties
speak of: `clock` stamps accepted orders (the `queued_at` of an order; ids start
again at 1 after a quarantine, so they do not identify an order), `fate` says
what became of each.

One action per operation of the code: `Add`, `Cancel`, `ClearStuckOrder`,
`Shutdown` while the task receives messages; `PersistQueued`, `PopCommitted`,
`ClearOrphan` for the handover; `Advance` for `advance_trade`; `Conclude` and
`LeaveForOperator` for the two ways `process_next_order` ends; `Watchdog`,
`SaveAfterOrder`, `Drained`, `Autosave` for the loop; `Crash`, `LoadQueue`,
`QuarantineQueue`, `ArchiveLeftover` for death and restart; and the failing
variant of each that handles a failure (`...Fails`). The phases a handler drives
a trade through are the relation `Ladder`, those in which it may return early
`EarlyReturn`; what it moves is left to the modules of the order execution.

`Faults` selects which operations fail: `write`, `read`, `archive`. A failed
write leaves the old content; that is not so when both renames of
`write_atomic`'s fallback fail, which AtomicWrite is about. A quarantine that fails as well is left
out: the store then starts empty with the old file still in place until the next
save. The queue is also left by the closing of the message channel, which here
is a stop like any other.

### OrderService

What the queue promises, with no file, process or crash: a durable bounded FIFO
queue whose orders are served one by one, each at most once. OrderLifecycle
implements it with `waiting <- queueFile.orders`.

### MCOrderLifecycle, OrderLifecycleProofs

The instances for TLC, and the proofs.

### AtomicWrite

`fsutil::write_atomic` on one file, with `rename_failed_fallback_copy`, system
call by system call. An inode is known by the number of the write that made it
and by whether it is the temporary file or the fallback's copy of it; `dir` says
what the four names (live, `.tmp`, `.recovery`, `.bak`) stand for, `torn` which
inodes read as incomplete, `synced` which are on the disk. `pending` is the set
of directories a power loss may bring back: everything since the last
synchronisation of the directory, under a file system that applies directory
operations in order. Two pairs of calls are one step, since nothing reads what
lies between them: `write_all` and `sync_all`, and the removal of a stale
`.recovery` and the opening of the new one.

`Faults` says which calls may fail, `Crashes` whether the process may die or the
power may go. `"sync"` covers the calls whose failure the code only logs; a
platform on which directories are not synchronised (`sync_parent_dir` is empty
outside Unix) is one on which they always fail.

### AtomicFile

What the readers of the JSON files rely on: a file holds one whole version,
versions replace each other in one step, and what was reported stays. AtomicWrite
implements it for a reader who looks at `.bak` when there is no live file
(`Recoverable`). The store itself does not look there: see section 3.

### OrderExecution

What the handlers of buy, sell, deposit and withdraw ask of the bot, what they
do with its answers, and where goods and money are meanwhile. OrderLifecycle has
the order from outside (queue, phase, files); OrderExecution has it from inside,
and takes orders as they come.

Four groups of variables:

- the *world*: `chest`, `bot`, `buffer`, `hand`, the goods in the chests, on the
  bot, in the buffer chest and with the customer; `jobs`, the channel to the bot
  with the instruction in work at its head;
- what the *store* believes and owes: `stock` (the `Storage`), `item_stock` and
  `currency_stock` (the `Pair`), `balance` (the `User`). Money is counted in
  parts of a diamond, `Part` to one, so that prices have fractions;
- the *handler*: `pc`, the order `req`, `left` (what the plan has still to
  move), `done`, `returned`, `paid`, and the oneshot of its last instruction
  (`awaiting`, `reply`);
- *history*: `before` and `last` (where an order began, how it ended), `doubt`,
  `astray`, `twice`.

| `pc` | code |
|---|---|
| `pull` | `execute_chest_transfers`, withdrawing |
| `tell` | the whisper of a buy's terms between the chests and the trade |
| `trade` | `perform_trade` |
| `push` | a sell's items go into the chests |
| `bank` | the diamonds of a buy or deposit go into the chests, then the commit |
| `settle` | a withdrawal is debited |
| `return` | `rollback_applied_prefix` and `rollback_amount_to_storage` |
| `giveback` | a sell that was paid but cannot be put away hands the items back |

`AskChest` and `AskTrade` send an instruction, when the channel has room; the
bot's steps (`BotMoves`, `BotRefused`, `BotExchanged`, `BotCancelled`) take
the head of the channel whenever the bot gets to it, whether or not the store still
waits (`Answer`); `Pulled`, `PullFailed`, ... `TradeDone` are what follows each
answer; `CommitBuy` ... `ReturnEnds` the ends of the orders, with the audit and
repair that follow each commit; `Timeout` is the store no longer waiting,
`Watchdog` the order abandoned where its handler waits; `Audit` the operator's
repair. `Accepted` is what the planning of each kind checks before anything
moves; prices are any number, which is more than the pricing module yields.

Three history variables delimit what can be promised. `doubt` names the goods an
error was logged about (a chest operation that failed, a plan that fell short),
and `"late"` once the store gave up on an instruction. `astray` is set by
an exchange the store is not told of, or wrongly: the bot trades after the
store stopped waiting, takes a finished trade for a rejected one or a cancelled
one for finished, or the watchdog drops a handler between the exchange and the
books. `twice` counts the surplus of a buy, which the code credits both to the
balance and to the reserve (section 3): `Solvent` says that the books are the
diamonds *and this surplus*, and `CreditIsStored` that a commit adds what went into
the chests and, for a buy, the surplus once again. Neither catches the double
credit; they say that it is the only one, as long as `astray` is not set.

Left out, because the code cannot get there: the recheck of an underpaid buy
(`orders.rs` 612-678) and of a sell's item count (1120-1170), since
`validate_player_items` has refused such trades; a failing `apply_chest_sync`.
Left out as detail: chests and slots (a plan is the amount it moves; every split
into transfers is allowed), the wording of messages, other pairs and customers
(an order touches one of each). A send that fails and a reply that is dropped
are errors with nothing moved, which `BotMoves` and `BotRefused` include.

`Faults` selects what goes wrong. `"blind"` is an inventory that cannot be read
after the window closed, which the code counts as success: a trade that went
through is then never taken for rejected, and a cancelled one is taken for made
whatever was offered (`BotCancelled`). `RollbackHasGoods` speaks of orders that
found the bot empty.

### MCOrderExecution, OrderExecutionProofs

The orders, prices and goods of the TLC runs, and the proofs.

### Records, MCRecords, RecordsProofs

The ledger on disk (`state.rs`, the load and save of `types/*`): one file per
user, pair, trade and node, and the five sub-saves of `state::save`, each an
action, attempted in turn whatever became of the one before. A record is the
number of changes made to it; a file is absent, bad, or holds a record. Dirty
users, the global mark and the cursor of the saved trades decide what a save
writes; the sweep after the writes removes every `.json` whose record is not in
memory. `Start` is the start of the program: bad files are quarantined, which may
fail, unreadable ones are passed over, and `unseen` remembers what was left in
place without being loaded. The process may die before, in the middle of, and
after each sub-save. This is the inside of the single ledger file of
OrderLifecycle.

### Storage, OperatorStock, MCOperatorStock, OperatorStockProofs

`Storage` has the planners of `types/storage.rs` as operators: the order of the
visits (`Before`, `Visit`: node after node as they were added, and in a node by
number), the room of a chest, the withdrawal and deposit plans, `WithNode`. Nodes
are kept in the order in which they were added, which is not the order of their
ids once one has been removed. A chest is known by its id, and is the good it is
assigned to and an amount. Recursion is by functions and folds, so that plans can be
reasoned about as well as computed.

`OperatorStock` has the handlers that change the stock outside orders: `additem`
and `removeitem` with their undoing, the nodes added, validated, discovered
and removed, the audit, and the return of diamonds that may add a node. Three
accounts of the same goods are kept apart: the *world* (`world`, `bot`), the
*picture* (`nodes`, `chest`) and the *books* (`item_stock`). `unsynced` names the
chests where a transfer failed half-way or that stood there before the store
knew them, `unbooked` that the last end was one of those that do not bring the
books up to date; both are history, and the properties say that there is no
other way to disagree.

### ShulkerJournal, ShulkerOps, MCShulkerOps, ShulkerOpsProofs

`ShulkerJournal` is `Journal` with both answers of each write. `ShulkerOps` is
`automated_chest_io` slot by slot: take the shulker, place it on the station,
open it, transfer, break it, pick it up, put it back, with the journal a step
behind; every step can fail or be the last before a crash; then the recoveries of
a shulker on the station or under way, the emptying of the inventory, and
`Reconcile`, with which an operator puts every shulker back. A shulker
is named by the slot it is from, and the bot can tell none from another: it
picks up any. `superseded` are the shulkers whose record was replaced by a later one:
the code's `begin` replaces the entry of a shulker that is still away.

A stack that is moved in part is picked up, placed item by item and put back. The
placing is counted, the first and the last click are not looked at
(`chest_io.rs` 866, 921-923, 1088, 1181), and the count reported afterwards is the
count before less what was placed (2015). `Slip` is one of those clicks lost: more
has left the shulker than is reported, and what is on the cursor falls to the bot
or to the ground when the window closes (`Spill`). `slipped` remembers the slots
where that happened. `was` and `had` are where the shulkers were and what the bot
carried when the operation began, `told` the slots whose count is not seen but
what the store said. With these `ReportIsTrue` says three things of an operation
that reports success:

- the bot has what was asked for moved, whichever shulkers were adrift; where a
  click slipped in a withdrawal it has that or more, and in a deposit nothing is said;
- if at the start no shulker was on the bot, the station or the ground, each is back
  where it was;
- and then each count taken is what the shulker holds, or too high where a click
  slipped, never too low.

With a shulker adrift at the start the code keeps neither the second nor the third:
it may open, fill and put back another shulker than it took (section 3).

### BotLink, Console, MCConsole

`BotLink` is the task of the bot: the loop, which either looks at its connection
(`Tick`) or takes an instruction (`Receive`); the client task, whose abort takes
its time and whose events (`Joined`, `Dropped`) arrive on their own; the latch
`connecting`, the flag `shutdown`; and the bounded channel with the store and the
chat as senders. What the bot does with an instruction other than Restart and
Shutdown is the step `Work`, the subject of OrderExecution and ShulkerOps.

`Console` composes it with the console of `cli.rs`, the store as the console sees
it (`StoreServes`, `StoreReplies`), and the chat, which may answer, drop a command
or be gone. Everything an entry asks its operator comes before anything is sent,
so an action is an entry that was confirmed; the answer and the console's going
on are one step. A chat that is not enabled has ended.

### Mojang, RateLimiter, PlayerDesk, MCPlayerDesk, PlayerDeskProofs

`Mojang` is the resolver: the table with its two lives, the single lookup in
flight per name, the leader's request with its one retry, the followers. `Stages`
are the awaits of `resolve_user_uuid`; `"follow"` and `"parked"` are apart because
the code registers with the notifier after it let go of the lock. `owner` is
what the service knows, `disowned` how long ago an account lost a name.

`RateLimiter` is the gate with its table; instants are ages, which stop at the
longest window. `PlayerDesk` puts a whispered command through the gate under the
name, the resolver, the gate under the account, and into effect: `pay`, `balance`,
and the operators' `addcurrency` and `removecurrency`, which resolve the sender's
name a second time. The chat resolves names from the same table at the same time.
`history` remembers for ever what each key did and was told: the properties
compare the gate with it.

### ChatMeter, ChatFiles, ChatTurn, ChatTask, Chat, MCChat, ChatProofs

`ChatMeter` is the part of `state.json` counted by the day. `ChatFiles` has what
the chat keeps about players: a file is the set of the *marks* in it, a mark a
player and how many times the operator had asked to forget him when the line was
recorded; a handle knows whether its file still has a name. `ChatTurn` is a turn
from await to await, for a line heard live or from the backlog and for the bot's
own conversations. `ChatTask` is the loop: lines, ticks, sniffed commands, saves,
crash and restart, the writer of the history, midnight. `Chat` has the operator's
commands; `ForgetPlayer` is carried out file by file while the writer goes on.

What a model answers, and what a gate of time, chance or wording decides, is any
of the outcomes the code tells apart. A hold (moderation, an unknown model, a
throttle) is an instant that `HoldPasses` ends. The bot's name may be known or not
whenever it is read. A send of the bot and its line in the history are one step.
`billed` is what the calls held to the caps have cost since midnight and `lost` the
part of it that is in no meter: attempts that were billed and then failed or were
retried, runs that failed, states not saved at a crash. The directories of the
history exist.

## 3. Runs

| Run | Question | Bounds |
|---|---|---|
| `lifecycle_faults` | agreement of queue and file, arrival order, the handover, one order in flight, FIFO, held orders, the mirror behind the trade, the dirty flag, refinement of OrderService, under every fault | 1 player, sells, 3 orders, queue of 2, 1 restart |
| `lifecycle_liveness` | every waiting order leaves the queue, or the store halts | 2 players with 1 order each at a time, 2 orders of any kind, 2 restarts, no fault |
| `atomic_faults` | the last saved version, or a later one, can be recovered at every step and after a power loss; refinement of AtomicFile | 4 writes, every checked call failing, process crashes and power losses |
| `exec_faults` | no debt, money backed by diamonds, an order is the exchange agreed or none, nothing left behind without a log entry, rollbacks find their goods, credit is what was stored | 5 kinds of request, 3 orders, half diamonds, channel of 2, chests failing or full, late answers, cancelled trades, inventories that cannot be read |
| `exec_liveness` | every order ends | 2 orders, channel of 1, a bot that may stop, messages that fail, a buffer chest |
| `records_faults` | a clear dirty mark means a true mirror; what an incremental save skips is on disk; a save destroys nothing it was not told to | 2 users, 1 pair, node 0, a history of 1 trade out of 2, each record changed once, 2 failing calls, 1 crash |
| `stock_faults` | books, picture and chests agree through `additem`, `removeitem`, nodes and rollbacks; no plan asks what the world cannot give | 2 nodes of 3 chests, 3 goods, a chest full with 1, quantities to 2, 1 failing answer, growth by 2 nodes (16 in the code) |
| `shulker_faults` | a reported success is true of the goods, and of every shulker when none was adrift; a shulker away from its slot is on record; a reported leftover is never written over | 2 slots, shulkers of 2, 3 goods, 2 round trips (entries in the journal), 2 things that go wrong |
| `link_liveness` | the console comes back or everything has ended; a server that stays up has the bot back; nobody waits for each other for ever | 2 client tasks, channel of 1 (128 in the code), 1 node found |
| `desk_faults` | forgetting an entry changes no penalty, an announced wait is enough, notices are bounded, no answer outlives its time | 2 names and accounts, a name that changes owner, table of 1 name, gate of 2 entries, lives of 2 and 1 ticks, refusals for up to 2 (an hour in the code, twelve lives), cooldown 1 to 2, windows of 3, 4 commands, an operator's counted twice, 1 call of the chat |
| `lost_wakeup` | violated: a follower waits for a lookup that is still in flight | as above, 1 command |
| `chat_faults` | a forgotten player is in no file, nobody appends to a file that is gone, spend stays within the cap and one run | 2 players, a midnight, history kept for 1 day, writer's channel of 2, broadcast of 1, 2 calls to a run (and the nudge), nine plans |

Three orders with a queue of two reach a full queue, an order behind another,
an order cancelled between two others, and one in flight while two wait; that
run has one kind of order, whose phases are the longest ladder, and the other
run of the module has all four. Two restarts reach a crash during the recovery
from a crash. Players differ only in whose orders a cancel may take and in the cap
on orders of one player, which the second run reaches.
Four writes are a first version, a failed fallback over it, a crash, and two
writes over what the crash left: the shortest history in which a `.bak` from an
earlier fallback meets a later one. In `exec_faults` a buy of two items takes one
or two transfers, prices of one and a half diamonds have a fraction, the
customer pays from the balance, in diamonds, or both, and may pay one too
many; three orders are one that leaves something behind, one that meets it, and
one that is served afterwards. Two places in the channel are enough for an
instruction nobody waits for in front of the next one; in `exec_liveness` two orders
and one place are enough for a full channel.

In `records_faults` two failing calls are a save that fails and a retry that
fails elsewhere; the crash meets each sub-save; two trades and a history of one
reach the trade a load leaves out and the sweep that follows. In `stock_faults`
a chest holds one of each good, so a request for two needs two chests, in two
nodes; three chests are the two reserved ones and one other; one node may
be removed and its id given out again behind the other, which is when index and
id differ. In `shulker_faults` two slots are needed for one shulker to be put
where another belongs, three goods for an operation that takes part of a shulker
and all of another, and two round trips, of one operation or of two, for a record
that meets the next one.
In `link_liveness` a channel of one is full as soon as anything is queued, and two
client tasks are the old one that ends slowly and the new one. In `desk_faults`
the gate's table is full with one player's name and account, so a second player's
first message causes the inline sweep; a table of one name evicts at every new
one; four commands are enough for three notices to fall into a window, for a penalty
to be forgiven, and for an account to be resolved before and after the name
changed its owner. In `chat_faults` each plan says which lines, commands, ticks,
midnights, restarts and failures there are: everything at once has too many
interleavings to check, and the hazards need two or three of them at a time.

`link_liveness` checks deadlock: the only place at which everything may stop is
the join at the end of `main`. `desk_faults` checks it as well, as time always
passes. The other runs do not: a store that was shut down, or whose behaviour
has used up its orders, writes, operations or plan, stops.

*Fairness* of OrderLifecycle (`FairSpec`). Weak fairness of the steps of the
Store task: the code runs them without waiting on anything but the bot, and every
wait on the bot has a timeout, so a handler ends. Weak fairness of the steps of
a start that follows a crash: the deployment restarts the process. Nothing is
assumed of players, of the operator or of crashes. `Halted` is what the code
itself admits: the store was stopped, or holds an order until the operator
clears it. The queue only moves when the channel of messages runs empty now and
then, which `Drained` being weakly fair assumes.

*Fairness* of OrderExecution. Weak fairness of the handler's steps, a task of
the executor, and of the watchdog, a timer around it. Nothing is assumed of the
bot, of the operator, or of the timeouts that are shorter than the watchdog: the
first end of every order is the watchdog's doing when nothing else ends it, and
it can act because the handler always waits somewhere it can be dropped
(`AtSend` includes the send into a full channel).

*Fairness* of BotLink and Console. Weak fairness of the bot's steps outside
`select!`, which run as soon as the runtime gets to them, and of the client
tasks and their events: the library reports a session that ends. Strong fairness
of `Tick` and `Receive`, because `select!` picks among the ready branches at
random; of `StoreSends`, because a bounded channel serves waiting senders in
turn; and of `StoreServes`, because the store drains its channel in turn between
orders. Weak fairness of the answers of the store and of the chat. The server may
come and go as it likes, and nothing makes the operator choose.

### What the violation shows

`lost_wakeup`: a follower takes the notifier of the lookup in flight while it
holds the lock, and registers with it after it let the lock go. A leader that
ends in between notifies nobody. If it left an entry in the table, the follower
finds it at its second look; if it ended with a network error or a timeout, there
is none, and the follower waits for a notifier nobody will use again. The
code clones the notifier under the lock (`mojang.rs` 372-390) and registers after it
(399-401); its documentation (28-36, 361-364) says that registration happens before
the lock is dropped. When the follower is the store's task, the store
stops handling messages.

### Met while modelling, not kept as runs

*Orders.*

- `process_next_order` releases `processing_order` whatever the phase, so an
  order left "for operator review" is overwritten by the next handover
  (`store/mod.rs:689`).
- The mirror of a committed trade is removed before the ledger is saved; a crash
  in between loses the commit and every trace of it (`store/mod.rs:727`).
- A mirror that says `committed` need not mean that the ledger on disk has the
  commit, as RECOVERY.md tells its reader; and `Shutdown` does not look at the
  mirror, so a file found at startup need not mean a crash.
- Between two orders the channel is drained until it is empty
  (`store/mod.rs:484`): players who keep sending commands hold back the queue.
- The surplus of a buy paid with more diamonds than its price is credited to
  the balance, and all its diamonds to the reserve.
- The store stops waiting for a trade, and rolls back, while the bot, which has
  timeouts of its own that start later, still carries the trade out.
- A buy whose terms cannot be whispered returns with its items on the bot; no
  rollback, and no error that names them (`orders.rs:523`).
- With a buffer chest configured, a trade begins by emptying the bot into it,
  with what was just withdrawn for this very trade (`bot/trade.rs:684`).
- A trade counts as rejected when the bot still holds what it offered; leftovers
  of an earlier order on the bot make a trade that was made look so. It counts as
  made when it does not, so a customer who cancels a trade in which the bot has
  placed nothing is taken to have paid: a sell of less than a diamond is then
  credited with its fraction. The same when the inventory cannot be read
  (`bot/trade.rs` 806-873).

*Files.*

- The start that follows a crash in the fallback of `write_atomic` takes the
  missing file for a fresh store, writes a new one, and the next fallback
  removes the `.bak` with the old version as stale. After a failed second rename,
  too, there is a whole restart without a live file.
- `sync_parent_dir` only logs a failure; the write is reported all the same and a
  power loss may take it back.
- Trades beyond the limit of the history are deleted by the sweep of the first
  save after the start (`types/trade.rs`), an unreadable user or pair file by the
  next sweep (`types/user.rs:606`).
- The node 0 a start makes when there is none, and cannot save, is not marked
  dirty; and a node whose file cannot be removed comes back with the next start.

*Stock and shulkers.*

- The handlers of `removeitem` return early on some failures although the comment
  (`operator.rs`, about 555) says that the tail with the books always runs.
- A rollback that grows the storage says it persists the new node before it sends
  anything there; a node that could not be saved is used all the same.
- The entry of a stranded shulker is replaced by the next `begin`. Ids of entries
  start again at 1 in each run. A station that is occupied passes for one with the
  shulker just placed; the bot picks up any shulker that lies about.
- Of a stack moved in part the clicks that pick it up and put it back are not
  verified (`chest_io.rs` 866, 921-923, 1088, 1181), and the count reported is computed
  (2015): it may be higher than what the shulker holds, and items may fall from the
  cursor. OperatorStock and OrderExecution take the bot's report as given.
- With a full inventory the taking of a shulker leaves the goods of slot 0 on the
  cursor and reports success; `place_shulker_on_station` then empties the
  inventory, shulker included, into the buffer chest and fails.
- A withdrawal that gets nothing out of shulkers that do hold the good begins its
  pass over the slots again, without a bound (`withdraw_shulkers`).

*Bot.*

- `connect`, when it declines to start a second client while the first does not
  end (`connection.rs` 71-86), lets go of the handle of the first. `Restart` may
  reconnect between two ticks, so the chat is never told. The name of the bot is
  not cleared by an abort.

*Names and the gate.*

- A caller that missed the table may become leader after the previous leader has
  stored its answer, and asks once more. An operator's command resolves the name
  of its sender twice, so the account it books on may differ from the one that was
  found to be an operator's.
- The instants of the gate are those of handling, not of arrival, and the name and
  the account are stamped at different ones. The notice of a full table is armed
  again by the sweep.

*Chat.*

- A command sniffed during a turn waits in a slot of one for the next `select!`
  (`chat/mod.rs:341`), which empties the slot whichever branch wins. If it was
  `BotDisconnected`, the token stays cancelled and every later turn is cancelled
  without a save, until the next disconnect. One sniffed command makes the turn deaf
  to a later `Shutdown`. Turns from the backlog and those of the bot's own never
  sniff, so the record of a cancelled proactive turn is never written.
- A turn of the bot's own does not look at the moderation backoff (CHAT.md 431,
  1459); the branch of a line replaces the cached name of the bot by `None` before
  the fallback the documentation describes (864-871, 1642-1676).
- The nudge allows one call more than `max_iterations`. A run that ends in an error,
  an attempt that was billed and retried (`client.rs` 478-500), a reflection whose
  answer cannot be parsed, and the generation of a persona are in no meter;
  reflections are not held to the caps. Turns that were cancelled or found the chat
  paused skip the save. `state.rs` says that tokens count against the day in which
  the call started; the code folds them into today.
- The scrub of a player reports Ok when a file could not be read; lines written
  between its reading and its rename are lost, though the comment (3556-3563) says
  they are appended to the new file; the handshake with the writer is skipped when
  the history directory does not exist yet (`chat/mod.rs` 3584-3594), and lines that
  wait in the channel are then written after the Ok. Archives of memories are never swept,
  and `memory.md`, `adjustments.md` and corrupt indices are not scrubbed. A persona
  that cannot be generated again leaves none.

## 4. Proofs

Every theorem is proved for all values of the constants that satisfy the named
assumptions of the module it is about, which TLC evaluates in the runs. An
invariant is checked with TLC before it is proved.

*OrderLifecycleProofs*, from `KindsAssumption`, `CapsAssumption`,
`BoundsAssumption` and `FaultsAssumption`. The inductive invariant is built in layers, each inductive
relative to the ones before it:

| Layer | Says | Needed because |
|---|---|---|
| `Typed` | types; the counter never runs ahead of the accepted orders; at `handover` the mirror names the head of a non-empty queue; a running handler has a trade | `Head`, `Tail` and the next id are only typed under it |
| `Queued` | memory is the file, order of arrival, ids below the counter, nothing from the future | a cancel and a pop must leave distinct orders |
| `Fated` | in `queue.json` exactly the waiting orders; the running handler's order is running | ending an order must not touch a waiting one |
| `InHand` | the mirror and the trade in memory agree while an order is held; every other order in flight is archived | PersistQueued overwrites the mirror, which must not be the last record of an order in flight |
| `Booked` | an unsaved ledger is dirty; a starting process has the ledger of its files | |
| `Later` | nothing has happened to orders not yet accepted | the abstract service accepts each order once |

From them follow `Typing`, `MemoryIsFile`, `ArrivalOrder`, `ServedOnce`,
`OneAtATime`, `MirrorTrails`, `NeverInNeither`, `DirtyWhenUnsaved`, the action
properties `InOrder` and `HeldOrder`, and `Implementation`: the specification
implements OrderService, by `ServiceInit` and `ServiceStep` (each action is one
action of the service, or a stutter). Three lemmas on the operators of
sequences (`FrontOfAppend`, `RemoveAtProperties`, `InsertOfRemoveAt`) carry the
undoing of failed saves.

*AtomicWriteProofs.* The inductive invariant `Safe` says of every directory that
a crash may leave (`Images`: the pending ones, or the present one when
synchronisation may fail) what `GoodBytesSurvive` says of the present one: its
recoverable inode is whole, no older than the last reported version and no newer
than the present one (`Sound`). To carry that through the steps it needs, at each
`pc`, which name holds the new bytes and that they are whole (`At`), that no name
anybody reads has them before the rename (`NotYetSeen`), and that no inode bears
the number of a later write (`Begun`). `WriteTyping`, `Survival` and
`FileImplementation` assume `Honest`: if power may be lost, synchronisation does
not fail. `Durability` assumes that synchronisation does not fail. Without these
the properties are false.

*OrderExecutionProofs*, from `RequestsAssumption`, `PartAssumption`,
`WorldAssumption`, `BoundsAssumption` and `FaultsAssumption`, for any orders,
prices, quantities, faults and size of the channel. `NoDebt` and `Solvent` are not
inductive: the reserve is debited long after it was looked at, and between an
exchange and its commit the books do not match the diamonds. `Inv` adds

| Part | Says | Needed because |
|---|---|---|
| `Typed` | types; the channel holds instructions | |
| `AtWork` | the step the handler is at fits the kind of the order, and what `Accepted` checked of balance and reserve still holds | `NoDebt` after a commit |
| `Asked` | what the handler waits for, or was answered, is what it asked: no more than is left of the plan, the terms of this order | a late instruction must not pass for the answer to the present one; plans must not be overdrawn |
| `Banked` | diamonds received are put away, still to be, or in doubt | the books are credited with what was put away, `Solvent` speaks of what was received |
| `Money` | balance and reserve are worth `Settled`: the diamonds of the store less those `InFlight`, that changed hands and are not in the books yet | `Solvent` where nothing is in flight |

`Settled` is changed by no step but the commits, which move `InFlight` into the
books (`Booked`); each action has a lemma. The proof that nothing is in flight
when the watchdog drops a handler, unless the history says so, is that the
handler waits nowhere else (`WatchdogStep`).

The second part, from the same assumptions, follows every good from the chests to
the bot, to the customer and back, and every order from its beginning to its end. Its
layers stand on `Inv` and on each other:

| Layer | Says | Needed because |
|---|---|---|
| `Channelled` | what the handler waits for moves the goods of the step it is at; an instruction nobody waits for is late and its goods are in doubt; a success was the last in the channel | what the bot does unheard must only touch goods that an error was logged about |
| `Plans` | pulled and to be pulled is what the order takes; what was put in covers the price, is the items agreed, or is something; a sell is handed back only after a failure about its items | the checks before an order is accepted and in the trade window bear on a commit much later |
| `InPlace` | of a good without an error in the log the bot has what the order accounts for (`Carried`), no more, and exactly that where there is no buffer chest; the store is right about the chests but for the answer it has not read (`Unseen`) | `NothingForgotten` and `RollbackHasGoods` |
| `Deceit` | without a buffer chest, an exchange the store misunderstood before any error was logged was a cancelled sell or deposit, and the chest operation that follows fails | `RollbackHasGoods` speaks of misunderstood exchanges as well |
| `Exchange` | the customer's hand is that of the beginning and what was exchanged since (`ItemsGained`, `DiamondsGained`); his balance is as it was | `CommitIsExchange`, `AbortIsNoExchange` |
| `Credit` | balance and reserve less the chests, and what the order has put into them (`Stored`), are no more than at its beginning | `CreditIsStored` |

All but `InPlace` and `Deceit` hold under every fault (`CourseHolds`), and so do
`ExchangeAsAgreed`, `AbortedAsBegun` and `StrandedNotCredited`. `NothingLeftBehind` and
`RollbackFindsGoods` assume that messages are delivered: a buy whose terms cannot be
told leaves what it pulled on the bot without a word in the log (`orders.rs` 523).
`RollbackFindsGoods` also assumes that there is no buffer chest, into which the bot
empties its inventory before it trades (`bot/trade.rs` 684): both are hazards of the
code, listed as such, and without the assumptions the properties are false. Its
third assumption is that the inventory can be read: without it the proof does not go
through, as a cancelled trade may then be any, and the property is model-checked only.

*RecordsProofs*, from `RecordsAssumption`, for any users, trades, numbers of
files a save tries and faults. `SkippedIsStored`, `CleanIsMirrored` and the action
property `RemovedKnowingly` speak of the end of a save or of the present step; what
carries them through the five sub-saves is

| Part | Says | Needed because |
|---|---|---|
| `Typed`, `Sorted` | types; trades in memory are in the order of their timestamps | a cursor into the list stands for a set of trades |
| `SavedSoFar` | every sub-save that is past has stored what it had to, unless the save has failed | the marks of dirt are only cleared when all five went well |
| `Known` | a record on disk is in memory, or was left in place unread, or was removed by the program, or is an older state of one in memory | the sweep removes what memory does not have |

Memory lists the trades in order (`InOrder`) and a load keeps the newest of a set
(`Newest`). The lemmas `Least`, `Ranks`, `EveryRank` and `Listed` say what these are
for any finite set of timestamps: every rank below the size of the set is that of one
member. That is shown by a least counterexample and needs no induction over data.
`StartInv` is a lemma of its own, as a start sets up memory anew from the files.

*ShulkerOpsProofs*, from `JournalAssumption` and `ShulkerAssumption`, for any slots,
capacity, amounts and number of faults.

| Part | Says | Needed because |
|---|---|---|
| `Typed`, `OnePerPlace` | types; no two shulkers at a place that holds one | a cardinality in `TypeOK` is an injection in the proofs |
| `AtWork` | what each step counts on: a slot it is at, a shulker on the station while one is open, nothing moved outside a transfer | |
| `Filed` | what a start reported is in the file or aside, and aside once the file may be written over | `LeftoverIsKept` |
| `Recorded` | during an operation the file names its shulker, and no other is away unless its record was replaced; otherwise `StrandedIsRecorded` | the record is a step behind what the bot did |
| `Accounted` | the goods are those of the beginning and what was moved since, or at least that in a withdrawal where a click slipped | the first part of `ReportIsTrue` |
| `Tracked` | in an operation that began with no shulker loose, each is where it was but the one in work | the second part; and the shulker on the station is the one of the slot |
| `CountsHold` | and the counts taken are right, or too high where a click slipped | the third part |

*PlayerDeskProofs*, from `MojangAssumption`, `LimiterAssumption` and `DeskAssumption`,
for any names, accounts, windows and penalties. Each step of the desk is one of the
resolver beside one of the gate (`Steps`), so that there are three invariants.
`GateInv` relates each entry to `history`, which never forgets: an entry that is there
remembers at least what would still matter, and one that was swept has nothing left
to say (`Mirrors`, `Quiet`); violations are at the cap where the last notice is
younger than the reset. `PenaltiesAreKept`, `WaitsAreHonest` and `NoticesAreBounded`
follow. `ResolverInv` adds up ages: a name in the table lost its account no longer ago
than the entry has lived (`EntryIsRecent`), and the same of an answer on its way to the
leader and to each follower (`CallsOK`); `DeskInv` carries it to the account under
which the command takes effect (`AnswersAreRecent`).

*Chat* (`ChatProofs`): for any number of players, days, caps and costs of a call.
Most steps are *calm* (`CalmEffect`): beside a file map that only loses marks or gains
marks of players as they are now, they change neither the writer's handle, nor what
was asked, nor a scrub. `HandlesStayCurrent` goes by what holds a file's name: sweeps
orphan only expired days, and the scrub renames while the writer has let go
(`HandleOK`). `ForgottenStaysGone` follows one player (`PlayerOK`): what was answered Ok
is in no file and no item of the writer's inbox (`Cleared`); while his scrub is under
way, the request in the inbox has none of his lines behind it (`NoneBehind`), and what
still has his marks is among the files the scrub has yet to do (`Remaining`).
`SpendStaysBounded` compares what was charged with what is metered, on the turn's
account or lost (`Money`), and says at each await what room the gate left and how many
calls the run may still make (`Phase`). The proof corrected `HandleIsCurrent`: when two
midnights pass, a line of an expired day can meet a file that is already swept, and
the writer then holds a file without a name until its next line.

*OperatorStockProofs*, from `StorageAssumption` and `OperatorAssumption`, for any goods,
nodes, chests of three or more to a node, room, supply and number of faults. First
come lemmas about the planners, for every storage (`StorageOK`, `NodesOK`): a sum
changes by what one term changes (`SumChanges`), a visit meets each chest of a set
once (`VisitIs`), a withdrawal asks for no more than a chest holds and a deposit for no
more than it has room for (`WithdrawIs`, `DepositIs`), a node more changes nothing of
the others (`WithNodeIs`, `Extends`), and neither do the nodes that the return of
diamonds adds (`GrownIs`). Sums, plans and growth are recursive functions: that they are
defined and what all their values have in common is shown by a least counterexample.
The invariant `Inv` adds to the properties

| Part | Says | Needed because |
|---|---|---|
| `Conserved` | what reached the bot and has not left it again is with the bot or in a chest | goods handed out must have been supplied |
| `Reserved` | the first two chests are of diamonds and of the overflow | `apply_chest_sync` does not assign them |
| `Kind` | a handler under way has a pair in hand, but for the return of diamonds; between two there is no plan | `Books` |
| `Aimed` | a transfer, to be made or to be undone, goes to a chest of its good or to one that is to be its first | only then does the picture lose nothing when the chest becomes that of the good |
| `Fits` | a plan visits each chest once and asks no more than is pictured | `PlanFitsWorld`: after a transfer the rest still fits, as it goes to other chests |
| `Books` | the books are the picture while no pair's goods are under way, or an end that skips them has been taken | `StockFollowsChests`; the return of diamonds goes on for several steps and must not disturb them |

Each action has its lemma; the transfers share one (`DoneIs`), as do the failures
(`FailedIs`), which must leave true what is said of every chest but the one they touched.

What a plan sums up to is proved for every storage and quantity. A sum does not depend
on the order it is taken in (`SumSplits`) nor on terms that are zero (`ZerosLeftOut`), so
the running total a plan is cut off at is the sum over the chests it visited
(`UptoIsSum`), and the plan is the lesser of that sum and what was asked
(`SpreadSums`). With the visits going through all the chests there are, a simulated
withdrawal comes to the lesser of what was asked and `total_item_amount`
(`WithdrawalIsEnough`), a deposit to the lesser of what was asked and the room of the
chests it may use (`DepositIsEnough`): a handler that turns an order down for a short
plan does so only where goods or room are short, and the stock check of `removeitem`
and its check of the plan are one. The mutating `withdraw_plan` takes exactly that out
of the picture of the good and nothing from another (`WithdrawnIs`).

Only model-checked: `EveryOrderLeavesQueue`, `EveryOrderEnds`, `ConsoleReturns`
and `ComesBack`, as liveness under fairness is beyond the prover. The types (`Typing`,
`WriteTyping`, `TypesHold`, `ChatTyped` and a part of `StockInvariant`) are theorems and
no longer part of the runs.

## 5. Plan

Every invariant and action property that a run checks is a theorem. What is left: that
`deposit_plan`, which no handler calls, raises the picture of the good by what was asked
whenever nodes enough can be added, as `withdraw_plan` lowers it (`WithdrawnIs`).

## 6. Not modelled

- The curve of prices (`pricing.rs`): arithmetic on floating-point numbers.
  OrderExecution takes any price an order may have been quoted and knows when there
  is none.
- Navigation, slot clicks, positions in the world and the protocol: they belong to
  the game client and its vendored shim (`src/vendor`).
- Texts: parsing of commands and configuration, wording of messages and reports,
  prompts and answers of the chat, the console's layout. The shapes of names and
  UUIDs are taken as checked.
- Of the chat: the commands that only read (decision log, replay of an event, dump
  of a player's memory), the tools other than the one that writes notes, their daily
  limits, the counters of dropped lines.
- `archive_aside` and the choice of a free name for an archive are one step; so is
  the aside of a bad queue file, and the case that it fails as well: the store then
  starts empty with the old file still in place until the next save.
- The reload of the configuration and the periodic cleanup in OrderLifecycle:
  neither touches an order. Messages have no behaviour of their own.
