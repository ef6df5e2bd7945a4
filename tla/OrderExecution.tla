--------------------------- MODULE OrderExecution ---------------------------
(***************************************************************************)
(* How an order is carried out: what the handlers of buy, sell, deposit    *)
(* and withdraw ask of the bot, what they do with its answers, and where   *)
(* goods and money are meanwhile.                                          *)
(*                                                                         *)
(* The store and the bot are two processes.  The store sends one           *)
(* instruction at a time and waits for its answer, for so long; the bot    *)
(* works through its channel in order, an instruction nobody waits for any *)
(* more like any other.  The world (chests, bot, customer) is apart from   *)
(* what the store believes of it (stock) and from its books (item_stock,   *)
(* currency_stock, balance).                                               *)
(*                                                                         *)
(* Money is counted in parts of a diamond, Part to one.  A transfer plan   *)
(* is known by the amount still to be moved: each transfer moves some of   *)
(* it.  There is one pair and one customer.  Price is that of the pricing  *)
(* module, here any value.                                                 *)
(***************************************************************************)
EXTENDS Integers, Sequences

CONSTANTS Requests,    \* the orders: [kind, qty, price], price in parts
          Part,        \* parts of a diamond
          Chest, Hand, \* goods at first in the chests and with the customer
          Balance,     \* the customer's balance at first, in parts
          MaxOrders,   \* bound: orders carried out
          MaxExtra,    \* bound: what a customer pays beyond what was asked
          Capacity,    \* instructions the channel to the bot holds
          Faults,      \* what goes wrong: see below
          Buffer       \* whether a buffer chest is configured

(* "chest": a chest operation fails after moving only some.  "full": a     *)
(* deposit has no room for all.  "whisper": a message is not delivered.    *)
(* "late": the bot takes longer than the store waits, and the watchdog may *)
(* end the handler.  "cancel": the customer cancels after both accepted.   *)
(* "blind": the bot cannot read its inventory after a trade.               *)
FaultKinds == {"chest", "full", "whisper", "late", "cancel", "blind"}

Goods    == {"item", "diamond"}
Kinds    == {"buy", "sell", "deposit", "withdraw"}
Request  == [kind : Kinds, qty : Nat \ {0}, price : Nat]

ASSUME RequestsAssumption == Requests \subseteq Request
ASSUME PartAssumption     == Part \in Nat \ {0}
ASSUME WorldAssumption    == /\ Chest \in [Goods -> Nat] /\ Hand \in [Goods -> Nat]
                             /\ Balance \in 0 .. Part * Chest["diamond"]
ASSUME BoundsAssumption   == /\ MaxOrders \in Nat /\ MaxExtra \in Nat
                             /\ Capacity \in Nat \ {0}
ASSUME FaultsAssumption   == Faults \subseteq FaultKinds /\ Buffer \in BOOLEAN

VARIABLES
  (* the world *)
  chest, bot, buffer, hand,   \* goods in the chests, on the bot, set aside, with the customer
  jobs,                       \* instructions in the channel and in work
  (* the store *)
  stock,                      \* Storage: what the chests are believed to hold
  item_stock, currency_stock, \* the pair
  balance,                    \* the customer's
  (* the handler *)
  pc, req,
  left,                       \* what remains of the plan
  done,                       \* pulled from the chests
  returned,                   \* items_returned
  paid,                       \* diamonds_received
  awaiting, reply,            \* the oneshot of the last instruction
  (* history *)
  served,                     \* orders begun
  before, last,               \* where the order began, how it ended
  doubt,                      \* goods an error was logged about; "late"
  astray,                     \* an exchange the store was not told of, or wrongly
  twice                       \* surplus counted in the reserve and in the balance

world   == <<chest, bot, buffer, hand>>
books   == <<item_stock, currency_stock, balance>>
handler == <<pc, req, left, done, returned, paid>>
history == <<served, before, last, doubt, astray, twice>>
vars    == <<world, jobs, stock, books, handler, awaiting, reply, history>>

None == [kind |-> "none", qty |-> 0, price |-> 0]
Zero == [g \in Goods |-> 0]

Whole(p) == p \div Part
Frac(p)  == p % Part
Ceil(p)  == (p + Part - 1) \div Part
AtLeast0(n) == IF n > 0 THEN n ELSE 0
Least(m, n) == IF m < n THEN m ELSE n

Add(f, g, n) == [f EXCEPT ![g] = @ + n]

---------------------------------------------------------------------------
(* Instructions and answers. *)

Chore(op, good, n) == [op |-> op, good |-> good, amount |-> n,
                       want |-> "nothing", least |-> 0, exact |-> FALSE]
Trade(good, n, want, least, exact) ==
  [op |-> "trade", good |-> good, amount |-> n,
   want |-> IF least = 0 THEN "nothing" ELSE want, least |-> least, exact |-> exact]

Nothing == [ok |-> FALSE, amount |-> 0, late |-> FALSE, given |-> FALSE]
Yes(n)  == [ok |-> TRUE, amount |-> n, late |-> FALSE, given |-> TRUE]
No(n)   == [ok |-> FALSE, amount |-> n, late |-> FALSE, given |-> TRUE]
TooLate(n) == [No(n) EXCEPT !.late = TRUE]

Idle  == ~awaiting /\ ~reply.given
Heard == awaiting /\ Len(jobs) = 1

(* The store hears the answer only if it still waits for it: the instruction
   is the last one sent. *)
Answer(r) == /\ jobs' = Tail(jobs)
             /\ reply' = IF Heard THEN r ELSE reply
             /\ awaiting' = (awaiting /\ ~Heard)

Send(job) == /\ Idle
             /\ Len(jobs) < Capacity
             /\ jobs' = Append(jobs, job)
             /\ awaiting' = TRUE
             /\ UNCHANGED reply

---------------------------------------------------------------------------
(* The bot. *)

Job == Head(jobs)

(* automated_chest_io: an error leaves what was moved where it is. *)
BotMoves ==
  /\ jobs # <<>> /\ Job.op # "trade"
  /\ LET g   == Job.good
         has == IF Job.op = "withdraw" THEN chest[g] ELSE bot[g]
         max == Least(Job.amount, has)
     IN \E n \in IF "chest" \in Faults THEN 0 .. max ELSE {max} :
          /\ IF Job.op = "withdraw"
             THEN chest' = Add(chest, g, -n) /\ bot' = Add(bot, g, n)
             ELSE chest' = Add(chest, g, n) /\ bot' = Add(bot, g, -n)
          /\ \/ n = Job.amount /\ Answer(Yes(n))
             \/ (n < Job.amount \/ "chest" \in Faults) /\ Answer(No(Job.amount))
  /\ UNCHANGED <<buffer, hand, stock, books, handler, history>>

(* ensure_inventory_empty *)
Dumped == IF Buffer THEN [g \in Goods |-> buffer[g] + bot[g]] ELSE buffer
OnBot  == IF Buffer THEN Zero ELSE bot

(* The customer does not take the request up: the inventory was emptied for it,
   and that is all. *)
NotOpened == buffer' = Dumped /\ bot' = OnBot

(* The bot cannot place what it offers, the customer does not accept, or
   validate_player_items finds an error: nothing is exchanged.  The trade may
   have failed before the inventory was emptied. *)
BotRefused ==
  /\ jobs # <<>> /\ Job.op = "trade"
  /\ NotOpened \/ UNCHANGED <<buffer, bot>>
  /\ Answer(No(0))
  /\ UNCHANGED <<chest, hand, stock, books, handler, history>>

(* Mutant: less than was asked is accepted. *)
ShortOffers == IF Job.want = "nothing" THEN {0}
               ELSE {n \in 1 .. Least(hand[Job.want], Job.least + MaxExtra) :
                       Job.exact => n = Job.least}

(* validate_player_items: what the customer may put in. *)
Offers == IF Job.want = "nothing" THEN {0}
          ELSE {n \in Job.least .. Least(hand[Job.want], Job.least + MaxExtra) :
                  Job.exact => n = Job.least}

(* Mutant: the threshold is rounded down to nothing. *)
NoThreshold(n) == (8 * n) \div 10

(* The trade is taken to have been rejected when, after the window closed, the
   bot still holds what it offered, or nearly all of it. *)
Threshold(n) == IF n > 1 THEN (8 * n) \div 10 ELSE 1
LooksRejected(inventory) == /\ Job.amount > 0
                            /\ inventory[Job.good] >= Threshold(Job.amount)

(* place_items_from_inventory_into_trade, stack by stack until the amount is in
   the window. *)
Placed == OnBot[Job.good] >= Job.amount

BotExchanged ==
  /\ jobs # <<>> /\ Job.op = "trade"
  /\ Placed
  /\ \E n \in Offers :
       LET gain(g) == (IF g = Job.want THEN n ELSE 0) - (IF g = Job.good THEN Job.amount ELSE 0)
       IN /\ bot'  = [g \in Goods |-> OnBot[g] + gain(g)]
          /\ hand' = [g \in Goods |-> hand[g] - gain(g)]
          /\ \/ /\ LooksRejected(bot')
                /\ Answer(No(0)) /\ astray' = TRUE
             \/ /\ LooksRejected(bot') => "blind" \in Faults
                /\ Answer(Yes(n)) /\ astray' = (astray \/ ~Heard)
  /\ buffer' = Dumped
  /\ UNCHANGED <<chest, stock, books, handler, served, before, last, doubt, twice>>

(* The window closes after the bot accepted and everything goes back; with
   nothing of its own in the trade, or an inventory it cannot read, the bot has
   nothing to tell by. *)
BotCancelled ==
  /\ "cancel" \in Faults
  /\ jobs # <<>> /\ Job.op = "trade" /\ Placed
  /\ Job.amount = 0 \/ "blind" \in Faults
  /\ buffer' = Dumped /\ bot' = OnBot
  /\ \E n \in Offers : Answer(Yes(n))
  /\ astray' = TRUE
  /\ UNCHANGED <<chest, hand, stock, books, handler, served, before, last, doubt, twice>>

---------------------------------------------------------------------------
(* Beginning and end of an order. *)

(* What the customer has, and what the store owes or keeps in reserve. *)
Value       == Part * hand["diamond"] + balance
Liabilities == balance + currency_stock
Now         == [hand |-> hand, value |-> Value, bot |-> bot,
                owed |-> Liabilities, stored |-> chest["diamond"]]

Gives(kind) == IF kind = "buy" THEN "item" ELSE "diamond"

(* What is pulled from the chests before the trade. *)
Pulls(r) == CASE r.kind = "sell"    -> Whole(r.price)
              [] r.kind = "deposit" -> 0
              [] OTHER              -> r.qty

Conclude(outcome) ==
  /\ pc' = "idle" /\ req' = None
  /\ left' = 0 /\ done' = 0 /\ returned' = 0 /\ paid' = 0
  /\ last' = [req |-> req, outcome |-> outcome, short |-> paid - returned]

Goto(where, n) == pc' = where /\ left' = n

(* assert_tradeable, assert_invariants *)
Consistent == item_stock = stock["item"] /\ balance >= 0 /\ currency_stock >= 0

(* Mutant: the reserve of the pair is not looked at. *)
AcceptedOnStock(r) == /\ r.kind \in {"buy", "sell"} => item_stock > 0 /\ currency_stock > 0
                      /\ r.kind = "buy" => r.qty < item_stock /\ r.price > 0
                      /\ r.kind = "withdraw" => Part * r.qty <= balance
                      /\ Pulls(r) <= stock[Gives(r.kind)]

(* There is no price without stock and reserve, nor for all of the stock. *)
Priced(r) == /\ item_stock > 0 /\ currency_stock > 0
             /\ r.kind = "buy" => r.qty < item_stock

(* validate_and_plan_buy *)
BuyAccepted(r) == Priced(r) /\ r.price > 0

(* validate_and_plan_sell: the reserve of the pair covers the payout. *)
SellAccepted(r) == Priced(r) /\ r.price \in 1 .. currency_stock

(* A withdrawal is of whole diamonds, all of them on the balance. *)
WithdrawAccepted(r) == Part * r.qty <= balance

(* The plan finds enough in the chests the store believes in. *)
InStorage(r) == Pulls(r) <= stock[Gives(r.kind)]

Accepted(r) == /\ r.kind = "buy" => BuyAccepted(r)
               /\ r.kind = "sell" => SellAccepted(r)
               /\ r.kind = "withdraw" => WithdrawAccepted(r)
               /\ InStorage(r)

Start(r) ==
  /\ pc = "idle" /\ served < MaxOrders
  /\ Consistent /\ Accepted(r)
  /\ served' = served + 1
  /\ req' = r
  /\ Goto(IF Pulls(r) > 0 THEN "pull" ELSE "trade", Pulls(r))
  /\ done' = 0 /\ returned' = 0 /\ paid' = 0
  /\ before' = Now
  /\ UNCHANGED <<world, jobs, stock, books, awaiting, reply, last, doubt, astray, twice>>

(* audit_state with repair, as the operator runs it. *)
Audit ==
  /\ pc = "idle"
  /\ item_stock # stock["item"]
  /\ item_stock' = stock["item"]
  /\ UNCHANGED <<world, jobs, stock, currency_stock, balance, handler, awaiting, reply, history>>

---------------------------------------------------------------------------
(* Chest operations. *)

Loops == {"pull", "push", "return", "bank"}

Cargo == CASE pc = "push" -> "item"
           [] pc = "bank" -> "diamond"
           [] OTHER       -> Gives(req.kind)

AskChest ==
  /\ pc \in Loops /\ left > 0
  /\ \E n \in 1 .. left :
       Send(Chore(IF pc = "pull" THEN "withdraw" ELSE "deposit", Cargo, n))
  /\ UNCHANGED <<world, stock, books, handler, history>>

(* apply_chest_sync: the slots the bot looked at are set to what it saw, so
   that stock may catch up with the chests as well as change with them. *)
Synced(n) == LET s == stock[Cargo] + n
                 c == chest[Cargo]
             IN {x \in (s .. c) \union (c .. s) : x >= 0}

Sync(n) == \E x \in Synced(n) : stock' = [stock EXCEPT ![Cargo] = x]

Take == reply' = Nothing /\ UNCHANGED <<world, jobs, awaiting, books>>
Doubt == doubt' = doubt \union {Cargo}

(* simulate_deposit_plan, and growth by another node when it falls short. *)
Planned(n) == IF "full" \in Faults THEN 0 .. n ELSE {n}

(* execute_chest_transfers, withdrawing *)
Pulled ==
  /\ pc = "pull" /\ reply.ok /\ Take
  /\ Sync(-reply.amount)
  /\ done' = done + reply.amount
  /\ left' = left - reply.amount
  /\ pc' = IF left' > 0 THEN "pull" ELSE IF req.kind = "buy" THEN "tell" ELSE "trade"
  /\ UNCHANGED <<req, returned, paid, history>>

(* Mutant: the transfer that failed is taken from the prefix that did not. *)
PullMiscounted ==
  /\ pc = "pull" /\ reply.given /\ ~reply.ok /\ Take
  /\ Goto("return", done - reply.amount)
  /\ Doubt
  /\ UNCHANGED <<stock, req, done, returned, paid, served, before, last, astray, twice>>

(* rollback_applied_prefix *)
PullFailed ==
  /\ pc = "pull" /\ reply.given /\ ~reply.ok /\ Take
  /\ Goto("return", done)
  /\ Doubt
  /\ UNCHANGED <<stock, req, done, returned, paid, served, before, last, astray, twice>>

(* deposit_transfers goes on after a failure. *)
Returned ==
  /\ pc \in {"return", "bank"} /\ reply.ok /\ Take
  /\ Sync(reply.amount)
  /\ returned' = returned + reply.amount
  /\ left' = left - reply.amount
  /\ UNCHANGED <<pc, req, done, paid, history>>

(* Mutant: what failed is counted as returned. *)
ReturnCounted ==
  /\ pc \in {"return", "bank"} /\ reply.given /\ ~reply.ok /\ Take
  /\ left' = left - reply.amount
  /\ returned' = returned + reply.amount
  /\ Doubt
  /\ UNCHANGED <<stock, pc, req, done, paid, served, before, last, astray, twice>>

ReturnFailed ==
  /\ pc \in {"return", "bank"} /\ reply.given /\ ~reply.ok /\ Take
  /\ left' = left - reply.amount
  /\ Doubt
  /\ UNCHANGED <<stock, pc, req, done, returned, paid, served, before, last, astray, twice>>

Pushed ==
  /\ pc = "push" /\ reply.ok /\ Take
  /\ Sync(reply.amount)
  /\ left' = left - reply.amount
  /\ UNCHANGED <<pc, req, done, returned, paid, history>>

PushFailed ==
  /\ pc = "push" /\ reply.given /\ ~reply.ok /\ Take
  /\ pc' = "giveback"
  /\ Doubt
  /\ UNCHANGED <<stock, req, left, done, returned, paid, served, before, last, astray, twice>>

---------------------------------------------------------------------------
(* The trade. *)

(* A buy tells its terms between the chests and the trade; the others before
   anything was moved. *)
Tell ==
  /\ pc = "tell"
  /\ pc' = "trade"
  /\ UNCHANGED <<world, jobs, stock, books, req, left, done, returned, paid, awaiting, reply, history>>

TellFails ==
  /\ pc = "tell"
  /\ "whisper" \in Faults
  /\ Conclude("left")
  /\ UNCHANGED <<world, jobs, stock, books, awaiting, reply, served, before, doubt, astray, twice>>

(* diamonds_to_offer_for_buy *)
ToOffer == Ceil(AtLeast0(req.price - balance))

(* A surplus of diamonds is welcome, one of items is not. *)
BuyTerms      == Trade("item", req.qty, "diamond", ToOffer, FALSE)
SellTerms     == Trade("diamond", Whole(req.price), "item", req.qty, TRUE)
DepositTerms  == Trade("diamond", 0, "diamond", req.qty, FALSE)
WithdrawTerms == Trade("diamond", req.qty, "nothing", 0, FALSE)

Terms == CASE req.kind = "buy"      -> BuyTerms
           [] req.kind = "sell"     -> SellTerms
           [] req.kind = "deposit"  -> DepositTerms
           [] req.kind = "withdraw" -> WithdrawTerms

AskTrade ==
  /\ \/ pc = "trade" /\ Send(Terms)
     \/ pc = "giveback" /\ Send(Trade("item", req.qty, "nothing", 0, FALSE))
  /\ UNCHANGED <<world, stock, books, handler, history>>

(* A buy goes back over the transfers it made; a sell and a withdrawal have
   places for the diamonds planned, which may not be enough. *)
BuyPutsBack      == {done}
SellPutsBack     == Planned(done)
WithdrawPutsBack == Planned(done)

PutsBack == CASE req.kind = "buy"  -> BuyPutsBack
              [] req.kind = "sell" -> SellPutsBack
              [] OTHER             -> WithdrawPutsBack

(* Mutant: what was pulled for the trade stays with the bot. *)
TradeAbandoned ==
  /\ pc = "trade" /\ reply.given /\ ~reply.ok /\ Take
  /\ Conclude(IF req.kind = "deposit" THEN "left" ELSE "rolledback")
  /\ UNCHANGED <<doubt, stock, served, before, astray, twice>>

TradeFailed ==
  /\ pc = "trade" /\ reply.given /\ ~reply.ok /\ Take
  /\ IF req.kind = "deposit"
     THEN /\ Conclude(IF reply.late THEN "rolledback" ELSE "left")
          /\ UNCHANGED doubt
     ELSE \E n \in PutsBack :
            /\ Goto("return", n)
            /\ doubt' = IF n < done THEN doubt \union {Cargo} ELSE doubt
            /\ UNCHANGED <<req, done, returned, paid, last>>
  /\ UNCHANGED <<stock, served, before, astray, twice>>

(* What the customer put in goes to the chests, as far as there is room; a buy
   has its payment checked again first, and finds it covers the price. *)
ToBank ==
  /\ paid' = reply.amount
  /\ \E n \in Planned(paid') :
       /\ Goto("bank", n)
       /\ doubt' = IF n < paid' THEN doubt \union {"diamond"} ELSE doubt

(* The items a sell brought go where validation planned; it checks that they are
   as many as agreed. *)
ToChests == Goto("push", req.qty) /\ UNCHANGED <<paid, doubt>>

TradeDone ==
  /\ pc = "trade" /\ reply.ok /\ Take
  /\ \/ req.kind \in {"buy", "deposit"} /\ ToBank
     \/ req.kind = "sell" /\ ToChests
     \/ /\ req.kind = "withdraw"
        /\ Goto("settle", 0)
        /\ UNCHANGED <<paid, doubt>>
  /\ UNCHANGED <<stock, req, done, returned, served, before, last, astray, twice>>

---------------------------------------------------------------------------
(* The books.  Every commit is followed by an audit with repair. *)

Commit == /\ Idle /\ left = 0
          /\ Conclude("committed")
          /\ item_stock' = stock["item"]
          /\ UNCHANGED <<world, jobs, stock, awaiting, reply, served, before, doubt, astray>>

Deduction == Least(req.price - Part * paid, balance)
Surplus   == AtLeast0(Part * returned - req.price)

(* Mutant: the reserve grows by the diamonds tendered, not those put away. *)
CommitTendered ==
  /\ pc = "bank" /\ req.kind = "buy" /\ Commit
  /\ IF req.price > Part * paid
     THEN /\ balance' = balance - Deduction
          /\ currency_stock' = currency_stock + Part * paid + Deduction
          /\ UNCHANGED twice
     ELSE /\ balance' = balance + Surplus
          /\ currency_stock' = currency_stock + Part * paid
          /\ twice' = twice + Surplus

CommitBuy ==
  /\ pc = "bank" /\ req.kind = "buy" /\ Commit
  /\ IF req.price > Part * paid
     THEN /\ balance' = balance - Deduction
          /\ currency_stock' = currency_stock + Part * returned + Deduction
          /\ UNCHANGED twice
     ELSE /\ balance' = balance + Surplus
          /\ currency_stock' = currency_stock + Part * returned
          /\ twice' = twice + Surplus

CommitDeposit ==
  /\ pc = "bank" /\ req.kind = "deposit" /\ returned > 0 /\ Commit
  /\ balance' = balance + Part * returned
  /\ UNCHANGED <<currency_stock, twice>>

DepositLost ==
  /\ pc = "bank" /\ req.kind = "deposit" /\ returned = 0 /\ Idle /\ left = 0
  /\ Conclude("left")
  /\ UNCHANGED <<world, jobs, stock, books, awaiting, reply, served, before, doubt, astray, twice>>

CommitSell ==
  /\ pc = "push" /\ Commit
  /\ balance' = balance + Frac(req.price)
  /\ currency_stock' = currency_stock - req.price
  /\ UNCHANGED twice

CommitWithdraw ==
  /\ pc = "settle" /\ Commit
  /\ balance' = balance - Part * req.qty
  /\ UNCHANGED <<currency_stock, twice>>

(* Mutant: the fraction is forgotten. *)
FractionForgotten ==
  /\ pc = "giveback" /\ reply.given
  /\ reply' = Nothing
  /\ currency_stock' = currency_stock - req.price
  /\ Conclude("rolledback")
  /\ UNCHANGED <<world, jobs, stock, item_stock, balance, awaiting, served, before, doubt, astray,
                 twice>>

(* Mutant: an order that is rolled back leaves the books alone. *)
PayoutNotDebited ==
  /\ pc = "giveback" /\ reply.given
  /\ reply' = Nothing
  /\ balance' = balance + Frac(req.price)
  /\ Conclude("rolledback")
  /\ UNCHANGED <<world, jobs, stock, item_stock, currency_stock, awaiting, served, before, doubt,
                 astray, twice>>

(* The diamonds are gone, whatever became of the items. *)
SellUnwound ==
  /\ pc = "giveback" /\ reply.given
  /\ reply' = Nothing
  /\ balance' = balance + Frac(req.price)
  /\ currency_stock' = currency_stock - req.price
  /\ Conclude("rolledback")
  /\ UNCHANGED <<world, jobs, stock, item_stock, awaiting, served, before, doubt, astray, twice>>

ReturnEnds ==
  /\ pc = "return" /\ Idle /\ left = 0
  /\ Conclude("rolledback")
  /\ UNCHANGED <<world, jobs, stock, books, awaiting, reply, served, before, doubt, astray, twice>>

---------------------------------------------------------------------------
(* Waiting no longer. *)

Timeout ==
  /\ "late" \in Faults
  /\ awaiting
  /\ awaiting' = FALSE
  /\ LET job == jobs[Len(jobs)]
     IN /\ reply' = TooLate(job.amount)
        /\ doubt' = doubt \union {"late"} \union ({job.good, job.want} \intersect Goods)
  /\ UNCHANGED <<world, jobs, stock, books, handler, served, before, last, astray, twice>>

(* Mutant: a send that waits for room is not bounded. *)
WatchdogOfAnswers ==
  /\ "late" \in Faults
  /\ pc # "idle"
  /\ awaiting
  /\ Conclude("left")
  /\ awaiting' = FALSE /\ reply' = Nothing
  /\ doubt' = doubt \union {"late"} \union Goods
  /\ astray' = (astray \/ pc \in {"push", "bank", "giveback"})
  /\ UNCHANGED <<world, jobs, stock, books, served, before, twice>>

(* The watchdog drops the handler where it waits: for the bot, for room in the
   channel, for a message to be sent. *)
AtSend == Idle /\ (pc \in {"trade", "giveback"} \/ (pc \in Loops /\ left > 0))

Watchdog ==
  /\ "late" \in Faults
  /\ pc # "idle"
  /\ awaiting \/ pc = "tell" \/ (AtSend /\ Len(jobs) = Capacity)
  /\ Conclude("left")
  /\ awaiting' = FALSE /\ reply' = Nothing
  /\ doubt' = doubt \union {"late"} \union Goods
  /\ astray' = (astray \/ pc \in {"push", "bank", "giveback"})
  /\ UNCHANGED <<world, jobs, stock, books, served, before, twice>>

---------------------------------------------------------------------------

Init ==
  /\ chest = Chest /\ bot = Zero /\ buffer = Zero /\ hand = Hand
  /\ jobs = <<>>
  /\ stock = Chest
  /\ item_stock = Chest["item"]
  /\ balance = Balance /\ currency_stock = Part * Chest["diamond"] - Balance
  /\ pc = "idle" /\ req = None
  /\ left = 0 /\ done = 0 /\ returned = 0 /\ paid = 0
  /\ awaiting = FALSE /\ reply = Nothing
  /\ served = 0
  /\ last = [req |-> None, outcome |-> "none", short |-> 0]
  /\ doubt = {} /\ astray = FALSE /\ twice = 0
  /\ before = Now

BotSteps == BotMoves \/ BotRefused \/ BotExchanged \/ BotCancelled

Handler == \/ AskChest \/ Pulled \/ PullFailed \/ Returned \/ ReturnFailed
           \/ Pushed \/ PushFailed \/ Tell
           \/ AskTrade \/ TradeFailed \/ TradeDone
           \/ CommitBuy \/ CommitDeposit \/ DepositLost \/ CommitSell \/ CommitWithdraw
           \/ SellUnwound \/ ReturnEnds

Next == \/ \E r \in Requests : Start(r)
        \/ Audit
        \/ BotSteps
        \/ Handler
        \/ TellFails
        \/ Timeout
        \/ Watchdog

Spec == Init /\ [][Next]_vars

(* The handler is a task of the executor and the watchdog a timer of it.
   Nothing is assumed of the bot, of the operator or of timeouts shorter than
   the watchdog. *)
FairSpec == Spec /\ WF_vars(Handler) /\ WF_vars(Watchdog)

---------------------------------------------------------------------------
(* Properties. *)

Stowage == [Goods -> Nat]
Answers == [ok : BOOLEAN, amount : Nat, late : BOOLEAN, given : BOOLEAN]

(* The types; what a plan leaves to move, what was pulled and what was put back
   never go below zero. *)
TypeOK ==
  /\ chest \in Stowage /\ bot \in Stowage /\ buffer \in Stowage /\ hand \in Stowage
  /\ stock \in Stowage
  /\ Len(jobs) <= Capacity
  /\ item_stock \in Nat /\ currency_stock \in Int /\ balance \in Int
  /\ pc \in Loops \union {"idle", "tell", "trade", "giveback", "settle"}
  /\ req \in Requests \union {None}
  /\ left \in Nat /\ done \in Nat /\ returned \in Nat /\ paid \in Nat
  /\ reply \in Answers /\ awaiting \in BOOLEAN /\ (awaiting => jobs # <<>>)
  /\ doubt \subseteq Goods \union {"late"} /\ astray \in BOOLEAN

(* What the store owes its customer and keeps in reserve never goes below
   zero: the debug assertions after each commit, and the rule of assert_invariants,
   hold without any repair. *)
NoDebt == balance >= 0 /\ currency_stock >= 0

Diamonds == chest["diamond"] + bot["diamond"] + buffer["diamond"]

(* Between orders the balance and the reserve are backed by the diamonds the
   store has somewhere, and by exactly those unless an error about diamonds
   was logged: no failed chest operation, late answer or abandoned handler
   mints or loses money.  Left out are a surplus that was counted twice and
   exchanges the store does not know of. *)
Solvent ==
  pc = "idle" /\ ~astray =>
    /\ Liabilities <= Part * Diamonds + twice
    /\ "diamond" \notin doubt => Liabilities = Part * Diamonds + twice

(* Goods stay behind on the bot, or the store is wrong about its chests, only
   after an error about such goods was logged, or when an exchange was made that
   the store does not know of. *)
NothingForgotten ==
  pc = "idle" /\ ~astray =>
    \A g \in Goods : bot[g] # 0 \/ stock[g] # chest[g] => g \in doubt

(* The diamonds in the chests since the order began, and what of them is more
   than the price of a buy. *)
Gained   == chest["diamond"] - before.stored
Overpaid == IF last.req.kind = "buy" THEN AtLeast0(Part * Gained - last.req.price) ELSE 0

(* As long as the store never gave up on an instruction, a committed order adds
   to balance and reserve together no more than went into the chests, and the
   surplus of a buy once again: that is credited to the customer and, with all
   the diamonds put away, to the reserve.  Diamonds stranded on the bot are
   credited to neither. *)
CreditIsStored ==
  pc = "idle" /\ ~astray /\ "late" \notin doubt /\ last.outcome = "committed" =>
    Liabilities <= before.owed + Part * Gained + Overpaid

(* A committed order is the exchange that was agreed: the customer's items
   change by the quantity and what the customer has, in hand and on the balance,
   by the price; less than that, never more, when some of the payment did not
   reach the chests. *)
CommitIsExchange ==
  pc = "idle" /\ ~astray /\ last.outcome = "committed" =>
    LET items == hand["item"] - before.hand["item"]
        gain  == Value - before.value
        due   == CASE last.req.kind = "buy" -> -last.req.price
                   [] last.req.kind = "sell" -> last.req.price
                   [] OTHER -> 0
    IN /\ items = CASE last.req.kind = "buy" -> last.req.qty
                     [] last.req.kind = "sell" -> -last.req.qty
                     [] OTHER -> 0
       /\ gain <= due
       /\ last.short = 0 => gain = due

(* An order that ends without a commit leaves the customer with what he had,
   unless it was a sell whose items could not be put away: then the customer
   is paid in full, whether or not the items came back.  Left out is a deposit
   of which nothing reached the chests. *)
AbortIsNoExchange ==
  pc = "idle" /\ ~astray /\ last.outcome \in {"rolledback", "left"} /\ last.short <= 0 =>
    \/ hand = before.hand /\ Value = before.value
    \/ /\ last.req.kind = "sell"
       /\ Value = before.value + last.req.price
       /\ before.hand["item"] - hand["item"] \in {0, last.req.qty}

(* As long as no error was logged, what the handler is about to put back after
   a trade that failed is on the bot, if nothing was on it when the order began. *)
RollbackHasGoods ==
  pc = "return" /\ Idle /\ doubt = {} /\ before.bot = Zero => bot[Gives(req.kind)] >= left

(* Every order ends and the store goes on to the next, even when the bot has
   stopped answering and its channel is full. *)
EveryOrderEnds == pc # "idle" ~> pc = "idle"

===========================================================================
