------------------------- MODULE OrderExecutionProofs -------------------------
(***************************************************************************)
(* Proofs about OrderExecution: the types, that nobody gets into debt,     *)
(* that balance and reserve are backed by diamonds, and that an order is   *)
(* an exchange or none, for any orders, prices and goods, and under every  *)
(* fault.                                                                  *)
(***************************************************************************)
EXTENDS OrderExecution, TLAPS

Jobs == [op : {"withdraw", "deposit", "trade"}, good : Goods, amount : Nat,
         want : Goods \union {"nothing"}, least : Nat, exact : BOOLEAN]

Typed == /\ TypeOK
         /\ jobs \in Seq(Jobs)
         /\ twice \in Nat

(* The step the handler is at fits the order, and the books still allow what
   was agreed. *)
AtWork ==
  /\ pc # "idle" => req \in Requests
  /\ pc = "tell" => req.kind = "buy"
  /\ pc \in {"push", "giveback"} => req.kind = "sell"
  /\ pc = "bank" => req.kind \in {"buy", "deposit"}
  /\ pc = "settle" => req.kind = "withdraw"
  /\ pc \in {"pull", "tell", "trade"} => returned = 0
  /\ pc # "idle" /\ req.kind = "sell" => req.price <= currency_stock
  /\ pc # "idle" /\ req.kind = "withdraw" => Part * req.qty <= balance

(* What was received is put away, is still to be, or is in doubt. *)
Banked ==
  pc = "bank" => /\ returned + left <= paid
                 /\ "diamond" \notin doubt => returned + left = paid

(* What the handler waits for, or was answered, is what it asked. *)
LastJob == jobs[Len(jobs)]

Asked ==
  /\ reply.ok => reply.given
  /\ awaiting => jobs # <<>> /\ ~reply.given
  /\ awaiting \/ reply.given => pc \in Loops \union {"trade", "giveback"}
  /\ awaiting /\ pc \in Loops => LastJob.op # "trade" /\ LastJob.amount \in 1 .. left
  /\ awaiting /\ pc = "trade" => LastJob = Terms
  /\ awaiting /\ pc = "giveback" => LastJob = Trade("item", req.qty, "nothing", 0, FALSE)
  /\ reply.given /\ pc \in Loops => reply.amount \in 1 .. left

(* Diamonds that changed hands and are not in the books yet. *)
InFlight ==
  CASE pc = "trade" /\ reply.ok /\ req.kind \in {"buy", "deposit"} -> reply.amount
    [] pc = "trade" /\ reply.ok /\ req.kind \in {"sell", "withdraw"} -> -Pulls(req)
    [] pc = "bank" -> paid
    [] pc \in {"push", "giveback", "settle"} -> -Pulls(req)
    [] OTHER -> 0

Settled == Diamonds - InFlight

Money ==
  ~astray => /\ Liabilities - twice <= Part * Settled
             /\ "diamond" \notin doubt => Liabilities - twice = Part * Settled

Inv == Typed /\ NoDebt /\ AtWork /\ Banked /\ Asked /\ Money

---------------------------------------------------------------------------
(* Numbers. *)

(* A price is its whole diamonds and its fraction. *)
LEMMA Divided ==
  ASSUME NEW p \in Nat
  PROVE  Whole(p) \in Nat /\ Frac(p) \in Nat /\ p = Part * Whole(p) + Frac(p)
BY PartAssumption DEF Whole, Frac

(* What is short, in whole diamonds, is a natural number. *)
LEMMA Rounded ==
  ASSUME NEW p \in Int
  PROVE  Ceil(AtLeast0(p)) \in Nat
<1>1. AtLeast0(p) \in Nat
  BY DEF AtLeast0
<1>2. \A q \in Nat : Ceil(q) \in Nat
  BY PartAssumption DEF Ceil
<1> QED
  BY <1>1, <1>2

(* Parts of sums and differences. *)
LEMMA Parts ==
  ASSUME NEW a \in Int, NEW b \in Int
  PROVE  /\ Part * a \in Int
         /\ Part * (a + b) = Part * a + Part * b
         /\ Part * (a - b) = Part * a - Part * b
         /\ a <= b => Part * a <= Part * b
         /\ a \in Nat => Part * a \in Nat
BY PartAssumption

---------------------------------------------------------------------------
(* Orders and instructions. *)

(* What an order in hand asks of the chests and of the bot is well typed. *)
LEMMA Wanted ==
  ASSUME Typed, AtWork, pc # "idle"
  PROVE  /\ req \in Request /\ req.qty \in Nat /\ req.price \in Nat
         /\ Pulls(req) \in Nat
         /\ Gives(req.kind) \in Goods
         /\ Cargo \in Goods
         /\ Terms \in Jobs /\ Terms.op = "trade"
         /\ Trade("item", req.qty, "nothing", 0, FALSE) \in Jobs
<1>1. req \in Request
  BY RequestsAssumption DEF AtWork
<1>2. Whole(req.price) \in Nat
  BY <1>1, Divided DEF Request
<1>3. Pulls(req) \in Nat
  BY <1>1, <1>2 DEF Pulls, Request, Kinds
<1>4. Gives(req.kind) \in Goods /\ Cargo \in Goods
  BY DEF Gives, Cargo, Goods
<1>5. ToOffer \in Nat
  <2>1. req.price - balance \in Int
    BY <1>1 DEF Request, Typed, TypeOK
  <2> QED
    BY <2>1, Rounded DEF ToOffer
<1>6. Terms \in Jobs /\ Terms.op = "trade"
  BY <1>1, <1>2, <1>5
    DEF Terms, BuyTerms, SellTerms, DepositTerms, WithdrawTerms, Trade, Jobs, Request, Kinds, Goods
<1>7. Trade("item", req.qty, "nothing", 0, FALSE) \in Jobs
  BY <1>1 DEF Trade, Jobs, Request, Goods
<1>8. req.qty \in Nat /\ req.price \in Nat
  BY <1>1 DEF Request
<1> QED
  BY <1>1, <1>3, <1>4, <1>6, <1>7, <1>8

(* The head of the channel is an instruction, and what comes after it is a
   channel with the same last instruction. *)
LEMMA Channel ==
  ASSUME Typed, jobs # <<>>
  PROVE  /\ Job \in Jobs
         /\ Tail(jobs) \in Seq(Jobs)
         /\ Len(Tail(jobs)) = Len(jobs) - 1
         /\ Len(jobs) \in Nat \ {0}
         /\ Len(jobs) = 1 => LastJob = Job
         /\ Len(jobs) > 1 => /\ Tail(jobs) # <<>>
                             /\ Tail(jobs)[Len(Tail(jobs))] = LastJob
<1>1. jobs \in Seq(Jobs)
  BY DEF Typed
<1>2. ASSUME NEW S, NEW s \in Seq(S), s # <<>>
      PROVE  /\ Head(s) \in S /\ Head(s) = s[1]
             /\ Tail(s) \in Seq(S)
             /\ Len(Tail(s)) = Len(s) - 1
             /\ Len(s) \in Nat \ {0}
             /\ \A i \in 1 .. Len(s) - 1 : Tail(s)[i] = s[i + 1]
  BY <1>2
<1> HIDE DEF Jobs
<1>3. Job \in Jobs /\ Job = jobs[1] /\ Tail(jobs) \in Seq(Jobs)
  BY <1>1, <1>2 DEF Job
<1>4. Len(Tail(jobs)) = Len(jobs) - 1 /\ Len(jobs) \in Nat \ {0}
  BY <1>1, <1>2
<1>5. \A i \in 1 .. Len(jobs) - 1 : Tail(jobs)[i] = jobs[i + 1]
  BY <1>1, <1>2
<1>6. ASSUME Len(jobs) > 1
      PROVE  Tail(jobs) # <<>> /\ Tail(jobs)[Len(Tail(jobs))] = LastJob
  <2>1. Tail(jobs) # <<>>
    <3>1. Len(Tail(jobs)) # 0
      BY <1>4, <1>6
    <3>2. Len(<<>>) = 0
      OBVIOUS
    <3> QED
      BY <3>1, <3>2
  <2>2. Tail(jobs)[Len(jobs) - 1] = jobs[Len(jobs)]
    BY <1>4, <1>5, <1>6
  <2> QED
    BY <1>4, <2>1, <2>2 DEF LastJob
<1> QED
  BY <1>3, <1>4, <1>6 DEF LastJob

(* An answer: the handler is as it was, and hears only what it asked for. *)
LEMMA Answered ==
  ASSUME Inv, jobs # <<>>, NEW r \in Answers, Answer(r), r.given,
         r.amount = Job.amount \/ Job.op = "trade",
         UNCHANGED <<handler, balance>>
  PROVE  /\ Asked'
         /\ jobs' \in Seq(Jobs) /\ Len(jobs') <= Capacity
         /\ reply' \in Answers /\ awaiting' \in BOOLEAN
         /\ awaiting' => jobs' # <<>>
<1> USE DEF handler
<1>1. Len(jobs) <= Capacity /\ reply \in Answers /\ awaiting \in BOOLEAN /\ Capacity \in Nat
  BY BoundsAssumption DEF Inv, Typed, TypeOK
<1>2. jobs' = Tail(jobs) /\ jobs' \in Seq(Jobs) /\ Len(jobs') <= Capacity
  BY <1>1, Channel DEF Inv, Answer
<1>3. CASE Heard
  <2>1. reply' = r /\ awaiting' = FALSE /\ LastJob = Job
    BY <1>3, Channel DEF Heard, Answer, Inv
  <2>2. pc \in Loops \union {"trade", "giveback"}
    BY <1>3 DEF Inv, Asked, Heard
  <2>3. pc \in Loops => r.amount \in 1 .. left
    BY <1>3, <2>1 DEF Inv, Asked, Heard
  <2> QED
    BY <1>2, <2>1, <2>2, <2>3 DEF Asked, Answers
<1>4. CASE ~Heard
  <2>1. reply' = reply /\ awaiting' = awaiting
    BY <1>1, <1>4 DEF Answer
  <2>2. awaiting => jobs' # <<>> /\ LastJob' = LastJob
    BY <1>2, <1>4, Channel DEF Heard, Inv, LastJob
  <2>3. Terms' = Terms
    BY DEF Terms, BuyTerms, SellTerms, DepositTerms, WithdrawTerms, ToOffer
  <2> QED
    BY <1>1, <1>2, <2>1, <2>2, <2>3 DEF Asked, Inv
<1> QED
  BY <1>3, <1>4

(* Steps that put nothing in the books. *)
LEMMA MoneyKept ==
  ASSUME Money, UNCHANGED <<balance, currency_stock, twice>>, Settled' = Settled,
         astray => astray', doubt \subseteq doubt'
  PROVE  Money'
BY DEF Money, Liabilities

(* Steps that leave the handler, the books and the log alone. *)
LEMMA Unmoved ==
  ASSUME NoDebt, AtWork, Banked, UNCHANGED <<handler, books, doubt>>
  PROVE  NoDebt' /\ AtWork' /\ Banked'
BY DEF handler, books, NoDebt, AtWork, Banked

(* One more or less of a good. *)
LEMMA Added ==
  ASSUME NEW f \in Stowage, NEW g \in Goods, NEW n \in Int, f[g] + n >= 0
  PROVE  /\ Add(f, g, n) \in Stowage
         /\ Add(f, g, n)[g] = f[g] + n
         /\ \A h \in Goods : h # g => Add(f, g, n)[h] = f[h]
BY DEF Add, Stowage

(* What is on the bot is set aside as a whole. *)
LEMMA Emptied ==
  ASSUME Typed
  PROVE  /\ Dumped \in Stowage /\ OnBot \in Stowage
         /\ \A g \in Goods : Dumped[g] + OnBot[g] = buffer[g] + bot[g]
BY FaultsAssumption DEF Typed, TypeOK, Dumped, OnBot, Stowage, Zero

(* What there is of a good is a number. *)
LEMMA Counted ==
  ASSUME NEW f \in Stowage
  PROVE  f["item"] \in Nat /\ f["diamond"] \in Nat
BY DEF Stowage, Goods

---------------------------------------------------------------------------
(* The bot. *)

(* What the bot moves between chest and inventory stays the store's. *)
LEMMA BotMovesStep ==
  ASSUME Inv, BotMoves
  PROVE  Inv'
<1> DEFINE g == Job.good
<1>0. /\ Job \in Jobs /\ Job.amount \in Nat /\ g \in Goods
      /\ chest[g] \in Nat /\ bot[g] \in Nat
  <2>1. Job \in Jobs
    BY Channel DEF BotMoves, Inv
  <2> QED
    BY <2>1 DEF Jobs, Inv, Typed, TypeOK, Stowage
<1>1. PICK n \in 0 .. Job.amount :
        /\ IF Job.op = "withdraw"
           THEN /\ n <= chest[g]
                /\ chest' = Add(chest, g, -n) /\ bot' = Add(bot, g, n)
           ELSE /\ n <= bot[g]
                /\ chest' = Add(chest, g, n) /\ bot' = Add(bot, g, -n)
        /\ \/ n = Job.amount /\ Answer(Yes(n))
           \/ Answer(No(Job.amount))
  <2> DEFINE has == IF Job.op = "withdraw" THEN chest[g] ELSE bot[g]
             max == Least(Job.amount, has)
             Moves(n) == IF Job.op = "withdraw"
                         THEN chest' = Add(chest, g, -n) /\ bot' = Add(bot, g, n)
                         ELSE chest' = Add(chest, g, n) /\ bot' = Add(bot, g, -n)
             Says(n) == \/ n = Job.amount /\ Answer(Yes(n))
                        \/ (n < Job.amount \/ "chest" \in Faults) /\ Answer(No(Job.amount))
  <2>1. \E n \in IF "chest" \in Faults THEN 0 .. max ELSE {max} : Moves(n) /\ Says(n)
    BY DEF BotMoves
  <2>2. max \in 0 .. Job.amount /\ max <= has
    BY <1>0 DEF Least
  <2>3. PICK n \in 0 .. max : Moves(n) /\ Says(n)
    BY <2>1, <2>2
  <2>4. n \in 0 .. Job.amount /\ n <= has
    BY <1>0, <2>2
  <2> QED
    BY <2>3, <2>4
<1>2. /\ jobs # <<>> /\ Job.op # "trade" /\ Job \in Jobs
      /\ UNCHANGED <<buffer, hand, stock, books, handler, history>>
  BY Channel DEF BotMoves, Inv
<1>3. g \in Goods /\ Job.amount \in Nat
  BY <1>2 DEF Jobs
<1>4. Yes(Job.amount) \in Answers /\ No(Job.amount) \in Answers
  BY <1>3 DEF Yes, No, Answers
<1>5. /\ Asked'
      /\ jobs' \in Seq(Jobs) /\ Len(jobs') <= Capacity
      /\ reply' \in Answers /\ awaiting' \in BOOLEAN
      /\ awaiting' => jobs' # <<>>
  BY <1>1, <1>2, <1>4, Answered DEF Yes, No, books
<1>6. chest \in Stowage /\ bot \in Stowage
  BY DEF Inv, Typed, TypeOK
<1>7. /\ chest' \in Stowage /\ bot' \in Stowage
      /\ chest'["diamond"] + bot'["diamond"] = chest["diamond"] + bot["diamond"]
  <2>1. CASE Job.op = "withdraw"
    BY <2>1, <1>1, <1>3, <1>6, Added DEF Stowage, Goods
  <2>2. CASE Job.op # "withdraw"
    BY <2>2, <1>1, <1>3, <1>6, Added DEF Stowage, Goods
  <2> QED
    BY <2>1, <2>2
<1>8. Typed'
  BY <1>2, <1>5, <1>7 DEF Inv, Typed, TypeOK, handler, books, history
<1>9. NoDebt' /\ AtWork' /\ Banked'
  BY <1>2, Unmoved DEF Inv, history
<1>10. Diamonds' = Diamonds
  BY <1>2, <1>7 DEF Diamonds, Inv, Typed, TypeOK, Stowage, Goods
<1>11. pc = "trade" => UNCHANGED reply
  <2>1. pc = "trade" => ~Heard
    <3>1. pc = "trade" => Terms.op = "trade"
      BY Wanted DEF Inv
    <3> QED
      BY <1>2, <3>1, Channel DEF Inv, Asked, Heard
  <2> QED
    BY <1>1, <2>1 DEF Answer
<1>12. Settled' = Settled
  BY <1>2, <1>10, <1>11 DEF Settled, InFlight, handler
<1> QED
  BY <1>2, <1>5, <1>8, <1>9, <1>12, MoneyKept DEF Inv, books, history

(* The bot exchanges nothing. *)
LEMMA BotRefusedStep ==
  ASSUME Inv, BotRefused
  PROVE  Inv'
<1>1. /\ jobs # <<>> /\ Job.op = "trade" /\ Answer(No(0))
      /\ \/ buffer' = Dumped /\ bot' = OnBot
         \/ UNCHANGED <<buffer, bot>>
      /\ UNCHANGED <<chest, hand, stock, books, handler, history>>
  BY DEF BotRefused, NotOpened
<1>2. No(0) \in Answers
  BY DEF No, Answers
<1>3. /\ Asked'
      /\ jobs' \in Seq(Jobs) /\ Len(jobs') <= Capacity
      /\ reply' \in Answers /\ awaiting' \in BOOLEAN
      /\ awaiting' => jobs' # <<>>
  BY <1>1, <1>2, Answered DEF No, books
<1>4. /\ bot' \in Stowage /\ buffer' \in Stowage
      /\ bot'["diamond"] + buffer'["diamond"] = bot["diamond"] + buffer["diamond"]
  <2>1. Typed
    BY DEF Inv
  <2>2. bot \in Stowage /\ buffer \in Stowage
    BY DEF Inv, Typed, TypeOK
  <2>3. CASE UNCHANGED <<buffer, bot>>
    BY <2>2, <2>3
  <2>4. CASE buffer' = Dumped /\ bot' = OnBot
    BY <2>1, <2>2, <2>4, Emptied DEF Stowage, Goods
  <2> QED
    BY <1>1, <2>3, <2>4
<1>5. Typed'
  BY <1>1, <1>3, <1>4 DEF Inv, Typed, TypeOK, handler, books, history
<1>6. NoDebt' /\ AtWork' /\ Banked'
  BY <1>1, Unmoved DEF Inv, history
<1>7. Diamonds' = Diamonds
  <2>1. chest \in Stowage /\ bot \in Stowage /\ buffer \in Stowage
    BY DEF Inv, Typed, TypeOK
  <2>2. /\ bot["diamond"] \in Nat /\ buffer["diamond"] \in Nat /\ chest["diamond"] \in Nat
        /\ bot'["diamond"] \in Nat /\ buffer'["diamond"] \in Nat
    BY <1>4, <2>1, Counted
  <2>3. chest' = chest
    BY <1>1
  <2> QED
    BY <1>4, <2>2, <2>3 DEF Diamonds
<1>8. UNCHANGED reply \/ (~reply.ok /\ ~reply'.ok)
  BY <1>1 DEF Answer, Heard, Inv, Asked, No
<1>9. Settled' = Settled
  BY <1>1, <1>7, <1>8 DEF Settled, InFlight, handler
<1> QED
  BY <1>1, <1>3, <1>5, <1>6, <1>9, MoneyKept DEF Inv, books, history

(* What the bot says of a trade that went through. *)
Told(n) ==
  \/ LooksRejected(bot') /\ Answer(No(0)) /\ astray' = TRUE
  \/ /\ LooksRejected(bot') => "blind" \in Faults
     /\ Answer(Yes(n)) /\ astray' = (astray \/ ~Heard)

(* An exchange the store is told of is in flight; of any other Money says
   nothing. *)
LEMMA BotExchangedStep ==
  ASSUME Inv, BotExchanged
  PROVE  Inv'
<1> DEFINE out == Job.amount
<1>1. /\ jobs # <<>> /\ Job.op = "trade" /\ Job \in Jobs
      /\ Job.good \in Goods /\ out \in Nat
      /\ OnBot[Job.good] >= out
      /\ UNCHANGED <<chest, stock, books, handler, served, before, last, doubt, twice>>
  <2>1. Job \in Jobs
    BY Channel DEF BotExchanged, Placed, Inv
  <2> QED
    BY <2>1 DEF BotExchanged, Placed, Jobs
<1>2. PICK n \in Nat :
        /\ n \in Offers
        /\ bot'  = [g \in Goods |-> OnBot[g] + ((IF g = Job.want THEN n ELSE 0)
                                               - (IF g = Job.good THEN out ELSE 0))]
        /\ hand' = [g \in Goods |-> hand[g] - ((IF g = Job.want THEN n ELSE 0)
                                              - (IF g = Job.good THEN out ELSE 0))]
        /\ Told(n)
  <2>1. Offers \subseteq Nat
    BY <1>1 DEF Offers, Jobs
  <2> QED
    BY <2>1 DEF BotExchanged, Placed, Told
<1>3. Job.want \in Goods => n <= hand[Job.want]
  <2>1. SUFFICES ASSUME Job.want \in Goods
                 PROVE  n <= hand[Job.want]
    OBVIOUS
  <2>2. Job.want # "nothing" /\ hand[Job.want] \in Nat /\ Job.least \in Nat /\ MaxExtra \in Nat
    BY <1>1, <2>1, BoundsAssumption DEF Jobs, Goods, Inv, Typed, TypeOK, Stowage
  <2>3. n \in Job.least .. Least(hand[Job.want], Job.least + MaxExtra)
    BY <1>2, <2>2 DEF Offers
  <2> QED
    BY <2>2, <2>3 DEF Least
<1>4. buffer' = Dumped /\ Dumped \in Stowage /\ OnBot \in Stowage
      /\ \A g \in Goods : Dumped[g] + OnBot[g] = buffer[g] + bot[g]
  BY Emptied DEF BotExchanged, Placed, Inv
<1>5. hand \in Stowage /\ bot \in Stowage /\ buffer \in Stowage /\ chest \in Stowage
  BY DEF Inv, Typed, TypeOK
<1>6. bot' \in Stowage /\ hand' \in Stowage
  <2>1. ASSUME NEW g \in Goods
        PROVE  bot'[g] \in Nat /\ hand'[g] \in Nat
    <3>1. OnBot[g] \in Nat /\ hand[g] \in Nat
      BY <1>4, <1>5 DEF Stowage
    <3>2. g = Job.good => OnBot[g] >= out
      BY <1>1
    <3>3. g = Job.want => n <= hand[g]
      BY <1>3
    <3>4. /\ bot'[g] = OnBot[g] + ((IF g = Job.want THEN n ELSE 0)
                                  - (IF g = Job.good THEN out ELSE 0))
          /\ hand'[g] = hand[g] - ((IF g = Job.want THEN n ELSE 0)
                                  - (IF g = Job.good THEN out ELSE 0))
      BY <1>2
    <3> QED
      BY <1>1, <3>1, <3>2, <3>3, <3>4
  <2> QED
    BY <1>2, <2>1 DEF Stowage
<1>7. No(0) \in Answers /\ Yes(n) \in Answers
  BY DEF No, Yes, Answers
<1>8. /\ Asked'
      /\ jobs' \in Seq(Jobs) /\ Len(jobs') <= Capacity
      /\ reply' \in Answers /\ awaiting' \in BOOLEAN
      /\ awaiting' => jobs' # <<>>
  <2>1. CASE Answer(No(0))
    BY <2>1, <1>1, <1>7, Answered DEF No, books
  <2>2. CASE Answer(Yes(n))
    BY <2>2, <1>1, <1>7, Answered DEF Yes, books
  <2> QED
    BY <1>2, <2>1, <2>2 DEF Told
<1>9. Typed'
  <2>1. astray' \in BOOLEAN
    BY <1>2 DEF Told, Heard
  <2> QED
    BY <1>1, <1>2, <1>4, <1>6, <1>8, <2>1 DEF Inv, Typed, TypeOK, handler, books
<1>10. NoDebt' /\ AtWork' /\ Banked'
  BY <1>1, Unmoved DEF Inv
<1>11. ASSUME ~astray' PROVE Settled' = Settled
  <2>1. Heard /\ reply' = Yes(n)
    BY <1>2, <1>11 DEF Answer, Told
  <2>2. awaiting /\ ~reply.given /\ ~reply.ok /\ pc \in {"trade", "giveback"}
        /\ LastJob = Job
    BY <1>1, <2>1, Channel DEF Heard, Inv, Asked
  <2>3. Diamonds' = Diamonds + (IF "diamond" = Job.want THEN n ELSE 0)
                             - (IF "diamond" = Job.good THEN out ELSE 0)
    <3>1. bot'["diamond"] = OnBot["diamond"] + ((IF "diamond" = Job.want THEN n ELSE 0)
                                              - (IF "diamond" = Job.good THEN out ELSE 0))
      BY <1>2 DEF Goods
    <3>2. buffer'["diamond"] = buffer["diamond"] + bot["diamond"] - OnBot["diamond"]
      BY <1>4, <1>5, Counted DEF Goods
    <3> QED
      <4>1. /\ chest["diamond"] \in Nat /\ bot["diamond"] \in Nat
            /\ buffer["diamond"] \in Nat /\ OnBot["diamond"] \in Nat
            /\ chest' = chest
        BY <1>1, <1>4, <1>5, Counted
      <4> HIDE DEF out
      <4> QED
        BY <1>1, <3>1, <3>2, <4>1 DEF Diamonds
  <2>4. Diamonds \in Int /\ req \in Request /\ Pulls(req) \in Nat
    <3>1. Diamonds \in Int
      BY <1>5, Counted DEF Diamonds
    <3> QED
      BY <2>2, <3>1, Wanted DEF Inv
  <2>5. CASE pc = "giveback"
    <3>1. Job.good = "item" /\ Job.want = "nothing"
      BY <2>2, <2>5 DEF Inv, Asked, Trade
    <3> QED
      BY <1>1, <2>3, <2>4, <2>5, <3>1 DEF Settled, InFlight, handler
  <2>6. CASE pc = "trade"
    <3>1. Job = Terms
      BY <2>2, <2>6 DEF Inv, Asked
    <3>2. InFlight = 0
      BY <2>2, <2>6 DEF InFlight
    <3>3. CASE req.kind \in {"buy", "deposit"}
      <4>1. InFlight' = n
        BY <1>1, <2>1, <2>6, <3>3 DEF InFlight, Yes, handler
      <4>2. Job.want = "nothing" => n = 0
        BY <1>2 DEF Offers
      <4>3. (Job.want = "diamond" \/ Job.want = "nothing")
            /\ (Job.good = "diamond" => out = 0)
        BY <3>1, <3>3 DEF Terms, BuyTerms, SellTerms, DepositTerms, WithdrawTerms, Trade
      <4> QED
        BY <1>1, <2>3, <2>4, <3>2, <4>1, <4>2, <4>3 DEF Settled
    <3>4. CASE req.kind \in {"sell", "withdraw"}
      <4>1. InFlight' = -Pulls(req)
        BY <1>1, <2>1, <2>6, <3>4 DEF InFlight, Yes, handler
      <4>2. Job.want # "diamond" /\ Job.good = "diamond" /\ out = Pulls(req)
        BY <3>1, <3>4
          DEF Terms, BuyTerms, SellTerms, DepositTerms, WithdrawTerms, Trade, Pulls
      <4> QED
        BY <1>1, <2>3, <2>4, <3>2, <4>1, <4>2 DEF Settled
    <3> QED
      BY <2>4, <3>3, <3>4 DEF Request, Kinds
  <2> QED
    BY <2>2, <2>5, <2>6
<1>12. Money'
  <2>1. CASE astray'
    BY <2>1 DEF Money
  <2>2. CASE ~astray'
    <3>1. ~astray
      BY <1>2, <2>2 DEF Told
    <3> QED
      BY <1>1, <1>11, <2>2, <3>1, MoneyKept DEF Inv, books
  <2> QED
    BY <2>1, <2>2
<1> QED
  BY <1>8, <1>9, <1>10, <1>12 DEF Inv

(* Everything goes back, and the store is told of an exchange. *)
LEMMA BotCancelledStep ==
  ASSUME Inv, BotCancelled
  PROVE  Inv'
<1>1. /\ jobs # <<>> /\ Job.op = "trade" /\ Job \in Jobs
      /\ buffer' = Dumped /\ bot' = OnBot /\ astray'
      /\ UNCHANGED <<chest, hand, stock, books, handler, served, before, last, doubt, twice>>
  BY Channel DEF BotCancelled, Inv
<1>2. PICK n \in Nat : Answer(Yes(n))
  <2>1. Offers \subseteq Nat
    BY <1>1 DEF Offers, Jobs
  <2> QED
    BY <2>1 DEF BotCancelled
<1>3. Yes(n) \in Answers
  BY DEF Yes, Answers
<1>4. /\ Asked'
      /\ jobs' \in Seq(Jobs) /\ Len(jobs') <= Capacity
      /\ reply' \in Answers /\ awaiting' \in BOOLEAN
      /\ awaiting' => jobs' # <<>>
  BY <1>1, <1>2, <1>3, Answered DEF Yes, books
<1>5. Dumped \in Stowage /\ OnBot \in Stowage
  BY Emptied DEF Inv
<1>6. astray' = TRUE
  BY DEF BotCancelled
<1>7. Typed'
  BY <1>1, <1>4, <1>5, <1>6 DEF Inv, Typed, TypeOK, handler, books
<1>8. NoDebt' /\ AtWork' /\ Banked'
  BY <1>1, Unmoved DEF Inv
<1> QED
  BY <1>1, <1>4, <1>7, <1>8 DEF Inv, Money

---------------------------------------------------------------------------
(* What the handler waits for and hears. *)

(* The quantities the money is counted in are numbers. *)
LEMMA Ints ==
  ASSUME Inv
  PROVE  /\ Diamonds \in Int /\ InFlight \in Int /\ Settled \in Int
         /\ Liabilities - twice \in Int
<1>1. Diamonds \in Int
  BY Counted DEF Diamonds, Inv, Typed, TypeOK
<1>2. InFlight \in Int
  <2>1. reply.amount \in Int /\ paid \in Int
    BY DEF Inv, Typed, TypeOK, Answers
  <2>2. pc # "idle" => Pulls(req) \in Int
    BY Wanted DEF Inv
  <2> QED
    BY <2>1, <2>2 DEF InFlight
<1> QED
  BY <1>1, <1>2 DEF Settled, Liabilities, Inv, Typed, TypeOK

(* With nothing asked and nothing answered there is nothing to remember. *)
LEMMA Silent ==
  ASSUME awaiting' = FALSE, reply' \in Answers, ~reply'.given, ~reply'.ok
  PROVE  Asked'
BY DEF Asked

(* An answer is taken once. *)
LEMMA Taken ==
  ASSUME Inv, reply.given, Take
  PROVE  /\ awaiting = FALSE /\ awaiting' = FALSE /\ reply' = Nothing
         /\ Asked' /\ reply' \in Answers /\ ~reply'.ok
         /\ UNCHANGED <<world, jobs, books>>
<1>1. awaiting = FALSE
  BY DEF Inv, Typed, TypeOK, Asked
<1>2. reply' = Nothing /\ Nothing \in Answers /\ ~Nothing.given /\ ~Nothing.ok
  BY DEF Take, Nothing, Answers
<1> QED
  BY <1>1, <1>2, Silent DEF Take

(* An instruction sent is the last of the channel. *)
LEMMA Sent ==
  ASSUME Inv, NEW job \in Jobs, Send(job)
  PROVE  /\ jobs' \in Seq(Jobs) /\ Len(jobs') <= Capacity /\ jobs' # <<>>
         /\ LastJob' = job
         /\ awaiting' = TRUE /\ reply' = reply /\ ~reply.given /\ ~reply.ok
<1>1. jobs \in Seq(Jobs) /\ Capacity \in Nat
  BY BoundsAssumption DEF Inv, Typed
<1>2. ASSUME NEW S, NEW s \in Seq(S), NEW e \in S
      PROVE  /\ Append(s, e) \in Seq(S) /\ Len(Append(s, e)) = Len(s) + 1
             /\ Append(s, e)[Len(s) + 1] = e /\ Append(s, e) # <<>>
             /\ Len(s) \in Nat
  BY <1>2
<1>3. jobs' = Append(jobs, job) /\ Len(jobs) < Capacity
      /\ awaiting' = TRUE /\ reply' = reply /\ ~reply.given
  BY DEF Send, Idle
<1> HIDE DEF Jobs
<1>4. /\ jobs' \in Seq(Jobs) /\ Len(jobs') = Len(jobs) + 1 /\ jobs' # <<>>
      /\ jobs'[Len(jobs) + 1] = job /\ Len(jobs) \in Nat
  BY <1>1, <1>2, <1>3
<1>5. LastJob' = job
  BY <1>4 DEF LastJob
<1> QED
  BY <1>1, <1>3, <1>4, <1>5 DEF Inv, Asked

(* What the chests are believed to hold is never less than nothing. *)
LEMMA Synchronised ==
  ASSUME Inv, pc # "idle", NEW n \in Int, Sync(n)
  PROVE  stock' \in Stowage
<1>1. PICK x : x \in Synced(n) /\ stock' = [stock EXCEPT ![Cargo] = x]
  BY DEF Sync
<1>2. stock \in Stowage /\ chest \in Stowage /\ Cargo \in Goods
  BY Wanted DEF Inv, Typed, TypeOK
<1>3. stock[Cargo] \in Int /\ chest[Cargo] \in Int
  BY <1>2 DEF Stowage
<1>4. x \in Nat
  BY <1>1, <1>3 DEF Synced
<1> QED
  BY <1>1, <1>2, <1>4 DEF Stowage

(* Diamonds moved, and counted as such or as fewer. *)
LEMMA Booked ==
  ASSUME Inv, NEW moved \in Int, NEW noted \in Int,
         Settled' = Settled + moved,
         (Liabilities - twice)' = Liabilities - twice + Part * noted,
         noted <= moved, "diamond" \notin doubt' => noted = moved,
         astray => astray', doubt \subseteq doubt'
  PROVE  Money'
<1>1. Settled \in Int /\ Liabilities - twice \in Int
  BY Ints
<1>2. /\ Part * (Settled + moved) = Part * Settled + Part * moved
      /\ Part * noted <= Part * moved
      /\ Part * noted \in Int /\ Part * moved \in Int /\ Part * Settled \in Int
  BY <1>1, Parts
<1> QED
  BY <1>1, <1>2 DEF Inv, Money

---------------------------------------------------------------------------
(* Orders begin and end. *)

(* An order that was accepted can be committed by what was checked. *)
LEMMA StartStep ==
  ASSUME Inv, NEW r \in Requests, Start(r)
  PROVE  Inv'
<1>1. r \in Request /\ Whole(r.price) \in Nat
  BY RequestsAssumption, Divided DEF Request
<1>2. Pulls(r) \in Nat
  BY <1>1 DEF Pulls, Request, Kinds
<1>3. /\ pc = "idle" /\ req' = r /\ pc' \in {"pull", "trade"} /\ left' = Pulls(r)
      /\ done' = 0 /\ returned' = 0 /\ paid' = 0
      /\ UNCHANGED <<world, jobs, stock, books, awaiting, reply, last, doubt, astray, twice>>
  BY DEF Start, Goto
<1>4. awaiting = FALSE /\ ~reply.given /\ ~reply.ok
  BY <1>3 DEF Inv, Typed, TypeOK, Asked, Loops
<1>5. Typed'
  BY <1>2, <1>3 DEF Inv, Typed, TypeOK, Loops, world, books
<1>6. AtWork'
  <2>1. Accepted(r)
    BY DEF Start
  <2>2. r.kind = "sell" => r.price <= currency_stock
    BY <2>1, <1>1
      DEF Accepted, SellAccepted, WithdrawAccepted, Request, Inv, Typed, TypeOK
  <2>3. r.kind = "withdraw" => Part * r.qty <= balance
    BY <2>1 DEF Accepted, SellAccepted, WithdrawAccepted
  <2> QED
    BY <1>3, <2>2, <2>3 DEF AtWork, books
<1>7. NoDebt' /\ Banked' /\ Asked'
  BY <1>3, <1>4 DEF Inv, NoDebt, Banked, Asked, books
<1>8. Settled' = Settled
  BY <1>3, <1>4 DEF Settled, InFlight, Diamonds, world
<1> QED
  BY <1>3, <1>5, <1>6, <1>7, <1>8, MoneyKept DEF Inv, books

(* A repaired item_stock is a number of items, and money is not touched. *)
LEMMA AuditStep ==
  ASSUME Inv, Audit
  PROVE  Inv'
<1>1. /\ item_stock' \in Nat
      /\ UNCHANGED <<world, jobs, stock, currency_stock, balance, handler, awaiting, reply,
                     history>>
  BY DEF Audit, Inv, Typed, TypeOK, Stowage, Goods
<1>2. Typed'
  BY <1>1 DEF Inv, Typed, TypeOK, world, handler, history
<1>3. NoDebt' /\ AtWork' /\ Banked'
  BY <1>1 DEF Inv, NoDebt, AtWork, Banked, handler, history
<1>4. Asked'
  BY <1>1
    DEF Inv, Asked, LastJob, Terms, BuyTerms, SellTerms, DepositTerms, WithdrawTerms, ToOffer, handler
<1>5. Settled' = Settled
  BY <1>1 DEF Settled, InFlight, Diamonds, world, handler
<1> QED
  BY <1>1, <1>2, <1>3, <1>4, <1>5, MoneyKept DEF Inv, history

(* An order ends and there is nothing in flight: the books are right if they
   are right about what was. *)
LEMMA Concluded ==
  ASSUME Inv, NEW outcome, Conclude(outcome), awaiting' = FALSE,
         reply' \in Answers, ~reply'.given, ~reply'.ok,
         UNCHANGED <<world, jobs, stock>>, item_stock' \in Nat,
         balance' \in Nat, currency_stock' \in Nat, twice' \in Nat,
         doubt' \subseteq Goods \union {"late"}, astray' \in BOOLEAN
  PROVE  /\ Typed' /\ NoDebt' /\ AtWork' /\ Banked' /\ Asked'
         /\ Settled' = Settled + InFlight
<1>1. pc' = "idle" /\ req' = None /\ left' = 0 /\ done' = 0 /\ returned' = 0 /\ paid' = 0
  BY DEF Conclude
<1>2. Asked'
  BY Silent
<1>3. Typed'
  <2>1. /\ chest' \in Stowage /\ bot' \in Stowage /\ buffer' \in Stowage /\ hand' \in Stowage
        /\ stock' \in Stowage /\ Len(jobs') <= Capacity /\ jobs' \in Seq(Jobs)
    BY DEF Inv, Typed, TypeOK, world
  <2>2. /\ pc' \in Loops \union {"idle", "tell", "trade", "giveback", "settle"}
        /\ req' \in Requests \union {None}
        /\ left' \in Nat /\ done' \in Nat /\ returned' \in Nat /\ paid' \in Nat
    BY <1>1
  <2>3. awaiting' \in BOOLEAN /\ ~awaiting'
    BY Zenon
  <2>4. item_stock' \in Nat /\ currency_stock' \in Int /\ balance' \in Int
    OBVIOUS
  <2> QED
    BY <2>1, <2>2, <2>3, <2>4 DEF Typed, TypeOK
<1>4. NoDebt' /\ AtWork' /\ Banked'
  BY <1>1 DEF NoDebt, AtWork, Banked
<1>5. InFlight' = 0 /\ Diamonds' = Diamonds
  BY <1>1 DEF InFlight, Diamonds, world
<1>6. Settled' = Diamonds
  BY <1>5, Ints DEF Settled
<1> QED
  BY <1>2, <1>3, <1>4, <1>6, Ints DEF Settled

(* An order ends without a word in the books. *)
LEMMA EndsQuietly ==
  ASSUME Inv, NEW outcome, Conclude(outcome), awaiting' = FALSE,
         reply' \in Answers, ~reply'.given, ~reply'.ok,
         UNCHANGED <<world, jobs, stock, books, twice>>,
         doubt \subseteq doubt', doubt' \subseteq Goods \union {"late"},
         astray' \in BOOLEAN, astray => astray', ~astray' => InFlight = 0
  PROVE  Inv'
<1>1. /\ item_stock' \in Nat /\ balance' \in Nat /\ currency_stock' \in Nat /\ twice' \in Nat
  BY DEF Inv, Typed, TypeOK, NoDebt, books
<1>2. /\ Typed' /\ NoDebt' /\ AtWork' /\ Banked' /\ Asked'
      /\ Settled' = Settled + InFlight
  BY <1>1, Concluded
<1>3. Money'
  <2>1. CASE astray'
    BY <2>1 DEF Money
  <2>2. CASE ~astray'
    BY <1>2, <2>2, Ints, MoneyKept DEF Inv, books
  <2> QED
    BY <2>1, <2>2
<1> QED
  BY <1>2, <1>3 DEF Inv

(* An order that ends after a rollback, or for want of a message, moved no money. *)
LEMMA ReturnEndsStep ==
  ASSUME Inv, ReturnEnds \/ TellFails
  PROVE  Inv'
<1>1. PICK outcome : Conclude(outcome)
  BY DEF ReturnEnds, TellFails
<1>2. /\ pc \in {"return", "tell"}
      /\ UNCHANGED <<world, jobs, stock, books, awaiting, reply, doubt, astray, twice>>
  BY DEF ReturnEnds, TellFails
<1>3. awaiting = FALSE /\ ~reply.given /\ ~reply.ok /\ reply \in Answers
  BY <1>2 DEF ReturnEnds, TellFails, Idle, Inv, Typed, TypeOK, Asked, Loops
<1>4. InFlight = 0
  BY <1>2 DEF InFlight
<1> QED
  BY <1>1, <1>2, <1>3, <1>4, EndsQuietly DEF Inv, Typed, TypeOK

(* A deposit of which nothing reached a chest is credited to nobody. *)
LEMMA DepositLostStep ==
  ASSUME Inv, DepositLost
  PROVE  Inv'
<1>1. /\ pc = "bank" /\ returned = 0 /\ left = 0 /\ Conclude("left")
      /\ UNCHANGED <<world, jobs, stock, books, awaiting, reply, doubt, astray, twice>>
  BY DEF DepositLost
<1>2. awaiting = FALSE /\ ~reply.given /\ ~reply.ok /\ reply \in Answers
  BY DEF DepositLost, Idle, Inv, Typed, TypeOK, Asked
<1>3. paid \in Nat /\ ("diamond" \notin doubt => paid = 0) /\ InFlight = paid
  BY <1>1 DEF Inv, Typed, TypeOK, Banked, InFlight
<1>4. /\ item_stock' \in Nat /\ balance' \in Nat /\ currency_stock' \in Nat /\ twice' \in Nat
  BY <1>1 DEF Inv, Typed, TypeOK, NoDebt, books
<1>5. /\ Typed' /\ NoDebt' /\ AtWork' /\ Banked' /\ Asked'
      /\ Settled' = Settled + InFlight
  BY <1>1, <1>2, <1>4, Concluded DEF Inv, Typed, TypeOK
<1>6. (Liabilities - twice)' = Liabilities - twice + Part * 0
  BY <1>1, Ints, PartAssumption DEF Liabilities, books
<1>7. Money'
  BY <1>1, <1>3, <1>5, <1>6, Booked
<1> QED
  BY <1>5, <1>7 DEF Inv

(* A handler that is dropped holds money in flight only where the exchange is
   astray. *)
LEMMA WatchdogStep ==
  ASSUME Inv, Watchdog
  PROVE  Inv'
<1>1. /\ Conclude("left") /\ awaiting' = FALSE /\ reply' = Nothing
      /\ doubt' = doubt \union {"late"} \union Goods
      /\ astray' = (astray \/ pc \in {"push", "bank", "giveback"})
      /\ UNCHANGED <<world, jobs, stock, books, twice>>
  BY DEF Watchdog
<1>2. reply' \in Answers /\ ~reply'.given /\ ~reply'.ok
  BY <1>1 DEF Nothing, Answers
<1>3. ~reply.ok /\ pc # "settle"
  BY DEF Watchdog, AtSend, Idle, Inv, Asked, Loops
<1>4. ~astray' => InFlight = 0
  BY <1>1, <1>3 DEF InFlight
<1> QED
  BY <1>1, <1>2, <1>4, EndsQuietly DEF Inv, Typed, TypeOK

(* A late answer is an error; no more is heard of the instruction. *)
LEMMA TimeoutStep ==
  ASSUME Inv, Timeout
  PROVE  Inv'
<1>1. /\ awaiting /\ awaiting' = FALSE
      /\ reply' = TooLate(LastJob.amount)
      /\ doubt' = doubt \union {"late"} \union ({LastJob.good, LastJob.want} \intersect Goods)
      /\ UNCHANGED <<world, jobs, stock, books, handler, served, before, last, astray, twice>>
  BY DEF Timeout, LastJob
<1>2. jobs # <<>> /\ ~reply.given /\ ~reply.ok
      /\ pc \in Loops \union {"trade", "giveback"}
      /\ (pc \in Loops => LastJob.amount \in 1 .. left)
  BY <1>1 DEF Inv, Asked
<1>3. LastJob.amount \in Nat
  <2>1. LastJob \in Jobs
    <3>1. jobs \in Seq(Jobs) /\ Len(jobs) \in 1 .. Len(jobs)
      BY <1>2, Channel DEF Inv, Typed
    <3> QED
      BY <3>1 DEF LastJob
  <2> QED
    BY <2>1 DEF Jobs
<1>4. /\ reply' \in Answers /\ reply'.given /\ ~reply'.ok /\ reply'.amount = LastJob.amount
  BY <1>1, <1>3 DEF TooLate, No, Answers
<1>5. Typed'
  BY <1>1, <1>4 DEF Inv, Typed, TypeOK, world, books, handler
<1>6. NoDebt' /\ AtWork' /\ Banked'
  BY <1>1 DEF Inv, NoDebt, AtWork, Banked, books, handler
<1>7. Asked'
  BY <1>1, <1>2, <1>4 DEF Asked, handler
<1>8. Settled' = Settled
  BY <1>1, <1>2, <1>4 DEF Settled, InFlight, Diamonds, world, handler
<1> QED
  BY <1>1, <1>5, <1>6, <1>7, <1>8, MoneyKept DEF Inv, books

---------------------------------------------------------------------------
(* Instructions are sent. *)

(* An instruction is for no more than the plan has left. *)
LEMMA AskStep ==
  ASSUME Inv, AskChest \/ AskTrade
  PROVE  Inv'
<1>1. UNCHANGED <<world, stock, books, handler, history>>
  BY DEF AskChest, AskTrade
<1>2. PICK job \in Jobs :
        /\ Send(job)
        /\ pc \in Loops \union {"trade", "giveback"}
        /\ pc \in Loops => job.op # "trade" /\ job.amount \in 1 .. left
        /\ pc = "trade" => job = Terms
        /\ pc = "giveback" => job = Trade("item", req.qty, "nothing", 0, FALSE)
  <2>1. CASE AskChest
    <3>1. pc \in Loops /\ left \in Nat /\ Cargo \in Goods
      BY <2>1, Wanted DEF AskChest, Inv, Typed, TypeOK, Loops
    <3>2. PICK n \in 1 .. left :
            Send(Chore(IF pc = "pull" THEN "withdraw" ELSE "deposit", Cargo, n))
      BY <2>1 DEF AskChest
    <3> DEFINE job == Chore(IF pc = "pull" THEN "withdraw" ELSE "deposit", Cargo, n)
    <3>3. job \in Jobs /\ job.op # "trade" /\ job.amount = n
      BY <3>1, <3>2 DEF Chore, Jobs
    <3> QED
      BY <3>1, <3>2, <3>3 DEF Loops
  <2>2. CASE pc = "trade" /\ Send(Terms)
    BY <2>2, Wanted DEF Inv, Loops
  <2>3. CASE pc = "giveback" /\ Send(Trade("item", req.qty, "nothing", 0, FALSE))
    BY <2>3, Wanted DEF Inv, Loops
  <2> QED
    BY <2>1, <2>2, <2>3 DEF AskTrade
<1>3. /\ jobs' \in Seq(Jobs) /\ Len(jobs') <= Capacity /\ jobs' # <<>>
      /\ LastJob' = job
      /\ awaiting' = TRUE /\ reply' = reply /\ ~reply.given /\ ~reply.ok
  BY <1>2, Sent
<1>4. Typed'
  BY <1>1, <1>3 DEF Inv, Typed, TypeOK, world, books, handler, history
<1>5. NoDebt' /\ AtWork' /\ Banked'
  BY <1>1, Unmoved DEF Inv, history
<1>6. Terms' = Terms
  BY <1>1
    DEF Terms, BuyTerms, SellTerms, DepositTerms, WithdrawTerms, ToOffer, handler, books
<1>7. Asked'
  BY <1>1, <1>2, <1>3, <1>6 DEF Asked, handler
<1>8. Settled' = Settled
  BY <1>1, <1>3 DEF Settled, InFlight, Diamonds, world, handler
<1> QED
  BY <1>1, <1>4, <1>5, <1>7, <1>8, MoneyKept DEF Inv, books, history

---------------------------------------------------------------------------
(* Chest operations are heard of. *)

(* A step that takes an answer and goes on with the order, its plan and its
   counts well typed and the money in flight the same. *)
LEMMA GoesOn ==
  ASSUME Inv, reply.given, Take, pc # "idle", UNCHANGED <<req, twice, astray>>,
         stock' \in Stowage,
         pc' \in Loops \union {"tell", "trade", "giveback", "settle"},
         left' \in Nat, done' \in Nat, returned' \in Nat, paid' \in Nat,
         doubt \subseteq doubt', doubt' \subseteq Goods \union {"late"},
         InFlight' = InFlight
  PROVE  Typed' /\ NoDebt' /\ Asked' /\ Money'
<1>1. /\ awaiting' = FALSE /\ Asked' /\ reply' \in Answers
      /\ UNCHANGED <<world, jobs, books>>
  BY Taken
<1>2. Typed'
  <2>1. /\ chest' \in Stowage /\ bot' \in Stowage /\ buffer' \in Stowage /\ hand' \in Stowage
        /\ Len(jobs') <= Capacity /\ jobs' \in Seq(Jobs)
        /\ item_stock' \in Nat /\ currency_stock' \in Int /\ balance' \in Int
        /\ req' \in Requests \union {None} /\ twice' \in Nat /\ astray' \in BOOLEAN
    BY <1>1 DEF Inv, Typed, TypeOK, world, books
  <2>2. awaiting' \in BOOLEAN /\ ~awaiting'
    BY <1>1, Zenon
  <2>3. pc' \in Loops \union {"idle", "tell", "trade", "giveback", "settle"}
    OBVIOUS
  <2> QED
    BY <1>1, <2>1, <2>2, <2>3 DEF Typed, TypeOK
<1>3. NoDebt'
  BY <1>1 DEF Inv, NoDebt, books
<1>4. Settled' = Settled
  BY <1>1 DEF Settled, Diamonds, world
<1>5. astray => astray'
  BY Zenon
<1>6. Money'
  BY <1>1, <1>4, <1>5, MoneyKept DEF Inv, books
<1> QED
  BY <1>1, <1>2, <1>3, <1>6

(* The handler stays within what it asked for. *)
LEMMA Heeded ==
  ASSUME Inv, reply.given, pc \in Loops
  PROVE  /\ reply.amount \in Nat /\ left \in Nat /\ left - reply.amount \in Nat
         /\ done \in Nat /\ returned \in Nat /\ paid \in Nat
         /\ -reply.amount \in Int
         /\ Cargo \in Goods /\ req \in Requests
         /\ doubt \union {Cargo} \subseteq Goods \union {"late"}
<1>1. Cargo \in Goods
  BY Wanted DEF Inv, Loops
<1> QED
  BY <1>1 DEF Inv, Typed, TypeOK, Asked, Answers, AtWork, Loops

(* What was pulled is taken off the plan. *)
LEMMA PulledStep ==
  ASSUME Inv, Pulled
  PROVE  Inv'
<1>1. /\ pc = "pull" /\ reply.given /\ Take /\ Sync(-reply.amount)
      /\ done' = done + reply.amount /\ left' = left - reply.amount
      /\ pc' \in {"pull", "tell", "trade"}
      /\ pc' = "tell" => req.kind = "buy"
      /\ UNCHANGED <<req, returned, paid, history>>
  BY DEF Pulled, Inv, Asked
<1>2. /\ left' \in Nat /\ done' \in Nat /\ returned' \in Nat /\ paid' \in Nat
      /\ stock' \in Stowage /\ doubt' \subseteq Goods \union {"late"}
  BY <1>1, Heeded, Synchronised DEF Loops, history, Inv, Typed, TypeOK
<1>3. /\ ~reply'.ok /\ UNCHANGED books
  BY <1>1, Taken
<1>4. InFlight' = InFlight
  BY <1>1, <1>3 DEF InFlight
<1>5. Typed' /\ NoDebt' /\ Asked' /\ Money'
  BY <1>1, <1>2, <1>4, GoesOn DEF Loops, history
<1>6. AtWork' /\ Banked'
  BY <1>1, <1>3 DEF Inv, AtWork, Banked, books
<1> QED
  BY <1>5, <1>6 DEF Inv

(* Goods of a failed withdrawal are in doubt; what came before is to go back. *)
LEMMA PullFailedStep ==
  ASSUME Inv, PullFailed
  PROVE  Inv'
<1>1. /\ pc = "pull" /\ reply.given /\ Take
      /\ pc' = "return" /\ left' = done /\ doubt' = doubt \union {Cargo}
      /\ UNCHANGED <<stock, req, done, returned, paid, served, before, last, astray, twice>>
  BY DEF PullFailed, Goto, Doubt
<1>2. /\ left' \in Nat /\ done' \in Nat /\ returned' \in Nat /\ paid' \in Nat
      /\ stock' \in Stowage /\ doubt' \subseteq Goods \union {"late"}
  BY <1>1, Heeded DEF Loops, Inv, Typed, TypeOK
<1>3. UNCHANGED books
  BY <1>1, Taken
<1>4. InFlight' = InFlight
  BY <1>1 DEF InFlight
<1>5. Typed' /\ NoDebt' /\ Asked' /\ Money'
  BY <1>1, <1>2, <1>4, GoesOn DEF Loops
<1>6. AtWork' /\ Banked'
  BY <1>1, <1>3 DEF Inv, AtWork, Banked, books
<1> QED
  BY <1>5, <1>6 DEF Inv

(* What reached the chests is counted, what did not is in doubt. *)
LEMMA ReturnedStep ==
  ASSUME Inv, Returned \/ ReturnFailed
  PROVE  Inv'
<1>1. /\ pc \in {"return", "bank"} /\ reply.given /\ Take
      /\ left' = left - reply.amount
      /\ \/ Sync(reply.amount) /\ returned' = returned + reply.amount /\ UNCHANGED doubt
         \/ UNCHANGED <<stock, returned>> /\ doubt' = doubt \union {Cargo}
      /\ UNCHANGED <<pc, req, done, paid, served, before, last, astray, twice>>
  BY DEF Returned, ReturnFailed, Doubt, history, Inv, Asked
<1>2. /\ left' \in Nat /\ done' \in Nat /\ returned' \in Nat /\ paid' \in Nat
      /\ doubt \subseteq doubt' /\ doubt' \subseteq Goods \union {"late"}
      /\ pc # "idle" /\ pc \in Loops
  BY <1>1, Heeded DEF Loops, Inv, Typed, TypeOK
<1>3. stock' \in Stowage
  BY <1>1, <1>2, Heeded, Synchronised DEF Inv, Typed, TypeOK
<1>4. UNCHANGED books
  BY <1>1, Taken
<1>5. InFlight' = InFlight
  BY <1>1 DEF InFlight
<1>6. Typed' /\ NoDebt' /\ Asked' /\ Money'
  BY <1>1, <1>2, <1>3, <1>5, GoesOn
<1>7. AtWork'
  BY <1>1, <1>4 DEF Inv, AtWork, books
<1>8. Banked'
  <2>1. SUFFICES ASSUME pc = "bank" PROVE Banked'
    BY <1>1 DEF Banked
  <2>2. Cargo = "diamond" /\ returned + left <= paid
        /\ ("diamond" \notin doubt => returned + left = paid)
    BY <2>1 DEF Cargo, Inv, Banked
  <2> QED
    BY <1>1, <1>2, <2>2, Heeded DEF Banked
<1> QED
  BY <1>6, <1>7, <1>8 DEF Inv

(* A sell whose items are put away, or not, owes what it paid out. *)
LEMMA PushedStep ==
  ASSUME Inv, Pushed \/ PushFailed
  PROVE  Inv'
<1>1. /\ pc = "push" /\ pc' \in {"push", "giveback"} /\ reply.given /\ Take
      /\ left' \in {left, left - reply.amount}
      /\ Sync(reply.amount) \/ UNCHANGED stock
      /\ doubt' \in {doubt, doubt \union {Cargo}}
      /\ UNCHANGED <<req, done, returned, paid, served, before, last, astray, twice>>
  BY DEF Pushed, PushFailed, Doubt, history, Inv, Asked
<1>2. /\ left' \in Nat /\ done' \in Nat /\ returned' \in Nat /\ paid' \in Nat
      /\ doubt \subseteq doubt' /\ doubt' \subseteq Goods \union {"late"}
      /\ pc \in Loops
  BY <1>1, Heeded DEF Loops, Inv, Typed, TypeOK
<1>3. stock' \in Stowage
  BY <1>1, <1>2, Heeded, Synchronised DEF Inv, Typed, TypeOK
<1>4. UNCHANGED books
  BY <1>1, Taken
<1>5. InFlight' = InFlight
  BY <1>1 DEF InFlight, Pulls
<1>6. Typed' /\ NoDebt' /\ Asked' /\ Money'
  BY <1>1, <1>2, <1>3, <1>5, GoesOn DEF Loops
<1>7. AtWork' /\ Banked'
  BY <1>1, <1>4 DEF Inv, AtWork, Banked, books
<1> QED
  BY <1>6, <1>7 DEF Inv

---------------------------------------------------------------------------
(* The trade. *)

(* Telling the terms changes nothing. *)
LEMMA TellStep ==
  ASSUME Inv, Tell
  PROVE  Inv'
<1>1. /\ pc = "tell" /\ pc' = "trade"
      /\ UNCHANGED <<world, jobs, stock, books, req, left, done, returned, paid, awaiting,
                     reply, history>>
  BY DEF Tell
<1>2. awaiting = FALSE /\ ~reply.given /\ ~reply.ok
  BY <1>1 DEF Inv, Typed, TypeOK, Asked, Loops
<1>3. Typed'
  BY <1>1 DEF Inv, Typed, TypeOK, Loops, world, books, history
<1>4. NoDebt' /\ AtWork' /\ Banked' /\ Asked'
  BY <1>1, <1>2 DEF Inv, NoDebt, AtWork, Banked, Asked, books, history
<1>5. Settled' = Settled
  BY <1>1, <1>2 DEF Settled, InFlight, Diamonds, world
<1> QED
  BY <1>1, <1>3, <1>4, <1>5, MoneyKept DEF Inv, books, history

(* What a plan falls short of is no more than was planned, and logged. *)
LEMMA PlannedWithin ==
  ASSUME NEW n \in Nat, NEW m \in Planned(n)
  PROVE  m \in Nat /\ m <= n
BY DEF Planned

(* A failed trade puts nothing in flight. *)
LEMMA TradeFailedStep ==
  ASSUME Inv, TradeFailed
  PROVE  Inv'
<1>1. /\ pc = "trade" /\ reply.given /\ ~reply.ok /\ Take
      /\ UNCHANGED <<stock, served, before, astray, twice>>
  BY DEF TradeFailed, PutsBack, BuyPutsBack, SellPutsBack, WithdrawPutsBack
<1>2. /\ awaiting' = FALSE /\ reply' \in Answers /\ ~reply'.given /\ ~reply'.ok
      /\ UNCHANGED <<world, jobs, books>>
  BY <1>1, Taken DEF Nothing
<1>3. InFlight = 0
  BY <1>1 DEF InFlight
<1>4. CASE req.kind = "deposit"
  <2>1. PICK outcome : Conclude(outcome)
    BY <1>4 DEF TradeFailed, PutsBack, BuyPutsBack, SellPutsBack, WithdrawPutsBack
  <2>2. UNCHANGED doubt
    BY <1>4 DEF TradeFailed, PutsBack, BuyPutsBack, SellPutsBack, WithdrawPutsBack
  <2> QED
    BY <1>1, <1>2, <1>3, <2>1, <2>2, EndsQuietly DEF Inv, Typed, TypeOK
<1>5. CASE req.kind # "deposit"
  <2>1. done \in Nat /\ Cargo \in Goods
    BY <1>1, Wanted DEF Inv, Typed, TypeOK
  <2>2. done \in Planned(done)
    BY <2>1 DEF Planned
  <2>3. PICK n \in Planned(done) :
          /\ Goto("return", n)
          /\ doubt' = IF n < done THEN doubt \union {Cargo} ELSE doubt
          /\ UNCHANGED <<req, done, returned, paid, last>>
    BY <1>5, <2>2 DEF TradeFailed, PutsBack, BuyPutsBack, SellPutsBack, WithdrawPutsBack
  <2>4. /\ pc' = "return" /\ left' \in Nat /\ done' \in Nat /\ returned' \in Nat /\ paid' \in Nat
        /\ stock' \in Stowage /\ req' = req
        /\ doubt \subseteq doubt' /\ doubt' \subseteq Goods \union {"late"}
    BY <1>1, <2>1, <2>3, PlannedWithin DEF Goto, Inv, Typed, TypeOK
  <2>5. InFlight' = InFlight
    BY <1>3, <2>4 DEF InFlight
  <2>6. Typed' /\ NoDebt' /\ Asked' /\ Money'
    BY <1>1, <2>4, <2>5, GoesOn DEF Loops
  <2>7. AtWork' /\ Banked'
    BY <1>1, <1>2, <2>4 DEF Inv, AtWork, Banked, books
  <2> QED
    BY <2>6, <2>7 DEF Inv
<1> QED
  BY <1>4, <1>5

(* What was exchanged stays in flight until the books are written. *)
LEMMA TradeDoneStep ==
  ASSUME Inv, TradeDone
  PROVE  Inv'
<1>1. /\ pc = "trade" /\ reply.ok /\ reply.given /\ Take
      /\ UNCHANGED <<stock, req, done, returned, served, before, last, astray, twice>>
  BY DEF TradeDone, ToBank, ToChests, Inv, Asked
<1>2. /\ reply.amount \in Nat /\ paid \in Nat /\ done \in Nat /\ returned = 0
      /\ stock \in Stowage /\ doubt \subseteq Goods \union {"late"}
      /\ req \in Requests /\ req \in Request
  BY <1>1, Wanted DEF Inv, Typed, TypeOK, Answers, AtWork
<1>3. UNCHANGED books
  BY <1>1, Taken
<1>4. CASE req.kind \in {"buy", "deposit"}
  <2>1. PICK n \in Planned(reply.amount) :
          /\ paid' = reply.amount /\ pc' = "bank" /\ left' = n
          /\ doubt' = IF n < reply.amount THEN doubt \union {"diamond"} ELSE doubt
    BY <1>4 DEF TradeDone, ToBank, ToChests, Goto
  <2>2. n \in Nat /\ n <= reply.amount
    BY <1>2, PlannedWithin
  <2>3. doubt \subseteq doubt' /\ doubt' \subseteq Goods \union {"late"}
    BY <1>2, <2>1 DEF Goods
  <2>4. InFlight' = InFlight
    BY <1>1, <1>4, <2>1 DEF InFlight
  <2>5. Typed' /\ NoDebt' /\ Asked' /\ Money'
    BY <1>1, <1>2, <2>1, <2>2, <2>3, <2>4, GoesOn DEF Loops
  <2>6. AtWork' /\ Banked'
    BY <1>1, <1>2, <1>3, <1>4, <2>1, <2>2 DEF Inv, AtWork, Banked, books
  <2> QED
    BY <2>5, <2>6 DEF Inv
<1>5. CASE req.kind \in {"sell", "withdraw"}
  <2>1. /\ pc' = IF req.kind = "sell" THEN "push" ELSE "settle"
        /\ left' \in Nat /\ paid' = paid /\ doubt' = doubt
    BY <1>2, <1>5 DEF TradeDone, ToBank, ToChests, Goto, Request
  <2>2. InFlight' = InFlight
    BY <1>1, <1>5, <2>1 DEF InFlight, Pulls
  <2>3. Typed' /\ NoDebt' /\ Asked' /\ Money'
    BY <1>1, <1>2, <2>1, <2>2, GoesOn DEF Loops
  <2>4. AtWork' /\ Banked'
    BY <1>1, <1>2, <1>3, <1>5, <2>1 DEF Inv, AtWork, Banked, books
  <2> QED
    BY <2>3, <2>4 DEF Inv
<1> QED
  BY <1>2, <1>4, <1>5 DEF Request, Kinds

---------------------------------------------------------------------------
(* The books. *)

(* A commit: the types and the end of the order, whatever is written. *)
LEMMA CommitEnds ==
  ASSUME Inv, Commit, balance' \in Nat, currency_stock' \in Nat, twice' \in Nat
  PROVE  /\ Typed' /\ NoDebt' /\ AtWork' /\ Banked' /\ Asked'
         /\ Settled' = Settled + InFlight
         /\ left = 0 /\ UNCHANGED <<doubt, astray>>
<1>1. /\ Conclude("committed") /\ left = 0
      /\ UNCHANGED <<world, jobs, stock, awaiting, reply, doubt, astray>>
  BY DEF Commit
<1>2. awaiting' = FALSE /\ ~reply'.given /\ ~reply'.ok /\ reply' \in Answers
  BY <1>1 DEF Commit, Idle, Inv, Typed, TypeOK, Asked
<1>3. item_stock' \in Nat /\ doubt' \subseteq Goods \union {"late"} /\ astray' \in BOOLEAN
  BY <1>1 DEF Commit, Inv, Typed, TypeOK, Stowage, Goods
<1> QED
  BY <1>1, <1>2, <1>3, Concluded

(* A buy is paid in diamonds put away, the rest from the balance; what is too
   much goes to the balance as well. *)
LEMMA CommitBuyStep ==
  ASSUME Inv, CommitBuy
  PROVE  Inv'
<1>1. pc = "bank" /\ req.kind = "buy" /\ Commit
  BY DEF CommitBuy
<1>2. /\ balance \in Nat /\ currency_stock \in Nat /\ twice \in Nat
      /\ req.price \in Nat /\ returned \in Nat /\ paid \in Nat
  <2>1. req.price \in Nat
    BY <1>1, Wanted DEF Inv
  <2> QED
    BY <2>1 DEF Inv, Typed, TypeOK, NoDebt
<1>3. Part * returned \in Nat /\ Part * paid \in Nat
  <2>1. \A a \in Nat : Part * a \in Nat
    BY PartAssumption
  <2> QED
    BY <1>2, <2>1
<1>4. /\ balance' \in Nat /\ currency_stock' \in Nat /\ twice' \in Nat
      /\ balance' + currency_stock' - twice' = balance + currency_stock - twice + Part * returned
  <2>1. CASE req.price > Part * paid
    <3>1. Deduction \in Nat /\ Deduction <= balance
      BY <1>2, <1>3, <2>1 DEF Deduction, Least
    <3>2. /\ balance' = balance - Deduction
          /\ currency_stock' = currency_stock + Part * returned + Deduction
          /\ twice' = twice
      BY <2>1 DEF CommitBuy
    <3> QED
      BY <1>2, <1>3, <3>1, <3>2
  <2>2. CASE ~(req.price > Part * paid)
    <3>1. Surplus \in Nat
      BY <1>2, <1>3 DEF Surplus, AtLeast0
    <3>2. /\ balance' = balance + Surplus
          /\ currency_stock' = currency_stock + Part * returned
          /\ twice' = twice + Surplus
      BY <2>2 DEF CommitBuy
    <3> QED
      BY <1>2, <1>3, <3>1, <3>2
  <2> QED
    BY <2>1, <2>2
<1>5. /\ Typed' /\ NoDebt' /\ AtWork' /\ Banked' /\ Asked'
      /\ Settled' = Settled + InFlight
      /\ left = 0 /\ UNCHANGED <<doubt, astray>>
  BY <1>1, <1>4, CommitEnds
<1>6. /\ InFlight = paid /\ returned <= paid
      /\ "diamond" \notin doubt => returned = paid
  BY <1>1, <1>2, <1>5 DEF InFlight, Inv, Banked
<1>7. (Liabilities - twice)' = Liabilities - twice + Part * returned
  BY <1>2, <1>3, <1>4 DEF Liabilities
<1>8. Money'
  BY <1>2, <1>5, <1>6, <1>7, Booked
<1> QED
  BY <1>5, <1>8 DEF Inv

(* A deposit is credited with what was put away. *)
LEMMA CommitDepositStep ==
  ASSUME Inv, CommitDeposit
  PROVE  Inv'
<1>1. /\ pc = "bank" /\ Commit
      /\ balance' = balance + Part * returned
      /\ UNCHANGED <<currency_stock, twice>>
  BY DEF CommitDeposit
<1>2. /\ balance \in Nat /\ currency_stock \in Nat /\ twice \in Nat
      /\ returned \in Nat /\ paid \in Nat
  BY DEF Inv, Typed, TypeOK, NoDebt
<1>3. Part * returned \in Nat
  BY <1>2, Parts
<1>4. /\ Typed' /\ NoDebt' /\ AtWork' /\ Banked' /\ Asked'
      /\ Settled' = Settled + InFlight
      /\ left = 0 /\ UNCHANGED <<doubt, astray>>
  BY <1>1, <1>2, <1>3, CommitEnds
<1>5. /\ InFlight = paid /\ returned <= paid
      /\ "diamond" \notin doubt => returned = paid
  BY <1>1, <1>2, <1>4 DEF InFlight, Inv, Banked
<1>6. (Liabilities - twice)' = Liabilities - twice + Part * returned
  BY <1>1, <1>2, <1>3 DEF Liabilities
<1>7. Money'
  BY <1>2, <1>4, <1>5, <1>6, Booked
<1> QED
  BY <1>4, <1>7 DEF Inv

(* A sell is paid the whole diamonds at the trade and the fraction in the
   books, together the price. *)
LEMMA CommitSellStep ==
  ASSUME Inv, CommitSell \/ SellUnwound
  PROVE  Inv'
<1>1. /\ pc \in {"push", "giveback"}
      /\ balance' = balance + Frac(req.price)
      /\ currency_stock' = currency_stock - req.price
      /\ UNCHANGED <<twice, doubt, astray>>
  BY DEF CommitSell, SellUnwound, Commit
<1>2. /\ balance \in Nat /\ currency_stock \in Nat /\ twice \in Nat
      /\ req.price \in Nat /\ req.price <= currency_stock /\ req.kind = "sell"
  <2>1. req.price \in Nat
    BY <1>1, Wanted DEF Inv
  <2> QED
    BY <1>1, <2>1 DEF Inv, Typed, TypeOK, NoDebt, AtWork
<1>3. /\ Whole(req.price) \in Nat /\ Frac(req.price) \in Nat
      /\ req.price = Part * Whole(req.price) + Frac(req.price)
      /\ Part * Whole(req.price) \in Nat
  <2>1. Whole(req.price) \in Nat /\ Frac(req.price) \in Nat
        /\ req.price = Part * Whole(req.price) + Frac(req.price)
    BY <1>2, Divided
  <2>2. \A a \in Nat : Part * a \in Nat
    BY PartAssumption
  <2> QED
    BY <2>1, <2>2
<1>4. balance' \in Nat /\ currency_stock' \in Nat /\ twice' \in Nat
  BY <1>1, <1>2, <1>3
<1>5. /\ Typed' /\ NoDebt' /\ AtWork' /\ Banked' /\ Asked'
      /\ Settled' = Settled + InFlight
  <2>1. CASE CommitSell
    BY <1>4, <2>1, CommitEnds DEF CommitSell
  <2>2. CASE SellUnwound
    <3>1. /\ Conclude("rolledback") /\ reply.given /\ reply' = Nothing
          /\ UNCHANGED <<world, jobs, stock, item_stock, awaiting, doubt, astray>>
      BY <2>2 DEF SellUnwound
    <3>2. awaiting' = FALSE /\ reply' \in Answers /\ ~reply'.given /\ ~reply'.ok
      BY <3>1 DEF Nothing, Answers, Inv, Typed, TypeOK, Asked
    <3> QED
      BY <1>4, <3>1, <3>2, Concluded DEF Inv, Typed, TypeOK
  <2> QED
    BY <2>1, <2>2
<1>6. InFlight = -Whole(req.price)
  BY <1>1, <1>2 DEF InFlight, Pulls
<1>7. (Liabilities - twice)' = Liabilities - twice + Part * (-Whole(req.price))
  <2>1. Part * (-Whole(req.price)) = -(Part * Whole(req.price))
    BY <1>3, PartAssumption
  <2> QED
    BY <1>1, <1>2, <1>3, <2>1 DEF Liabilities
<1>8. Money'
  BY <1>1, <1>3, <1>5, <1>6, <1>7, Booked
<1> QED
  BY <1>5, <1>8 DEF Inv

(* A withdrawal is debited with what was handed out. *)
LEMMA CommitWithdrawStep ==
  ASSUME Inv, CommitWithdraw
  PROVE  Inv'
<1>1. /\ pc = "settle" /\ Commit
      /\ balance' = balance - Part * req.qty
      /\ UNCHANGED <<currency_stock, twice>>
  BY DEF CommitWithdraw
<1>2. /\ balance \in Nat /\ currency_stock \in Nat /\ twice \in Nat
      /\ req.qty \in Nat /\ req.kind = "withdraw" /\ Part * req.qty <= balance
  <2>1. req.qty \in Nat
    BY <1>1, Wanted DEF Inv
  <2> QED
    BY <1>1, <2>1 DEF Inv, Typed, TypeOK, NoDebt, AtWork
<1>3. Part * req.qty \in Nat /\ Part * (-req.qty) = -(Part * req.qty)
  BY <1>2, Parts, PartAssumption
<1>4. /\ Typed' /\ NoDebt' /\ AtWork' /\ Banked' /\ Asked'
      /\ Settled' = Settled + InFlight
      /\ left = 0 /\ UNCHANGED <<doubt, astray>>
  BY <1>1, <1>2, <1>3, CommitEnds
<1>5. InFlight = -req.qty
  BY <1>1, <1>2 DEF InFlight, Pulls
<1>6. (Liabilities - twice)' = Liabilities - twice + Part * (-req.qty)
  BY <1>1, <1>2, <1>3 DEF Liabilities
<1>7. Money'
  BY <1>2, <1>4, <1>5, <1>6, Booked
<1> QED
  BY <1>4, <1>7 DEF Inv

---------------------------------------------------------------------------
(* The theorems. *)

(* The store begins with its books balanced. *)
LEMMA InitInv ==
  ASSUME Init
  PROVE  Inv
<1>1. Chest \in Stowage /\ Hand \in Stowage /\ Zero \in Stowage
      /\ Balance \in Nat /\ Part * Chest["diamond"] \in Nat
      /\ Balance <= Part * Chest["diamond"]
  <2>1. Chest \in Stowage /\ Hand \in Stowage /\ Zero \in Stowage
    BY WorldAssumption DEF Stowage, Zero
  <2>2. \A a \in Nat : Part * a \in Nat
    BY PartAssumption
  <2> QED
    BY <2>1, <2>2, Counted, WorldAssumption
<1>2. Chest["item"] \in Nat /\ Chest["diamond"] \in Nat
  BY <1>1, Counted
<1>3. pc = "idle" /\ awaiting = FALSE /\ ~reply.given /\ ~reply.ok /\ reply \in Answers
  BY DEF Init, Nothing, Answers
<1>4. jobs = <<>> /\ Len(jobs) = 0 /\ jobs \in Seq(Jobs)
  BY DEF Init
<1>5. Typed
  <2>1. /\ chest \in Stowage /\ bot \in Stowage /\ buffer \in Stowage /\ hand \in Stowage
        /\ stock \in Stowage /\ item_stock \in Nat
        /\ currency_stock \in Int /\ balance \in Int
    BY <1>1, <1>2 DEF Init
  <2>2. Len(jobs) <= Capacity
    BY <1>4, BoundsAssumption
  <2>3. /\ req \in Requests \union {None}
        /\ left \in Nat /\ done \in Nat /\ returned \in Nat /\ paid \in Nat
        /\ doubt \subseteq Goods \union {"late"} /\ astray \in BOOLEAN /\ twice \in Nat
        /\ awaiting \in BOOLEAN
    BY DEF Init
  <2> QED
    BY <1>3, <1>4, <2>1, <2>2, <2>3 DEF Typed, TypeOK
<1>6. NoDebt
  BY <1>1 DEF Init, NoDebt
<1>7. AtWork /\ Banked /\ Asked
  BY <1>3 DEF AtWork, Banked, Asked
<1>8. Liabilities - twice = Part * Settled
  <2>1. Settled = Chest["diamond"]
    BY <1>2, <1>3 DEF Init, Settled, InFlight, Diamonds, Zero, Goods
  <2>2. Liabilities - twice = Part * Chest["diamond"]
    BY <1>1 DEF Init, Liabilities
  <2> QED
    BY <2>1, <2>2
<1>9. Money
  BY <1>8, Ints, <1>5 DEF Money, Liabilities, Typed, TypeOK
<1> QED
  BY <1>5, <1>6, <1>7, <1>9 DEF Inv

(* Every step of the store, the bot, the operator and the clock keeps them so. *)
LEMMA NextInv ==
  ASSUME Inv, [Next]_vars
  PROVE  Inv'
<1>1. CASE \E r \in Requests : Start(r)
  BY <1>1, StartStep
<1>2. CASE Audit
  BY <1>2, AuditStep
<1>3. CASE BotSteps
  BY <1>3, BotMovesStep, BotRefusedStep, BotExchangedStep, BotCancelledStep DEF BotSteps
<1>4. CASE Handler
  BY <1>4, AskStep, PulledStep, PullFailedStep, ReturnedStep, PushedStep, TellStep,
     TradeFailedStep, TradeDoneStep, CommitBuyStep, CommitDepositStep, DepositLostStep,
     CommitSellStep, CommitWithdrawStep, ReturnEndsStep DEF Handler
<1>5. CASE TellFails
  BY <1>5, ReturnEndsStep
<1>6. CASE Timeout
  BY <1>6, TimeoutStep
<1>7. CASE Watchdog
  BY <1>7, WatchdogStep
<1>8. CASE UNCHANGED vars
  <2>1. UNCHANGED <<world, jobs, stock, books, handler, awaiting, reply, history>>
    BY <1>8 DEF vars
  <2>2. Typed'
    BY <2>1 DEF Inv, Typed, TypeOK, world, books, handler, history
  <2>3. NoDebt' /\ AtWork' /\ Banked'
    BY <2>1, Unmoved DEF Inv, history
  <2>4. Asked'
    BY <2>1
      DEF Inv, Asked, LastJob, Terms, BuyTerms, SellTerms, DepositTerms, WithdrawTerms, ToOffer, handler, books
  <2>5. Money'
    BY <2>1
      DEF Inv, Money, Settled, InFlight, Liabilities, Diamonds, world, books, handler,
                history
  <2> QED
    BY <2>2, <2>3, <2>4, <2>5 DEF Inv
<1> QED
  BY <1>1, <1>2, <1>3, <1>4, <1>5, <1>6, <1>7, <1>8 DEF Next

(* The strengthening that is inductive. *)
THEOREM Invariance == Spec => []Inv
BY InitInv, NextInv, PTL DEF Spec

(* The variables have their types whatever is ordered and whatever fails: a
   plan is never overdrawn and no chest, and no stock of one, holds less than nothing. *)
THEOREM Typing == Spec => []TypeOK
<1>1. Inv => TypeOK
  BY DEF Inv, Typed
<1> QED
  BY <1>1, Invariance, PTL

(* The checks made before an order is taken on are enough for the commit that
   may follow much later: no customer is left in debt and no reserve overdrawn. *)
THEOREM NobodyInDebt == Spec => []NoDebt
<1>1. Inv => NoDebt
  BY DEF Inv
<1> QED
  BY <1>1, Invariance, PTL

(* Between orders balances and reserve are what the diamonds of the store are
   worth and the surplus of overpaid buys, which the code credits twice, or less
   once an error about diamonds was logged; no word of it once an exchange was
   made that the store does not know of. *)
THEOREM Backing == Spec => []Solvent
<1>1. ASSUME Inv PROVE Solvent
  <2>1. SUFFICES ASSUME pc = "idle", ~astray
                 PROVE  /\ Liabilities <= Part * Diamonds + twice
                        /\ "diamond" \notin doubt => Liabilities = Part * Diamonds + twice
    BY DEF Solvent
  <2>2. InFlight = 0
    BY <2>1 DEF InFlight
  <2>3. Settled = Diamonds
    BY <1>1, <2>2, Ints DEF Settled
  <2>4. Part * Diamonds \in Int /\ Liabilities \in Int /\ twice \in Int
    <3>1. \A a \in Int : Part * a \in Int
      BY PartAssumption
    <3> QED
      BY <1>1, <3>1, Ints DEF Inv, Typed, TypeOK, Liabilities
  <2> QED
    BY <1>1, <2>1, <2>3, <2>4 DEF Inv, Money
<1> QED
  BY <1>1, Invariance, PTL

---------------------------------------------------------------------------
(* Where the goods are.  Money is what the store is worth as a whole; from here
   on every good is followed from the chests to the bot, to the customer and
   back, and every order from its beginning to its end.  The layers are
   inductive one after the other: the channel, the plan of the order, the
   goods, the exchange with the customer, the credit. *)

---------------------------------------------------------------------------
(* The channel. *)

(* The instruction the handler waits for moves the goods of the step it is at. *)
Sends == awaiting /\ pc \in Loops =>
           /\ LastJob.good = Cargo /\ LastJob.want = "nothing"
           /\ LastJob.op = IF pc = "pull" THEN "withdraw" ELSE "deposit"

(* Nobody waits for this instruction. *)
GivenUp(i) == i < Len(jobs) \/ ~awaiting
Touched(job) == {job.good, job.want} \intersect Goods

(* An instruction nobody waits for was too late, and its goods are in doubt;
   a success was the last thing in the channel. *)
Doubtful == \A i \in 1 .. Len(jobs) :
              GivenUp(i) => "late" \in doubt /\ Touched(jobs[i]) \subseteq doubt

Channelled == /\ Sends
              /\ Doubtful
              /\ reply.ok => jobs = <<>>

(* The channel moves up. *)
LEMMA MovesUp ==
  ASSUME Typed, jobs # <<>>
  PROVE  /\ Len(Tail(jobs)) = Len(jobs) - 1 /\ Len(jobs) \in Nat \ {0}
         /\ \A i \in 1 .. Len(jobs) - 1 : Tail(jobs)[i] = jobs[i + 1]
         /\ Len(jobs) = 1 => Tail(jobs) = <<>>
<1>1. ASSUME NEW S, NEW s \in Seq(S), s # <<>>
      PROVE  /\ Len(Tail(s)) = Len(s) - 1
             /\ Len(s) \in Nat \ {0}
             /\ \A i \in 1 .. Len(s) - 1 : Tail(s)[i] = s[i + 1]
             /\ Len(s) = 1 => Tail(s) = <<>>
  BY <1>1
<1>2. jobs \in Seq(Jobs)
  BY DEF Typed
<1> HIDE DEF Jobs
<1> QED
  BY <1>1, <1>2

(* An answer leaves the instructions that are given up as they are, or there are none. *)
LEMMA ChannelAnswered ==
  ASSUME Inv, Channelled, jobs # <<>>, NEW r, Answer(r), UNCHANGED <<handler, doubt>>
  PROVE  /\ Channelled'
         /\ Heard => reply' = r /\ awaiting' = FALSE /\ jobs' = <<>> /\ LastJob = Job
         /\ ~Heard => UNCHANGED <<reply, awaiting>> /\ ~reply.ok
                      /\ "late" \in doubt /\ Touched(Job) \subseteq doubt
<1>1. jobs' = Tail(jobs) /\ awaiting \in BOOLEAN
  BY DEF Answer, Inv, Typed, TypeOK
<1>2. /\ Len(jobs') = Len(jobs) - 1 /\ Len(jobs) \in Nat \ {0}
      /\ \A i \in 1 .. Len(jobs) - 1 : jobs'[i] = jobs[i + 1]
      /\ Len(jobs) = 1 => jobs' = <<>>
  BY <1>1, MovesUp DEF Inv
<1>3. UNCHANGED <<pc, req, doubt>> /\ Cargo' = Cargo
  BY DEF handler, Cargo
<1>4. CASE Heard
  <2>1. reply' = r /\ awaiting' = FALSE /\ jobs' = <<>> /\ Len(jobs') = 0
    BY <1>2, <1>4 DEF Heard, Answer
  <2>2. LastJob = Job
    BY <1>4, Channel DEF Heard, Inv
  <2> QED
    BY <1>4, <2>1, <2>2 DEF Channelled, Sends, Doubtful
<1>5. CASE ~Heard
  <2>1. UNCHANGED <<reply, awaiting>>
    BY <1>1, <1>5 DEF Answer
  <2>2. ~reply.ok
    BY DEF Channelled
  <2>3. awaiting => Len(jobs) > 1
    BY <1>2, <1>5 DEF Heard
  <2>4. GivenUp(1) /\ 1 \in 1 .. Len(jobs) /\ Job = jobs[1]
    <3>1. Job = jobs[1]
      BY DEF Job, Inv, Typed
    <3> QED
      BY <1>2, <2>3, <3>1 DEF GivenUp
  <2>5. "late" \in doubt /\ Touched(Job) \subseteq doubt
    BY <2>4 DEF Channelled, Doubtful
  <2>6. Sends'
    <3>1. awaiting => LastJob' = LastJob
      BY <1>1, <2>3, Channel DEF LastJob, Inv
    <3> QED
      BY <1>3, <2>1, <3>1 DEF Channelled, Sends
  <2>7. Doubtful'
    <3> SUFFICES ASSUME NEW i \in 1 .. Len(jobs'), GivenUp(i)'
                 PROVE  "late" \in doubt /\ Touched(jobs'[i]) \subseteq doubt
      BY <1>3 DEF Doubtful, Touched
    <3>1. i + 1 \in 1 .. Len(jobs) /\ jobs'[i] = jobs[i + 1]
      BY <1>2
    <3>2. GivenUp(i + 1)
      BY <1>2, <2>1 DEF GivenUp
    <3> QED
      BY <3>1, <3>2 DEF Channelled, Doubtful
  <2> QED
    BY <1>5, <2>1, <2>2, <2>5, <2>6, <2>7 DEF Channelled
<1> QED
  BY <1>4, <1>5

(* A step of a handler that waits for nothing does not touch the channel. *)
LEMMA ChannelKept ==
  ASSUME Channelled, jobs' = jobs, awaiting = FALSE, awaiting' = FALSE, doubt \subseteq doubt',
         reply'.ok => reply.ok
  PROVE  Channelled'
<1>1. Sends'
  BY DEF Sends
<1>2. Doubtful'
  BY DEF Channelled, Doubtful, GivenUp, Touched
<1> QED
  BY <1>1, <1>2 DEF Channelled

(* An instruction is sent behind those that are given up, if any. *)
LEMMA ChannelSent ==
  ASSUME Inv, Channelled, AskChest \/ AskTrade
  PROVE  /\ Channelled'
         /\ awaiting = FALSE /\ UNCHANGED reply /\ ~reply.ok /\ ~reply.given
         /\ jobs # <<>> => jobs' # <<>> /\ \E i \in 1 .. Len(jobs) : GivenUp(i)
         /\ Len(jobs') = Len(jobs) + 1
<1>1. UNCHANGED <<pc, req, doubt>> /\ Cargo' = Cargo
  BY DEF AskChest, AskTrade, handler, history, Cargo
<1>2. PICK job \in Jobs :
        /\ Send(job)
        /\ pc \in Loops => /\ job.good = Cargo /\ job.want = "nothing"
                           /\ job.op = IF pc = "pull" THEN "withdraw" ELSE "deposit"
  <2>1. CASE AskChest
    <3>1. pc \in Loops /\ left \in Nat /\ Cargo \in Goods
      BY <2>1, Wanted DEF AskChest, Inv, Typed, TypeOK, Loops
    <3>2. PICK n \in 1 .. left :
            Send(Chore(IF pc = "pull" THEN "withdraw" ELSE "deposit", Cargo, n))
      BY <2>1 DEF AskChest
    <3> DEFINE job == Chore(IF pc = "pull" THEN "withdraw" ELSE "deposit", Cargo, n)
    <3>3. /\ job \in Jobs /\ job.good = Cargo /\ job.want = "nothing"
          /\ job.op = IF pc = "pull" THEN "withdraw" ELSE "deposit"
      BY <3>1, <3>2 DEF Chore, Jobs
    <3> QED
      BY <3>2, <3>3
  <2>2. CASE pc = "trade" /\ Send(Terms)
    BY <2>2, Wanted DEF Inv, Loops
  <2>3. CASE pc = "giveback" /\ Send(Trade("item", req.qty, "nothing", 0, FALSE))
    BY <2>3, Wanted DEF Inv, Loops
  <2> QED
    BY <2>1, <2>2, <2>3 DEF AskTrade
<1>3. /\ LastJob' = job /\ awaiting' = TRUE /\ reply' = reply /\ ~reply.given /\ ~reply.ok
  BY <1>2, Sent
<1>4. awaiting = FALSE /\ jobs' = Append(jobs, job)
  BY <1>2 DEF Send, Idle, Inv, Typed, TypeOK
<1>5. jobs \in Seq(Jobs)
  BY DEF Inv, Typed
<1>6. ASSUME NEW S, NEW s \in Seq(S), NEW e \in S
      PROVE  /\ Len(Append(s, e)) = Len(s) + 1 /\ Len(s) \in Nat
             /\ \A i \in 1 .. Len(s) : Append(s, e)[i] = s[i]
             /\ s # <<>> => Append(s, e) # <<>> /\ Len(s) # 0
  BY <1>6
<1> HIDE DEF Jobs
<1>7. /\ Len(jobs') = Len(jobs) + 1 /\ Len(jobs) \in Nat
      /\ \A i \in 1 .. Len(jobs) : jobs'[i] = jobs[i]
      /\ jobs # <<>> => jobs' # <<>> /\ Len(jobs) # 0
  BY <1>4, <1>5, <1>6
<1>8. Sends'
  BY <1>1, <1>2, <1>3 DEF Sends
<1>9. Doubtful'
  <2> SUFFICES ASSUME NEW i \in 1 .. Len(jobs'), GivenUp(i)'
               PROVE  "late" \in doubt /\ Touched(jobs'[i]) \subseteq doubt
    BY <1>1 DEF Doubtful, Touched
  <2>1. i \in 1 .. Len(jobs) /\ jobs'[i] = jobs[i]
    BY <1>3, <1>7 DEF GivenUp
  <2>2. GivenUp(i)
    BY <1>4 DEF GivenUp
  <2> QED
    BY <2>1, <2>2 DEF Channelled, Doubtful
<1>10. jobs # <<>> => \E i \in 1 .. Len(jobs) : GivenUp(i)
  <2>1. jobs # <<>> => 1 \in 1 .. Len(jobs)
    BY <1>7
  <2>2. GivenUp(1)
    BY <1>4 DEF GivenUp
  <2> QED
    BY <2>1, <2>2
<1> QED
  BY <1>3, <1>4, <1>7, <1>8, <1>9, <1>10 DEF Channelled

(* The goods of an instruction that is given up are in doubt. *)
LEMMA ChannelGivenUp ==
  ASSUME Inv, Channelled, Timeout \/ Watchdog
  PROVE  /\ Channelled'
         /\ "late" \in doubt' /\ doubt \subseteq doubt'
         /\ Timeout => jobs # <<>> /\ Touched(LastJob) \subseteq doubt' /\ awaiting
         /\ Watchdog => Goods \subseteq doubt'
<1>1. awaiting' = FALSE /\ ~reply'.ok /\ jobs' = jobs /\ awaiting \in BOOLEAN
  BY DEF Timeout, Watchdog, TooLate, No, Nothing, Inv, Typed, TypeOK
<1>2. "late" \in doubt' /\ doubt \subseteq doubt'
  BY DEF Timeout, Watchdog
<1>3. Watchdog => Goods \subseteq doubt'
  BY DEF Watchdog
<1>4. Timeout => jobs # <<>> /\ Touched(LastJob) \subseteq doubt' /\ awaiting
  BY DEF Timeout, Touched, LastJob, Inv, Asked
<1>5. Sends'
  BY <1>1 DEF Sends
<1>6. Doubtful'
  <2> SUFFICES ASSUME NEW i \in 1 .. Len(jobs)
               PROVE  "late" \in doubt' /\ Touched(jobs[i]) \subseteq doubt'
    BY <1>1 DEF Doubtful, Touched
  <2>1. CASE Watchdog
    BY <1>2, <1>3, <2>1 DEF Touched
  <2>2. CASE Timeout /\ i = Len(jobs)
    BY <1>2, <1>4, <2>2 DEF LastJob
  <2>3. CASE i < Len(jobs)
    BY <1>2, <2>3 DEF Channelled, Doubtful, GivenUp
  <2>4. Len(jobs) \in Nat
    <3>1. jobs \in Seq(Jobs)
      BY DEF Inv, Typed
    <3> QED
      BY <3>1
  <2> QED
    BY <2>1, <2>2, <2>3, <2>4
<1> QED
  BY <1>1, <1>2, <1>3, <1>4, <1>5, <1>6 DEF Channelled

(* The steps of the store that leave the channel alone. *)
Takes   == \/ Pulled \/ PullFailed \/ Returned \/ ReturnFailed \/ Pushed \/ PushFailed
           \/ TradeFailed \/ TradeDone
Commits == CommitBuy \/ CommitDeposit \/ CommitSell \/ CommitWithdraw
Quiet   == \/ \E r \in Requests : Start(r)
           \/ Audit \/ Tell \/ TellFails \/ DepositLost \/ SellUnwound \/ ReturnEnds

(* What these have in common. *)
Unused == /\ Channelled'
          /\ jobs' = jobs /\ awaiting = FALSE /\ awaiting' = FALSE
          /\ doubt \subseteq doubt' /\ ~reply'.ok
          /\ UNCHANGED <<chest, bot, buffer, hand>>

(* An answer is taken. *)
LEMMA TakesLeave ==
  ASSUME Inv, Channelled, Takes
  PROVE  /\ Unused /\ reply.given /\ ~reply'.given
         /\ UNCHANGED <<item_stock, currency_stock, balance, astray, before, served, twice>>
<1>1. reply.given /\ Take
  BY DEF Takes, Pulled, PullFailed, Returned, ReturnFailed, Pushed, PushFailed, TradeFailed,
         TradeDone, Inv, Asked
<1>2. /\ awaiting = FALSE /\ awaiting' = FALSE /\ ~reply'.ok /\ reply' = Nothing
      /\ UNCHANGED <<world, jobs, books>>
  BY <1>1, Taken
<1>3. doubt \subseteq doubt' /\ UNCHANGED <<astray, before, served, twice>>
  BY DEF Takes, Pulled, PullFailed, Returned, ReturnFailed, Pushed, PushFailed, TradeFailed,
         TradeDone, ToBank, ToChests, Doubt, history, Conclude
<1>4. Channelled'
  BY <1>2, <1>3, ChannelKept
<1> QED
  BY <1>1, <1>2, <1>3, <1>4 DEF Unused, world, books, Nothing

(* The books are written when nothing is asked and nothing was answered. *)
LEMMA CommitsLeave ==
  ASSUME Inv, Channelled, Commits
  PROVE  /\ Unused /\ ~reply.given /\ ~reply'.given
         /\ UNCHANGED <<stock, doubt, astray, before, served>>
<1>1. Idle /\ UNCHANGED <<world, jobs, awaiting, reply, doubt, stock, astray, before, served>>
  BY DEF Commits, CommitBuy, CommitDeposit, CommitSell, CommitWithdraw, Commit
<1>2. awaiting = FALSE /\ ~reply.ok /\ ~reply.given
  BY <1>1 DEF Idle, Inv, Typed, TypeOK, Asked
<1>3. Channelled'
  BY <1>1, <1>2, ChannelKept
<1> QED
  BY <1>1, <1>2, <1>3 DEF Unused, world

(* So it is with the beginning and the other ends of an order, but for the end
   of a sell that was given back. *)
LEMMA QuietLeaves ==
  ASSUME Inv, Channelled, Quiet
  PROVE  /\ Unused
         /\ ~reply.given \/ pc = "giveback"
         /\ UNCHANGED <<stock, doubt, astray, twice>>
<1>1. UNCHANGED <<world, jobs, awaiting, stock, doubt, astray, twice>>
  BY DEF Quiet, Start, Audit, Tell, TellFails, DepositLost, SellUnwound, ReturnEnds, history
<1>2. \/ SellUnwound
      \/ pc \in {"idle", "tell"} /\ UNCHANGED reply
      \/ Idle /\ UNCHANGED reply
  BY DEF Quiet, Start, Audit, Tell, TellFails, DepositLost, ReturnEnds
<1>3. \/ SellUnwound
      \/ ~reply.given /\ awaiting = FALSE /\ UNCHANGED reply
  BY <1>2 DEF Idle, Inv, Typed, TypeOK, Asked, Loops
<1>4. SellUnwound => pc = "giveback" /\ reply.given /\ reply' = Nothing
  BY DEF SellUnwound
<1>5. awaiting = FALSE
  BY <1>3, <1>4 DEF Inv, Typed, TypeOK, Asked
<1>6. ~reply'.ok
  BY <1>3, <1>4 DEF Nothing, Inv, Asked
<1>7. Channelled'
  BY <1>1, <1>5, <1>6, ChannelKept
<1> QED
  BY <1>1, <1>3, <1>4, <1>5, <1>6, <1>7 DEF Unused, world

(* A step of the bot answers its job, and leaves the handler and the log alone. *)
LEMMA BotAnswers ==
  ASSUME BotSteps
  PROVE  /\ jobs # <<>>
         /\ \E r : Answer(r)
         /\ UNCHANGED <<handler, doubt, books, stock, served, before, last, twice>>
<1>1. jobs # <<>> /\ UNCHANGED <<handler, doubt, books, stock, served, before, last, twice>>
  BY DEF BotSteps, BotMoves, BotRefused, BotExchanged, BotCancelled, Placed, history
<1>2. \E r : Answer(r)
  <2>1. BotMoves => \E r : Answer(r)
    BY DEF BotMoves
  <2>2. BotRefused => \E r : Answer(r)
    BY DEF BotRefused
  <2>3. BotExchanged => \E r : Answer(r)
    BY DEF BotExchanged
  <2>4. BotCancelled => \E r : Answer(r)
    BY DEF BotCancelled
  <2> QED
    BY <2>1, <2>2, <2>3, <2>4 DEF BotSteps
<1> QED
  BY <1>1, <1>2

(* Each step is one of these. *)
LEMMA Steps ==
  ASSUME [Next]_vars
  PROVE  \/ BotSteps
         \/ AskChest \/ AskTrade
         \/ Timeout \/ Watchdog
         \/ Takes \/ Commits \/ Quiet
         \/ UNCHANGED vars
BY DEF Next, Handler, Takes, Commits, Quiet

(* Nothing happens. *)
LEMMA Stutter ==
  ASSUME UNCHANGED vars
  PROVE  /\ UNCHANGED <<chest, bot, buffer, hand, jobs, stock, item_stock, currency_stock, balance>>
         /\ UNCHANGED <<pc, req, left, done, returned, paid, awaiting, reply>>
         /\ UNCHANGED <<served, before, last, doubt, astray, twice>>
BY DEF vars, world, books, handler, history

(* The channel begins empty, and every step keeps it in order. *)
LEMMA ChannelStep ==
  ASSUME Inv, Channelled, [Next]_vars
  PROVE  Channelled'
<1>1. CASE BotSteps
  BY <1>1, BotAnswers, ChannelAnswered
<1>2. CASE AskChest \/ AskTrade
  BY <1>2, ChannelSent
<1>3. CASE Timeout \/ Watchdog
  BY <1>3, ChannelGivenUp
<1>4. CASE Takes \/ Commits \/ Quiet
  BY <1>4, TakesLeave, CommitsLeave, QuietLeaves DEF Unused
<1>5. CASE UNCHANGED vars
  BY <1>5, Stutter
    DEF Channelled, Sends, Doubtful, GivenUp, Touched, LastJob, Cargo
<1> QED
  BY <1>1, <1>2, <1>3, <1>4, <1>5, Steps

---------------------------------------------------------------------------
(* The plan of an order, from its acceptance to its end. *)

(* What was pulled and what is to be pulled is what the order takes; what the
   customer put in is what was asked of him, and covers the price; an order goes
   back to the customer only after a failure about its items. *)
Plans ==
  /\ pc = "pull" => done + left = Pulls(req)
  /\ pc \in {"tell", "trade"} => done = Pulls(req)
  /\ pc # "bank" => paid = 0
  /\ pc \in {"push", "giveback", "settle"} => returned = 0
  /\ pc = "trade" /\ reply.ok =>
       /\ req.kind = "buy" => req.price <= Part * reply.amount + balance
       /\ req.kind = "sell" => reply.amount = req.qty
       /\ req.kind = "deposit" => reply.amount > 0
  /\ pc = "bank" =>
       /\ req.kind = "buy" => req.price <= Part * paid + balance
       /\ req.kind = "deposit" => paid > 0
  /\ pc = "giveback" => "item" \in doubt

(* Whole diamonds asked for are worth what was short. *)
LEMMA RoundedUp ==
  ASSUME NEW p \in Int
  PROVE  /\ Ceil(AtLeast0(p)) \in Nat
         /\ p <= Part * Ceil(AtLeast0(p))
<1>1. AtLeast0(p) \in Nat /\ p <= AtLeast0(p)
  BY DEF AtLeast0
<1>2. ASSUME NEW q \in Nat PROVE q <= Part * Ceil(q)
  <2>1. Part \in Int /\ Part > 0 /\ q + Part - 1 \in Int
    BY PartAssumption
  <2>2. ASSUME NEW a \in Int
        PROVE  a = Part * (a \div Part) + (a % Part) /\ a % Part \in 0 .. Part - 1
               /\ a \div Part \in Int
    BY <2>1
  <2>3. /\ q + Part - 1 = Part * ((q + Part - 1) \div Part) + ((q + Part - 1) % Part)
        /\ (q + Part - 1) % Part \in 0 .. Part - 1
    BY <2>1, <2>2
  <2>4. Part * ((q + Part - 1) \div Part) \in Int
    BY <2>1, <2>2
  <2> QED
    BY <2>1, <2>3, <2>4 DEF Ceil
<1>3. Ceil(AtLeast0(p)) \in Nat
  BY Rounded
<1>4. AtLeast0(p) <= Part * Ceil(AtLeast0(p)) /\ Part * Ceil(AtLeast0(p)) \in Int
  BY <1>1, <1>2, <1>3, Parts
<1> QED
  BY <1>1, <1>3, <1>4

(* What the customer may put in is at least what was asked, and for a sell no more. *)
LEMMA Offered ==
  ASSUME Inv, pc # "idle", Job = Terms, NEW n \in Offers
  PROVE  /\ n \in Nat
         /\ req.kind = "buy" => req.price <= Part * n + balance
         /\ req.kind = "sell" => n = req.qty
         /\ req.kind = "deposit" => n > 0
         /\ req.kind = "withdraw" => n = 0
<1>1. /\ Job \in Jobs /\ req \in Request /\ req.price \in Nat /\ req.qty \in Nat \ {0}
      /\ balance \in Int /\ req.price - balance \in Int
  <2>1. Job \in Jobs /\ req \in Request
    BY Wanted DEF Inv
  <2> QED
    BY <2>1 DEF Request, Inv, Typed, TypeOK
<1>2. /\ n \in Nat
      /\ Job.want = "nothing" => n = 0
      /\ Job.want # "nothing" => n >= Job.least /\ (Job.exact => n = Job.least)
  BY <1>1 DEF Offers, Jobs
<1>3. CASE req.kind = "buy"
  <2>1. ToOffer \in Nat /\ req.price - balance <= Part * ToOffer
    BY <1>1, RoundedUp DEF ToOffer
  <2>2. n >= ToOffer
    BY <1>2, <1>3, <2>1 DEF Terms, BuyTerms, Trade
  <2>3. Part * ToOffer <= Part * n /\ Part * ToOffer \in Int /\ Part * n \in Int
    BY <1>2, <2>1, <2>2, Parts
  <2> QED
    BY <1>1, <1>2, <1>3, <2>1, <2>3
<1>4. CASE req.kind = "sell"
  BY <1>1, <1>2, <1>4 DEF Terms, SellTerms, Trade
<1>5. CASE req.kind = "deposit"
  BY <1>1, <1>2, <1>5 DEF Terms, DepositTerms, Trade
<1>6. CASE req.kind = "withdraw"
  BY <1>1, <1>2, <1>6 DEF Terms, WithdrawTerms, Trade
<1> QED
  BY <1>1, <1>3, <1>4, <1>5, <1>6 DEF Request, Kinds

(* An exchange the handler hears of was on its terms. *)
LEMMA HeardExchange ==
  ASSUME Inv, Channelled, BotSteps, pc = "trade", reply'.ok
  PROVE  /\ Heard /\ Job = Terms /\ ~BotMoves /\ ~BotRefused
         /\ reply'.amount \in Offers
<1>1. /\ jobs # <<>> /\ UNCHANGED <<handler, doubt>>
      /\ \E r : Answer(r)
  BY BotAnswers
<1>2. ~reply.ok
  BY <1>1 DEF Channelled
<1>3. Heard
  BY <1>1, <1>2, ChannelAnswered
<1>4. Job = Terms /\ Job.op = "trade"
  <2>1. awaiting /\ LastJob = Job
    BY <1>1, <1>3, ChannelAnswered DEF Heard
  <2> QED
    BY <2>1, Wanted DEF Inv, Asked
<1>5. ~BotMoves
  BY <1>4 DEF BotMoves
<1>6. ~BotRefused
  BY <1>3 DEF BotRefused, Answer, No
<1>7. CASE BotExchanged
  <2>1. PICK n \in Offers : Answer(No(0)) \/ Answer(Yes(n))
    BY <1>7 DEF BotExchanged
  <2>2. reply' = No(0) \/ reply' = Yes(n)
    BY <1>3, <2>1 DEF Answer
  <2>3. reply' = Yes(n)
    BY <1>3, <2>2 DEF No
  <2> QED
    BY <1>3, <1>4, <1>5, <1>6, <2>3 DEF Yes
<1>8. CASE BotCancelled
  <2>1. PICK n \in Offers : Answer(Yes(n))
    BY <1>8 DEF BotCancelled
  <2> QED
    BY <1>3, <1>4, <1>5, <1>6, <2>1 DEF Answer, Yes
<1> QED
  BY <1>5, <1>6, <1>7, <1>8 DEF BotSteps

(* The plan is followed by every step. *)
LEMMA PlansStep ==
  ASSUME Inv, Channelled, Plans, [Next]_vars
  PROVE  Plans'
<1>1. CASE BotSteps
  <2>1. UNCHANGED <<pc, req, left, done, returned, paid, balance, doubt>>
    BY <1>1, BotAnswers DEF handler, books
  <2>2. ASSUME pc = "trade", reply'.ok
        PROVE  /\ req.kind = "buy" => req.price <= Part * reply'.amount + balance
               /\ req.kind = "sell" => reply'.amount = req.qty
               /\ req.kind = "deposit" => reply'.amount > 0
    BY <1>1, <2>2, HeardExchange, Offered
  <2> QED
    BY <2>1, <2>2 DEF Plans
<1>2. CASE AskChest \/ AskTrade
  <2>1. UNCHANGED <<pc, req, left, done, returned, paid, balance, doubt, reply>>
    BY <1>2, ChannelSent DEF AskChest, AskTrade, handler, books, history
  <2> QED
    BY <2>1 DEF Plans
<1>3. CASE Timeout
  <2>1. UNCHANGED <<pc, req, left, done, returned, paid, balance>> /\ ~reply'.ok
        /\ doubt \subseteq doubt'
    BY <1>3 DEF Timeout, handler, books, TooLate, No
  <2> QED
    BY <2>1 DEF Plans
<1>4. CASE Takes
  <2>1. /\ ~reply'.ok /\ doubt \subseteq doubt' /\ reply.given /\ UNCHANGED balance
    BY <1>4, TakesLeave DEF Unused
  <2>2. /\ done \in Nat /\ left \in Nat /\ paid \in Nat /\ returned \in Nat
        /\ reply.amount \in Nat
        /\ pc # "idle" => req \in Request /\ Pulls(req) \in Nat
    BY Wanted DEF Inv, Typed, TypeOK, Answers
  <2>3. CASE Pulled
    <3>1. /\ pc = "pull" /\ done' = done + reply.amount /\ left' = left - reply.amount
          /\ pc' = IF left' > 0 THEN "pull" ELSE IF req.kind = "buy" THEN "tell" ELSE "trade"
          /\ UNCHANGED <<req, returned, paid>>
      BY <2>3 DEF Pulled
    <3>2. left' \in Nat
      BY <2>1, <3>1, Heeded DEF Loops
    <3> QED
      BY <2>1, <2>2, <3>1, <3>2 DEF Plans
  <2>4. CASE PullFailed \/ Returned \/ ReturnFailed
    <3>1. /\ pc' \in {"return", "bank"} /\ (pc' = "bank" => pc = "bank")
          /\ UNCHANGED <<req, paid>>
      BY <2>4 DEF PullFailed, Returned, ReturnFailed, Goto
    <3>2. pc \in {"pull", "return", "bank"} /\ (pc' = "return" => pc # "bank")
      BY <2>4 DEF PullFailed, Returned, ReturnFailed, Goto
    <3> QED
      BY <2>1, <3>1, <3>2 DEF Plans
  <2>5. CASE Pushed \/ PushFailed
    <3>1. /\ pc = "push" /\ pc' \in {"push", "giveback"}
          /\ pc' = "giveback" => "item" \in doubt'
          /\ UNCHANGED <<req, returned, paid>>
      BY <2>5 DEF Pushed, PushFailed, Doubt, Cargo
    <3> QED
      BY <2>1, <3>1 DEF Plans
  <2>6. CASE TradeFailed
    <3>1. pc = "trade" /\ pc' \in {"idle", "return"} /\ paid' \in {0, paid}
      BY <2>6 DEF TradeFailed, Conclude, Goto
    <3> QED
      BY <2>1, <3>1 DEF Plans
  <2>7. CASE TradeDone
    <3>1. pc = "trade" /\ reply.ok /\ returned = 0 /\ UNCHANGED <<req, returned>>
      BY <2>7 DEF TradeDone, Inv, AtWork
    <3>2. CASE req.kind \in {"buy", "deposit"} /\ ToBank
      <4>1. pc' = "bank" /\ paid' = reply.amount
        BY <3>2 DEF ToBank, Goto
      <4> QED
        BY <2>1, <3>1, <4>1 DEF Plans
    <3>3. CASE pc' \in {"push", "settle"} /\ paid' = paid
      BY <2>1, <3>1, <3>3 DEF Plans
    <3> QED
      BY <2>7, <3>2, <3>3 DEF TradeDone, ToChests, Goto
  <2> QED
    BY <1>4, <2>3, <2>4, <2>5, <2>6, <2>7 DEF Takes
<1>5. CASE Watchdog \/ Commits \/ TellFails \/ DepositLost \/ SellUnwound \/ ReturnEnds
  <2>1. pc' = "idle" /\ paid' = 0
    BY <1>5
      DEF Watchdog, Commits, CommitBuy, CommitDeposit, CommitSell, CommitWithdraw, Commit, TellFails,
          DepositLost, SellUnwound, ReturnEnds, Conclude
  <2> QED
    BY <2>1 DEF Plans
<1>6. CASE Audit \/ Tell
  <2>1. /\ UNCHANGED <<req, left, done, returned, paid, doubt, balance, reply>>
        /\ pc' = pc \/ (pc = "tell" /\ pc' = "trade")
    BY <1>6 DEF Audit, Tell, handler, books, history
  <2>2. pc = "tell" => ~reply.ok
    BY DEF Inv, Asked, Loops
  <2> QED
    BY <2>1, <2>2 DEF Plans
<1>7. CASE \E r \in Requests : Start(r)
  <2>1. PICK r \in Requests : Start(r)
    BY <1>7
  <2>2. /\ req' = r /\ left' = Pulls(r) /\ done' = 0 /\ returned' = 0 /\ paid' = 0
        /\ pc' = IF Pulls(r) > 0 THEN "pull" ELSE "trade"
        /\ pc = "idle" /\ UNCHANGED reply
    BY <2>1 DEF Start, Goto
  <2>3. Pulls(r) \in Nat
    BY RequestsAssumption, Divided DEF Pulls, Request, Kinds
  <2>4. ~reply.ok
    BY <2>2 DEF Inv, Asked, Loops
  <2> QED
    BY <2>2, <2>3, <2>4 DEF Plans
<1>8. CASE UNCHANGED vars
  BY <1>8, Stutter DEF Plans
<1> QED
  BY <1>1, <1>2, <1>3, <1>4, <1>5, <1>6, <1>7, <1>8, Steps DEF Quiet

---------------------------------------------------------------------------
(* The goods. *)

(* A chest operation failed and the handler has not said so yet. *)
Failed == pc \in Loops /\ reply.given /\ ~reply.ok

(* What was moved and is not counted yet. *)
Moved == IF pc \in Loops /\ reply.ok THEN reply.amount ELSE 0

(* What the bot has of a good for the order: what was pulled, until the trade;
   what the customer put in, until it is put away. *)
Carried(g) ==
  IF pc \in Loops
  THEN IF g # Cargo THEN 0 ELSE IF pc = "pull" THEN done + Moved ELSE left - Moved
  ELSE IF pc = "tell" \/ (pc = "trade" /\ ~reply.ok)
  THEN IF g = Gives(req.kind) THEN done ELSE 0
  ELSE IF pc = "trade" /\ req.kind # "withdraw"
  THEN IF g = (IF req.kind = "sell" THEN "item" ELSE "diamond") THEN reply.amount ELSE 0
  ELSE 0

(* What the store has not seen of the chests yet. *)
Unseen(g) == IF pc \in Loops /\ g = Cargo THEN IF pc = "pull" THEN Moved ELSE 0 - Moved ELSE 0

(* An instruction that is given up is still to be carried out. *)
Stale == \E i \in 1 .. Len(jobs) : GivenUp(i)

(* A good that no error was logged about: the bot has no more of it than the
   order accounts for, and exactly that if it cannot set anything aside; it has
   none while an instruction that was given up is pending. *)
Stowed(g) ==
  /\ Stale => bot[g] = 0
  /\ ~(Failed /\ g = Cargo) =>
       /\ bot[g] <= Carried(g)
       /\ ~Buffer => bot[g] = Carried(g)
       /\ stock[g] = chest[g] + Unseen(g)

InPlace == ~astray => \A g \in Goods \ doubt : Stowed(g)

(* Amounts are numbers. *)
LEMMA Amounts ==
  ASSUME Inv, NEW g \in Goods
  PROVE  /\ chest[g] \in Nat /\ bot[g] \in Nat /\ buffer[g] \in Nat /\ stock[g] \in Nat
         /\ left \in Nat /\ done \in Nat /\ returned \in Nat /\ paid \in Nat
         /\ reply.amount \in Nat /\ Moved \in Nat
         /\ Carried(g) \in Int /\ Unseen(g) \in Int
<1>1. /\ chest[g] \in Nat /\ bot[g] \in Nat /\ buffer[g] \in Nat /\ stock[g] \in Nat
      /\ left \in Nat /\ done \in Nat /\ returned \in Nat /\ paid \in Nat
      /\ reply.amount \in Nat
  BY DEF Inv, Typed, TypeOK, Stowage, Answers
<1>2. Moved \in Nat
  BY <1>1 DEF Moved
<1> QED
  BY <1>1, <1>2 DEF Carried, Unseen

(* A pending instruction that was given up is one before or after the step. *)
LEMMA StaleKept ==
  ASSUME UNCHANGED <<jobs, awaiting>>
  PROVE  Stale' = Stale
BY DEF Stale, GivenUp

(* The store does not move goods: it goes on with what the bot has. *)
LEMMA StowedOn ==
  ASSUME Unused, NEW g \in Goods, Stowed(g), ~(Failed /\ g = Cargo),
         Carried(g)' = Carried(g), stock'[g] = chest[g] + Unseen(g)'
  PROVE  Stowed(g)'
<1>1. /\ UNCHANGED <<jobs, awaiting, chest, bot>> /\ Stale' = Stale
  BY StaleKept DEF Unused
<1>2. /\ Stale => bot[g] = 0
      /\ bot[g] <= Carried(g)
      /\ ~Buffer => bot[g] = Carried(g)
  BY DEF Stowed
<1> QED
  BY <1>1, <1>2 DEF Stowed

(* The bot carries out an instruction nobody waits for. *)
LEMMA BotUnheard ==
  ASSUME Inv, Channelled, BotSteps, ~Heard, ~astray', NEW g \in Goods \ doubt, Stowed(g)
  PROVE  Stowed(g)'
<1>1. /\ jobs # <<>> /\ UNCHANGED <<handler, doubt, stock>>
      /\ \E r : Answer(r)
  BY BotAnswers
<1>2. UNCHANGED <<reply, awaiting>> /\ Touched(Job) \subseteq doubt
  BY <1>1, ChannelAnswered
<1>3. Stale
  <2>1. 1 \in 1 .. Len(jobs) /\ (awaiting => 1 < Len(jobs))
    BY <1>1, MovesUp DEF Heard, Inv
  <2> QED
    BY <2>1 DEF Stale, GivenUp
<1>4. bot[g] = 0
  BY <1>3 DEF Stowed
<1>5. /\ bot'[g] = 0 /\ chest'[g] = chest[g]
  <2>1. CASE BotMoves
    <3>1. Job \in Jobs /\ Job.good \in Goods
      BY <1>1, Channel DEF Inv, Jobs
    <3>2. g # Job.good
      BY <1>2, <3>1 DEF Touched
    <3>3. \E n \in Int : \/ chest' = Add(chest, Job.good, -n) /\ bot' = Add(bot, Job.good, n)
                         \/ chest' = Add(chest, Job.good, n) /\ bot' = Add(bot, Job.good, -n)
      <4>1. Least(Job.amount, IF Job.op = "withdraw" THEN chest[Job.good] ELSE bot[Job.good]) \in Int
        BY <3>1, Amounts DEF Least, Jobs
      <4> QED
        BY <2>1, <4>1 DEF BotMoves
    <3>4. chest \in Stowage /\ bot \in Stowage
      BY DEF Inv, Typed, TypeOK
    <3> QED
      BY <1>4, <3>1, <3>2, <3>3, <3>4 DEF Add, Stowage
  <2>2. CASE BotRefused
    <3>1. bot' \in {OnBot, bot} /\ chest' = chest
      BY <2>2 DEF BotRefused, NotOpened
    <3> QED
      BY <1>4, <3>1 DEF OnBot, Zero
  <2>3. ~BotExchanged /\ ~BotCancelled
    BY DEF BotExchanged, BotCancelled
  <2> QED
    BY <2>1, <2>2, <2>3 DEF BotSteps
<1>6. Carried(g)' = Carried(g) /\ Unseen(g)' = Unseen(g) /\ Failed' = Failed /\ Cargo' = Cargo
  BY <1>1, <1>2 DEF Carried, Unseen, Failed, Cargo, Moved, handler
<1> QED
  BY <1>1, <1>4, <1>5, <1>6 DEF Stowed

(* What the handler hears of is what it asked for, and nothing is left behind it. *)
LEMMA HeardJob ==
  ASSUME Inv, Channelled, BotSteps, Heard
  PROVE  /\ Job \in Jobs /\ Job.good \in Goods /\ Job.amount \in Nat
         /\ awaiting /\ ~reply.given /\ ~reply.ok
         /\ Stale' = FALSE
         /\ UNCHANGED <<pc, req, left, done, returned, paid, doubt, stock>>
         /\ Cargo' = Cargo
         /\ pc \in Loops => /\ Job.op = IF pc = "pull" THEN "withdraw" ELSE "deposit"
                            /\ Job.good = Cargo /\ Job.amount \in 1 .. left
                            /\ ~BotRefused /\ ~BotExchanged /\ ~BotCancelled
         /\ pc \notin Loops => /\ pc \in {"trade", "giveback"}
                               /\ pc = "trade" => Job = Terms
                               /\ pc = "giveback" =>
                                    Job = Trade("item", req.qty, "nothing", 0, FALSE)
                               /\ ~BotMoves
<1>1. /\ jobs # <<>> /\ UNCHANGED <<handler, doubt, stock>>
      /\ \E r : Answer(r)
  BY BotAnswers
<1>2. jobs' = <<>> /\ awaiting' = FALSE /\ LastJob = Job
  BY <1>1, ChannelAnswered
<1>3. Job \in Jobs
  BY <1>1, Channel DEF Inv
<1>4. awaiting /\ ~reply.given /\ ~reply.ok
  BY <1>1 DEF Heard, Inv, Asked
<1>5. Stale' = FALSE
  BY <1>2 DEF Stale
<1>6. pc \in Loops => /\ Job.op = IF pc = "pull" THEN "withdraw" ELSE "deposit"
                      /\ Job.good = Cargo /\ Job.amount \in 1 .. left
  BY <1>2, <1>4 DEF Channelled, Sends, Inv, Asked
<1>7. pc \in Loops => ~BotRefused /\ ~BotExchanged /\ ~BotCancelled
  BY <1>6 DEF BotRefused, BotExchanged, BotCancelled, Placed
<1>8. pc \in Loops \union {"trade", "giveback"}
  BY <1>4 DEF Inv, Asked
<1>9. /\ pc = "trade" => Job = Terms /\ Job.op = "trade"
      /\ pc = "giveback" => Job = Trade("item", req.qty, "nothing", 0, FALSE) /\ Job.op = "trade"
  BY <1>2, <1>4, Wanted DEF Inv, Asked, Trade
<1>10. pc \in {"trade", "giveback"} => ~BotMoves
  BY <1>9 DEF BotMoves
<1> QED
  BY <1>1, <1>3, <1>4, <1>5, <1>6, <1>7, <1>8, <1>9, <1>10 DEF handler, Cargo, Jobs

(* The bot moves between the chests and its inventory what it was asked to, or
   says that it did not. *)
LEMMA BotMovesHeard ==
  ASSUME Inv, Channelled, BotMoves, Heard, NEW g \in Goods \ doubt, Stowed(g)
  PROVE  Stowed(g)'
<1>0. BotSteps
  BY DEF BotSteps
<1>1. /\ Job.good \in Goods /\ ~reply.given /\ ~reply.ok /\ Stale' = FALSE
      /\ UNCHANGED <<pc, req, left, done, stock>> /\ Cargo' = Cargo
      /\ pc \in Loops
      /\ Job.op = IF pc = "pull" THEN "withdraw" ELSE "deposit"
      /\ Job.good = Cargo /\ Job.amount \in 1 .. left
  BY <1>0, HeardJob
<1>2. /\ left \in Nat /\ done \in Nat /\ chest[g] \in Nat /\ bot[g] \in Nat /\ stock[g] \in Nat
      /\ chest \in Stowage /\ bot \in Stowage
  BY Amounts DEF Inv, Typed, TypeOK
<1>3. PICK n \in Int :
        /\ IF Job.op = "withdraw"
           THEN chest' = Add(chest, Job.good, -n) /\ bot' = Add(bot, Job.good, n)
           ELSE chest' = Add(chest, Job.good, n) /\ bot' = Add(bot, Job.good, -n)
        /\ \/ n = Job.amount /\ Answer(Yes(n))
           \/ (n < Job.amount \/ "chest" \in Faults) /\ Answer(No(Job.amount))
  <2>1. Least(Job.amount, IF Job.op = "withdraw" THEN chest[Job.good] ELSE bot[Job.good]) \in Int
    BY <1>1, <1>2, Amounts DEF Least
  <2> QED
    BY <2>1 DEF BotMoves
<1>4. \/ n = Job.amount /\ reply' = Yes(n)
      \/ reply' = No(Job.amount)
  BY <1>3 DEF Answer
<1>5. Stowed(g) => bot[g] <= Carried(g) /\ (~Buffer => bot[g] = Carried(g))
                   /\ stock[g] = chest[g] + Unseen(g)
  BY <1>1 DEF Stowed, Failed
<1>6. CASE g # Cargo
  <2>1. chest'[g] = chest[g] /\ bot'[g] = bot[g]
    BY <1>1, <1>2, <1>3, <1>6 DEF Add, Stowage
  <2>2. Carried(g) = 0 /\ Carried(g)' = 0 /\ Unseen(g) = 0 /\ Unseen(g)' = 0
    BY <1>1, <1>6 DEF Carried, Unseen
  <2> QED
    BY <1>1, <1>5, <2>1, <2>2 DEF Stowed
<1>7. CASE g = Cargo /\ reply' = No(Job.amount)
  BY <1>1, <1>7 DEF Stowed, Failed, No
<1>8. CASE g = Cargo /\ n = Job.amount /\ reply' = Yes(n)
  <2>1. reply'.ok /\ reply'.amount = n
    BY <1>8 DEF Yes
  <2>2. Moved = 0 /\ Moved' = n
    BY <1>1, <2>1 DEF Moved
  <2>3. CASE pc = "pull"
    <3>1. chest'[g] = chest[g] - n /\ bot'[g] = bot[g] + n
      BY <1>1, <1>2, <1>3, <1>8, <2>3 DEF Add, Stowage
    <3>2. Carried(g) = done /\ Carried(g)' = done + n /\ Unseen(g) = 0 /\ Unseen(g)' = n
      BY <1>1, <1>2, <1>8, <2>2, <2>3 DEF Carried, Unseen
    <3> QED
      BY <1>1, <1>2, <1>5, <3>1, <3>2 DEF Stowed
  <2>4. CASE pc # "pull"
    <3>1. chest'[g] = chest[g] + n /\ bot'[g] = bot[g] - n
      BY <1>1, <1>2, <1>3, <1>8, <2>4 DEF Add, Stowage
    <3>2. Carried(g) = left /\ Carried(g)' = left - n /\ Unseen(g) = 0 /\ Unseen(g)' = -n
      <4>1. Carried(g) = left - Moved /\ Unseen(g) = 0 - Moved
        BY <1>1, <1>8, <2>4 DEF Carried, Unseen
      <4>2. Carried(g)' = left - Moved' /\ Unseen(g)' = 0 - Moved'
        BY <1>1, <1>8, <2>4 DEF Carried, Unseen
      <4> QED
        BY <1>2, <2>2, <4>1, <4>2
    <3> QED
      BY <1>1, <1>2, <1>5, <3>1, <3>2 DEF Stowed
  <2> QED
    BY <2>3, <2>4
<1> QED
  BY <1>4, <1>6, <1>7, <1>8

(* A trade that did not take place emptied the inventory, or not even that. *)
LEMMA BotRefusedHeard ==
  ASSUME Inv, Channelled, BotRefused, Heard, NEW g \in Goods \ doubt, Stowed(g)
  PROVE  Stowed(g)'
<1>0. BotSteps
  BY DEF BotSteps
<1>1. /\ ~reply.given /\ ~reply.ok /\ Stale' = FALSE
      /\ UNCHANGED <<pc, req, left, done, stock>> /\ Cargo' = Cargo
      /\ pc \in {"trade", "giveback"} /\ pc \notin Loops
  BY <1>0, HeardJob DEF Loops
<1>2. reply' = No(0) /\ ~reply'.ok
  BY DEF BotRefused, Answer, No
<1>3. chest' = chest /\ bot' \in {OnBot, bot}
  BY DEF BotRefused, NotOpened
<1>4. bot'[g] <= bot[g] /\ (~Buffer => bot'[g] = bot[g]) /\ bot[g] \in Nat /\ bot'[g] \in Nat
  BY <1>3, Amounts DEF OnBot, Zero
<1>5. Carried(g)' = Carried(g) /\ Unseen(g) = 0 /\ Unseen(g)' = 0 /\ Carried(g) \in Int
  BY <1>1, <1>2, Amounts DEF Carried, Unseen
<1>6. ~(Failed /\ g = Cargo)
  BY <1>1 DEF Failed
<1> QED
  BY <1>1, <1>3, <1>4, <1>5, <1>6 DEF Stowed

(* An exchange the handler is told of: the bot gave what was pulled and has what
   the customer put in. *)
LEMMA BotExchangedHeard ==
  ASSUME Inv, Channelled, Plans, BotExchanged, Heard, ~astray',
         NEW g \in Goods \ doubt, Stowed(g)
  PROVE  Stowed(g)'
<1>0. BotSteps
  BY DEF BotSteps
<1>1. /\ Job \in Jobs /\ Job.amount \in Nat
      /\ awaiting /\ ~reply.given /\ ~reply.ok /\ Stale' = FALSE
      /\ UNCHANGED <<pc, req, left, done, stock>> /\ Cargo' = Cargo
      /\ pc \in {"trade", "giveback"} /\ pc \notin Loops
      /\ pc = "trade" => Job = Terms
  BY <1>0, HeardJob DEF Loops
<1>2. PICK n \in Offers :
        /\ bot' = [h \in Goods |-> OnBot[h] + ((IF h = Job.want THEN n ELSE 0)
                                              - (IF h = Job.good THEN Job.amount ELSE 0))]
        /\ Told(n)
  BY DEF BotExchanged, Told
<1>3. n \in Nat /\ (Job.want = "nothing" => n = 0)
  BY <1>1 DEF Offers, Jobs
<1>4. reply' = Yes(n) /\ reply'.ok /\ reply'.amount = n
  BY <1>2 DEF Answer, Yes, Told
<1>5. chest' = chest
  BY DEF BotExchanged
<1>6. OnBot[g] <= bot[g] /\ (~Buffer => OnBot[g] = bot[g]) /\ bot[g] \in Nat /\ OnBot[g] \in Nat
  BY Amounts DEF OnBot, Zero
<1>7. bot'[g] = OnBot[g] + ((IF g = Job.want THEN n ELSE 0)
                            - (IF g = Job.good THEN Job.amount ELSE 0))
  BY <1>2
<1>8. /\ bot[g] <= Carried(g) /\ (~Buffer => bot[g] = Carried(g))
      /\ stock[g] = chest[g] /\ Unseen(g)' = 0
  BY <1>1, Amounts DEF Stowed, Failed, Unseen
<1>9. bot'[g] <= Carried(g)' /\ (~Buffer => bot'[g] = Carried(g)')
  <2>1. CASE pc = "giveback"
    <3>1. "item" \in doubt /\ g = "diamond"
      BY <2>1 DEF Plans, Goods
    <3>2. Job.good = "item" /\ Job.want = "nothing"
      BY <1>0, <2>1, HeardJob DEF Trade, Loops
    <3>3. Carried(g) = 0 /\ Carried(g)' = 0
      BY <1>1, <2>1 DEF Carried
    <3> QED
      BY <1>6, <1>7, <1>8, <3>1, <3>2, <3>3
  <2>2. CASE pc = "trade"
    <3>1. Job = Terms /\ done = Pulls(req) /\ req \in Request
      BY <1>1, <2>2, Wanted DEF Plans, Inv
    <3>2. Carried(g) = IF g = Gives(req.kind) THEN done ELSE 0
      BY <1>1, <2>2 DEF Carried
    <3>3. Carried(g)' = IF req.kind = "withdraw" THEN 0
                        ELSE IF g = (IF req.kind = "sell" THEN "item" ELSE "diamond") THEN n ELSE 0
      BY <1>1, <1>4, <2>2 DEF Carried
    <3>4. done \in Nat
      BY Amounts
    <3>5. CASE req.kind = "buy"
      <4>1. /\ Job.good = "item" /\ Job.amount = done
            /\ Job.want \in {"diamond", "nothing"}
        BY <3>1, <3>5 DEF Terms, BuyTerms, Trade, Pulls
      <4> QED
        BY <1>3, <1>6, <1>7, <1>8, <3>2, <3>3, <3>4, <3>5, <4>1 DEF Gives, Goods
    <3>6. CASE req.kind = "sell"
      <4>1. /\ Job.good = "diamond" /\ Job.amount = done
            /\ Job.want \in {"item", "nothing"}
        BY <3>1, <3>6 DEF Terms, SellTerms, Trade, Pulls
      <4> QED
        BY <1>3, <1>6, <1>7, <1>8, <3>2, <3>3, <3>4, <3>6, <4>1 DEF Gives, Goods
    <3>7. CASE req.kind = "deposit"
      <4>1. /\ Job.good = "diamond" /\ Job.amount = 0 /\ done = 0
            /\ Job.want \in {"diamond", "nothing"}
        BY <3>1, <3>7 DEF Terms, DepositTerms, Trade, Pulls
      <4> QED
        BY <1>3, <1>6, <1>7, <1>8, <3>2, <3>3, <3>4, <3>7, <4>1 DEF Gives, Goods
    <3>8. CASE req.kind = "withdraw"
      <4>1. /\ Job.good = "diamond" /\ Job.amount = done /\ Job.want = "nothing"
        BY <3>1, <3>8 DEF Terms, WithdrawTerms, Trade, Pulls
      <4> QED
        BY <1>3, <1>6, <1>7, <1>8, <3>2, <3>3, <3>4, <3>8, <4>1 DEF Gives, Goods
    <3> QED
      BY <3>1, <3>5, <3>6, <3>7, <3>8 DEF Request, Kinds
  <2> QED
    BY <1>1, <2>1, <2>2
<1> QED
  BY <1>1, <1>5, <1>8, <1>9, Amounts DEF Stowed

(* Goods of which no error was logged are not those of an instruction the store
   is tired of waiting for, nor does an order hold any others. *)
LEMMA TimeoutStowed ==
  ASSUME Inv, Channelled, Plans, Timeout, NEW g \in Goods \ doubt', Stowed(g), g \notin doubt
  PROVE  Stowed(g)'
<1>1. /\ Touched(LastJob) \subseteq doubt' /\ awaiting /\ ~reply.given /\ ~reply.ok /\ ~reply'.ok
      /\ UNCHANGED <<pc, req, left, done, chest, bot, stock>> /\ Cargo' = Cargo
  BY ChannelGivenUp DEF Timeout, Inv, Asked, TooLate, No, world, handler, Cargo
<1>2. pc \in Loops \union {"trade", "giveback"}
  BY <1>1 DEF Inv, Asked
<1>3. pc \in Loops => g # Cargo
  BY <1>1 DEF Channelled, Sends, Touched
<1>4. pc = "trade" => g # Gives(req.kind)
  <2>1. pc = "trade" => LastJob = Terms /\ req \in Request
    BY <1>1, Wanted DEF Inv, Asked
  <2>2. pc = "trade" => Terms.good = Gives(req.kind)
    BY <2>1 DEF Terms, BuyTerms, SellTerms, DepositTerms, WithdrawTerms, Trade, Gives,
                Request, Kinds
  <2> QED
    BY <1>1, <2>1, <2>2 DEF Touched
<1>5. Carried(g) = 0 /\ Carried(g)' = 0 /\ Unseen(g) = 0 /\ Unseen(g)' = 0
  BY <1>1, <1>2, <1>3, <1>4 DEF Carried, Unseen, Loops
<1>6. bot[g] <= 0 /\ stock[g] = chest[g] /\ bot[g] \in Nat /\ chest[g] \in Nat
  BY <1>1, <1>5, Amounts DEF Stowed, Failed
<1> QED
  BY <1>1, <1>5, <1>6 DEF Stowed

(* The store notes what was moved. *)
LEMMA Noted ==
  ASSUME Inv, NEW n \in Int, stock[Cargo] + n = chest[Cargo], Sync(n),
         chest[Cargo] \in Nat, Cargo \in Goods, UNCHANGED chest, NEW g \in Goods
  PROVE  /\ stock'[Cargo] = chest[Cargo]
         /\ g # Cargo => stock'[g] = stock[g]
<1>1. Synced(n) = {chest[Cargo]}
  BY DEF Synced
<1>2. stock' = [stock EXCEPT ![Cargo] = chest[Cargo]]
  BY <1>1 DEF Sync
<1> QED
  BY <1>2 DEF Inv, Typed, TypeOK, Stowage

(* The handler takes an answer: what it counts from then on is what the bot has. *)
LEMMA TakesStowed ==
  ASSUME Inv, Channelled, Plans, Takes, NEW g \in Goods \ doubt', Stowed(g), g \notin doubt
  PROVE  Stowed(g)'
<1>1. /\ Unused /\ reply.given /\ ~reply'.ok /\ ~reply'.given /\ chest' = chest
  BY TakesLeave DEF Unused
<1>2. /\ left \in Nat /\ done \in Nat /\ reply.amount \in Nat
      /\ chest[g] \in Nat /\ bot[g] \in Nat /\ stock[g] \in Nat
  BY Amounts
<1>3. ASSUME pc \in Loops, reply.ok, g = Cargo
      PROVE  stock[g] = chest[g] + Unseen(g) /\ Moved = reply.amount
  BY <1>3 DEF Stowed, Failed, Moved
<1>4. ASSUME ~(pc \in Loops /\ g = Cargo) PROVE stock[g] = chest[g]
  BY <1>2, <1>4 DEF Stowed, Failed, Unseen
<1>5. Moved' = 0
  BY <1>1 DEF Moved
<1>6. CASE Pulled
  <2>1. /\ pc = "pull" /\ pc \in Loops /\ reply.ok /\ Sync(-reply.amount)
        /\ done' = done + reply.amount /\ req' = req
        /\ pc' \in {"pull", "tell", "trade"}
        /\ pc' = "tell" => req.kind = "buy"
    BY <1>6 DEF Pulled, Loops
  <2>2. Cargo = Gives(req.kind) /\ Cargo \in Goods /\ (pc' = "pull" => Cargo' = Cargo)
    BY <2>1 DEF Cargo, Gives, Goods
  <2>3. ~(Failed /\ g = Cargo)
    BY <2>1 DEF Failed
  <2>4. CASE g = Cargo
    <3>1. stock[g] = chest[g] + reply.amount
      BY <1>3, <2>1, <2>4 DEF Unseen
    <3>2. stock'[g] = chest[g]
      BY <1>1, <1>2, <2>1, <2>2, <2>4, <3>1, Noted
    <3>3. Carried(g) = done' /\ Carried(g)' = done' /\ Unseen(g)' = 0
      BY <1>1, <1>2, <1>3, <1>5, <2>1, <2>2, <2>4 DEF Carried, Unseen, Loops
    <3> QED
      BY <1>1, <1>2, <2>3, <3>2, <3>3, StowedOn
  <2>5. CASE g # Cargo
    <3>1. stock'[g] = stock[g]
      <4>1. PICK x : stock' = [stock EXCEPT ![Cargo] = x]
        BY <2>1 DEF Sync
      <4> QED
        BY <2>5, <4>1 DEF Inv, Typed, TypeOK, Stowage
    <3>2. Carried(g) = 0 /\ Carried(g)' = 0 /\ Unseen(g)' = 0
      BY <1>1, <2>1, <2>2, <2>5 DEF Carried, Unseen, Loops
    <3> QED
      BY <1>1, <1>2, <1>4, <2>3, <2>5, <3>1, <3>2, StowedOn
  <2> QED
    BY <2>4, <2>5
<1>7. CASE Returned \/ Pushed
  <2>1. /\ pc \in {"return", "bank", "push"} /\ pc \in Loops /\ reply.ok /\ Sync(reply.amount)
        /\ left' = left - reply.amount /\ UNCHANGED <<pc, req>> /\ Cargo' = Cargo
    BY <1>7 DEF Returned, Pushed, Loops, Cargo
  <2>2. Cargo \in Goods
    BY <2>1 DEF Cargo, Gives, Goods
  <2>3. ~(Failed /\ g = Cargo)
    BY <2>1 DEF Failed
  <2>4. CASE g = Cargo
    <3>1. stock[g] + reply.amount = chest[g]
      BY <1>2, <1>3, <2>1, <2>4 DEF Unseen
    <3>2. stock'[g] = chest[g]
      BY <1>1, <1>2, <2>1, <2>2, <2>4, <3>1, Noted
    <3>3. Carried(g) = left' /\ Carried(g)' = left' /\ Unseen(g)' = 0
      BY <1>1, <1>2, <1>3, <1>5, <2>1, <2>2, <2>4 DEF Carried, Unseen
    <3> QED
      BY <1>1, <1>2, <2>3, <3>2, <3>3, StowedOn
  <2>5. CASE g # Cargo
    <3>1. stock'[g] = stock[g]
      <4>1. PICK x : stock' = [stock EXCEPT ![Cargo] = x]
        BY <2>1 DEF Sync
      <4> QED
        BY <2>5, <4>1 DEF Inv, Typed, TypeOK, Stowage
    <3>2. Carried(g) = 0 /\ Carried(g)' = 0 /\ Unseen(g)' = 0
      BY <1>1, <2>1, <2>2, <2>5 DEF Carried, Unseen
    <3> QED
      BY <1>1, <1>2, <1>4, <2>3, <2>5, <3>1, <3>2, StowedOn
  <2> QED
    BY <2>4, <2>5
<1>8. CASE PullFailed \/ ReturnFailed \/ PushFailed
  <2>1. /\ pc \in Loops /\ pc' \in {"return", "bank", "giveback"}
        /\ Cargo \in doubt' /\ UNCHANGED <<stock, req>>
        /\ pc' # "giveback" => Cargo' = Cargo
    BY <1>8 DEF PullFailed, ReturnFailed, PushFailed, Goto, Doubt, Loops, Cargo
  <2>2. g # Cargo
    BY <2>1
  <2>3. Carried(g) = 0 /\ Carried(g)' = 0 /\ Unseen(g)' = 0
    BY <1>1, <2>1, <2>2 DEF Carried, Unseen, Loops
  <2> QED
    BY <1>1, <1>2, <1>4, <2>1, <2>2, <2>3, StowedOn
<1>9. CASE TradeFailed
  <2>1. /\ pc = "trade" /\ pc \notin Loops /\ ~reply.ok /\ stock' = stock
        /\ req \in Request /\ done = Pulls(req)
    BY <1>9, Wanted DEF TradeFailed, Loops, Inv, Plans
  <2>2. Carried(g) = IF g = Gives(req.kind) THEN done ELSE 0
    BY <2>1 DEF Carried
  <2>3. ~Failed
    BY <2>1 DEF Failed
  <2>4. CASE req.kind = "deposit"
    <3>1. pc' = "idle" /\ done = 0
      BY <1>9, <2>1, <2>4 DEF TradeFailed, Conclude, Pulls
    <3>2. Carried(g) = 0 /\ Carried(g)' = 0 /\ Unseen(g)' = 0
      BY <2>2, <3>1 DEF Carried, Unseen, Loops
    <3> QED
      BY <1>1, <1>2, <1>4, <2>1, <2>3, <3>2, StowedOn
  <2>5. CASE req.kind # "deposit"
    <3>1. done \in Planned(done)
      BY <1>2 DEF Planned
    <3>2. PICK n \in Planned(done) :
            /\ pc' = "return" /\ left' = n /\ req' = req
            /\ doubt' = IF n < done THEN doubt \union {Cargo} ELSE doubt
      BY <1>9, <2>5, <3>1 DEF TradeFailed, PutsBack, BuyPutsBack, SellPutsBack, WithdrawPutsBack,
                              Goto
    <3>3. n \in Nat /\ n <= done
      BY <1>2, PlannedWithin
    <3>4. Cargo = Gives(req.kind) /\ Cargo' = Gives(req.kind)
      BY <2>1, <3>2 DEF Cargo
    <3>5. g = Cargo => n = done
      BY <1>2, <3>2, <3>3
    <3>6. Carried(g)' = Carried(g) /\ Unseen(g)' = 0
      BY <1>2, <1>5, <2>2, <3>2, <3>3, <3>4, <3>5 DEF Carried, Unseen, Loops
    <3> QED
      BY <1>1, <1>2, <1>4, <2>1, <2>3, <3>6, StowedOn
  <2> QED
    BY <2>4, <2>5
<1>10. CASE TradeDone
  <2>1. /\ pc = "trade" /\ pc \notin Loops /\ reply.ok /\ stock' = stock /\ req' = req
        /\ req \in Request
        /\ req.kind = "sell" => reply.amount = req.qty
    BY <1>10, Wanted DEF TradeDone, Loops, Inv, Plans
  <2>2. Carried(g) = IF req.kind = "withdraw" THEN 0
                     ELSE IF g = (IF req.kind = "sell" THEN "item" ELSE "diamond")
                          THEN reply.amount ELSE 0
    BY <2>1 DEF Carried
  <2>3. ~Failed
    BY <2>1 DEF Failed
  <2>4. CASE req.kind \in {"buy", "deposit"}
    <3>1. PICK n \in Planned(reply.amount) :
            /\ pc' = "bank" /\ left' = n
            /\ doubt' = IF n < reply.amount THEN doubt \union {"diamond"} ELSE doubt
      BY <1>10, <2>4 DEF TradeDone, ToBank, ToChests, Goto
    <3>2. n \in Nat /\ n <= reply.amount
      BY <1>2, PlannedWithin
    <3>3. Cargo' = "diamond"
      BY <3>1 DEF Cargo
    <3>4. g = "diamond" => n = reply.amount
      BY <1>2, <3>1, <3>2
    <3>5. Carried(g)' = Carried(g) /\ Unseen(g)' = 0
      BY <1>2, <1>5, <2>2, <2>4, <3>1, <3>2, <3>3, <3>4 DEF Carried, Unseen, Loops
    <3> QED
      BY <1>1, <1>2, <1>4, <2>1, <2>3, <3>5, StowedOn
  <2>5. CASE req.kind \in {"sell", "withdraw"}
    <3>1. /\ pc' = IF req.kind = "sell" THEN "push" ELSE "settle"
          /\ req.kind = "sell" => left' = reply.amount /\ Cargo' = "item"
      BY <1>10, <2>1, <2>5 DEF TradeDone, ToBank, ToChests, Goto, Cargo
    <3>2. Carried(g)' = Carried(g) /\ Unseen(g)' = 0
      BY <1>2, <1>5, <2>2, <2>5, <3>1 DEF Carried, Unseen, Loops
    <3> QED
      BY <1>1, <1>2, <1>4, <2>1, <2>3, <3>2, StowedOn
  <2> QED
    BY <2>1, <2>4, <2>5 DEF Request, Kinds
<1> QED
  BY <1>6, <1>7, <1>8, <1>9, <1>10 DEF Takes

(* An order begins and ends with nothing in hand. *)
LEMMA EndsStowed ==
  ASSUME Inv, Channelled, Plans, Commits \/ Quiet, "whisper" \notin Faults,
         NEW g \in Goods \ doubt, Stowed(g)
  PROVE  Stowed(g)'
<1>1. /\ Unused /\ ~reply'.ok /\ chest' = chest /\ stock' = stock
      /\ ~reply.given \/ pc = "giveback"
      /\ ~reply.ok \/ pc = "giveback"
  BY CommitsLeave, QuietLeaves DEF Unused, Inv, Asked
<1>2. /\ left \in Nat /\ done \in Nat /\ chest[g] \in Nat /\ bot[g] \in Nat /\ stock[g] \in Nat
  BY Amounts
<1>3. ~Failed /\ Moved = 0 /\ Moved' = 0
  BY <1>1 DEF Failed, Moved, Loops
<1>4. stock[g] = chest[g]
  BY <1>2, <1>3 DEF Stowed, Unseen
<1>5. Unseen(g)' = 0
  BY <1>3 DEF Unseen
<1>6. Carried(g)' = Carried(g)
  <2>1. CASE Commits \/ DepositLost \/ SellUnwound \/ ReturnEnds
    <3>1. /\ pc \in {"bank", "push", "settle", "giveback", "return"}
          /\ pc \in Loops => left = 0
          /\ pc' = "idle"
      BY <2>1 DEF Commits, CommitBuy, CommitDeposit, CommitSell, CommitWithdraw, Commit,
                  DepositLost, SellUnwound, ReturnEnds, Conclude, Loops
    <3>2. Carried(g) = 0
      BY <1>3, <3>1 DEF Carried
    <3>3. Carried(g)' = 0
      BY <3>1 DEF Carried, Loops
    <3> QED
      BY <3>2, <3>3
  <2>2. CASE Audit
    <3>1. UNCHANGED <<pc, req, left, done, reply>>
      BY <2>2 DEF Audit, handler
    <3> QED
      BY <3>1 DEF Carried, Cargo, Moved
  <2>3. CASE Tell
    <3>1. pc = "tell" /\ pc' = "trade" /\ UNCHANGED <<req, left, done, reply>>
      BY <2>3 DEF Tell
    <3> QED
      BY <1>1, <3>1 DEF Carried, Loops
  <2>4. CASE \E r \in Requests : Start(r)
    <3>1. /\ pc = "idle" /\ pc' \in {"pull", "trade"} /\ done' = 0
      BY <2>4 DEF Start, Goto
    <3>2. Carried(g) = 0 /\ Carried(g)' = 0
      BY <1>1, <1>3, <3>1 DEF Carried, Loops
    <3> QED
      BY <3>2
  <2>5. ~TellFails
    BY DEF TellFails
  <2> QED
    BY <2>1, <2>2, <2>3, <2>4, <2>5 DEF Quiet
<1> QED
  BY <1>1, <1>2, <1>3, <1>4, <1>5, <1>6, StowedOn

(* An error that was logged is never taken back, nor is a wrong exchange. *)
LEMMA LogGrows ==
  ASSUME Inv, Channelled, [Next]_vars
  PROVE  doubt \subseteq doubt' /\ (astray => astray')
<1>1. CASE BotSteps
  <2>1. doubt' = doubt
    BY <1>1, BotAnswers
  <2>2. CASE BotMoves \/ BotRefused
    <3>1. astray' = astray
      BY <2>2 DEF BotMoves, BotRefused, history
    <3> QED
      BY <2>1, <3>1
  <2>3. CASE BotExchanged
    <3>1. astray' = TRUE \/ astray' = (astray \/ ~Heard)
      BY <2>3 DEF BotExchanged
    <3> QED
      BY <2>1, <3>1
  <2>4. CASE BotCancelled
    BY <2>1, <2>4 DEF BotCancelled
  <2> QED
    BY <1>1, <2>2, <2>3, <2>4 DEF BotSteps
<1>2. CASE AskChest \/ AskTrade
  <2>1. UNCHANGED <<doubt, astray>>
    BY <1>2 DEF AskChest, AskTrade, history
  <2> QED
    BY <2>1
<1>3. CASE Timeout
  <2>1. doubt \subseteq doubt' /\ astray' = astray
    BY <1>3 DEF Timeout
  <2> QED
    BY <2>1
<1>4. CASE Watchdog
  <2>1. doubt \subseteq doubt' /\ astray' = (astray \/ pc \in {"push", "bank", "giveback"})
    BY <1>4 DEF Watchdog
  <2> QED
    BY <2>1
<1>5. CASE Takes \/ Commits \/ Quiet
  <2>1. doubt \subseteq doubt' /\ astray' = astray
    BY <1>5, TakesLeave, CommitsLeave, QuietLeaves DEF Unused
  <2> QED
    BY <2>1
<1>6. CASE UNCHANGED vars
  <2>1. doubt' = doubt /\ astray' = astray
    BY <1>6, Stutter
  <2> QED
    BY <2>1
<1> QED
  BY <1>1, <1>2, <1>3, <1>4, <1>5, <1>6, Steps

(* Goods that no error was logged about are where the order has them. *)
LEMMA InPlaceStep ==
  ASSUME Inv, Channelled, Plans, InPlace, [Next]_vars, "whisper" \notin Faults
  PROVE  InPlace'
<1> SUFFICES ASSUME ~astray', NEW g \in Goods \ doubt'
             PROVE  Stowed(g)'
  BY DEF InPlace
<1>1. g \in Goods \ doubt /\ ~astray
  BY LogGrows
<1>2. Stowed(g)
  BY <1>1 DEF InPlace
<1>3. CASE BotSteps
  <2>1. g \in Goods \ doubt
    BY <1>1
  <2>2. CASE ~Heard
    BY <1>2, <1>3, <2>1, <2>2, BotUnheard
  <2>3. CASE Heard
    BY <1>2, <1>3, <2>1, <2>3, BotMovesHeard, BotRefusedHeard, BotExchangedHeard
      DEF BotSteps, BotCancelled
  <2> QED
    BY <2>2, <2>3
<1>4. CASE AskChest \/ AskTrade
  <2>1. /\ UNCHANGED <<reply, pc, req, left, done, chest, bot, stock>>
        /\ jobs # <<>> => \E i \in 1 .. Len(jobs) : GivenUp(i)
        /\ Len(jobs') = Len(jobs) + 1
    BY <1>4, ChannelSent DEF AskChest, AskTrade, world, handler
  <2>2. Stale' => Stale
    <3> SUFFICES ASSUME NEW i \in 1 .. Len(jobs'), GivenUp(i)'
                 PROVE  jobs # <<>>
      BY <2>1 DEF Stale
    <3>1. awaiting' = TRUE
      BY <1>4 DEF AskChest, AskTrade, Send
    <3>2. i < Len(jobs) + 1
      BY <2>1, <3>1 DEF GivenUp
    <3>3. Len(<<>>) = 0
      OBVIOUS
    <3> QED
      BY <3>2, <3>3
  <2>3. Carried(g)' = Carried(g) /\ Unseen(g)' = Unseen(g) /\ Failed' = Failed /\ Cargo' = Cargo
    BY <2>1 DEF Carried, Unseen, Failed, Cargo, Moved
  <2> QED
    BY <1>2, <2>1, <2>2, <2>3 DEF Stowed
<1>5. CASE Timeout
  BY <1>1, <1>2, <1>5, TimeoutStowed
<1>6. CASE Watchdog
  BY <1>6 DEF Watchdog
<1>7. CASE Takes
  BY <1>1, <1>2, <1>7, TakesStowed
<1>8. CASE Commits \/ Quiet
  BY <1>1, <1>2, <1>8, EndsStowed
<1>9. CASE UNCHANGED vars
  <2>1. Stale' = Stale /\ Carried(g)' = Carried(g) /\ Unseen(g)' = Unseen(g) /\ Failed' = Failed
        /\ Cargo' = Cargo
    BY <1>9, Stutter, StaleKept DEF Carried, Unseen, Failed, Cargo, Moved
  <2> QED
    BY <1>2, <1>9, <2>1, Stutter DEF Stowed
<1> QED
  BY <1>3, <1>4, <1>5, <1>6, <1>7, <1>8, <1>9, Steps

---------------------------------------------------------------------------
(* What goes back after a trade that failed. *)

(* As long as no error was logged the only exchange the store was told of wrongly
   is one that the customer undid: the handler is about to put away what the bot
   does not have, and will fail. *)
Deceived == /\ bot = Zero
            /\ \/ /\ pc = "trade" /\ reply.ok /\ reply.amount > 0
                  /\ req.kind \in {"sell", "deposit"}
               \/ pc \in {"push", "bank"} /\ ~reply.ok /\ left > 0

Deceit == ~Buffer /\ astray /\ doubt = {} => Deceived

(* Without an error in the log nothing is given up. *)
LEMMA NothingStale ==
  ASSUME Inv, Channelled, BotSteps, doubt = {}
  PROVE  Heard
BY BotAnswers, ChannelAnswered

(* What was pulled for a trade is all there, and is what the bot offers. *)
LEMMA HasOffer ==
  ASSUME Inv, Channelled, Plans, InPlace, BotSteps, pc \notin Loops, ~Buffer, ~astray, doubt = {}
  PROVE  /\ pc = "trade" /\ Job = Terms /\ req \in Request
         /\ \A g \in Goods : bot[g] = IF g = Gives(req.kind) THEN Pulls(req) ELSE 0
         /\ Job.good = Gives(req.kind) /\ Job.amount = Pulls(req) /\ Pulls(req) \in Nat
         /\ req.kind # "deposit" => Job.want # Job.good
         /\ OnBot = bot
<1>1. Heard
  BY NothingStale
<1>2. /\ pc \in {"trade", "giveback"} /\ ~reply.ok /\ ~reply.given
      /\ pc = "trade" => Job = Terms
  BY <1>1, HeardJob
<1>3. pc = "trade"
  BY <1>2 DEF Plans
<1>4. done = Pulls(req) /\ req \in Request /\ Pulls(req) \in Nat
  BY <1>3, Wanted DEF Plans, Inv
<1>5. ASSUME NEW g \in Goods
      PROVE  bot[g] = IF g = Gives(req.kind) THEN Pulls(req) ELSE 0
  <2>1. bot[g] = Carried(g)
    BY <1>2 DEF InPlace, Stowed, Failed
  <2> QED
    BY <1>2, <1>3, <1>4, <2>1 DEF Carried
<1>6. Job.good = Gives(req.kind) /\ Job.amount = Pulls(req)
      /\ (req.kind # "deposit" => Job.want # Job.good)
  BY <1>2, <1>3, <1>4 DEF Terms, BuyTerms, SellTerms, DepositTerms, WithdrawTerms, Trade, Gives,
                          Pulls, Request, Kinds
<1>7. OnBot = bot
  BY DEF OnBot
<1> QED
  BY <1>2, <1>3, <1>4, <1>5, <1>6, <1>7

(* An exchange the bot made does not look rejected to it. *)
LEMMA NotRejected ==
  ASSUME Inv, Channelled, Plans, InPlace, BotExchanged, ~Buffer, ~astray, doubt = {}
  PROVE  ~astray'
<1>0. BotSteps
  BY DEF BotSteps
<1>1. Heard
  BY <1>0, NothingStale
<1>2. pc \notin Loops
  BY <1>0, <1>1, HeardJob
<1>3. /\ req \in Request /\ OnBot = bot
      /\ \A g \in Goods : bot[g] = IF g = Gives(req.kind) THEN Pulls(req) ELSE 0
      /\ Job.good = Gives(req.kind) /\ Job.amount = Pulls(req) /\ Pulls(req) \in Nat
      /\ req.kind # "deposit" => Job.want # Job.good
  BY <1>0, <1>2, HasOffer
<1>4. PICK n \in Offers :
        /\ bot' = [h \in Goods |-> OnBot[h] + ((IF h = Job.want THEN n ELSE 0)
                                              - (IF h = Job.good THEN Job.amount ELSE 0))]
        /\ Told(n)
  BY DEF BotExchanged, Told
<1>5. ~LooksRejected(bot')
  <2>1. CASE req.kind = "deposit"
    BY <1>3, <2>1 DEF LooksRejected, Pulls
  <2>2. CASE req.kind # "deposit"
    <3>1. Job.good \in Goods
      BY <1>3 DEF Gives, Goods
    <3>2. bot'[Job.good] = 0
      BY <1>3, <1>4, <2>2, <3>1
    <3>3. Job.amount > 0 => Threshold(Job.amount) > 0
      BY <1>3 DEF Threshold
    <3>4. Threshold(Job.amount) \in Int
      BY <1>3 DEF Threshold
    <3> QED
      BY <3>2, <3>3, <3>4 DEF LooksRejected
  <2> QED
    BY <2>1, <2>2
<1> QED
  BY <1>1, <1>4, <1>5 DEF Told

(* A cancelled trade has nothing of the bot's in it, and the bot nothing on it. *)
LEMMA CancelDeceives ==
  ASSUME Inv, Channelled, Plans, InPlace, BotCancelled, "blind" \notin Faults,
         ~Buffer, ~astray, doubt = {}
  PROVE  Deceived'
<1>0. BotSteps
  BY DEF BotSteps
<1>1. Heard
  BY <1>0, NothingStale
<1>2. pc \notin Loops
  BY <1>0, <1>1, HeardJob
<1>3. /\ pc = "trade" /\ Job = Terms /\ req \in Request /\ OnBot = bot
      /\ \A g \in Goods : bot[g] = IF g = Gives(req.kind) THEN Pulls(req) ELSE 0
      /\ Job.amount = Pulls(req)
  BY <1>0, <1>2, HasOffer
<1>4. Job.amount = 0 /\ bot' = bot /\ UNCHANGED <<pc, req>>
  BY <1>3 DEF BotCancelled, handler
<1>5. req.kind \in {"sell", "deposit"}
  BY <1>3, <1>4 DEF Pulls, Request, Kinds
<1>6. bot' = Zero
  <2>1. \A g \in Goods : bot[g] = 0
    BY <1>3, <1>4
  <2> QED
    BY <1>4, <2>1 DEF Zero, Inv, Typed, TypeOK, Stowage
<1>7. PICK n \in Offers : Answer(Yes(n))
  BY DEF BotCancelled
<1>8. n > 0
  BY <1>3, <1>5, Offered DEF Request
<1>9. reply'.ok /\ reply'.amount = n
  BY <1>1, <1>7 DEF Answer, Yes
<1> QED
  BY <1>3, <1>4, <1>5, <1>6, <1>8, <1>9 DEF Deceived

(* A handler that was deceived does not get past the next operation on a chest. *)
LEMMA DeceivedOn ==
  ASSUME Inv, Channelled, Plans, Deceived, [Next]_vars, doubt' = {}, ~Buffer
  PROVE  Deceived'
<1>1. doubt = {}
  BY LogGrows
<1>2. CASE BotSteps
  <2>1. Heard
    BY <1>1, <1>2, NothingStale
  <2>2. /\ ~reply.ok /\ UNCHANGED <<pc, req, left>> /\ Job.good \in Goods /\ Job.amount \in Nat
    BY <1>2, <2>1, HeardJob
  <2>3. pc \in {"push", "bank"} /\ left > 0 /\ bot = Zero /\ pc \in Loops
    BY <2>2 DEF Deceived, Loops
  <2>4. Job.op = "deposit" /\ Job.amount \in 1 .. left /\ BotMoves
    BY <1>2, <2>1, <2>3, HeardJob DEF BotSteps
  <2>5. Zero[Job.good] = 0 /\ Least(Job.amount, 0) = 0 /\ left \in Nat
    BY <2>2, Amounts DEF Zero, Least
  <2>6. PICK n \in {0} : /\ bot' = Add(bot, Job.good, -n)
                         /\ \/ n = Job.amount /\ Answer(Yes(n))
                            \/ Answer(No(Job.amount))
    BY <2>3, <2>4, <2>5 DEF BotMoves
  <2>7. reply' = No(Job.amount)
    BY <2>1, <2>4, <2>6 DEF Answer
  <2>8. bot' = Zero
    BY <2>2, <2>3, <2>6 DEF Add, Zero
  <2> QED
    BY <2>2, <2>3, <2>7, <2>8 DEF Deceived, No
<1>3. CASE AskChest \/ AskTrade
  <2>1. UNCHANGED <<bot, reply, pc, req, left>>
    BY <1>3, ChannelSent DEF AskChest, AskTrade, world, handler
  <2> QED
    BY <2>1 DEF Deceived
<1>4. ~Timeout /\ ~Watchdog
  BY DEF Timeout, Watchdog
<1>5. CASE Takes
  <2>1. ~reply'.ok /\ bot' = bot
    BY <1>5, TakesLeave DEF Unused
  <2>2. TradeDone
    BY <1>5 DEF Takes, Pulled, PullFailed, Returned, ReturnFailed, Pushed, PushFailed, TradeFailed,
                Doubt, Deceived
  <2>3. /\ pc = "trade" /\ reply.ok /\ reply.amount > 0 /\ req.kind \in {"sell", "deposit"}
        /\ req \in Request /\ bot = Zero /\ reply.amount \in Nat
    BY <2>2, Wanted DEF TradeDone, Deceived, Inv, Typed, TypeOK, Answers
  <2>4. CASE req.kind = "sell"
    <3>1. pc' = "push" /\ left' = req.qty
      BY <2>2, <2>4 DEF TradeDone, ToChests, Goto
    <3> QED
      BY <2>1, <2>3, <3>1 DEF Deceived, Request
  <2>5. CASE req.kind = "deposit"
    <3>1. PICK n \in Planned(reply.amount) :
            /\ pc' = "bank" /\ left' = n
            /\ doubt' = IF n < reply.amount THEN doubt \union {"diamond"} ELSE doubt
      BY <2>2, <2>5 DEF TradeDone, ToBank, Goto
    <3>2. n = reply.amount
      BY <2>3, <3>1, PlannedWithin
    <3> QED
      BY <2>1, <2>3, <3>1, <3>2 DEF Deceived
  <2> QED
    BY <2>3, <2>4, <2>5
<1>6. CASE Commits \/ Quiet
  <2>1. pc = "trade" => reply.given /\ ~Idle
    BY DEF Deceived, Loops, Inv, Asked, Idle
  <2>2. left # 0 \/ pc = "trade"
    BY DEF Deceived
  <2> QED
    BY <1>6, <2>1, <2>2
      DEF Deceived, Commits, CommitBuy, CommitDeposit, CommitSell, CommitWithdraw, Commit, Quiet,
          Start, Audit, Tell, TellFails, DepositLost, SellUnwound, ReturnEnds
<1>7. CASE UNCHANGED vars
  BY <1>7, Stutter DEF Deceived
<1> QED
  BY <1>2, <1>3, <1>4, <1>5, <1>6, <1>7, Steps

(* A deceived handler is at work on the goods it was promised. *)
LEMMA DeceitStep ==
  ASSUME Inv, Channelled, Plans, InPlace, Deceit, [Next]_vars, "blind" \notin Faults
  PROVE  Deceit'
<1> SUFFICES ASSUME ~Buffer, astray', doubt' = {}
             PROVE  Deceived'
  BY DEF Deceit
<1>1. doubt = {}
  BY LogGrows
<1>2. CASE astray
  BY <1>1, <1>2, DeceivedOn DEF Deceit
<1>3. CASE ~astray
  <2>1. CASE BotSteps
    <3>1. CASE BotMoves \/ BotRefused
      <4>1. astray' = astray
        BY <3>1 DEF BotMoves, BotRefused, history
      <4> QED
        BY <1>3, <4>1
    <3>2. CASE BotExchanged
      BY <1>1, <1>3, <3>2, NotRejected
    <3>3. CASE BotCancelled
      BY <1>1, <1>3, <3>3, CancelDeceives
    <3> QED
      BY <2>1, <3>1, <3>2, <3>3 DEF BotSteps
  <2>2. ~Timeout /\ ~Watchdog
    BY DEF Timeout, Watchdog
  <2>3. CASE AskChest \/ AskTrade
    <3>1. astray' = astray
      BY <2>3 DEF AskChest, AskTrade, history
    <3> QED
      BY <1>3, <3>1
  <2>4. CASE Takes \/ Commits \/ Quiet
    <3>1. astray' = astray
      BY <2>4, TakesLeave, CommitsLeave, QuietLeaves
    <3> QED
      BY <1>3, <3>1
  <2>5. CASE UNCHANGED vars
    <3>1. astray' = astray
      BY <2>5, Stutter
    <3> QED
      BY <1>3, <3>1
  <2> QED
    BY <2>1, <2>2, <2>3, <2>4, <2>5, Steps
<1> QED
  BY <1>2, <1>3

---------------------------------------------------------------------------
(* The exchange with the customer. *)

(* The customer has what he gave and did not give yet. *)
Exchanged == (pc = "trade" /\ reply.ok) \/ pc \in {"bank", "push", "settle", "giveback"}

(* What the order has brought him so far. *)
ItemsGained ==
  IF ~Exchanged THEN 0
  ELSE IF req.kind = "buy" THEN req.qty
  ELSE IF req.kind = "sell" /\ ~(pc = "giveback" /\ reply.ok) THEN 0 - req.qty
  ELSE 0

DiamondsGained ==
  IF ~Exchanged THEN 0
  ELSE IF req.kind \in {"buy", "deposit"} THEN 0 - (IF pc = "trade" THEN reply.amount ELSE paid)
  ELSE Pulls(req)

Remembered ==
  /\ before \in [hand : Stowage, value : Int, bot : Stowage, owed : Int, stored : Nat]
  /\ last \in [req : Requests \union {None}, outcome : {"none", "committed", "rolledback", "left"},
               short : Int]

(* An order in hand is between its beginning and its end: the balance is as it
   was, and the customer's hand differs by what was exchanged. *)
Midway ==
  ~astray /\ pc # "idle" =>
    /\ hand["item"] = before.hand["item"] + ItemsGained
    /\ hand["diamond"] = before.hand["diamond"] + DiamondsGained
    /\ balance + Part * before.hand["diamond"] = before.value

Exchange == Remembered /\ Midway /\ CommitIsExchange /\ AbortIsNoExchange

(* Numbers in an exchange. *)
LEMMA Hands ==
  ASSUME Inv, Remembered
  PROVE  /\ hand["item"] \in Nat /\ hand["diamond"] \in Nat
         /\ before.hand["item"] \in Nat /\ before.hand["diamond"] \in Nat
         /\ before.value \in Int /\ balance \in Nat
         /\ before.hand \in Stowage /\ hand \in Stowage
         /\ reply.amount \in Nat /\ paid \in Nat /\ returned \in Nat
         /\ pc # "idle" => /\ req \in Request /\ req.qty \in Nat \ {0} /\ req.price \in Nat
                           /\ Pulls(req) \in Nat
<1>1. "item" \in Goods /\ "diamond" \in Goods
  BY DEF Goods
<1>2. hand \in Stowage /\ before.hand \in Stowage /\ before.value \in Int
  BY DEF Inv, Typed, TypeOK, Remembered
<1>3. /\ hand["item"] \in Nat /\ hand["diamond"] \in Nat
      /\ before.hand["item"] \in Nat /\ before.hand["diamond"] \in Nat
  BY <1>1, <1>2 DEF Stowage
<1>4. balance \in Nat /\ reply.amount \in Nat /\ paid \in Nat /\ returned \in Nat
  BY DEF Inv, Typed, TypeOK, NoDebt, Answers
<1>5. pc # "idle" => /\ req \in Request /\ req.qty \in Nat \ {0} /\ req.price \in Nat
                     /\ Pulls(req) \in Nat
  BY Wanted DEF Inv, Request
<1> QED
  BY <1>2, <1>3, <1>4, <1>5

(* Two hands with the same in them are the same. *)
LEMMA SameHands ==
  ASSUME NEW f \in Stowage, NEW h \in Stowage, f["item"] = h["item"], f["diamond"] = h["diamond"]
  PROVE  f = h
BY DEF Stowage, Goods

(* Nobody's hand or memory changes, and the order goes on as it was. *)
LEMMA MidwayOn ==
  ASSUME Exchange, UNCHANGED <<hand, balance, before, last>>,
         astray => astray', pc # "idle", pc' # "idle",
         ItemsGained' = ItemsGained, DiamondsGained' = DiamondsGained
  PROVE  Exchange'
<1>1. Remembered'
  BY DEF Exchange, Remembered
<1>2. Midway'
  BY DEF Exchange, Midway
<1>3. CommitIsExchange' /\ AbortIsNoExchange'
  BY DEF CommitIsExchange, AbortIsNoExchange
<1> QED
  BY <1>1, <1>2, <1>3 DEF Exchange

(* Between orders the customer is left alone. *)
LEMMA ExchangeIdle ==
  ASSUME Exchange, UNCHANGED <<hand, balance, before, last, pc>>, astray => astray', pc = "idle"
  PROVE  Exchange'
<1>1. Remembered' /\ Midway'
  BY DEF Exchange, Remembered, Midway
<1>2. CommitIsExchange' /\ AbortIsNoExchange'
  BY DEF Exchange, CommitIsExchange, AbortIsNoExchange, Value
<1> QED
  BY <1>1, <1>2 DEF Exchange

(* An order that ends before its exchange leaves the customer as he was. *)
LEMMA EndsBefore ==
  ASSUME Inv, Exchange, NEW outcome \in {"rolledback", "left"}, Conclude(outcome),
         UNCHANGED <<hand, balance, before>>, astray => astray', pc # "idle",
         ~astray' => ~Exchanged \/ paid > returned
  PROVE  Exchange'
<1>1. /\ pc' = "idle" /\ last' = [req |-> req, outcome |-> outcome, short |-> paid - returned]
      /\ Remembered /\ Midway
  BY DEF Conclude, Exchange
<1>2. /\ hand["item"] \in Nat /\ hand["diamond"] \in Nat
      /\ before.hand["item"] \in Nat /\ before.hand["diamond"] \in Nat
      /\ before.hand \in Stowage /\ hand \in Stowage
      /\ paid \in Nat /\ returned \in Nat /\ req \in Requests
  BY <1>1, Hands DEF Inv, AtWork
<1>3. Remembered' /\ Midway'
  BY <1>1, <1>2 DEF Remembered, Midway
<1>4. CommitIsExchange'
  BY <1>1 DEF CommitIsExchange
<1>5. AbortIsNoExchange'
  <2> SUFFICES ASSUME ~astray', last'.short <= 0
               PROVE  hand = before.hand /\ Value' = before.value
    BY <1>1 DEF AbortIsNoExchange
  <2>1. last'.short = paid - returned
    BY <1>1
  <2>2. ~Exchanged /\ ~astray
    BY <1>2, <2>1
  <2>3. /\ hand["item"] = before.hand["item"]
        /\ hand["diamond"] = before.hand["diamond"]
        /\ balance + Part * before.hand["diamond"] = before.value
    BY <1>1, <1>2, <2>2 DEF Midway, ItemsGained, DiamondsGained
  <2>4. hand = before.hand
    BY <1>2, <2>3, SameHands
  <2>5. Part * hand["diamond"] \in Int /\ balance \in Int
    <3>1. balance \in Int /\ hand["diamond"] \in Int
      BY <1>1, Hands
    <3> QED
      BY <3>1, Parts
  <2> QED
    BY <2>3, <2>4, <2>5 DEF Value
<1> QED
  BY <1>3, <1>4, <1>5 DEF Exchange

(* The bot exchanges what the handler asked for, and the customer has it. *)
LEMMA BotExchange ==
  ASSUME Inv, Channelled, Plans, Exchange, BotSteps
  PROVE  Exchange'
<1>1. /\ UNCHANGED <<pc, req, left, done, returned, paid, doubt, balance, before, last>>
      /\ jobs # <<>> /\ \E r : Answer(r)
  BY BotAnswers DEF handler, books
<1>2. astray => astray'
  BY LogGrows DEF Next
<1>3. ASSUME hand' = hand, reply' = reply PROVE Exchange'
  <2>1. ItemsGained' = ItemsGained /\ DiamondsGained' = DiamondsGained
    BY <1>1, <1>3 DEF ItemsGained, DiamondsGained, Exchanged
  <2> QED
    BY <1>1, <1>2, <1>3, <2>1, MidwayOn, ExchangeIdle
<1>4. CASE astray'
  <2>1. Remembered' /\ Midway'
    BY <1>1, <1>4 DEF Exchange, Remembered, Midway
  <2>2. CommitIsExchange' /\ AbortIsNoExchange'
    BY <1>4 DEF CommitIsExchange, AbortIsNoExchange
  <2> QED
    BY <2>1, <2>2 DEF Exchange
<1>5. CASE ~astray' /\ ~Heard
  <2>1. reply' = reply
    <3>1. PICK r : Answer(r)
      BY <1>1
    <3> QED
      BY <1>1, <1>5, <3>1 DEF Answer
  <2>2. hand' = hand
    BY <1>5 DEF BotSteps, BotMoves, BotRefused, BotExchanged, BotCancelled
  <2> QED
    BY <1>3, <2>1, <2>2
<1>6. CASE ~astray' /\ Heard
  <2>1. /\ ~reply.ok
        /\ pc \in Loops => ~BotRefused /\ ~BotExchanged /\ ~BotCancelled
        /\ pc \notin Loops => pc \in {"trade", "giveback"} /\ ~BotMoves
    BY <1>6, HeardJob
  <2>2. CASE BotMoves
    <3>1. hand' = hand /\ pc \in Loops
      BY <2>1, <2>2 DEF BotMoves
    <3>2. ItemsGained' = ItemsGained /\ DiamondsGained' = DiamondsGained
      BY <1>1, <3>1 DEF ItemsGained, DiamondsGained, Exchanged, Loops
    <3> QED
      BY <1>1, <1>2, <3>1, <3>2, MidwayOn DEF Loops
  <2>3. CASE BotRefused
    <3>1. hand' = hand /\ ~reply'.ok /\ pc \in {"trade", "giveback"}
      BY <1>6, <2>1, <2>3 DEF BotRefused, Answer, No
    <3>2. ItemsGained' = ItemsGained /\ DiamondsGained' = DiamondsGained
      BY <1>1, <2>1, <3>1 DEF ItemsGained, DiamondsGained, Exchanged
    <3> QED
      BY <1>1, <1>2, <3>1, <3>2, MidwayOn
  <2>4. ~BotCancelled
    BY <1>6 DEF BotCancelled
  <2>5. CASE BotExchanged
    <3>1. PICK n \in Offers :
            /\ hand' = [h \in Goods |-> hand[h] - ((IF h = Job.want THEN n ELSE 0)
                                                  - (IF h = Job.good THEN Job.amount ELSE 0))]
            /\ Told(n)
      BY <2>5 DEF BotExchanged, Told
    <3>2. reply' = Yes(n) /\ reply'.ok /\ reply'.amount = n
      BY <1>6, <3>1 DEF Answer, Yes, Told
    <3>3. /\ pc \in {"trade", "giveback"} /\ pc \notin Loops /\ Job \in Jobs /\ Job.amount \in Nat
          /\ pc = "trade" => Job = Terms
          /\ pc = "giveback" => Job = Trade("item", req.qty, "nothing", 0, FALSE)
      BY <1>6, <2>1, <2>5, HeardJob
    <3>4. n \in Nat /\ (Job.want = "nothing" => n = 0)
      BY <3>3 DEF Offers, Jobs
    <3>5. /\ hand'["item"] = hand["item"] - (IF "item" = Job.want THEN n ELSE 0)
                                         + (IF "item" = Job.good THEN Job.amount ELSE 0)
          /\ hand'["diamond"] = hand["diamond"] - (IF "diamond" = Job.want THEN n ELSE 0)
                                         + (IF "diamond" = Job.good THEN Job.amount ELSE 0)
      <4>1. hand["item"] \in Int /\ hand["diamond"] \in Int
        BY Hands DEF Exchange
      <4> QED
        BY <3>1, <3>3, <3>4, <4>1 DEF Goods
    <3>6. /\ hand["item"] \in Nat /\ hand["diamond"] \in Nat
          /\ before.hand["item"] \in Nat /\ before.hand["diamond"] \in Nat
          /\ req \in Request /\ req.qty \in Nat \ {0} /\ Pulls(req) \in Nat
      BY <3>3, Hands DEF Exchange
    <3>7. ~astray
      BY <1>2, <1>6
    <3>8. /\ hand["item"] = before.hand["item"] + ItemsGained
          /\ hand["diamond"] = before.hand["diamond"] + DiamondsGained
          /\ balance + Part * before.hand["diamond"] = before.value
      BY <3>3, <3>7 DEF Exchange, Midway
    <3>9. CASE pc = "giveback"
      <4>1. Job.good = "item" /\ Job.amount = req.qty /\ Job.want = "nothing"
        BY <3>3, <3>9 DEF Trade
      <4>2. req.kind = "sell"
        BY <3>9 DEF Inv, AtWork
      <4>3. ItemsGained = 0 - req.qty /\ ItemsGained' = 0 /\ DiamondsGained' = DiamondsGained
        BY <1>1, <2>1, <3>2, <3>9, <4>2 DEF ItemsGained, DiamondsGained, Exchanged
      <4>4. Midway'
        <5>1. DiamondsGained = Pulls(req)
          BY <3>9, <4>2 DEF DiamondsGained, Exchanged
        <5>2. hand'["item"] = before.hand["item"] + ItemsGained'
          BY <3>5, <3>6, <3>8, <4>1, <4>3
        <5>3. hand'["diamond"] = before.hand["diamond"] + DiamondsGained'
          BY <3>4, <3>5, <3>6, <3>8, <4>1, <4>3, <5>1
        <5> QED
          BY <1>1, <3>8, <5>2, <5>3 DEF Midway
      <4> QED
        BY <1>1, <3>9, <4>4 DEF Exchange, Remembered, CommitIsExchange, AbortIsNoExchange
    <3>10. CASE pc = "trade"
      <4>1. Job = Terms
        BY <3>3, <3>10
      <4>2. ItemsGained = 0 /\ DiamondsGained = 0
        BY <2>1, <3>10 DEF ItemsGained, DiamondsGained, Exchanged
      <4>3. /\ hand'["item"] = before.hand["item"] + ItemsGained'
            /\ hand'["diamond"] = before.hand["diamond"] + DiamondsGained'
        <5>1. CASE req.kind = "buy"
          <6>1. Job.good = "item" /\ Job.amount = req.qty /\ Job.want \in {"diamond", "nothing"}
            BY <4>1, <5>1 DEF Terms, BuyTerms, Trade
          <6>2. ItemsGained' = req.qty /\ DiamondsGained' = 0 - n
            BY <1>1, <3>2, <3>10, <5>1 DEF ItemsGained, DiamondsGained, Exchanged
          <6> QED
            BY <3>4, <3>5, <3>6, <3>8, <4>2, <6>1, <6>2
        <5>2. CASE req.kind = "sell"
          <6>1. Job.good = "diamond" /\ Job.amount = Pulls(req) /\ Job.want = "item" /\ n = req.qty
            BY <3>3, <3>6, <4>1, <5>2, Offered DEF Terms, SellTerms, Trade, Pulls
          <6>2. ItemsGained' = 0 - req.qty /\ DiamondsGained' = Pulls(req)
            BY <1>1, <3>2, <3>10, <5>2 DEF ItemsGained, DiamondsGained, Exchanged
          <6> QED
            BY <3>4, <3>5, <3>6, <3>8, <4>2, <6>1, <6>2
        <5>3. CASE req.kind = "deposit"
          <6>1. Job.good = "diamond" /\ Job.amount = 0 /\ Job.want \in {"diamond", "nothing"}
            BY <4>1, <5>3 DEF Terms, DepositTerms, Trade
          <6>2. ItemsGained' = 0 /\ DiamondsGained' = 0 - n
            BY <1>1, <3>2, <3>10, <5>3 DEF ItemsGained, DiamondsGained, Exchanged
          <6> QED
            BY <3>4, <3>5, <3>6, <3>8, <4>2, <6>1, <6>2
        <5>4. CASE req.kind = "withdraw"
          <6>1. Job.good = "diamond" /\ Job.amount = Pulls(req) /\ Job.want = "nothing"
            BY <4>1, <5>4 DEF Terms, WithdrawTerms, Trade, Pulls
          <6>2. ItemsGained' = 0 /\ DiamondsGained' = Pulls(req)
            BY <1>1, <3>2, <3>10, <5>4 DEF ItemsGained, DiamondsGained, Exchanged
          <6> QED
            BY <3>4, <3>5, <3>6, <3>8, <4>2, <6>1, <6>2
        <5> QED
          BY <3>6, <5>1, <5>2, <5>3, <5>4 DEF Request, Kinds
      <4>4. Midway'
        BY <1>1, <3>8, <4>3 DEF Midway
      <4> QED
        BY <1>1, <3>10, <4>4 DEF Exchange, Remembered, CommitIsExchange, AbortIsNoExchange
    <3> QED
      BY <3>3, <3>9, <3>10
  <2> QED
    BY <2>2, <2>3, <2>4, <2>5 DEF BotSteps
<1> QED
  BY <1>4, <1>5, <1>6

(* Until it hears of an exchange the handler has none, and then it puts away
   what it heard of. *)
LEMMA TakesExchange ==
  ASSUME Inv, Channelled, Exchange, Takes
  PROVE  Exchange'
<1>1. /\ ~reply'.ok /\ UNCHANGED <<hand, balance, before>> /\ (astray => astray')
  <2>1. UNCHANGED <<balance, before, astray>>
    BY TakesLeave
  <2> QED
    BY <2>1, TakesLeave DEF Unused
<1>2. ASSUME UNCHANGED <<last, req>>, pc # "idle", pc' # "idle",
             \/ ~Exchanged /\ ~Exchanged'
             \/ pc \in {"bank", "push"} /\ pc' = pc /\ paid' = paid
             \/ pc = "push" /\ pc' = "giveback" /\ req.kind = "sell"
             \/ pc = "trade" /\ pc' = "bank" /\ paid' = reply.amount /\ reply.ok
                             /\ req.kind \in {"buy", "deposit"}
             \/ pc = "trade" /\ pc' = "push" /\ reply.ok /\ req.kind = "sell"
             \/ pc = "trade" /\ pc' = "settle" /\ reply.ok /\ req.kind = "withdraw"
      PROVE  Exchange'
  <2>1. ItemsGained' = ItemsGained /\ DiamondsGained' = DiamondsGained
    BY <1>1, <1>2 DEF ItemsGained, DiamondsGained, Exchanged
  <2> QED
    BY <1>1, <1>2, <2>1, MidwayOn
<1>3. CASE Pulled \/ PullFailed
  <2>1. /\ pc = "pull" /\ pc' \in {"pull", "tell", "trade", "return"} /\ UNCHANGED <<last, req>>
    BY <1>3 DEF Pulled, PullFailed, Goto, history
  <2> QED
    BY <1>1, <1>2, <2>1 DEF Exchanged
<1>4. CASE Returned \/ ReturnFailed
  <2>1. pc \in {"return", "bank"} /\ pc' = pc /\ UNCHANGED <<last, req, paid>>
    BY <1>4 DEF Returned, ReturnFailed, history
  <2> QED
    BY <1>2, <2>1 DEF Exchanged
<1>5. CASE Pushed \/ PushFailed
  <2>1. pc = "push" /\ pc' \in {"push", "giveback"} /\ UNCHANGED <<last, req, paid>>
    BY <1>5 DEF Pushed, PushFailed, history
  <2>2. req.kind = "sell"
    BY <2>1 DEF Inv, AtWork
  <2> QED
    BY <1>2, <2>1, <2>2
<1>6. CASE TradeFailed
  <2>1. pc = "trade" /\ ~Exchanged
    BY <1>6 DEF TradeFailed, Exchanged
  <2>2. CASE req.kind = "deposit"
    <3>1. Conclude(IF reply.late THEN "rolledback" ELSE "left")
      BY <1>6, <2>2 DEF TradeFailed
    <3> QED
      BY <1>1, <2>1, <3>1, EndsBefore
  <2>3. CASE req.kind # "deposit"
    <3>1. pc' = "return" /\ UNCHANGED <<req, last>>
      BY <1>6, <2>3 DEF TradeFailed, Goto
    <3> QED
      BY <1>2, <2>1, <3>1 DEF Exchanged
  <2> QED
    BY <2>2, <2>3
<1>7. CASE TradeDone
  <2>1. pc = "trade" /\ reply.ok /\ UNCHANGED <<req, last>>
    BY <1>7 DEF TradeDone
  <2>2. \/ req.kind \in {"buy", "deposit"} /\ pc' = "bank" /\ paid' = reply.amount
        \/ req.kind = "sell" /\ pc' = "push"
        \/ req.kind = "withdraw" /\ pc' = "settle"
    BY <1>7 DEF TradeDone, ToBank, ToChests, Goto
  <2> QED
    BY <1>2, <2>1, <2>2
<1> QED
  BY <1>3, <1>4, <1>5, <1>6, <1>7 DEF Takes

(* An order that is committed was exchanged as agreed. *)
LEMMA CommitsExchange ==
  ASSUME Inv, Channelled, Plans, Exchange, Commits
  PROVE  Exchange'
<1>1. UNCHANGED <<hand, before, astray>>
  <2>1. UNCHANGED <<before, astray>>
    BY CommitsLeave
  <2> QED
    BY <2>1, CommitsLeave DEF Unused
<1>2. /\ Conclude("committed") /\ left = 0 /\ pc \in {"bank", "push", "settle"}
  BY DEF Commits, CommitBuy, CommitDeposit, CommitSell, CommitWithdraw, Commit
<1>3. /\ pc' = "idle" /\ last' = [req |-> req, outcome |-> "committed", short |-> paid - returned]
      /\ last'.req = req /\ last'.outcome = "committed" /\ last'.short = paid - returned
  BY <1>2 DEF Conclude
<1>4. /\ hand["item"] \in Nat /\ hand["diamond"] \in Nat
      /\ before.hand["item"] \in Nat /\ before.hand["diamond"] \in Nat
      /\ before.value \in Int /\ balance \in Nat /\ paid \in Nat /\ returned \in Nat
      /\ req \in Request /\ req.qty \in Nat \ {0} /\ req.price \in Nat /\ Pulls(req) \in Nat
      /\ req \in Requests
  BY <1>2, Hands DEF Exchange, Inv, AtWork
<1>5. Remembered' /\ Midway'
  BY <1>1, <1>3, <1>4 DEF Exchange, Remembered, Midway
<1>6. AbortIsNoExchange'
  BY <1>3 DEF AbortIsNoExchange
<1>7. ASSUME ~astray
      PROVE  CommitIsExchange'
  <2>1. /\ hand["item"] = before.hand["item"] + ItemsGained
        /\ hand["diamond"] = before.hand["diamond"] + DiamondsGained
        /\ balance + Part * before.hand["diamond"] = before.value
    BY <1>2, <1>7 DEF Exchange, Midway
  <2>2. /\ Part * paid \in Nat /\ Part * returned \in Nat /\ Part * Pulls(req) \in Nat
        /\ Part * before.hand["diamond"] \in Nat
    <3>1. \A n \in Nat : Part * n \in Nat
      BY Parts
    <3> QED
      BY <1>4, <3>1
  <2>3. CASE CommitBuy
    <3>1. req.kind = "buy" /\ pc = "bank"
      BY <2>3 DEF CommitBuy
    <3>2. hand["item"] - before.hand["item"] = req.qty /\ hand["diamond"] = before.hand["diamond"] - paid
      BY <1>4, <2>1, <3>1 DEF ItemsGained, DiamondsGained, Exchanged
    <3>3. Part * hand["diamond"] = Part * before.hand["diamond"] - Part * paid
      <4>1. before.hand["diamond"] \in Int /\ paid \in Int
        BY <1>4
      <4>2. Part * (before.hand["diamond"] - paid)
              = Part * before.hand["diamond"] - Part * paid
        BY <4>1, Parts
      <4> QED
        BY <3>2, <4>2
    <3>4. /\ req.price <= Part * paid + balance
          /\ returned <= paid /\ Part * returned <= Part * paid
      <4>1. req.price <= Part * paid + balance
        BY <3>1 DEF Plans
      <4>2. returned <= paid
        BY <1>2, <1>4, <3>1 DEF Inv, Banked
      <4> QED
        BY <1>4, <4>1, <4>2, Parts
    <3>5. /\ Value' - before.value <= 0 - req.price
          /\ paid - returned = 0 => Value' - before.value = 0 - req.price
      <4>1. CASE req.price > Part * paid
        <5>1. balance' = balance - (req.price - Part * paid)
          BY <1>4, <2>2, <2>3, <3>4, <4>1 DEF CommitBuy, Deduction, Least
        <5>2. Value' = Part * hand["diamond"] + balance'
          BY <1>1 DEF Value
        <5> QED
          BY <1>4, <2>1, <2>2, <3>3, <5>1, <5>2
      <4>2. CASE req.price <= Part * paid
        <5>1. balance' = balance + Surplus
          BY <1>4, <2>2, <2>3, <4>2 DEF CommitBuy
        <5>2. Value' = Part * hand["diamond"] + balance'
          BY <1>1 DEF Value
        <5>3. /\ Surplus \in Int /\ Surplus - Part * paid <= 0 - req.price
              /\ paid = returned => Surplus - Part * paid = 0 - req.price
          BY <1>4, <2>2, <3>4, <4>2 DEF Surplus, AtLeast0
        <5> QED
          BY <1>4, <2>1, <2>2, <3>3, <5>1, <5>2, <5>3
      <4> QED
        BY <1>4, <2>2, <4>1, <4>2
    <3> QED
      BY <1>1, <1>3, <1>4, <3>1, <3>2, <3>5 DEF CommitIsExchange
  <2>4. CASE CommitDeposit
    <3>1. req.kind = "deposit" /\ pc = "bank" /\ balance' = balance + Part * returned
      BY <2>4 DEF CommitDeposit
    <3>2. hand["item"] - before.hand["item"] = 0 /\ hand["diamond"] = before.hand["diamond"] - paid
      BY <1>4, <2>1, <3>1 DEF ItemsGained, DiamondsGained, Exchanged
    <3>3. Part * hand["diamond"] = Part * before.hand["diamond"] - Part * paid
      <4>1. before.hand["diamond"] \in Int /\ paid \in Int
        BY <1>4
      <4>2. Part * (before.hand["diamond"] - paid)
              = Part * before.hand["diamond"] - Part * paid
        BY <4>1, Parts
      <4> QED
        BY <3>2, <4>2
    <3>4. returned <= paid /\ Part * returned <= Part * paid
      <4>1. returned <= paid
        BY <1>2, <1>4, <3>1 DEF Inv, Banked
      <4> QED
        BY <1>4, <4>1, Parts
    <3>5. Value' = Part * hand["diamond"] + balance'
      BY <1>1 DEF Value
    <3>6. /\ Value' - before.value <= 0
          /\ paid - returned = 0 => Value' - before.value = 0
      BY <1>4, <2>1, <2>2, <3>1, <3>3, <3>4, <3>5
    <3> QED
      BY <1>1, <1>3, <1>4, <3>1, <3>2, <3>6 DEF CommitIsExchange
  <2>5. CASE CommitSell
    <3>1. req.kind = "sell" /\ pc = "push" /\ balance' = balance + Frac(req.price)
      BY <2>5 DEF CommitSell, Inv, AtWork
    <3>2. /\ hand["item"] - before.hand["item"] = 0 - req.qty
          /\ hand["diamond"] = before.hand["diamond"] + Pulls(req)
      BY <1>4, <2>1, <3>1 DEF ItemsGained, DiamondsGained, Exchanged
    <3>3. Part * hand["diamond"] = Part * before.hand["diamond"] + Part * Pulls(req)
      <4>1. before.hand["diamond"] \in Int /\ Pulls(req) \in Int
        BY <1>4
      <4>2. Part * (before.hand["diamond"] + Pulls(req))
              = Part * before.hand["diamond"] + Part * Pulls(req)
        BY <4>1, Parts
      <4> QED
        BY <3>2, <4>2
    <3>4. req.price = Part * Pulls(req) + Frac(req.price) /\ Frac(req.price) \in Nat
      BY <1>4, <3>1, Divided DEF Pulls
    <3>5. Value' = Part * hand["diamond"] + balance'
      BY <1>1 DEF Value
    <3>6. Value' - before.value = req.price
      BY <1>4, <2>1, <2>2, <3>1, <3>3, <3>4, <3>5
    <3> QED
      BY <1>1, <1>3, <1>4, <3>1, <3>2, <3>6 DEF CommitIsExchange
  <2>6. CASE CommitWithdraw
    <3>1. req.kind = "withdraw" /\ pc = "settle" /\ balance' = balance - Part * req.qty
          /\ Pulls(req) = req.qty
      BY <2>6 DEF CommitWithdraw, Inv, AtWork, Pulls
    <3>2. /\ hand["item"] - before.hand["item"] = 0
          /\ hand["diamond"] = before.hand["diamond"] + req.qty
      BY <1>4, <2>1, <3>1 DEF ItemsGained, DiamondsGained, Exchanged
    <3>3. Part * hand["diamond"] = Part * before.hand["diamond"] + Part * req.qty
      <4>1. before.hand["diamond"] \in Int /\ req.qty \in Int
        BY <1>4
      <4>2. Part * (before.hand["diamond"] + req.qty)
              = Part * before.hand["diamond"] + Part * req.qty
        BY <4>1, Parts
      <4> QED
        BY <3>2, <4>2
    <3>4. Value' = Part * hand["diamond"] + balance'
      BY <1>1 DEF Value
    <3>5. Value' - before.value = 0
      BY <1>4, <2>1, <2>2, <3>1, <3>3, <3>4
    <3> QED
      BY <1>1, <1>3, <1>4, <3>1, <3>2, <3>5 DEF CommitIsExchange
  <2> QED
    BY <2>3, <2>4, <2>5, <2>6 DEF Commits
<1>8. CommitIsExchange'
  <2>1. CASE astray
    BY <1>1, <2>1 DEF CommitIsExchange
  <2> QED
    BY <1>7, <2>1
<1> QED
  BY <1>5, <1>6, <1>8 DEF Exchange

(* A sell that was unwound is paid in full. *)
LEMMA UnwoundExchange ==
  ASSUME Inv, Channelled, Exchange, SellUnwound
  PROVE  Exchange'
<1>1. UNCHANGED <<hand, before, astray>>
  BY DEF SellUnwound, world
<1>2. /\ Conclude("rolledback") /\ pc = "giveback" /\ balance' = balance + Frac(req.price)
      /\ req.kind = "sell"
  BY DEF SellUnwound, Inv, AtWork
<1>3. /\ pc' = "idle" /\ last' = [req |-> req, outcome |-> "rolledback", short |-> paid - returned]
      /\ last'.req = req /\ last'.outcome = "rolledback"
  BY <1>2 DEF Conclude
<1>4. /\ hand["item"] \in Nat /\ hand["diamond"] \in Nat
      /\ before.hand["item"] \in Nat /\ before.hand["diamond"] \in Nat
      /\ before.value \in Int /\ balance \in Nat /\ paid \in Nat /\ returned \in Nat
      /\ req.qty \in Nat \ {0} /\ req.price \in Nat /\ Pulls(req) \in Nat /\ req \in Requests
  BY <1>2, Hands DEF Exchange, Inv, AtWork
<1>5. Remembered' /\ Midway'
  BY <1>1, <1>3, <1>4 DEF Exchange, Remembered, Midway
<1>6. CommitIsExchange'
  BY <1>3 DEF CommitIsExchange
<1>7. ASSUME ~astray
      PROVE  /\ Value' = before.value + req.price
             /\ before.hand["item"] - hand["item"] \in {0, req.qty}
  <2>1. /\ hand["item"] = before.hand["item"] + ItemsGained
        /\ hand["diamond"] = before.hand["diamond"] + DiamondsGained
        /\ balance + Part * before.hand["diamond"] = before.value
    BY <1>2, <1>7 DEF Exchange, Midway
  <2>2. ItemsGained \in {0, 0 - req.qty} /\ DiamondsGained = Pulls(req)
    BY <1>2 DEF ItemsGained, DiamondsGained, Exchanged
  <2>3. Part * hand["diamond"] = Part * before.hand["diamond"] + Part * Pulls(req)
    <3>1. before.hand["diamond"] \in Int /\ Pulls(req) \in Int
      BY <1>4
    <3>2. Part * (before.hand["diamond"] + Pulls(req))
            = Part * before.hand["diamond"] + Part * Pulls(req)
      BY <3>1, Parts
    <3> QED
      BY <2>1, <2>2, <3>2
  <2>4. Part * before.hand["diamond"] \in Int /\ Part * Pulls(req) \in Int
    <3>1. \A n \in Nat : Part * n \in Int
      BY Parts
    <3> QED
      BY <1>4, <3>1
  <2>5. req.price = Part * Pulls(req) + Frac(req.price) /\ Frac(req.price) \in Nat
    BY <1>2, <1>4, Divided DEF Pulls
  <2>6. Value' = Part * hand["diamond"] + balance + Frac(req.price)
    <3>1. Value' = Part * hand["diamond"] + balance'
      BY <1>1 DEF Value
    <3> QED
      BY <1>2, <1>4, <2>3, <2>4, <2>5, <3>1
  <2>7. Value' = before.value + req.price
    BY <1>4, <2>1, <2>3, <2>4, <2>5, <2>6
  <2>8. before.hand["item"] - hand["item"] \in {0, req.qty}
    BY <1>4, <2>1, <2>2
  <2> QED
    BY <2>7, <2>8
<1>8. AbortIsNoExchange'
  BY <1>1, <1>2, <1>3, <1>7 DEF AbortIsNoExchange
<1> QED
  BY <1>5, <1>6, <1>8 DEF Exchange

(* An order begins with nothing exchanged. *)
LEMMA StartExchange ==
  ASSUME Inv, Channelled, Exchange, NEW r \in Requests, Start(r)
  PROVE  Exchange'
<1>1. /\ pc = "idle" /\ before' = Now /\ UNCHANGED <<hand, balance, reply, last>>
      /\ pc' \in {"pull", "trade"}
  BY DEF Start, Goto, world, books
<1>2. ~reply'.ok
  BY <1>1 DEF Inv, Asked, Loops
<1>3. ItemsGained' = 0 /\ DiamondsGained' = 0
  BY <1>1, <1>2 DEF ItemsGained, DiamondsGained, Exchanged
<1>4. hand \in Stowage /\ Value \in Int /\ Liabilities \in Int /\ chest["diamond"] \in Nat
  <2>1. \A n \in Nat : Part * n \in Int
    BY Parts
  <2>2. /\ hand \in Stowage /\ hand["diamond"] \in Nat /\ chest["diamond"] \in Nat
        /\ balance \in Int /\ currency_stock \in Int
    BY DEF Inv, Typed, TypeOK, Stowage, Goods
  <2> QED
    BY <2>1, <2>2 DEF Value, Liabilities
<1>5. before'.hand = hand /\ before'.value = Value
  BY <1>1 DEF Now
<1>6. Remembered'
  <2>1. bot \in Stowage
    BY DEF Inv, Typed, TypeOK
  <2> QED
    BY <1>1, <1>4, <2>1 DEF Exchange, Remembered, Now
<1>7. Midway'
  <2>1. hand["item"] \in Nat /\ hand["diamond"] \in Nat
    BY <1>4 DEF Stowage, Goods
  <2>2. Value = Part * hand["diamond"] + balance /\ Part * hand["diamond"] \in Int /\ balance \in Int
    <3>1. \A n \in Nat : Part * n \in Int
      BY Parts
    <3> QED
      BY <2>1, <3>1 DEF Value, Inv, Typed, TypeOK
  <2> QED
    BY <1>1, <1>3, <1>5, <2>1, <2>2 DEF Midway
<1>8. CommitIsExchange' /\ AbortIsNoExchange'
  BY <1>1 DEF CommitIsExchange, AbortIsNoExchange
<1> QED
  BY <1>6, <1>7, <1>8 DEF Exchange

(* The exchange is kept by every step. *)
LEMMA ExchangeStep ==
  ASSUME Inv, Channelled, Plans, Exchange, [Next]_vars
  PROVE  Exchange'
<1>1. CASE BotSteps
  BY <1>1, BotExchange
<1>2. CASE AskChest \/ AskTrade
  <2>1. /\ UNCHANGED <<hand, balance, before, last, astray, pc, req, paid, reply>>
        /\ pc # "idle"
    BY <1>2, ChannelSent DEF AskChest, AskTrade, world, books, history, handler, Loops
  <2>2. ItemsGained' = ItemsGained /\ DiamondsGained' = DiamondsGained
    BY <2>1 DEF ItemsGained, DiamondsGained, Exchanged
  <2> QED
    BY <2>1, <2>2, MidwayOn
<1>3. CASE Timeout
  <2>1. /\ UNCHANGED <<hand, balance, before, last, astray, pc, req, paid>>
        /\ awaiting /\ ~reply'.ok
    BY <1>3 DEF Timeout, world, books, handler, TooLate, No
  <2>2. pc # "idle" /\ ~reply.ok
    BY <2>1 DEF Inv, Asked, Loops
  <2>3. ItemsGained' = ItemsGained /\ DiamondsGained' = DiamondsGained
    BY <2>1, <2>2 DEF ItemsGained, DiamondsGained, Exchanged
  <2> QED
    BY <2>1, <2>2, <2>3, MidwayOn
<1>4. CASE Watchdog
  <2>1. /\ Conclude("left") /\ pc # "idle" /\ UNCHANGED <<hand, balance, before>>
        /\ awaiting \/ pc = "tell" \/ AtSend
        /\ ~astray' => ~astray /\ pc \notin {"push", "bank", "giveback"}
    BY <1>4 DEF Watchdog, world, books
  <2>2. ~reply.ok /\ pc # "settle"
    BY <2>1 DEF AtSend, Idle, Inv, Asked, Loops
  <2>3. ~astray' => ~Exchanged
    BY <2>1, <2>2 DEF Exchanged
  <2> QED
    BY <2>1, <2>3, EndsBefore
<1>5. CASE Takes
  BY <1>5, TakesExchange
<1>6. CASE Commits
  BY <1>6, CommitsExchange
<1>7. CASE \E r \in Requests : Start(r)
  BY <1>7, StartExchange
<1>8. CASE Audit
  <2>1. UNCHANGED <<hand, balance, before, last, pc, astray>> /\ pc = "idle"
    BY <1>8 DEF Audit, world, handler, history
  <2> QED
    BY <2>1, ExchangeIdle
<1>9. CASE Tell
  <2>1. /\ UNCHANGED <<hand, balance, before, last, req, paid, reply, astray>>
        /\ pc = "tell" /\ pc' = "trade"
    BY <1>9 DEF Tell, world, books, history
  <2>2. ~reply.ok
    BY <2>1 DEF Inv, Asked, Loops
  <2>3. ItemsGained' = ItemsGained /\ DiamondsGained' = DiamondsGained
    BY <2>1, <2>2 DEF ItemsGained, DiamondsGained, Exchanged
  <2> QED
    BY <2>1, <2>3, MidwayOn
<1>10. CASE TellFails \/ DepositLost \/ ReturnEnds
  <2>1. /\ UNCHANGED <<hand, balance, before, astray>> /\ pc # "idle"
        /\ \E outcome \in {"rolledback", "left"} : Conclude(outcome)
        /\ pc \in {"tell", "return"} \/ (pc = "bank" /\ req.kind = "deposit" /\ returned = 0)
    BY <1>10 DEF TellFails, DepositLost, ReturnEnds, world, books
  <2>2. ~Exchanged \/ paid > returned
    BY <2>1 DEF Exchanged, Plans
  <2> QED
    BY <2>1, <2>2, EndsBefore
<1>11. CASE SellUnwound
  BY <1>11, UnwoundExchange
<1>12. CASE UNCHANGED vars
  <2>1. UNCHANGED <<hand, balance, before, last, pc, req, paid, reply, astray>>
    BY <1>12, Stutter
  <2>2. ItemsGained' = ItemsGained /\ DiamondsGained' = DiamondsGained
    BY <2>1 DEF ItemsGained, DiamondsGained, Exchanged
  <2> QED
    BY <2>1, <2>2, MidwayOn, ExchangeIdle
<1> QED
  BY <1>1, <1>2, <1>3, <1>4, <1>5, <1>6, <1>7, <1>8, <1>9, <1>10, <1>11, <1>12, Steps DEF Quiet

---------------------------------------------------------------------------
(* The credit. *)

(* Diamonds of the order that reached the chests, less those that left them. *)
Stored ==
  IF pc = "bank" THEN returned + Moved
  ELSE IF pc \in {"push", "settle"} THEN 0 - Pulls(req)
  ELSE IF Gives(req.kind) = "item" THEN 0
  ELSE IF pc = "pull" THEN 0 - (done + Moved)
  ELSE 0 - Pulls(req)

(* The steps on the way to a commit. *)
Ahead == pc \in {"pull", "tell", "trade", "bank", "push", "settle"} /\ ~(pc = "pull" /\ Failed)

(* As long as no instruction was given up, the books wait for the commit, and
   the chests have gained what the order has stored, or more. *)
Credit ==
  "late" \notin doubt =>
    /\ pc = "idle" /\ last.outcome = "committed" =>
         Liabilities <= before.owed + Part * Gained + Overpaid
    /\ Ahead => Liabilities = before.owed /\ Stored <= Gained

(* Numbers of the credit. *)
LEMMA Credits ==
  ASSUME Inv, Remembered
  PROVE  /\ before.owed \in Int /\ before.stored \in Nat
         /\ balance \in Int /\ currency_stock \in Int
         /\ chest["diamond"] \in Nat /\ Gained \in Int
         /\ Moved \in Nat /\ returned \in Nat /\ done \in Nat
         /\ pc # "idle" => /\ Pulls(req) \in Nat /\ Stored \in Int /\ Part * Stored \in Int
                           /\ req \in Request /\ req.price \in Nat
<1>1. /\ balance \in Int /\ currency_stock \in Int
      /\ before.owed \in Int /\ before.stored \in Nat
  BY DEF Inv, Typed, TypeOK, Remembered
<1>2. /\ "diamond" \in Goods
  BY DEF Goods
<1>3. chest["diamond"] \in Nat /\ Moved \in Nat /\ returned \in Nat /\ done \in Nat
  BY <1>2, Amounts
<1>4. \A n \in Int : Part * n \in Int
  BY Parts
<1>5. Gained \in Int
  BY <1>1, <1>3 DEF Gained
<1>6. ASSUME pc # "idle"
      PROVE  /\ Pulls(req) \in Nat /\ Stored \in Int /\ req \in Request /\ req.price \in Nat
  <2>1. Pulls(req) \in Nat /\ req \in Request /\ req.price \in Nat
    BY <1>6, Wanted DEF Inv
  <2> QED
    BY <1>3, <2>1 DEF Stored
<1> QED
  BY <1>1, <1>3, <1>4, <1>5, <1>6

(* Neither the books nor the chests change, and the order goes on. *)
LEMMA CreditOn ==
  ASSUME Credit, UNCHANGED <<balance, currency_stock, chest, before>>,
         doubt \subseteq doubt', pc' # "idle",
         Ahead' => Ahead /\ Stored' = Stored
  PROVE  Credit'
<1>1. Gained' = Gained /\ Liabilities' = Liabilities
  BY DEF Gained, Liabilities
<1> QED
  BY <1>1 DEF Credit

(* An order that ends without a commit is credited nothing. *)
LEMMA CreditEnds ==
  ASSUME NEW outcome \in {"rolledback", "left"}, Conclude(outcome)
  PROVE  Credit'
<1>1. pc' = "idle" /\ last'.outcome = outcome
  BY DEF Conclude
<1> QED
  BY <1>1 DEF Credit, Ahead

(* The chests gain at least what the order has stored. *)
LEMMA CreditMoves ==
  ASSUME Inv, Remembered, Credit, UNCHANGED <<balance, currency_stock, before, pc>>,
         doubt \subseteq doubt', pc # "idle", Ahead,
         NEW n \in Int, chest'["diamond"] = chest["diamond"] + n,
         Stored' \in Int, Stored' <= Stored + n
  PROVE  Credit'
<1>1. /\ before.stored \in Nat /\ chest["diamond"] \in Nat /\ Gained \in Int
      /\ Stored \in Int
  BY Credits
<1>2. Gained' = Gained + n
  BY <1>1 DEF Gained
<1>3. Liabilities' = Liabilities
  BY DEF Liabilities
<1>4. ASSUME "late" \notin doubt
      PROVE  Liabilities' = before'.owed /\ Stored' <= Gained'
  <2>1. Liabilities = before.owed /\ Stored <= Gained
    BY <1>4 DEF Credit
  <2> QED
    BY <1>1, <1>2, <1>3, <2>1
<1> QED
  BY <1>4 DEF Credit

(* The bot moves as much as it says, or more. *)
LEMMA BotCredit ==
  ASSUME Inv, Channelled, Remembered, Credit, BotSteps, "late" \notin doubt
  PROVE  Credit'
<1>1. /\ UNCHANGED <<handler, pc, req, left, done, returned, paid, doubt, before, last>>
      /\ UNCHANGED <<balance, currency_stock, twice>>
      /\ jobs # <<>> /\ \E r : Answer(r)
  BY BotAnswers DEF handler, books
<1>2. Heard
  <2>1. PICK r : Answer(r)
    BY <1>1
  <2> QED
    BY <1>1, <2>1, ChannelAnswered DEF handler
<1>3. /\ Job.good \in Goods /\ ~reply.given /\ ~reply.ok /\ Cargo' = Cargo
      /\ pc \in Loops => /\ Job.op = IF pc = "pull" THEN "withdraw" ELSE "deposit"
                         /\ Job.good = Cargo /\ Job.amount \in 1 .. left
                         /\ ~BotRefused /\ ~BotExchanged /\ ~BotCancelled
      /\ pc \notin Loops => pc \in {"trade", "giveback"} /\ ~BotMoves
  BY <1>2, HeardJob
<1>4. CASE pc \notin Loops
  <2>1. chest' = chest
    BY <1>3, <1>4 DEF BotSteps, BotRefused, BotExchanged, BotCancelled
  <2>2. Stored' = Stored /\ pc \in {"trade", "giveback"} /\ pc' # "idle"
    BY <1>1, <1>3, <1>4 DEF Stored
  <2>3. Ahead' => Ahead
    BY <1>1, <2>2 DEF Ahead
  <2> QED
    BY <1>1, <2>1, <2>2, <2>3, CreditOn
<1>5. CASE pc \in Loops
  <2>1. BotMoves
    BY <1>3, <1>5 DEF BotSteps
  <2>2. /\ chest \in Stowage /\ bot \in Stowage /\ left \in Nat
        /\ Cargo = "diamond" => chest["diamond"] \in Nat /\ bot["diamond"] \in Nat
    BY DEF Inv, Typed, TypeOK, Stowage, Goods
  <2>3. PICK n \in Nat :
          /\ n <= Job.amount
          /\ chest' = Add(chest, Cargo, IF pc = "pull" THEN 0 - n ELSE n)
          /\ \/ n = Job.amount /\ Answer(Yes(n))
             \/ Answer(No(Job.amount))
    <3>1. Job.amount \in Nat
      BY <1>3, <1>5, <2>2
    <3>2. Least(Job.amount, IF Job.op = "withdraw" THEN chest[Job.good] ELSE bot[Job.good]) \in Nat
      BY <1>3, <3>1, Amounts DEF Least
    <3>3. Least(Job.amount, IF Job.op = "withdraw" THEN chest[Job.good] ELSE bot[Job.good])
            <= Job.amount
      BY <1>3, <3>1, Amounts DEF Least
    <3> DEFINE max == Least(Job.amount, IF Job.op = "withdraw" THEN chest[Job.good]
                                        ELSE bot[Job.good])
    <3>4. PICK n \in IF "chest" \in Faults THEN 0 .. max ELSE {max} :
            /\ IF Job.op = "withdraw" THEN chest' = Add(chest, Job.good, -n)
               ELSE chest' = Add(chest, Job.good, n)
            /\ \/ n = Job.amount /\ Answer(Yes(n))
               \/ Answer(No(Job.amount))
      BY <2>1 DEF BotMoves
    <3> HIDE DEF max
    <3>5. n \in Nat /\ n <= Job.amount
      BY <3>1, <3>2, <3>3, <3>4 DEF max
    <3>6. -n = 0 - n
      BY <3>5
    <3> QED
      BY <1>3, <1>5, <3>4, <3>5, <3>6
  <2>4. /\ reply' \in {Yes(n), No(Job.amount)}
        /\ reply'.ok => n = Job.amount /\ reply'.amount = n
        /\ reply'.given
    BY <1>2, <2>3 DEF Answer, Yes, No
  <2>5. Moved = 0 /\ Moved' = IF reply'.ok THEN n ELSE 0
    BY <1>1, <1>3, <1>5, <2>4 DEF Moved
  <2>6. Failed' = ~reply'.ok
    BY <1>1, <1>5, <2>4, ZenonT(30) DEF Failed
  <2>7. pc # "idle" /\ pc' = pc
    BY <1>1, <1>5 DEF Loops
  <2>8. CASE Cargo # "diamond" \/ n = 0
    <3>1. chest'["diamond"] = chest["diamond"]
      BY <1>3, <1>5, <2>2, <2>3, <2>8 DEF Add, Stowage, Goods
    <3>2. Gained' = Gained /\ Liabilities' = Liabilities /\ before' = before
      BY <1>1, <3>1 DEF Gained, Liabilities
    <3>3. Ahead' => Ahead
      BY <1>1, <1>3 DEF Ahead, Failed
    <3>4. Ahead' => Stored' = Stored
      <4>1. n = 0 => Moved' = Moved
        BY <2>5
      <4>2. pc = "bank" => Cargo = "diamond"
        BY DEF Cargo
      <4>3. pc = "pull" => Cargo = Gives(req.kind)
        BY DEF Cargo
      <4>4. Gives(req.kind) \in {"item", "diamond"}
        BY DEF Gives
      <4> QED
        BY <1>1, <2>8, <4>1, <4>2, <4>3, <4>4 DEF Stored
    <3> QED
      BY <1>1, <2>7, <3>2, <3>3, <3>4 DEF Credit
  <2>9. CASE Cargo = "diamond" /\ pc = "pull"
    <3> SUFFICES ASSUME reply'.ok PROVE Credit'
      BY <2>6, <2>7, <2>9 DEF Credit, Ahead
    <3>1. chest'["diamond"] = chest["diamond"] - n /\ chest["diamond"] \in Nat
      BY <2>2, <2>3, <2>9 DEF Add, Stowage, Goods
    <3>2. Gives(req.kind) = "diamond"
      BY <2>9 DEF Cargo
    <3>3. Stored = 0 - done /\ Stored' = 0 - (done + n) /\ Stored' = Stored - n
      BY <1>1, <2>5, <2>9, <3>2, Credits DEF Stored
    <3>4. Ahead
      BY <1>3, <2>9 DEF Ahead, Failed
    <3>5. /\ 0 - n \in Int /\ chest'["diamond"] = chest["diamond"] + (0 - n)
          /\ Stored' \in Int /\ Stored' <= Stored + (0 - n)
      BY <3>1, <3>3, Credits
    <3>6. UNCHANGED <<balance, currency_stock, before, pc>> /\ doubt \subseteq doubt'
      BY <1>1
    <3> QED
      BY <2>7, <3>4, <3>5, <3>6, CreditMoves
  <2>10. CASE Cargo = "diamond" /\ pc = "bank"
    <3>1. chest'["diamond"] = chest["diamond"] + n /\ chest["diamond"] \in Nat
      BY <2>2, <2>3, <2>10 DEF Add, Stowage, Goods
    <3>2. Stored = returned /\ Stored' \in {returned, returned + n}
      BY <1>1, <2>5, <2>10, Credits DEF Stored
    <3>4. Ahead
      BY <1>3, <2>10 DEF Ahead, Failed
    <3>5. /\ n \in Int /\ chest'["diamond"] = chest["diamond"] + n
          /\ Stored' \in Int /\ Stored' <= Stored + n
      BY <3>1, <3>2, Credits
    <3>6. UNCHANGED <<balance, currency_stock, before, pc>> /\ doubt \subseteq doubt'
      BY <1>1
    <3> QED
      BY <2>7, <3>4, <3>5, <3>6, CreditMoves
  <2>11. CASE pc = "return"
    BY <2>7, <2>11 DEF Credit, Ahead
  <2>12. pc = "push" => Cargo # "diamond"
    BY DEF Cargo
  <2> QED
    BY <1>5, <2>8, <2>9, <2>10, <2>11, <2>12 DEF Loops
<1> QED
  BY <1>4, <1>5

(* An answer is counted once. *)
LEMMA TakesCredit ==
  ASSUME Inv, Channelled, Plans, Remembered, Credit, Takes
  PROVE  Credit'
<1>1. /\ UNCHANGED <<balance, currency_stock, chest, before>> /\ doubt \subseteq doubt'
      /\ ~reply'.ok /\ ~reply'.given
  <2>1. UNCHANGED <<balance, currency_stock, before>> /\ ~reply'.given
    BY TakesLeave
  <2> QED
    BY <2>1, TakesLeave DEF Unused
<1>2. Moved' = 0
  BY <1>1 DEF Moved
<1>3. pc # "idle"
  BY DEF Takes, Pulled, PullFailed, Returned, ReturnFailed, Pushed, PushFailed, TradeFailed,
         TradeDone
<1>4. /\ done \in Nat /\ returned \in Nat /\ reply.amount \in Nat /\ Pulls(req) \in Nat
      /\ req \in Request /\ left \in Nat
  <2>1. left \in Nat /\ reply.amount \in Nat
    BY DEF Inv, Typed, TypeOK, Answers
  <2> QED
    BY <1>3, <2>1, Credits
<1>5. CASE Pulled
  <2>1. /\ pc = "pull" /\ reply.ok /\ done' = done + reply.amount
        /\ left' = left - reply.amount
        /\ pc' = IF left' > 0 THEN "pull" ELSE IF req.kind = "buy" THEN "tell" ELSE "trade"
        /\ UNCHANGED <<req, returned>>
    BY <1>5 DEF Pulled
  <2>2. left' \in Nat /\ done + left = Pulls(req)
    BY <1>1, <2>1, Heeded DEF Loops, Plans, Inv, Asked
  <2>3. Moved = reply.amount
    BY <2>1 DEF Moved, Loops
  <2>4. Stored' = Stored
    <3>1. CASE Gives(req.kind) = "item"
      BY <2>1, <3>1 DEF Stored
    <3>2. CASE Gives(req.kind) # "item"
      <4>1. Stored = 0 - (done + reply.amount)
        BY <2>1, <2>3, <3>2 DEF Stored
      <4>2. pc' = "pull" => Stored' = 0 - (done' + 0)
        BY <1>2, <2>1, <3>2 DEF Stored
      <4>3. pc' # "pull" => Stored' = 0 - Pulls(req)
        BY <1>2, <2>1, <3>2 DEF Stored, Pulls
      <4>4. pc' # "pull" => done' = Pulls(req)
        BY <1>4, <2>1, <2>2
      <4> QED
        BY <1>4, <2>1, <4>1, <4>2, <4>3, <4>4
    <3> QED
      BY <3>1, <3>2
  <2>5. Ahead
    BY <2>1 DEF Ahead, Failed
  <2> QED
    BY <1>1, <2>1, <2>4, <2>5, CreditOn
<1>6. CASE PullFailed \/ PushFailed
  <2>1. pc' \in {"return", "giveback"}
    BY <1>6 DEF PullFailed, PushFailed, Goto
  <2> QED
    BY <2>1 DEF Credit, Ahead
<1>7. CASE Returned \/ ReturnFailed
  <2>1. /\ pc \in {"return", "bank"} /\ pc' = pc
        /\ returned' = IF reply.ok THEN returned + reply.amount ELSE returned
    BY <1>7 DEF Returned, ReturnFailed
  <2>2. pc = "bank" => Stored' = Stored /\ Ahead
    <3>1. Moved = IF reply.ok THEN reply.amount ELSE 0
      BY <2>1 DEF Moved, Loops
    <3> QED
      BY <1>2, <1>4, <2>1, <3>1 DEF Stored, Ahead
  <2>3. pc = "return" => ~Ahead'
    BY <2>1 DEF Ahead
  <2> QED
    BY <1>1, <1>3, <2>1, <2>2, <2>3, CreditOn
<1>8. CASE Pushed
  <2>1. pc = "push" /\ UNCHANGED <<pc, req>>
    BY <1>8 DEF Pushed
  <2>2. Stored' = Stored /\ Ahead
    BY <2>1 DEF Stored, Ahead, Pulls
  <2> QED
    BY <1>1, <1>3, <2>1, <2>2, CreditOn
<1>9. CASE TradeFailed
  <2>1. CASE req.kind = "deposit"
    <3>1. Conclude(IF reply.late THEN "rolledback" ELSE "left")
      BY <1>9, <2>1 DEF TradeFailed
    <3> QED
      BY <3>1, CreditEnds
  <2>2. CASE req.kind # "deposit"
    <3>1. pc' = "return"
      BY <1>9, <2>2 DEF TradeFailed, Goto
    <3> QED
      BY <3>1 DEF Credit, Ahead
  <2> QED
    BY <2>1, <2>2
<1>10. CASE TradeDone
  <2>1. pc = "trade" /\ UNCHANGED <<req, returned>> /\ returned = 0
    BY <1>10 DEF TradeDone, Inv, AtWork
  <2>2. \/ req.kind \in {"buy", "deposit"} /\ pc' = "bank"
        \/ req.kind = "sell" /\ pc' = "push"
        \/ req.kind = "withdraw" /\ pc' = "settle"
    BY <1>10 DEF TradeDone, ToBank, ToChests, Goto
  <2>3. Stored' = Stored
    <3>1. CASE pc' = "bank"
      <4>1. Stored' = 0
        BY <1>2, <2>1, <3>1 DEF Stored
      <4>2. Stored = 0
        BY <2>1, <2>2, <3>1 DEF Stored, Gives, Pulls
      <4> QED
        BY <4>1, <4>2
    <3>2. CASE pc' \in {"push", "settle"}
      BY <2>1, <2>2, <3>2 DEF Stored, Gives, Pulls
    <3> QED
      BY <2>2, <3>1, <3>2
  <2>4. Ahead
    BY <2>1 DEF Ahead
  <2> QED
    BY <1>1, <2>2, <2>3, <2>4, CreditOn
<1> QED
  BY <1>5, <1>6, <1>7, <1>8, <1>9, <1>10 DEF Takes

(* What a commit credits is what was stored. *)
LEMMA CommitsCredit ==
  ASSUME Inv, Channelled, Remembered, Credit, Commits
  PROVE  Credit'
<1>1. /\ UNCHANGED <<chest, before, doubt>> /\ ~reply.given
  <2>1. UNCHANGED <<before, doubt>> /\ ~reply.given
    BY CommitsLeave
  <2> QED
    BY <2>1, CommitsLeave DEF Unused
<1>2. /\ Conclude("committed") /\ pc \in {"bank", "push", "settle"}
  BY DEF Commits, CommitBuy, CommitDeposit, CommitSell, CommitWithdraw, Commit
<1>3. pc' = "idle" /\ Ahead
  BY <1>2 DEF Conclude, Ahead
<1>4. /\ before.owed \in Int /\ Gained \in Int /\ Stored \in Int
      /\ balance \in Int /\ currency_stock \in Int
      /\ returned \in Nat /\ Pulls(req) \in Nat /\ Part * Stored \in Int
      /\ req \in Request /\ req.price \in Nat /\ req.qty \in Nat /\ paid \in Nat
  <2>1. pc # "idle"
    BY <1>2
  <2>2. req \in Request
    BY <2>1, Credits
  <2> QED
    BY <2>1, <2>2, Credits DEF Inv, Typed, TypeOK, Request
<1>5. Moved = 0
  BY <1>1 DEF Moved, Inv, Asked
<1> DEFINE Again(n) == IF req.kind = "buy" THEN AtLeast0(Part * n - req.price) ELSE 0
<1>6. Liabilities' <= Liabilities + Part * Stored + Again(Stored)
  <2>1. /\ Part * returned \in Int /\ Part * paid \in Int /\ Part * Pulls(req) \in Int
        /\ Part * (0 - Pulls(req)) = 0 - Part * Pulls(req)
    <3>1. \A n \in Nat : Part * n \in Int /\ Part * (0 - n) = 0 - Part * n
      <4>1. ASSUME NEW n \in Nat PROVE Part * n \in Int /\ Part * (0 - n) = Part * 0 - Part * n
        BY Parts
      <4>2. Part * 0 = 0
        BY PartAssumption
      <4> QED
        BY <4>1, <4>2
    <3> QED
      BY <1>4, <3>1
  <2>2. CASE CommitBuy
    <3>1. Stored = returned /\ req.kind = "buy"
      BY <1>4, <1>5, <2>2 DEF CommitBuy, Stored
    <3>2. Deduction \in Int /\ Surplus \in Nat /\ Surplus = Again(Stored)
      BY <1>4, <2>1, <3>1 DEF Deduction, Surplus, Least, AtLeast0
    <3>3. \/ /\ balance' = balance - Deduction
             /\ currency_stock' = currency_stock + Part * returned + Deduction
          \/ /\ balance' = balance + Surplus
             /\ currency_stock' = currency_stock + Part * returned
      BY <2>2 DEF CommitBuy
    <3> QED
      BY <1>4, <2>1, <3>1, <3>2, <3>3 DEF Liabilities
  <2>3. ASSUME req.kind # "buy",
               balance' + currency_stock' = balance + currency_stock + Part * Stored
        PROVE  Liabilities' <= Liabilities + Part * Stored + Again(Stored)
    BY <1>4, <2>3 DEF Liabilities
  <2>4. CASE CommitDeposit
    <3>1. Stored = returned /\ req.kind = "deposit"
      BY <1>4, <1>5, <2>4 DEF CommitDeposit, Stored
    <3> QED
      BY <1>4, <2>1, <2>3, <2>4, <3>1 DEF CommitDeposit
  <2>5. CASE CommitSell
    <3>1. Stored = 0 - Pulls(req) /\ req.kind = "sell"
      BY <2>5 DEF CommitSell, Stored, Inv, AtWork
    <3>2. req.price = Part * Pulls(req) + Frac(req.price) /\ Frac(req.price) \in Nat
      BY <1>4, <3>1, Divided DEF Pulls
    <3>3. balance' = balance + Frac(req.price) /\ currency_stock' = currency_stock - req.price
      BY <2>5 DEF CommitSell
    <3> QED
      BY <1>4, <2>1, <2>3, <3>1, <3>2, <3>3
  <2>6. CASE CommitWithdraw
    <3>1. Stored = 0 - Pulls(req) /\ Pulls(req) = req.qty /\ req.kind = "withdraw"
      BY <2>6 DEF CommitWithdraw, Stored, Inv, AtWork, Pulls
    <3>2. balance' = balance - Part * req.qty /\ currency_stock' = currency_stock
      BY <2>6 DEF CommitWithdraw
    <3> QED
      BY <1>4, <2>1, <2>3, <3>1, <3>2
  <2> QED
    BY <2>2, <2>4, <2>5, <2>6 DEF Commits
<1>7. ASSUME "late" \notin doubt
      PROVE  Liabilities' <= before'.owed + Part * Gained' + Overpaid'
  <2>1. Liabilities = before.owed /\ Stored <= Gained
    BY <1>3, <1>7 DEF Credit
  <2>2. Gained' = Gained /\ before' = before
    BY <1>1 DEF Gained
  <2>3. Overpaid' = Again(Gained)
    <3>1. last'.req = req
      BY <1>2 DEF Conclude
    <3>2. AtLeast0(Part * Gained' - req.price) = AtLeast0(Part * Gained - req.price)
      BY <2>2
    <3> QED
      BY <3>1, <3>2 DEF Overpaid
  <2>4. Part * Stored <= Part * Gained /\ Part * Gained \in Int
    BY <1>4, <2>1, Parts
  <2>5. /\ Again(Stored) <= Again(Gained)
        /\ Again(Stored) \in Nat /\ Again(Gained) \in Nat
    BY <1>4, <2>4 DEF AtLeast0
  <2>6. Liabilities' \in Int /\ Liabilities \in Int
    <3>1. Inv'
      BY NextInv DEF Commits, Next, Handler
    <3>2. balance' \in Int /\ currency_stock' \in Int
      BY <3>1 DEF Inv, Typed, TypeOK
    <3> QED
      BY <1>4, <3>2 DEF Liabilities
  <2> HIDE DEF Again
  <2> QED
    BY <1>4, <1>6, <2>1, <2>2, <2>3, <2>4, <2>5, <2>6
<1> QED
  BY <1>1, <1>3, <1>7 DEF Credit, Ahead

(* Every step keeps the credit. *)
LEMMA CreditStep ==
  ASSUME Inv, Channelled, Plans, Remembered, Credit, [Next]_vars
  PROVE  Credit'
<1>1. CASE BotSteps
  <2>1. doubt' = doubt
    BY <1>1, BotAnswers
  <2> QED
    BY <1>1, <2>1, BotCredit DEF Credit
<1>2. CASE AskChest \/ AskTrade
  <2>1. UNCHANGED <<balance, currency_stock, chest, before, doubt, pc, req, done, returned>>
        /\ UNCHANGED reply /\ pc # "idle"
    BY <1>2, ChannelSent DEF AskChest, AskTrade, world, books, history, handler, Loops
  <2>2. Stored' = Stored
    BY <2>1 DEF Stored, Moved, Pulls
  <2>3. Ahead' => Ahead
    BY <2>1 DEF Ahead, Failed
  <2> QED
    BY <2>1, <2>2, <2>3, CreditOn
<1>3. CASE Timeout \/ Watchdog
  <2>1. "late" \in doubt'
    BY <1>3, ChannelGivenUp
  <2> QED
    BY <2>1 DEF Credit
<1>4. CASE Takes
  BY <1>4, TakesCredit
<1>5. CASE Commits
  BY <1>5, CommitsCredit
<1>6. CASE \E r \in Requests : Start(r)
  <2>1. PICK r \in Requests : Start(r)
    BY <1>6
  <2>2. /\ before' = Now /\ UNCHANGED <<balance, currency_stock, chest, doubt, reply>>
        /\ req' = r /\ done' = 0 /\ pc = "idle"
        /\ pc' = IF Pulls(r) > 0 THEN "pull" ELSE "trade"
    BY <2>1 DEF Start, Goto, world, books
  <2>3. Liabilities' = before'.owed /\ Gained' = 0
    <3>1. before'.owed = Liabilities /\ before'.stored = chest["diamond"]
      BY <2>2 DEF Now
    <3> QED
      BY <2>2, <3>1, Credits DEF Gained, Liabilities
  <2>4. Moved' = 0
    BY <2>2 DEF Moved, Inv, Asked, Loops
  <2>5. Pulls(r) \in Nat
    BY RequestsAssumption, Divided DEF Pulls, Request, Kinds
  <2>6. Stored' = 0
    <3>1. CASE Gives(r.kind) = "item"
      BY <2>2, <3>1 DEF Stored
    <3>2. CASE Gives(r.kind) # "item" /\ pc' = "pull"
      BY <2>2, <2>4, <3>2 DEF Stored
    <3>3. CASE Gives(r.kind) # "item" /\ pc' = "trade"
      <4>1. Stored' = 0 - Pulls(r)
        BY <2>2, <3>3 DEF Stored, Pulls
      <4> QED
        BY <2>2, <2>5, <3>3, <4>1
    <3> QED
      BY <2>2, <3>1, <3>2, <3>3
  <2> QED
    BY <2>2, <2>3, <2>6 DEF Credit
<1>7. CASE Audit
  <2>1. UNCHANGED <<balance, currency_stock, chest, before, doubt, pc, last>> /\ pc = "idle"
    BY <1>7 DEF Audit, world, handler, history
  <2> QED
    BY <2>1 DEF Credit, Ahead, Gained, Overpaid, Liabilities
<1>8. CASE Tell
  <2>1. /\ UNCHANGED <<balance, currency_stock, chest, before, doubt, req>>
        /\ pc = "tell" /\ pc' = "trade"
    BY <1>8 DEF Tell, world, books, history
  <2>2. Gives(req.kind) = "item"
    BY <2>1 DEF Gives, Inv, AtWork
  <2>3. Stored' = Stored /\ Ahead
    BY <2>1, <2>2 DEF Stored, Ahead
  <2> QED
    BY <2>1, <2>3, CreditOn
<1>9. CASE TellFails \/ DepositLost \/ SellUnwound \/ ReturnEnds
  <2>1. \E outcome \in {"rolledback", "left"} : Conclude(outcome)
    BY <1>9 DEF TellFails, DepositLost, SellUnwound, ReturnEnds
  <2> QED
    BY <2>1, CreditEnds
<1>10. CASE UNCHANGED vars
  <2>1. /\ UNCHANGED <<balance, currency_stock, chest, before, doubt, pc, req, done>>
        /\ UNCHANGED <<returned, reply, last>>
    BY <1>10, Stutter
  <2>2. Stored' = Stored
    BY <2>1 DEF Stored, Moved, Pulls
  <2>3. Ahead' => Ahead
    BY <2>1 DEF Ahead, Failed
  <2>4. Gained' = Gained /\ Liabilities' = Liabilities /\ Overpaid' = Overpaid
    BY <2>1 DEF Gained, Liabilities, Overpaid
  <2> QED
    BY <2>1, <2>2, <2>3, <2>4 DEF Credit
<1> QED
  BY <1>1, <1>2, <1>3, <1>4, <1>5, <1>6, <1>7, <1>8, <1>9, <1>10, Steps DEF Quiet

---------------------------------------------------------------------------
(* The theorems. *)

(* In the beginning nothing was asked, nothing was moved and nobody was served. *)
LEMMA InitGoods ==
  ASSUME Init
  PROVE  Channelled /\ Plans /\ InPlace /\ Deceit /\ Exchange /\ Credit
<1>1. /\ pc = "idle" /\ awaiting = FALSE /\ ~reply.given /\ ~reply.ok
      /\ jobs = <<>> /\ Len(jobs) = 0
      /\ bot = Zero /\ stock = chest /\ chest = Chest /\ hand = Hand
      /\ paid = 0 /\ astray = FALSE /\ before = Now
      /\ last = [req |-> None, outcome |-> "none", short |-> 0] /\ last.outcome = "none"
  BY DEF Init, Nothing
<1>2. Channelled
  BY <1>1 DEF Channelled, Sends, Doubtful
<1>3. Plans
  BY <1>1 DEF Plans
<1>4. InPlace
  <2> SUFFICES ASSUME NEW g \in Goods PROVE Stowed(g)
    BY DEF InPlace
  <2>1. bot[g] = 0 /\ chest[g] \in Nat
    BY <1>1, WorldAssumption DEF Zero
  <2>2. Carried(g) = 0 /\ Unseen(g) = 0
    BY <1>1 DEF Carried, Unseen, Loops
  <2> QED
    BY <1>1, <2>1, <2>2 DEF Stowed
<1>5. Deceit
  BY <1>1 DEF Deceit
<1>6. Exchange
  <2>1. Inv
    BY InitInv
  <2>2. hand \in Stowage /\ Value \in Int /\ Liabilities \in Int /\ chest["diamond"] \in Nat
    <3>1. \A n \in Nat : Part * n \in Int
      BY Parts
    <3>2. /\ hand \in Stowage /\ hand["diamond"] \in Nat /\ chest["diamond"] \in Nat
          /\ balance \in Int /\ currency_stock \in Int
      BY <2>1 DEF Inv, Typed, TypeOK, Stowage, Goods
    <3> QED
      BY <3>1, <3>2 DEF Value, Liabilities
  <2>3. Remembered
    <3>1. bot \in Stowage
      BY <2>1 DEF Inv, Typed, TypeOK
    <3> QED
      BY <1>1, <2>2, <3>1 DEF Remembered, Now
  <2> QED
    BY <1>1, <2>3 DEF Exchange, Midway, CommitIsExchange, AbortIsNoExchange
<1>7. Credit
  BY <1>1 DEF Credit, Ahead
<1> QED
  BY <1>2, <1>3, <1>4, <1>5, <1>6, <1>7

(* The layers that hold under every fault. *)
Course == Inv /\ Channelled /\ Plans /\ Exchange /\ Credit

(* The course of an order is an inductive invariant. *)
THEOREM CourseHolds == Spec => []Course
<1>1. Init => Course
  BY InitInv, InitGoods DEF Course
<1>2. ASSUME Course, [Next]_vars PROVE Course'
  BY <1>2, NextInv, ChannelStep, PlansStep, ExchangeStep, CreditStep DEF Course, Exchange
<1> QED
  BY <1>1, <1>2, PTL DEF Spec

(* Whatever fails on the way, a committed order is the exchange that was agreed
   with the customer; he never gets more for his goods than that. *)
THEOREM ExchangeAsAgreed == Spec => []CommitIsExchange
<1>1. Course => CommitIsExchange
  BY DEF Course, Exchange
<1> QED
  BY <1>1, CourseHolds, PTL

(* Whatever fails on the way, an order that is not committed leaves the customer
   as he was, or pays him for the items of his sell. *)
THEOREM AbortedAsBegun == Spec => []AbortIsNoExchange
<1>1. Course => AbortIsNoExchange
  BY DEF Course, Exchange
<1> QED
  BY <1>1, CourseHolds, PTL

(* Diamonds stranded on the bot are credited to nobody: as long as no
   instruction was given up, a commit adds to balance and reserve together no
   more than the chests have gained, and what a buy was paid above its price
   once again, which the code credits to both. *)
THEOREM StrandedNotCredited == Spec => []CreditIsStored
<1>1. Course => CreditIsStored
  BY DEF Course, Credit, CreditIsStored
<1> QED
  BY <1>1, CourseHolds, PTL

(* The goods are in place where every message is delivered: a buy whose terms
   cannot be told leaves what it pulled on the bot. *)
THEOREM GoodsInPlace ==
  ASSUME "whisper" \notin Faults
  PROVE  Spec => [](Course /\ InPlace)
<1>1. Init => Course /\ InPlace
  BY InitInv, InitGoods DEF Course
<1>2. ASSUME Course /\ InPlace, [Next]_vars PROVE (Course /\ InPlace)'
  <2>1. Course'
    BY <1>2, NextInv, ChannelStep, PlansStep, ExchangeStep, CreditStep DEF Course, Exchange
  <2>2. InPlace'
    BY <1>2, InPlaceStep DEF Course
  <2> QED
    BY <2>1, <2>2
<1> QED
  BY <1>1, <1>2, PTL DEF Spec

(* Between orders the bot holds nothing and the store is right about its chests,
   for every good that no error was logged about. *)
THEOREM NothingLeftBehind ==
  ASSUME "whisper" \notin Faults
  PROVE  Spec => []NothingForgotten
<1>1. ASSUME Course, InPlace PROVE NothingForgotten
  <2> SUFFICES ASSUME pc = "idle", ~astray, NEW g \in Goods \ doubt
               PROVE  bot[g] = 0 /\ stock[g] = chest[g]
    BY DEF NothingForgotten
  <2>1. Stowed(g) /\ ~Failed /\ Carried(g) = 0 /\ Unseen(g) = 0
    BY <1>1 DEF InPlace, Failed, Carried, Unseen, Loops
  <2>2. bot[g] \in Nat /\ chest[g] \in Nat
    BY <1>1, Amounts DEF Course
  <2> QED
    BY <2>1, <2>2 DEF Stowed
<1> QED
  BY <1>1, GoodsInPlace, PTL

(* What the handler is about to put back is on the bot, as long as no error was
   logged and no buffer chest was filled with it; a store that was deceived about
   a trade has an error in the log before it gets here, if the bot can see what it
   still has. *)
THEOREM RollbackFindsGoods ==
  ASSUME "whisper" \notin Faults, "blind" \notin Faults, ~Buffer
  PROVE  Spec => []RollbackHasGoods
<1>1. Init => Course /\ InPlace /\ Deceit
  BY InitInv, InitGoods DEF Course
<1>2. ASSUME Course /\ InPlace /\ Deceit, [Next]_vars PROVE (Course /\ InPlace /\ Deceit)'
  <2>1. Course'
    BY <1>2, NextInv, ChannelStep, PlansStep, ExchangeStep, CreditStep DEF Course, Exchange
  <2>2. InPlace'
    BY <1>2, InPlaceStep DEF Course
  <2>3. Deceit'
    BY <1>2, DeceitStep DEF Course
  <2> QED
    BY <2>1, <2>2, <2>3
<1>3. ASSUME Course, InPlace, Deceit PROVE RollbackHasGoods
  <2> SUFFICES ASSUME pc = "return", Idle, doubt = {}
               PROVE  bot[Gives(req.kind)] >= left
    BY DEF RollbackHasGoods
  <2>1. ~astray
    BY <1>3 DEF Deceit, Deceived
  <2>2. Cargo = Gives(req.kind) /\ Cargo \in Goods
    BY <1>3, Wanted DEF Course, Inv, Cargo
  <2>3. ~Failed /\ Moved = 0
    BY <1>3 DEF Failed, Moved, Idle, Course, Inv, Asked
  <2>4. Carried(Cargo) = left
    BY <1>3, <2>2, <2>3, Amounts DEF Carried, Loops, Course
  <2>5. bot[Cargo] = left
    BY <1>3, <2>1, <2>2, <2>3, <2>4 DEF InPlace, Stowed
  <2>6. left \in Nat
    BY <1>3, <2>2, Amounts DEF Course
  <2> QED
    BY <2>2, <2>5, <2>6
<1> QED
  BY <1>1, <1>2, <1>3, PTL DEF Spec

===============================================================================
