----------------------------- MODULE ShulkerOps -----------------------------
(***************************************************************************)
(* automated_chest_io: goods moved into or out of a chest whose slots hold *)
(* shulker boxes.  For each slot in turn the bot takes the shulker out,    *)
(* places it on the station, opens it, moves goods, breaks it, picks it up *)
(* and puts it back, with the journal a step behind.                       *)
(*                                                                         *)
(* A shulker is named by the slot it is from.  The server may refuse or    *)
(* lose any click, the connection may go, and the process may end between  *)
(* any two steps.  A shulker left somewhere stays there, and the bot tells *)
(* one shulker from another nowhere.                                       *)
(***************************************************************************)
EXTENDS ShulkerJournal, Integers, Functions

CONSTANTS Cap,       \* what a shulker can hold
          Goods,     \* bound: what the bot and the shulkers hold together
          MaxFault   \* bound: things that go wrong

ASSUME ShulkerAssumption == {Cap, Goods, MaxFault} \subseteq Nat

Unknown == 0 - 1
(* Where a shulker is, apart from a slot. *)
Aboard  == 0       \* in the bot's inventory or on its cursor
Station == 0 - 1
Ground  == 0 - 2
Buffer  == 0 - 3   \* in the buffer chest

VARIABLES
  place, holds,   \* of each shulker: where it is, what is in it
  goods,          \* what the bot carries
  pc,             \* the operation's step
  dir, amount, remaining, counts,
  slot, checked, found, confirmed,  \* the loop over slots
  moved, failing, \* of this slot: what was moved; the error to end with
  faults,
  was, had,       \* at the start: where each shulker was; the goods
  told,           \* slots whose count is what the store said
  slipped,        \* slots at which a click was lost that nobody looked for
  superseded      \* shulkers whose record was replaced by a later one

loop == <<slot, checked, found, confirmed>>
op   == <<dir, amount, remaining, counts>>
vars == <<journal, place, holds, goods, pc, op, loop, moved, failing, faults,
          was, had, told, slipped, superseded>>

Carried   == {s \in Slots : place[s] = Aboard}
OnStation == {s \in Slots : place[s] = Station}
In(i)     == {s \in Slots : place[s] = i}
Away      == {s \in Slots : place[s] # s}

TypeOK ==
  /\ JournalType
  /\ place \in [Slots -> Slots \union {Aboard, Station, Ground, Buffer}]
  /\ Cardinality(OnStation) <= 1 /\ \A i \in Slots : Cardinality(In(i)) <= 1
  /\ holds \in [Slots -> 0 .. Cap] /\ goods \in Nat
  /\ pc \in {"down", "idle", "scan", "take", "place", "open", "transfer", "pickup",
             "putback", "reopen", "recover", "return", "done"}
  /\ dir \in {"withdraw", "deposit"}
  /\ amount \in 0 .. Goods /\ remaining \in 0 .. Goods
  /\ counts \in [Slots -> Unknown .. Cap]
  /\ slot \in Nat /\ checked \subseteq Slots /\ confirmed \subseteq Slots
  /\ found \in BOOLEAN
  /\ moved \in 0 .. Goods /\ failing \in BOOLEAN /\ faults \in 0 .. MaxFault
  /\ was \in [Slots -> Slots \union {Aboard, Station, Ground, Buffer}] /\ had \in Nat
  /\ told \subseteq Slots /\ slipped \subseteq Slots /\ superseded \subseteq Slots

Unseen == [i \in Slots |-> Unknown]
Home   == [s \in Slots |-> s]

(* What an operation has of its own, gone when it ends. *)
Fresh ==
  /\ dir' = "withdraw" /\ amount' = 0 /\ remaining' = 0 /\ counts' = Unseen
  /\ slot' = 0 /\ checked' = {} /\ found' = FALSE /\ confirmed' = {}
  /\ moved' = 0 /\ failing' = FALSE
  /\ was' = Home /\ had' = 0 /\ told' = {} /\ slipped' = {}

Init ==
  /\ JournalInit
  /\ place = Home
  /\ holds \in [Slots -> 0 .. Cap] /\ goods \in 0 .. Goods
  /\ goods + SumFunctionOnSet(holds, Slots) = Goods
  /\ pc = "idle"
  /\ dir = "withdraw" /\ amount = 0 /\ remaining = 0 /\ counts = Unseen
  /\ slot = 0 /\ checked = {} /\ found = FALSE /\ confirmed = {}
  /\ moved = 0 /\ failing = FALSE
  /\ faults = 0 /\ superseded = {}
  /\ was = Home /\ had = 0 /\ told = {} /\ slipped = {}

Fault     == faults < MaxFault /\ faults' = faults + 1
Fine      == UNCHANGED faults
Goto(p)   == pc' = p
GiveUp    == Goto("idle") /\ Fresh
Calm      == UNCHANGED <<was, had, told, slipped>>

---------------------------------------------------------------------------
(* The call, and the loop over slots. *)

(* What the store knows tells the bot which shulkers are full, of which a  *)
(* deposit takes notice. *)
automated_chest_io(d, n, full) ==
  /\ pc = "idle" /\ n \in 1 .. Goods /\ (d = "withdraw" => full = {})
  /\ Goto("scan") /\ dir' = d /\ amount' = n /\ remaining' = n
  /\ counts' = [i \in Slots |-> IF i \in full THEN Cap ELSE Unknown]
  /\ slot' = 1 /\ checked' = {} /\ found' = FALSE
  /\ confirmed' = full
  /\ moved' = 0 /\ failing' = FALSE
  /\ was' = place /\ had' = goods /\ told' = full /\ slipped' = {}
  /\ Fine /\ UNCHANGED <<journal, place, holds, goods, superseded>>

Candidates == {i \in Slots : i >= slot /\ i \notin checked \union confirmed /\ In(i) # {}}

(* A chest that closed is opened again, or the operation fails. *)
Scan ==
  /\ pc = "scan" /\ remaining > 0 /\ Candidates # {}
  /\ slot' = CHOOSE i \in Candidates : \A j \in Candidates : i <= j
  /\ checked' = IF dir = "withdraw" THEN checked \union {slot'} ELSE checked
  /\ found' = TRUE /\ Goto("take")
  /\ UNCHANGED confirmed
  /\ Fine /\ Calm
  /\ UNCHANGED <<journal, place, holds, goods, op, moved, failing, superseded>>

ScanFails ==
  /\ pc = "scan" /\ remaining > 0 /\ Fault
  /\ GiveUp
  /\ UNCHANGED <<journal, place, holds, goods, superseded>>

(* A withdrawal goes over the shulkers that may still have some until a    *)
(* pass finds none. *)
NextPass ==
  /\ pc = "scan" /\ dir = "withdraw" /\ remaining > 0 /\ Candidates = {} /\ found
  /\ slot' = 1 /\ found' = FALSE /\ checked' = checked \intersect confirmed
  /\ Fine /\ Calm
  /\ UNCHANGED <<journal, place, holds, goods, pc, op, confirmed, moved, failing,
                 superseded>>

(* The answer: the counts, or "Incomplete". *)
Report ==
  /\ pc = "scan"
  /\ remaining = 0 \/ (Candidates = {} /\ ~(dir = "withdraw" /\ found))
  /\ IF remaining = 0 THEN Goto("done") /\ UNCHANGED <<op, loop, moved, failing>> /\ Calm
                      ELSE GiveUp
  /\ Fine /\ UNCHANGED <<journal, place, holds, goods, superseded>>

Answered ==
  /\ pc = "done" /\ GiveUp /\ Fine
  /\ UNCHANGED <<journal, place, holds, goods, superseded>>

---------------------------------------------------------------------------
(* One slot. *)

(* The record of another shulker that is away is replaced: the one in the  *)
(* file; and which shulker this operation will move is not certain while   *)
(* another is about. *)
Supersedes == superseded' = superseded \union (IF Away = {} THEN {} ELSE Away \union {slot})

TakeShulker ==
  /\ pc = "take"
  /\ begin(slot) /\ Supersedes
  /\ Goto("place")
  /\ \/ Fine /\ place' = [s \in Slots |-> IF place[s] = slot THEN Aboard ELSE place[s]]
     \/ Fault /\ UNCHANGED place      \* the click is lost
  /\ Calm /\ UNCHANGED <<holds, goods, op, loop, moved, failing>>

TakeFails ==
  /\ pc = "take" /\ Fault
  /\ begin_fails
  /\ GiveUp
  /\ UNCHANGED <<place, holds, goods, superseded>>

(* A shulker is brought to hotbar slot 0.  From the cursor, slot 0 has to  *)
(* be cleared, for which there may be no room; a click that is lost, or a  *)
(* shulker that slipped off the cursor, starts a search that tries again   *)
(* (recover_shulker_to_slot_0).  From another slot a lost click ends it.   *)
recover_shulker_to_slot_0(ok) == Fault /\ ok \in BOOLEAN

FromCursor(ok) ==
  \/ Fine /\ ok
  \/ Fine /\ ~ok                    \* nothing empty to clear slot 0 into
  \/ recover_shulker_to_slot_0(ok)

FromSlot(ok) == (Fine /\ ok) \/ (Fault /\ ~ok)

ensure_shulker_in_hotbar_slot_0(ok) ==
  \/ Carried = {} /\ ~ok /\ Fine
  \/ Carried # {} /\ ok /\ Fine     \* it is there already
  \/ Carried # {} /\ (FromCursor(ok) \/ FromSlot(ok))

(* The shulker in hand is any of those carried.  Placing one is taken to   *)
(* have worked when a shulker stands on the station.                       *)
PlaceOnStation ==
  /\ pc = "place"
  /\ ensure_shulker_in_hotbar_slot_0(TRUE)
  /\ \E s \in Carried :
       \/ OnStation = {} /\ place' = [place EXCEPT ![s] = Station]
       \/ OnStation # {} /\ UNCHANGED place
  /\ advance("ShulkerOnStation")
  /\ Goto("open")
  /\ Calm
  /\ UNCHANGED <<holds, goods, op, loop, moved, failing, superseded>>

(* The inventory goes into the buffer chest, shulkers and all. *)
Dump ==
  /\ place' = [s \in Slots |-> IF s \in Carried THEN Buffer ELSE place[s]]
  /\ goods' = 0

(* With a full inventory the goods of slot 0 were swapped onto the cursor. *)
HoldsOther == Carried # {} /\ goods > 0

(* No shulker comes to hand; or goods are on the cursor, and making room   *)
(* dumps the shulker too; or three tries to place it see no shulker on the *)
(* station.                                                                *)
PlaceFails ==
  /\ pc = "place"
  /\ \/ ensure_shulker_in_hotbar_slot_0(FALSE) /\ UNCHANGED <<place, goods>>
     \/ HoldsOther /\ Dump /\ Fine
     \/ Fault /\ UNCHANGED <<place, goods>>
  /\ GiveUp
  /\ UNCHANGED <<journal, holds, superseded>>

OpenShulker ==
  /\ pc = "open"
  /\ \/ Fine /\ Goto("transfer")
     \/ Fault /\ Goto("recover")
  /\ Calm
  /\ UNCHANGED <<journal, place, holds, goods, op, loop, moved, failing, superseded>>

Inside == CHOOSE s \in OnStation : TRUE
Move(n) == /\ holds' = [holds EXCEPT ![Inside] = @ + n]
           /\ goods' = goods - n

(* Mutant: what was in the shulker is reported, not what is left. *)
CountBefore(n) == counts' = [counts EXCEPT ![slot] = holds[Inside]] /\ told' = told \ {slot}

Count(n) == counts' = [counts EXCEPT ![slot] = n] /\ told' = told \ {slot}

(* All that is wanted, or less after three clicks that moved nothing. *)
Amounts(want) == IF faults < MaxFault THEN 0 .. want ELSE {want}
Spent(n, want) == faults' = IF n < want THEN faults + 1 ELSE faults

(* What leaves the shulker reaches the bot, or falls from the cursor when  *)
(* the window closes; what falls in a deposit may be the bot's own stack.  *)
Spill(n, least) == /\ holds' = [holds EXCEPT ![Inside] = @ + n]
                   /\ goods' \in least .. (goods - n)

(* A stack moved in part is picked up, placed one by one where it is       *)
(* counted, and its rest put back; the first and the last click nobody     *)
(* looks at.  When one is lost, n is reported, but more has left the       *)
(* shulker: the rest of its stack stays on the cursor, or an empty cursor  *)
(* takes from the shulker's stacks.                                        *)
Slip(n, least) ==
  /\ Fault /\ slipped' = slipped \union {slot}
  /\ \E m \in (0 - holds[Inside]) .. n : Spill(m, least)

transfer_withdraw_from_shulker(n, want) ==
  \/ n \in Amounts(want) /\ Spent(n, want) /\ Move(0 - n) /\ UNCHANGED slipped
  \/ want < holds[Inside] /\ Slip(0 - n, goods + n)

(* A stack placed in part ends it too. *)
transfer_deposit_into_shulker(n, want) ==
  \/ n \in Amounts(want) /\ Spent(n, want) /\ Move(n) /\ UNCHANGED slipped
  \/ want < goods /\ Slip(n, 0)

Withdraw ==
  LET want == IF remaining < holds[Inside] THEN remaining ELSE holds[Inside]
  IN \E n \in 0 .. want :
       /\ transfer_withdraw_from_shulker(n, want) /\ moved' = n
       /\ Count(holds[Inside] - n)
       /\ confirmed' = IF holds[Inside] = n THEN confirmed \union {slot} ELSE confirmed
       /\ UNCHANGED failing

Deposit ==
  LET space == Cap - holds[Inside]
      want  == CHOOSE w \in {remaining, space, goods} :
                 w <= remaining /\ w <= space /\ w <= goods
  IN \/ /\ goods = 0
        /\ failing' = TRUE /\ moved' = 0 /\ Fine
        /\ UNCHANGED <<holds, goods, counts, told, slipped, confirmed>>
     \/ /\ goods > 0 /\ space = 0
        /\ Count(holds[Inside]) /\ confirmed' = confirmed \union {slot}
        /\ moved' = 0 /\ Fine
        /\ UNCHANGED <<holds, goods, failing, slipped>>
     \/ /\ want > 0
        /\ \E n \in 0 .. want :
             /\ transfer_deposit_into_shulker(n, want) /\ moved' = n
             /\ IF n = 0 THEN failing' = TRUE /\ UNCHANGED <<counts, told>>
                         ELSE Count(holds[Inside] + n) /\ UNCHANGED failing
             /\ UNCHANGED confirmed

Transfer ==
  /\ pc = "transfer" /\ OnStation # {}
  /\ IF dir = "withdraw" THEN Withdraw ELSE Deposit
  /\ advance("ItemsTransferred")
  /\ Goto("pickup")
  /\ UNCHANGED <<was, had>>
  /\ UNCHANGED <<place, dir, amount, remaining, slot, checked, found, superseded>>

(* The shulker's window closes, with what is on the cursor: the shulker is *)
(* left where it is.                                                       *)
TransferFails ==
  /\ pc = "transfer" /\ Fault
  /\ \E n \in (0 - holds[Inside]) .. (IF dir = "withdraw" THEN 0 ELSE remaining) :
       /\ n <= goods /\ holds[Inside] + n <= Cap
       /\ Spill(n, IF dir = "withdraw" THEN goods ELSE 0)
  /\ GiveUp
  /\ UNCHANGED <<journal, place, superseded>>

(* Breaking it and walking over what falls; afterwards any shulker in the  *)
(* inventory will do. *)
Broken ==
  \/ Fine /\ place' = [s \in Slots |-> IF s \in OnStation THEN Aboard ELSE place[s]]
  \/ Fault /\ place' = [s \in Slots |-> IF s \in OnStation THEN Ground ELSE place[s]]
  \/ Fault /\ UNCHANGED place
PickedUp == \E s \in Slots : place'[s] = Aboard

Pickup ==
  /\ pc = "pickup"
  /\ Broken
  /\ \/ PickedUp /\ advance("ShulkerPickedUp") /\ Goto("putback")
        /\ Calm /\ UNCHANGED <<op, loop, moved, failing>>
     \/ faults' > faults /\ GiveUp /\ UNCHANGED journal
  /\ UNCHANGED <<holds, goods, superseded>>

(* The first shulker in the inventory goes to the slot; one that is there  *)
(* comes into the hand. *)
IntoSlot ==
  \E s \in Carried :
    place' = [t \in Slots |-> CASE t = s -> slot
                                [] t # s /\ place[t] = slot -> Aboard
                                [] OTHER -> place[t]]

(* Mutant: the record is cleared also when the shulker was not put back. *)
PutBackEarly ==
  /\ pc = "putback"
  /\ \/ Fine /\ IntoSlot /\ Goto("reopen")
        /\ Calm /\ UNCHANGED <<op, loop, moved, failing, journal>>
     \/ Fault /\ UNCHANGED place /\ complete_with_state /\ GiveUp
     \/ Fault /\ IntoSlot /\ GiveUp /\ UNCHANGED journal
  /\ UNCHANGED <<holds, goods, superseded>>

PutBack ==
  /\ pc = "putback"
  /\ \/ Fine /\ IntoSlot /\ Goto("reopen")
        /\ Calm /\ UNCHANGED <<op, loop, moved, failing>>
     \/ Fault /\ UNCHANGED place /\ GiveUp      \* the chest does not open, or a click is lost
     \/ Fault /\ IntoSlot /\ GiveUp             \* it closes before it was seen
  /\ UNCHANGED <<journal, holds, goods, superseded>>

(* The chest is opened again when there is more to do; only then is the    *)
(* operation complete. *)
Complete ==
  /\ pc = "reopen"
  /\ complete_with_state
  /\ IF failing THEN GiveUp
     ELSE /\ Goto("scan")
          /\ remaining' = remaining - moved
          /\ slot' = slot + 1 /\ moved' = 0
          /\ Calm
          /\ UNCHANGED <<dir, amount, counts, checked, found, confirmed, failing>>
  /\ Fine /\ UNCHANGED <<place, holds, goods, superseded>>

ReopenFails ==
  /\ pc = "reopen" /\ ~failing /\ remaining > moved /\ Fault
  /\ GiveUp
  /\ UNCHANGED <<journal, place, holds, goods, superseded>>

---------------------------------------------------------------------------
(* The shulker on the station did not open: recover_stranded_station_shulker. *)

RecoverPickup ==
  /\ pc = "recover"
  /\ Broken
  /\ \/ PickedUp /\ advance("ShulkerPickedUp") /\ Goto("return")
        /\ Calm /\ UNCHANGED <<op, loop, moved, failing>>
     \/ faults' > faults /\ GiveUp /\ UNCHANGED journal
  /\ UNCHANGED <<holds, goods, superseded>>

RecoverPutBack ==
  /\ pc = "return"
  /\ \/ Fine /\ IntoSlot /\ complete_with_state
     \/ Fault /\ UNCHANGED <<place, journal>>
     \/ Fault /\ IntoSlot /\ UNCHANGED journal
  /\ GiveUp
  /\ UNCHANGED <<holds, goods, superseded>>

---------------------------------------------------------------------------
(* Around it. *)

Crash ==
  /\ pc # "down" /\ Fault
  /\ Goto("down") /\ Fresh /\ Forget
  /\ UNCHANGED <<place, holds, goods, superseded>>

Restart ==
  /\ pc = "down" /\ Goto("idle")
  /\ \/ load_empty \/ load_leftover
     \/ faults < MaxFault /\ load_damaged
  /\ Fine
  /\ UNCHANGED <<place, holds, goods, op, loop, moved, failing, was, had, told,
                 slipped, superseded>>

RestartBlind ==
  /\ pc = "down" /\ Goto("idle") /\ Fault
  /\ load_stuck
  /\ superseded' = superseded \union {file.slot}
  /\ UNCHANGED <<place, holds, goods, op, loop, moved, failing, was, had, told,
                 slipped>>

(* Before a trade the inventory is emptied. *)
ensure_inventory_empty ==
  /\ pc = "idle" /\ Carried # {} /\ Dump
  /\ Fine
  /\ UNCHANGED <<journal, holds, pc, op, loop, moved, failing, was, had, told,
                 slipped, superseded>>

(* An operator puts every shulker back and files what was moved aside. *)
Reconcile ==
  /\ pc = "idle" /\ Away # {}
  /\ place' = Home
  /\ superseded' = {}
  /\ Fine
  /\ UNCHANGED <<journal, holds, goods, pc, op, loop, moved, failing, was, had, told,
                 slipped>>

Next ==
  \/ \E d \in {"withdraw", "deposit"}, n \in 1 .. Goods, full \in SUBSET Slots :
       automated_chest_io(d, n, full)
  \/ Scan \/ ScanFails \/ NextPass \/ Report \/ Answered
  \/ TakeShulker \/ TakeFails \/ PlaceOnStation \/ PlaceFails \/ OpenShulker
  \/ Transfer \/ TransferFails \/ Pickup \/ PutBack \/ Complete \/ ReopenFails
  \/ RecoverPickup \/ RecoverPutBack
  \/ Crash \/ Restart \/ RestartBlind \/ ensure_inventory_empty \/ Reconcile

Spec == Init /\ [][Next]_vars

---------------------------------------------------------------------------
(* What was asked for; nobody loose at the start; the count of a shulker's *)
(* slot is what is in it, or more where a click slipped.                   *)
Due      == IF dir = "withdraw" THEN had + amount ELSE had - amount
NotLoose == \A s \in Slots : was[s] \in Slots \union {Buffer}
Counted(s) ==
  LET i == was[s]
  IN i \in Slots \ told =>
       \/ counts[i] \in {Unknown, holds[s]}
       \/ i \in slipped /\ counts[i] > holds[s]

(* The store takes a report of success into its books: so many goods moved, *)
(* and so many are in the shulkers that were opened.  The goods are what    *)
(* was asked for, whatever else is adrift; where a click nobody looks for   *)
(* was lost, the bot has at least what it withdrew.  When no shulker was on *)
(* the bot, the station or the ground at the start, each is back where it   *)
(* was, and the counts taken are what is in them, or, where such a click    *)
(* was lost, never less.                                                    *)
ReportIsTrue ==
  pc = "done" =>
    /\ IF slipped = {} THEN goods = Due ELSE dir = "withdraw" => goods >= Due
    /\ NotLoose => place = was /\ \A s \in Slots : Counted(s)

(* A shulker that is not in its slot, whatever failed and wherever the     *)
(* process ended, is named by the journal's file or one moved aside, and   *)
(* the state there is not ahead of where the shulker is -- unless its      *)
(* record was replaced by that of a later operation.                       *)
Names(s) == {e \in archive \union {file} : e.slot = s}
StrandedIsRecorded ==
  \A s \in Away \ superseded :
    \E e \in Names(s) : e.state = "ShulkerPickedUp" => place[s] # Station

(* What a start of the program found and reported is never written over:   *)
(* it is still the file, or was moved aside.                               *)
LeftoverIsKept == leftovers \subseteq archive \union {file}
=============================================================================
