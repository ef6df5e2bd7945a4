--------------------------- MODULE ShulkerOpsProofs ---------------------------
(***************************************************************************)
(* Proofs about ShulkerOps: the types, that a leftover is never written    *)
(* over, that a shulker left somewhere is on record, and that a report of  *)
(* success is true, for any chest, any goods and any number of faults.     *)
(***************************************************************************)
EXTENDS ShulkerOps, FiniteSetTheorems, WellFoundedInduction, TLAPS

Places == Slots \union {Aboard, Station, Ground, Buffer}

(* The steps during which the bot has, or may have, a shulker in hand. *)
Opened   == {"open", "transfer", "pickup", "recover"}
Busy     == Opened \union {"place", "putback", "reopen", "return"}
Pointing == Busy \union {"take"}

(* No two shulkers are at one place that holds one. *)
OnePerPlace ==
  \A s, t \in Slots :
    place[s] = place[t] /\ place[s] \in Slots \union {Station} => s = t

(* TypeOK, its cardinalities put as OnePerPlace. *)
Typed ==
  /\ JournalType
  /\ place \in [Slots -> Places]
  /\ holds \in [Slots -> 0 .. Cap] /\ goods \in Nat
  /\ pc \in Pointing \union {"down", "idle", "scan", "done"}
  /\ dir \in {"withdraw", "deposit"}
  /\ amount \in 0 .. Goods /\ remaining \in 0 .. Goods
  /\ counts \in [Slots -> Unknown .. Cap]
  /\ slot \in Nat /\ checked \subseteq Slots /\ confirmed \subseteq Slots
  /\ found \in BOOLEAN
  /\ moved \in 0 .. Goods /\ failing \in BOOLEAN /\ faults \in 0 .. MaxFault
  /\ was \in [Slots -> Places] /\ had \in Nat
  /\ told \subseteq Slots /\ slipped \subseteq Slots /\ superseded \subseteq Slots

(* What each step of the operation may count on. *)
AtWork ==
  /\ pc \in Pointing => slot \in Slots /\ remaining > 0
  /\ pc \in Opened => OnStation # {}
  /\ moved <= remaining
  /\ pc \notin {"pickup", "putback", "reopen"} => moved = 0
  /\ pc = "done" => remaining = 0

(* What a start of the program reported is in the file or aside, and it is *)
(* aside while the file may be written over.                               *)
Filed ==
  /\ leftovers \subseteq archive \union {file}
  /\ pc \in Busy \union {"down"} => ~restored
  /\ pc # "down" /\ ~restored => leftovers \subseteq archive

(* The record of the operation is in the file, and only its shulker, or    *)
(* one of those whose record was replaced, is away.                        *)
OnlyThis == Away \subseteq {slot}

Recorded ==
  /\ pc \in Busy =>
       /\ entry \in Entry /\ file = entry /\ entry.slot = slot
       /\ OnlyThis \/ Away \union {slot} \subseteq superseded
  /\ pc \in Opened \union {"place"} => entry.state # "ShulkerPickedUp"
  /\ pc \in {"putback", "return"} => (OnlyThis => place[slot] = Aboard)
  /\ pc = "reopen" => (OnlyThis => Away = {})
  /\ pc \notin Busy => StrandedIsRecorded

(* When no shulker was loose at the start, the one the bot has is the one  *)
(* it took from this slot, and it is back when the loop goes on.           *)
AtLoop == {"scan", "take", "reopen", "done"}

OnlyItMoves == \A s \in Slots : place[s] # was[s] => was[s] = slot

Tracked ==
  /\ \A s, t \in Slots : was[s] = was[t] /\ was[s] \in Slots => s = t
  /\ NotLoose => /\ pc \in AtLoop => place = was
                 /\ pc \in Busy => OnlyItMoves

(* What the operation has done so far, and whether the goods show it. *)
Done == amount - remaining + moved
Kept(d) == IF dir = "withdraw" THEN had + d ELSE had - d

Accounted ==
  pc \in Busy \union AtLoop =>
    IF slipped = {} THEN goods = Kept(Done) ELSE dir = "withdraw" => goods >= Kept(Done)

(* The counts taken so far. *)
CountsHold ==
  NotLoose /\ pc \in Busy \union AtLoop => \A s \in Slots : Counted(s)

Faithful == Tracked /\ Accounted /\ CountsHold

Inv == Typed /\ OnePerPlace /\ AtWork /\ Filed /\ Recorded /\ Faithful

---------------------------------------------------------------------------
(* Numbers and places. *)

(* A set of numbers that is not empty has a least one: Scan finds a slot.  *)
LEMMA Least ==
  ASSUME NEW S \in SUBSET Nat, S # {}
  PROVE  \E i \in S : \A j \in S : i <= j
<1>1. PICK i \in S : \A j \in S : <<j, i>> \notin OpToRel(<, Nat)
  BY WFMin, NatLessThanWellFounded, Zenon
<1>2. ASSUME NEW j \in S PROVE i <= j
  <2>1. i \in Nat /\ j \in Nat
    OBVIOUS
  <2>2. ~(j < i)
    BY <1>1, <2>1 DEF OpToRel
  <2> QED
    BY <2>1, <2>2
<1> QED
  BY <1>2

(* The slot Scan goes to is one of its candidates. *)
LEMMA NextSlot ==
  ASSUME Typed, Candidates # {}
  PROVE  (CHOOSE i \in Candidates : \A j \in Candidates : i <= j) \in Candidates
<1>1. Candidates \in SUBSET Nat
  BY JournalAssumption DEF Candidates
<1> QED
  BY <1>1, Least

(* The shulker a bot has open is on the station. *)
LEMMA InsideIsThere ==
  ASSUME OnStation # {}
  PROVE  Inside \in OnStation /\ Inside \in Slots /\ place[Inside] = Station
BY DEF Inside, OnStation

(* At most one element makes a cardinality of at most one. *)
LEMMA AtMostOne ==
  ASSUME NEW S, \A x, y \in S : x = y
  PROVE  Cardinality(S) <= 1
<1>1. CASE S = {}
  BY <1>1, FS_EmptySet
<1>2. CASE S # {}
  <2>1. PICK x : x \in S
    BY <1>2
  <2>2. S = {x}
    BY <2>1
  <2> QED
    BY <2>2, FS_Singleton
<1> QED
  BY <1>1, <1>2

(* The types of the parts and the separation of the places give the type invariant. *)
LEMMA TypesFollow ==
  ASSUME Typed, OnePerPlace
  PROVE  TypeOK
<1>1. Cardinality(OnStation) <= 1
  BY AtMostOne DEF OnePerPlace, OnStation
<1>2. ASSUME NEW i \in Slots PROVE Cardinality(In(i)) <= 1
  <2>1. \A s, t \in In(i) : s = t
    BY DEF OnePerPlace, In
  <2> QED
    BY <2>1, AtMostOne
<1> QED
  BY <1>1, <1>2 DEF Typed, TypeOK, Places, Pointing, Busy, Opened

---------------------------------------------------------------------------
(* The journal's operations keep its types. *)

(* What the journal's advance changes: the entry's state, and the file with it. *)
LEMMA Advanced ==
  ASSUME JournalType, NEW s \in States, advance(s)
  PROVE  /\ JournalType'
         /\ UNCHANGED <<restored, archive, begun, leftovers>>
         /\ UNCHANGED <<entry, file>> \/ entry'.state = s
         /\ entry \in Entry => entry' \in Entry /\ entry'.slot = entry.slot
         /\ file = entry => file' = entry'
BY DEF JournalType, advance, persist, Entry, None

(* What its begin does: an entry for the slot, written before it returns. *)
LEMMA Begun ==
  ASSUME JournalType, NEW i \in Slots, begin(i)
  PROVE  /\ JournalType'
         /\ entry' \in Entry /\ file' = entry'
         /\ entry'.slot = i /\ entry'.state = "ShulkerTaken"
<1>1. begun + 1 \in 1 .. MaxBegin /\ begun' = begun + 1
  BY JournalAssumption DEF JournalType, begin
<1>2. /\ entry' = [id |-> begun + 1, slot |-> i, state |-> "ShulkerTaken"]
      /\ file' = entry' /\ leftovers' = leftovers
  BY DEF begin, persist
<1>3. entry' \in Entry /\ entry'.slot = i /\ entry'.state = "ShulkerTaken"
  BY <1>1, <1>2 DEF Entry, States
<1>4. restored' \in BOOLEAN /\ archive' \subseteq Entry
  BY DEF JournalType, begin, archive_restored, Aside
<1> QED
  BY JournalAssumption, <1>1, <1>2, <1>3, <1>4 DEF JournalType

(* The rest of the journal keeps the types of the entry and of the file. *)
LEMMA JournalKept ==
  ASSUME JournalType,
         \/ begin_fails \/ complete_with_state \/ Forget
         \/ load_empty \/ load_leftover \/ load_damaged \/ load_stuck
  PROVE  JournalType'
BY DEF JournalType, begin_fails, archive_restored, complete_with_state, Forget, Aside,
       persist, load_empty, load_leftover, load_damaged, load_stuck, journal

(* A step that leaves the journal alone does. *)
LEMMA JournalSame ==
  ASSUME JournalType, UNCHANGED journal
  PROVE  JournalType'
BY DEF JournalType, journal

---------------------------------------------------------------------------
(* Types and control. *)

(* The start: types, one place for each shulker, nobody at work. *)
LEMMA InitTyped == Init => Typed /\ OnePerPlace /\ AtWork
<1> SUFFICES ASSUME Init PROVE Typed /\ OnePerPlace /\ AtWork
  OBVIOUS
<1>1. JournalType
  <2>1. restored \in BOOLEAN
    BY DEF Init, JournalInit
  <2> QED
    BY <2>1, JournalAssumption DEF Init, JournalInit, JournalType
<1>2. /\ place = [s \in Slots |-> s] /\ was = [s \in Slots |-> s]
      /\ pc = "idle" /\ moved = 0 /\ remaining = 0
  BY DEF Init, Home
<1>3. place \in [Slots -> Places] /\ was \in [Slots -> Places] /\ OnePerPlace
  BY <1>2 DEF Places, OnePerPlace
<1>4. counts \in [Slots -> Unknown .. Cap] /\ goods \in Nat
  BY ShulkerAssumption DEF Init, Unseen, Unknown
<1>5. AtWork
  BY <1>2 DEF AtWork, Pointing, Busy, Opened
<1>6. Typed
  <2>1. found \in BOOLEAN /\ failing \in BOOLEAN
    BY DEF Init
  <2> QED
    BY ShulkerAssumption, <1>1, <1>2, <1>3, <1>4, <2>1 DEF Init, Typed, Pointing, Busy, Opened
<1> QED
  BY <1>3, <1>5, <1>6

(* An operation that ends leaves nothing of itself. *)
LEMMA FreshIsTyped ==
  ASSUME Fresh
  PROVE  /\ dir' \in {"withdraw", "deposit"}
         /\ amount' \in 0 .. Goods /\ remaining' \in 0 .. Goods
         /\ counts' \in [Slots -> Unknown .. Cap]
         /\ slot' \in Nat /\ checked' \subseteq Slots /\ confirmed' \subseteq Slots
         /\ found' \in BOOLEAN /\ moved' \in 0 .. Goods /\ failing' \in BOOLEAN
         /\ was' \in [Slots -> Places] /\ had' \in Nat /\ told' \subseteq Slots
         /\ slipped' \subseteq Slots
         /\ moved' = 0 /\ remaining' = 0 /\ was' = Home
<1>1. found' \in BOOLEAN /\ failing' \in BOOLEAN /\ was' \in [Slots -> Places] /\ was' = Home
  BY DEF Fresh, Home, Places
<1>2. counts' \in [Slots -> Unknown .. Cap]
  BY ShulkerAssumption DEF Fresh, Unseen, Unknown
<1> QED
  BY <1>1, <1>2, ShulkerAssumption DEF Fresh

(* A count of what is in a shulker is one. *)
LEMMA CountIsTyped ==
  ASSUME Typed, slot \in Slots, NEW n \in 0 .. Cap, Count(n)
  PROVE  counts' \in [Slots -> Unknown .. Cap] /\ told' \subseteq Slots
<1>1. n \in Unknown .. Cap
  BY DEF Unknown
<1> QED
  BY <1>1 DEF Count, Typed

(* What is spilt stays between what the shulker had and what it holds. *)
LEMMA Spilt ==
  ASSUME Typed, Inside \in Slots, NEW n \in Int, NEW least \in Nat, Spill(n, least),
         holds[Inside] + n \in 0 .. Cap
  PROVE  holds' \in [Slots -> 0 .. Cap] /\ goods' \in Nat
BY DEF Spill, Typed

(* Every step keeps the types and what is known where the bot is at work. *)
LEMMA TypesKept ==
  ASSUME Typed, AtWork, Next
  PROVE  Typed' /\ AtWork'
<1> USE ShulkerAssumption, JournalAssumption
        DEF Goto, Fine, Fault, Calm, op, loop
<1>1. ASSUME NEW d \in {"withdraw", "deposit"}, NEW n \in 1 .. Goods,
             NEW full \in SUBSET Slots, automated_chest_io(d, n, full)
      PROVE  Typed' /\ AtWork'
  <2>1. found' \in BOOLEAN /\ failing' \in BOOLEAN /\ was' \in [Slots -> Places]
    BY <1>1 DEF automated_chest_io, Typed
  <2>2. counts' \in [Slots -> Unknown .. Cap] /\ had' \in Nat
    BY <1>1 DEF automated_chest_io, Typed, Unknown
  <2>3. JournalType'
    BY <1>1, JournalSame DEF automated_chest_io, Typed
  <2> QED
    BY <1>1, <2>1, <2>2, <2>3 DEF automated_chest_io, Typed, AtWork, Pointing, Busy, Opened
<1>2. CASE Scan
  BY <1>2, JournalSame, NextSlot DEF Scan, Candidates, Typed, AtWork, Pointing, Busy, Opened
<1>3. CASE ScanFails
  BY <1>3, JournalSame, FreshIsTyped DEF ScanFails, GiveUp, Typed, AtWork, Pointing, Busy, Opened
<1>4. CASE NextPass
  BY <1>4, JournalSame DEF NextPass, Typed, AtWork, Pointing, Busy, Opened
<1>5. CASE Report
  <2>1. CASE remaining = 0
    BY <1>5, <2>1, JournalSame DEF Report, Typed, AtWork, Pointing, Busy, Opened
  <2>2. CASE remaining # 0
    BY <1>5, <2>2, JournalSame, FreshIsTyped
       DEF Report, GiveUp, Typed, AtWork, Pointing, Busy, Opened
  <2> QED
    BY <2>1, <2>2
<1>6. CASE Answered
  BY <1>6, JournalSame, FreshIsTyped DEF Answered, GiveUp, Typed, AtWork, Pointing, Busy, Opened
<1>7. CASE TakeShulker
  <2>1. slot \in Slots /\ remaining > 0
    BY <1>7 DEF TakeShulker, AtWork, Pointing
  <2>2. JournalType'
    BY <1>7, <2>1, Begun DEF TakeShulker, Typed
  <2>3. place' \in [Slots -> Places]
    BY <1>7 DEF TakeShulker, Typed, Places
  <2>4. superseded' \subseteq Slots
    BY <1>7, <2>1 DEF TakeShulker, Supersedes, Away, Typed
  <2> QED
    BY <1>7, <2>1, <2>2, <2>3, <2>4 DEF TakeShulker, Typed, AtWork, Pointing, Busy, Opened
<1>8. CASE TakeFails
  BY <1>8, JournalKept, FreshIsTyped DEF TakeFails, GiveUp, Typed, AtWork, Pointing, Busy, Opened
<1>9. CASE PlaceOnStation
  <2>1. JournalType'
    BY <1>9, Advanced DEF PlaceOnStation, Typed, States
  <2>2. place' \in [Slots -> Places] /\ OnStation' # {}
    BY <1>9 DEF PlaceOnStation, Typed, Places, OnStation, Carried
  <2>3. faults' \in 0 .. MaxFault
    BY <1>9 DEF PlaceOnStation, ensure_shulker_in_hotbar_slot_0, FromCursor, FromSlot,
                recover_shulker_to_slot_0, Typed
  <2> QED
    BY <1>9, <2>1, <2>2, <2>3 DEF PlaceOnStation, Typed, AtWork, Pointing, Busy, Opened
<1>10. CASE PlaceFails
  <2>1. faults' \in 0 .. MaxFault
    BY <1>10 DEF PlaceFails, ensure_shulker_in_hotbar_slot_0, FromCursor, FromSlot,
                 recover_shulker_to_slot_0, Typed
  <2>2. place' \in [Slots -> Places] /\ goods' \in Nat
    <3>1. CASE Dump
      BY <3>1 DEF Dump, Typed, Places
    <3>2. CASE UNCHANGED <<place, goods>>
      BY <3>2 DEF Typed
    <3> QED
      BY <1>10, <3>1, <3>2 DEF PlaceFails
  <2> QED
    BY <1>10, <2>1, <2>2, JournalSame, FreshIsTyped
       DEF PlaceFails, GiveUp, Typed, AtWork, Pointing, Busy, Opened
<1>11. CASE OpenShulker
  BY <1>11, JournalSame DEF OpenShulker, Typed, AtWork, Pointing, Busy, Opened, OnStation
<1>12. CASE Transfer
  <2>1. Inside \in Slots /\ slot \in Slots
    BY <1>12, InsideIsThere DEF Transfer, AtWork, Pointing, Busy, Opened
  <2>2. JournalType'
    BY <1>12, Advanced DEF Transfer, Typed, States
  <2>3. /\ holds' \in [Slots -> 0 .. Cap] /\ goods' \in Nat
        /\ counts' \in [Slots -> Unknown .. Cap] /\ told' \subseteq Slots
        /\ confirmed' \subseteq Slots /\ failing' \in BOOLEAN
        /\ moved' \in 0 .. remaining /\ faults' \in 0 .. MaxFault
        /\ slipped' \subseteq Slots
    <3>1. CASE Withdraw
      <4> DEFINE want == IF remaining < holds[Inside] THEN remaining ELSE holds[Inside]
      <4>1. want \in 0 .. remaining /\ want <= holds[Inside] /\ holds[Inside] \in 0 .. Cap
        BY <2>1 DEF Typed
      <4>2. PICK n \in 0 .. want :
              /\ transfer_withdraw_from_shulker(n, want) /\ moved' = n
              /\ Count(holds[Inside] - n)
              /\ confirmed' = IF holds[Inside] = n THEN confirmed \union {slot} ELSE confirmed
              /\ UNCHANGED failing
        BY <3>1 DEF Withdraw
      <4>3. n \in Nat /\ n <= remaining /\ n <= holds[Inside] /\ holds[Inside] - n \in 0 .. Cap
        BY <4>1 DEF Typed
      <4>4. holds' \in [Slots -> 0 .. Cap] /\ goods' \in Nat /\ slipped' \subseteq Slots
        <5>1. CASE Move(0 - n) /\ UNCHANGED slipped
          BY <2>1, <4>1, <4>3, <5>1 DEF Move, Typed
        <5>2. CASE Slip(0 - n, goods + n)
          BY <2>1, <4>1, <4>3, <5>2, Spilt DEF Slip, Typed
        <5> QED
          BY <4>2, <5>1, <5>2 DEF transfer_withdraw_from_shulker
      <4>5. counts' \in [Slots -> Unknown .. Cap] /\ told' \subseteq Slots
        BY <2>1, <4>2, <4>3, CountIsTyped
      <4>6. faults' \in 0 .. MaxFault
        BY <4>1, <4>2, <4>3 DEF transfer_withdraw_from_shulker, Amounts, Spent, Slip, Typed
      <4> QED
        BY <2>1, <4>2, <4>3, <4>4, <4>5, <4>6 DEF Typed
    <3>2. CASE Deposit
      <4> DEFINE space == Cap - holds[Inside]
                 want  == CHOOSE w \in {remaining, space, goods} :
                            w <= remaining /\ w <= space /\ w <= goods
      <4>1. space \in 0 .. Cap /\ holds[Inside] \in 0 .. Cap /\ holds[Inside] + space = Cap
        BY <2>1 DEF Typed
      <4>2. want \in Nat /\ want <= remaining /\ want <= space /\ want <= goods
        BY <4>1 DEF Typed
      <4> HIDE DEF want
      <4>3. CASE goods = 0 /\ failing' = TRUE /\ moved' = 0 /\ Fine
                 /\ UNCHANGED <<holds, goods, counts, told, slipped, confirmed>>
        BY <4>3 DEF Typed
      <4>4. CASE space = 0 /\ Count(holds[Inside]) /\ confirmed' = confirmed \union {slot}
                 /\ moved' = 0 /\ Fine /\ UNCHANGED <<holds, goods, failing, slipped>>
        <5>1. counts' \in [Slots -> Unknown .. Cap] /\ told' \subseteq Slots
          BY <2>1, <4>1, <4>4, CountIsTyped
        <5> QED
          BY <2>1, <4>4, <5>1 DEF Typed
      <4>5. ASSUME NEW n \in 0 .. want,
                   transfer_deposit_into_shulker(n, want), moved' = n,
                   IF n = 0 THEN failing' = TRUE /\ UNCHANGED <<counts, told>>
                            ELSE Count(holds[Inside] + n) /\ UNCHANGED failing,
                   UNCHANGED confirmed
            PROVE  /\ holds' \in [Slots -> 0 .. Cap] /\ goods' \in Nat
                   /\ counts' \in [Slots -> Unknown .. Cap] /\ told' \subseteq Slots
                   /\ confirmed' \subseteq Slots /\ failing' \in BOOLEAN
                   /\ moved' \in 0 .. remaining /\ faults' \in 0 .. MaxFault
                   /\ slipped' \subseteq Slots
        <5>1. n \in Nat /\ n <= remaining /\ n <= goods /\ holds[Inside] + n \in 0 .. Cap
          BY <4>1, <4>2, <4>5 DEF Typed
        <5>2. holds' \in [Slots -> 0 .. Cap] /\ goods' \in Nat /\ slipped' \subseteq Slots
          <6>1. CASE Move(n) /\ UNCHANGED slipped
            BY <2>1, <5>1, <6>1 DEF Move, Typed
          <6>2. CASE Slip(n, 0)
            BY <2>1, <5>1, <6>2, Spilt DEF Slip, Typed
          <6> QED
            BY <4>5, <6>1, <6>2 DEF transfer_deposit_into_shulker
        <5>3. counts' \in [Slots -> Unknown .. Cap] /\ told' \subseteq Slots
          BY <2>1, <4>5, <5>1, CountIsTyped DEF Typed
        <5>4. failing' \in BOOLEAN
          BY <4>5 DEF Typed
        <5>5. faults' \in 0 .. MaxFault
          BY <4>2, <4>5, <5>1 DEF transfer_deposit_into_shulker, Amounts, Spent, Slip, Typed
        <5> QED
          BY <4>5, <5>1, <5>2, <5>3, <5>4, <5>5 DEF Typed
      <4> QED
        BY <3>2, <4>3, <4>4, <4>5 DEF Deposit, want
    <3> QED
      BY <1>12, <3>1, <3>2 DEF Transfer
  <2> QED
    BY <1>12, <2>1, <2>2, <2>3 DEF Transfer, OnStation, Typed, AtWork, Pointing, Busy, Opened
<1>13. CASE TransferFails
  <2>1. Inside \in Slots
    BY <1>13, InsideIsThere DEF TransferFails, AtWork, Opened
  <2>2. holds' \in [Slots -> 0 .. Cap] /\ goods' \in Nat
    <3>1. holds[Inside] \in 0 .. Cap
      BY <2>1 DEF Typed
    <3>2. PICK n \in (0 - holds[Inside]) .. (IF dir = "withdraw" THEN 0 ELSE remaining) :
            /\ n <= goods /\ holds[Inside] + n <= Cap
            /\ Spill(n, IF dir = "withdraw" THEN goods ELSE 0)
      BY <1>13 DEF TransferFails
    <3>3. n \in Int /\ holds[Inside] + n \in 0 .. Cap
      BY <3>1, <3>2 DEF Typed
    <3> QED
      BY <2>1, <3>2, <3>3, Spilt DEF Typed
  <2> QED
    BY <1>13, <2>2, JournalSame, FreshIsTyped
       DEF TransferFails, GiveUp, Typed, AtWork, Pointing, Busy, Opened
<1>14. CASE Pickup
  <2>1. place' \in [Slots -> Places] /\ faults' \in 0 .. MaxFault
    BY <1>14 DEF Pickup, Broken, Typed, Places
  <2>2. CASE Goto("putback") /\ advance("ShulkerPickedUp")
    BY <1>14, <2>1, <2>2, Advanced
       DEF Pickup, GiveUp, Typed, States, AtWork, Pointing, Busy, Opened
  <2>3. CASE GiveUp
    BY <1>14, <2>1, <2>3, JournalSame, FreshIsTyped
       DEF Pickup, GiveUp, Typed, AtWork, Pointing, Busy, Opened
  <2> QED
    BY <1>14, <2>2, <2>3 DEF Pickup
<1>15. CASE PutBack
  <2>1. place' \in [Slots -> Places] /\ faults' \in 0 .. MaxFault
    BY <1>15 DEF PutBack, IntoSlot, Typed, AtWork, Pointing, Busy, Places
  <2>2. CASE Goto("reopen")
    BY <1>15, <2>1, <2>2, JournalSame
       DEF PutBack, GiveUp, Typed, AtWork, Pointing, Busy, Opened
  <2>3. CASE GiveUp
    BY <1>15, <2>1, <2>3, JournalSame, FreshIsTyped
       DEF PutBack, GiveUp, Typed, AtWork, Pointing, Busy, Opened
  <2> QED
    BY <1>15, <2>2, <2>3 DEF PutBack
<1>16. CASE Complete
  <2>1. JournalType'
    BY <1>16, JournalKept DEF Complete, Typed
  <2>2. CASE failing
    BY <1>16, <2>1, <2>2, FreshIsTyped
       DEF Complete, GiveUp, Typed, AtWork, Pointing, Busy, Opened
  <2>3. CASE ~failing
    <3>1. remaining' \in 0 .. Goods /\ slot' \in Nat /\ moved' = 0
      BY <1>16, <2>3 DEF Complete, Typed, AtWork
    <3>2. /\ pc' = "scan"
          /\ UNCHANGED <<dir, amount, counts, checked, found, confirmed, failing, faults, was, had, told, slipped,
                         place, holds, goods, superseded>>
      BY <1>16, <2>3 DEF Complete
    <3> QED
      BY <2>1, <3>1, <3>2 DEF Typed, AtWork, Pointing, Busy, Opened
  <2> QED
    BY <2>2, <2>3
<1>17. CASE ReopenFails
  BY <1>17, JournalSame, FreshIsTyped
     DEF ReopenFails, GiveUp, Typed, AtWork, Pointing, Busy, Opened
<1>18. CASE RecoverPickup
  <2>1. place' \in [Slots -> Places] /\ faults' \in 0 .. MaxFault
    BY <1>18 DEF RecoverPickup, Broken, Typed, Places
  <2>2. CASE Goto("return") /\ advance("ShulkerPickedUp")
    BY <1>18, <2>1, <2>2, Advanced
       DEF RecoverPickup, GiveUp, Typed, States, AtWork, Pointing, Busy, Opened
  <2>3. CASE GiveUp
    BY <1>18, <2>1, <2>3, JournalSame, FreshIsTyped
       DEF RecoverPickup, GiveUp, Typed, AtWork, Pointing, Busy, Opened
  <2> QED
    BY <1>18, <2>2, <2>3 DEF RecoverPickup
<1>19. CASE RecoverPutBack
  <2>1. place' \in [Slots -> Places] /\ faults' \in 0 .. MaxFault
    BY <1>19 DEF RecoverPutBack, IntoSlot, Typed, AtWork, Pointing, Busy, Places
  <2>2. JournalType'
    BY <1>19, JournalKept, JournalSame DEF RecoverPutBack, Typed
  <2> QED
    BY <1>19, <2>1, <2>2, FreshIsTyped
       DEF RecoverPutBack, GiveUp, Typed, AtWork, Pointing, Busy, Opened
<1>20. CASE Crash
  BY <1>20, JournalKept, FreshIsTyped DEF Crash, Typed, AtWork, Pointing, Busy, Opened
<1>21. CASE Restart
  <2>1. JournalType'
    BY <1>21, JournalKept DEF Restart, Typed
  <2> QED
    BY <1>21, <2>1 DEF Restart, Typed, AtWork, Pointing, Busy, Opened
<1>22. CASE RestartBlind
  <2>1. JournalType'
    BY <1>22, JournalKept DEF RestartBlind, Typed
  <2>2. superseded' \subseteq Slots
    BY <1>22 DEF RestartBlind, load_stuck, Typed, JournalType, Entry
  <2> QED
    BY <1>22, <2>1, <2>2 DEF RestartBlind, Typed, AtWork, Pointing, Busy, Opened
<1>23. CASE ensure_inventory_empty
  <2>1. place' \in [Slots -> Places] /\ goods' \in Nat
    BY <1>23 DEF ensure_inventory_empty, Dump, Typed, Places
  <2> QED
    BY <1>23, <2>1, JournalSame
       DEF ensure_inventory_empty, Typed, AtWork, Pointing, Busy, Opened
<1>24. CASE Reconcile
  <2>1. place' \in [Slots -> Places] /\ superseded' \subseteq Slots
    BY <1>24 DEF Reconcile, Places, Home
  <2> QED
    BY <1>24, <2>1, JournalSame DEF Reconcile, Typed, AtWork, Pointing, Busy, Opened
<1> QED
  BY <1>1, <1>2, <1>3, <1>4, <1>5, <1>6, <1>7, <1>8, <1>9, <1>10, <1>11, <1>12, <1>13, <1>14,
     <1>15, <1>16, <1>17, <1>18, <1>19, <1>20, <1>21, <1>22, <1>23, <1>24 DEF Next

---------------------------------------------------------------------------
(* Where the shulkers are. *)

(* The places that are no slot, one by one. *)
LEMMA Elsewhere ==
  /\ {Aboard, Station, Ground, Buffer} \intersect Slots = {}
  /\ Aboard # Station /\ Ground # Station /\ Buffer # Station
  /\ Aboard # Ground /\ Aboard # Buffer
BY JournalAssumption DEF Aboard, Station, Ground, Buffer

(* What the steps do to the places. *)
Taken == place' = [s \in Slots |-> IF place[s] = slot THEN Aboard ELSE place[s]]

Placed(s) ==
  \/ OnStation = {} /\ place' = [place EXCEPT ![s] = Station]
  \/ UNCHANGED place

(* The dump of the inventory puts no shulker into a place that has one, *)
LEMMA DumpSeparates ==
  ASSUME Typed, OnePerPlace, Dump
  PROVE  OnePerPlace'
BY Elsewhere DEF Typed, OnePerPlace, Dump, Carried

(* breaking the shulker does not, *)
LEMMA BrokenSeparates ==
  ASSUME Typed, OnePerPlace, Broken
  PROVE  OnePerPlace'
BY Elsewhere DEF Typed, OnePerPlace, Broken, OnStation

(* and putting it back does not. *)
LEMMA IntoSlotSeparates ==
  ASSUME Typed, OnePerPlace, slot \in Slots, IntoSlot
  PROVE  OnePerPlace'
BY Elsewhere DEF Typed, OnePerPlace, IntoSlot, Carried

(* So no step does. *)
LEMMA PlacesKept ==
  ASSUME Typed, OnePerPlace, AtWork, Next
  PROVE  OnePerPlace'
<1>1. CASE UNCHANGED place
  BY <1>1 DEF OnePerPlace
<1>2. CASE TakeShulker
  <2>1. CASE Taken
    BY <2>1, Elsewhere DEF Taken, Typed, OnePerPlace
  <2> QED
    BY <1>1, <1>2, <2>1 DEF TakeShulker, Taken
<1>3. CASE PlaceOnStation
  <2>1. PICK s \in Slots : Placed(s)
    BY <1>3 DEF PlaceOnStation, Carried, Placed
  <2> QED
    BY <1>1, <2>1, Elsewhere DEF Placed, Typed, OnePerPlace, OnStation
<1>4. CASE PlaceFails
  BY <1>1, <1>4, DumpSeparates DEF PlaceFails
<1>5. CASE Pickup \/ RecoverPickup
  BY <1>5, BrokenSeparates DEF Pickup, RecoverPickup
<1>6. CASE PutBack \/ RecoverPutBack
  <2>1. slot \in Slots
    BY <1>6 DEF PutBack, RecoverPutBack, AtWork, Pointing, Busy
  <2> QED
    BY <1>1, <1>6, <2>1, IntoSlotSeparates DEF PutBack, RecoverPutBack
<1>7. CASE ensure_inventory_empty
  BY <1>7, DumpSeparates DEF ensure_inventory_empty
<1>8. CASE Reconcile
  BY <1>8, Elsewhere DEF Reconcile, OnePerPlace, Home
<1> QED
  BY <1>1, <1>2, <1>3, <1>4, <1>5, <1>6, <1>7, <1>8
     DEF Next, automated_chest_io, Scan, ScanFails, NextPass, Report, Answered, TakeFails,
         OpenShulker, Transfer, TransferFails, Complete, ReopenFails, Crash, Restart, RestartBlind

---------------------------------------------------------------------------
(* The journal and what was left before. *)

(* What a start reported stays in the file or aside. *)
LEMMA FiledKept ==
  ASSUME Typed, AtWork, Filed, Next
  PROVE  Filed'
<1> USE DEF Goto, GiveUp
<1>1. CASE /\ UNCHANGED journal
           /\ pc' = pc \/ (pc # "down" /\ pc' \notin Busy \union {"down"})
              \/ (pc \in Busy /\ pc' # "down")
  BY <1>1 DEF Filed, journal, Busy, Opened
<1>2. CASE TakeShulker
  BY <1>2 DEF TakeShulker, begin, archive_restored, Aside, Typed, JournalType, Filed, Busy, Opened, None, Entry
<1>3. CASE TakeFails
  BY <1>3 DEF TakeFails, begin_fails, archive_restored, Aside, journal, Typed, JournalType, Filed,
              Busy, Opened, None, Entry
<1>4. ASSUME pc \in Busy, pc' # "down",
             \/ complete_with_state
             \/ \E s \in States : advance(s)
      PROVE  Filed'
  <2>1. ~restored /\ leftovers \subseteq archive
    BY <1>4 DEF Filed, Busy, Opened
  <2>2. UNCHANGED <<restored, archive, leftovers>>
    BY <1>4 DEF complete_with_state, advance
  <2> QED
    BY <1>4, <2>1, <2>2 DEF Filed
<1>5. CASE Crash
  BY <1>5 DEF Crash, Forget, Filed, Busy, Opened
<1>6. CASE Restart
  BY <1>6 DEF Restart, load_empty, load_leftover, load_damaged, Aside, Typed, JournalType, Filed,
              Busy, Opened, None, Entry
<1>7. CASE RestartBlind
  BY <1>7 DEF RestartBlind, load_stuck, Filed, Busy, Opened
<1> QED
  BY <1>1, <1>2, <1>3, <1>4, <1>5, <1>6, <1>7
     DEF Next, automated_chest_io, Scan, ScanFails, NextPass, Report, Answered,
         PlaceOnStation, PlaceFails, OpenShulker, Transfer, TransferFails, Pickup, PutBack,
         Complete, ReopenFails, RecoverPickup, RecoverPutBack, ensure_inventory_empty,
         Reconcile, Busy, Opened, States

---------------------------------------------------------------------------
(* The record of a shulker that is away. *)

(* Nothing the bot does takes another shulker from its slot than the one of
   the slot it is at. *)
LEMMA OnlyOneMore ==
  ASSUME Typed, slot \in Slots,
         \/ UNCHANGED place \/ Taken \/ Dump \/ Broken \/ IntoSlot
         \/ \E s \in Carried : Placed(s)
  PROVE  Away' \subseteq Away \union {slot}
BY Elsewhere DEF Typed, Away, Taken, Dump, Broken, IntoSlot, Placed, Carried, OnStation

(* When only the shulker of this slot is away, putting back what is in hand
   puts it back. *)
LEMMA PutIsHome ==
  ASSUME Typed, slot \in Slots, IntoSlot,
         OnlyThis \/ Away' \subseteq {slot}
  PROVE  Away' = {} /\ Away' \subseteq {slot}
BY Elsewhere DEF Typed, Away, OnlyThis, IntoSlot, Carried

(* A shulker is still on record when it is where it was, or nowhere near the
   station, and no record is lost. *)
LEMMA RecordStays ==
  ASSUME Typed, StrandedIsRecorded,
         \A s \in Away' : s \in Away /\ (place'[s] = Station => place[s] = Station),
         superseded \subseteq superseded',
         \A e \in archive \union {file} : e # None => e \in archive' \union {file'}
  PROVE  StrandedIsRecorded'
<1> SUFFICES ASSUME NEW s \in Away' \ superseded'
             PROVE  \E e \in Names(s)' : e.state = "ShulkerPickedUp" => place'[s] # Station
  BY DEF StrandedIsRecorded
<1>1. s \in Away \ superseded /\ s \in Slots
  BY DEF Away
<1>2. PICK e \in Names(s) : e.state = "ShulkerPickedUp" => place[s] # Station
  BY <1>1 DEF StrandedIsRecorded
<1>3. e # None
  BY <1>1, <1>2, JournalAssumption DEF Names, None
<1> QED
  BY <1>2, <1>3 DEF Names

(* The operation ends, and the shulker it leaves behind is on record. *)
LEMMA LeftBehind ==
  ASSUME Typed, AtWork, Recorded, pc \in Busy,
         UNCHANGED <<file, archive, superseded>>,
         Away' \subseteq Away \union {slot},
         OnlyThis => \/ Away' = {}
                     \/ file.state # "ShulkerPickedUp"
                     \/ place'[slot] # Station
  PROVE  StrandedIsRecorded'
<1>1. file \in Entry /\ file.slot = slot
  BY DEF Recorded
<1>2. CASE OnlyThis
  <2>1. Away' \subseteq {slot}
    BY <1>2 DEF OnlyThis
  <2> QED
    BY <1>1, <1>2, <2>1 DEF StrandedIsRecorded, Names
<1>3. CASE Away \union {slot} \subseteq superseded
  BY <1>3 DEF StrandedIsRecorded
<1> QED
  BY <1>2, <1>3 DEF Recorded

(* A step of the operation that goes on keeps what Recorded says of all. *)
LEMMA RecordGoesOn ==
  ASSUME Typed, Recorded, pc \in Busy,
         Away' \subseteq Away \union {slot}, UNCHANGED <<slot, superseded>>,
         UNCHANGED journal \/ \E s \in States : advance(s)
  PROVE  /\ entry' \in Entry /\ file' = entry' /\ entry'.slot = slot'
         /\ OnlyThis' \/ (Away \union {slot})' \subseteq superseded'
<1>1. entry \in Entry /\ file = entry /\ entry.slot = slot
  BY DEF Recorded
<1>2. entry' \in Entry /\ file' = entry' /\ entry'.slot = slot
  BY <1>1, Advanced DEF Typed, journal
<1>3. OnlyThis \/ Away \union {slot} \subseteq superseded
  BY DEF Recorded
<1>4. OnlyThis' \/ (Away \union {slot})' \subseteq superseded'
  BY <1>3 DEF OnlyThis
<1> QED
  BY <1>2, <1>4

(* The record of the shulker in hand is in the file, and what is stranded is recorded. *)
LEMMA RecordedKept ==
  ASSUME Typed, AtWork, Recorded, Next
  PROVE  Recorded'
<1> USE DEF Goto, GiveUp
<1>1. CASE /\ pc \notin Busy /\ pc' \notin Busy
           /\ UNCHANGED <<file, archive, place, superseded>>
  <2>1. StrandedIsRecorded
    BY <1>1 DEF Recorded
  <2>2. StrandedIsRecorded'
    BY <1>1, <2>1, RecordStays DEF Away
  <2> QED
    BY <1>1, <2>2 DEF Recorded, Busy, Opened
<1>2. CASE TakeShulker
  <2>1. slot \in Slots /\ slot' = slot /\ pc' = "place"
    BY <1>2 DEF TakeShulker, AtWork, Pointing, loop
  <2>2. entry' \in Entry /\ file' = entry' /\ entry'.slot = slot' /\ entry'.state = "ShulkerTaken"
    BY <1>2, <2>1, Begun DEF TakeShulker, Typed
  <2>3. Away' \subseteq Away \union {slot}
    BY <1>2, <2>1, OnlyOneMore DEF TakeShulker, Taken
  <2>4. Away = {} \/ Away \union {slot} \subseteq superseded'
    BY <1>2 DEF TakeShulker, Supersedes
  <2>5. OnlyThis' \/ (Away \union {slot})' \subseteq superseded'
    BY <2>1, <2>3, <2>4 DEF OnlyThis
  <2> QED
    BY <2>1, <2>2, <2>5 DEF Recorded, Busy, Opened
<1>3. CASE TakeFails
  <2>1. StrandedIsRecorded
    BY <1>3 DEF Recorded, TakeFails, Busy, Opened
  <2>2. \A e \in archive \union {file} : e # None => e \in archive' \union {file'}
    BY <1>3 DEF TakeFails, begin_fails, archive_restored, Aside, journal
  <2>3. StrandedIsRecorded'
    BY <1>3, <2>1, <2>2, RecordStays DEF Away, TakeFails
  <2> QED
    BY <1>3, <2>3 DEF TakeFails, Recorded, Busy, Opened
<1>4. CASE PlaceOnStation
  <2>1. /\ slot \in Slots /\ pc \in Busy /\ pc' = "open"
        /\ UNCHANGED <<slot, superseded>> /\ advance("ShulkerOnStation")
    BY <1>4 DEF PlaceOnStation, AtWork, Pointing, Busy, loop
  <2>2. Away' \subseteq Away \union {slot}
    BY <1>4, <2>1, OnlyOneMore DEF PlaceOnStation, Placed
  <2>3. entry.state # "ShulkerPickedUp"
    BY <1>4 DEF PlaceOnStation, Recorded
  <2>4. entry'.state # "ShulkerPickedUp"
    BY <2>1, <2>3, Advanced DEF Typed, States
  <2> QED
    BY <2>1, <2>2, <2>4, RecordGoesOn DEF Recorded, Busy, Opened, States
<1>5. CASE OpenShulker
  <2>1. pc \in Busy /\ pc' \in {"transfer", "recover"}
        /\ UNCHANGED <<slot, superseded, place>> /\ UNCHANGED journal
    BY <1>5 DEF OpenShulker, Busy, Opened, loop
  <2>2. Away' \subseteq Away \union {slot}
    BY <2>1 DEF Away
  <2>3. entry.state # "ShulkerPickedUp" /\ entry' = entry
    BY <1>5, <2>1 DEF OpenShulker, Recorded, Opened, journal
  <2> QED
    BY <2>1, <2>2, <2>3, RecordGoesOn DEF Recorded, Busy, Opened
<1>6. CASE Transfer
  <2>1. pc \in Busy /\ pc' = "pickup"
        /\ UNCHANGED <<slot, superseded, place>> /\ advance("ItemsTransferred")
    BY <1>6 DEF Transfer, Busy, Opened
  <2>2. Away' \subseteq Away \union {slot}
    BY <2>1 DEF Away
  <2>3. entry.state # "ShulkerPickedUp"
    BY <1>6 DEF Transfer, Recorded, Opened
  <2>4. entry'.state # "ShulkerPickedUp"
    BY <2>1, <2>3, Advanced DEF Typed, States
  <2> QED
    BY <2>1, <2>2, <2>4, RecordGoesOn DEF Recorded, Busy, Opened, States
<1>7. ASSUME Pickup \/ RecoverPickup
      PROVE  Recorded'
  <2>1. /\ slot \in Slots /\ pc \in Busy /\ Broken /\ UNCHANGED superseded
        /\ entry = file /\ entry.state # "ShulkerPickedUp"
    BY <1>7 DEF Pickup, RecoverPickup, AtWork, Pointing, Busy, Opened, Recorded
  <2>2. Away' \subseteq Away \union {slot}
    BY <2>1, OnlyOneMore
  <2>3. CASE /\ PickedUp /\ advance("ShulkerPickedUp")
             /\ pc' \in {"putback", "return"} /\ UNCHANGED slot
    <3>1. OnlyThis' => place'[slot'] = Aboard
      BY <2>3, Elsewhere DEF PickedUp, OnlyThis, Away
    <3> QED
      BY <2>1, <2>2, <2>3, <3>1, RecordGoesOn DEF Recorded, Busy, Opened, States
  <2>4. CASE GiveUp /\ UNCHANGED journal
    <3>1. StrandedIsRecorded'
      BY <2>1, <2>2, <2>4, LeftBehind DEF journal
    <3> QED
      BY <2>4, <3>1 DEF Recorded, Busy, Opened
  <2> QED
    BY <1>7, <2>3, <2>4 DEF Pickup, RecoverPickup, loop
<1>8. CASE PutBack
  <2>1. slot \in Slots /\ pc \in Busy /\ UNCHANGED superseded /\ UNCHANGED journal
    BY <1>8 DEF PutBack, AtWork, Pointing, Busy
  <2>2. Away' \subseteq Away \union {slot}
    BY <1>8, <2>1, OnlyOneMore DEF PutBack
  <2>3. CASE IntoSlot /\ pc' = "reopen" /\ UNCHANGED slot
    <3>1. OnlyThis' => Away' = {}
      BY <2>1, <2>3, PutIsHome DEF OnlyThis
    <3> QED
      BY <2>1, <2>2, <2>3, <3>1, RecordGoesOn DEF Recorded, Busy, Opened
  <2>4. CASE GiveUp
    <3>1. OnlyThis => Away' = {} \/ place'[slot] # Station
      <4>1. CASE IntoSlot
        BY <2>1, <4>1, PutIsHome
      <4>2. CASE UNCHANGED place
        BY <1>8, <4>2, Elsewhere DEF PutBack, Recorded
      <4> QED
        BY <1>8, <4>1, <4>2 DEF PutBack
    <3>2. StrandedIsRecorded'
      BY <2>1, <2>2, <3>1, LeftBehind DEF journal
    <3> QED
      BY <2>4, <3>2 DEF Recorded, Busy, Opened
  <2> QED
    BY <1>8, <2>3, <2>4 DEF PutBack, loop
<1>9. CASE Complete
  <2>1. /\ pc = "reopen" /\ pc' \in {"idle", "scan"}
        /\ UNCHANGED <<place, superseded, archive>>
    BY <1>9 DEF Complete, complete_with_state
  <2>2. Away = {} \/ Away \subseteq superseded
    BY <2>1 DEF Recorded, Busy, OnlyThis
  <2>3. StrandedIsRecorded'
    BY <2>1, <2>2 DEF StrandedIsRecorded, Away
  <2> QED
    BY <2>1, <2>3 DEF Recorded, Busy, Opened
<1>10. CASE RecoverPutBack
  <2>1. /\ slot \in Slots /\ pc \in Busy /\ pc = "return" /\ pc' = "idle"
        /\ UNCHANGED superseded
    BY <1>10 DEF RecoverPutBack, AtWork, Pointing, Busy
  <2>2. Away' \subseteq Away \union {slot}
    BY <1>10, <2>1, OnlyOneMore DEF RecoverPutBack
  <2>3. CASE IntoSlot
    <3>1. Away' = {} \/ Away' \subseteq superseded'
      BY <2>1, <2>2, <2>3, PutIsHome DEF Recorded
    <3>2. StrandedIsRecorded'
      BY <3>1 DEF StrandedIsRecorded
    <3> QED
      BY <2>1, <3>2 DEF Recorded, Busy, Opened
  <2>4. CASE UNCHANGED place /\ UNCHANGED journal
    <3>1. OnlyThis => place'[slot] # Station
      BY <2>1, <2>4, Elsewhere DEF Recorded
    <3>2. StrandedIsRecorded'
      BY <2>1, <2>2, <2>4, <3>1, LeftBehind DEF journal
    <3> QED
      BY <2>1, <3>2 DEF Recorded, Busy, Opened
  <2> QED
    BY <1>10, <2>3, <2>4 DEF RecoverPutBack
<1>11. ASSUME /\ pc \in Busy /\ pc' \notin Busy
              /\ UNCHANGED <<file, archive, superseded>>
              /\ \/ pc \in Opened \union {"place"} /\ (UNCHANGED place \/ Dump)
                 \/ UNCHANGED place
       PROVE  Recorded'
  <2>1. slot \in Slots
    BY <1>11 DEF AtWork, Pointing
  <2>2. Away' \subseteq Away \union {slot}
    BY <1>11, <2>1, OnlyOneMore
  <2>3. OnlyThis => Away' = {} \/ file.state # "ShulkerPickedUp" \/ place'[slot] # Station
    <3>1. CASE pc \in Opened \union {"place"}
      BY <1>11, <3>1 DEF Recorded
    <3>2. CASE pc \in {"putback", "return"}
      BY <1>11, <3>2, Elsewhere DEF Recorded, Opened
    <3>3. CASE pc = "reopen"
      BY <1>11, <3>3 DEF Recorded, Opened, Away
    <3> QED
      BY <1>11, <3>1, <3>2, <3>3 DEF Busy
  <2>4. StrandedIsRecorded'
    BY <1>11, <2>2, <2>3, LeftBehind
  <2> QED
    BY <1>11, <2>4 DEF Recorded, Busy, Opened
<1>12. CASE PlaceFails \/ TransferFails \/ ReopenFails \/ Crash
  BY <1>1, <1>11, <1>12
     DEF PlaceFails, TransferFails, ReopenFails, Crash, Forget, journal, Busy, Opened
<1>13. CASE Restart
  <2>1. StrandedIsRecorded
    BY <1>13 DEF Recorded, Restart, Busy, Opened
  <2>2. \A e \in archive \union {file} : e # None => e \in archive' \union {file'}
    BY <1>13 DEF Restart, load_empty, load_leftover, load_damaged, Aside
  <2>3. StrandedIsRecorded'
    BY <1>13, <2>1, <2>2, RecordStays DEF Away, Restart
  <2> QED
    BY <1>13, <2>3 DEF Restart, Recorded, Busy, Opened
<1>14. CASE RestartBlind
  <2>1. StrandedIsRecorded
    BY <1>14 DEF Recorded, RestartBlind, Busy, Opened
  <2>2. StrandedIsRecorded'
    BY <1>14, <2>1, RecordStays DEF Away, RestartBlind, load_stuck
  <2> QED
    BY <1>14, <2>2 DEF RestartBlind, Recorded, Busy, Opened
<1>15. CASE ensure_inventory_empty
  <2>1. StrandedIsRecorded
    BY <1>15 DEF Recorded, ensure_inventory_empty, Busy, Opened
  <2>2. \A s \in Away' : s \in Away /\ (place'[s] = Station => place[s] = Station)
    BY <1>15, Elsewhere DEF ensure_inventory_empty, Dump, Away, Carried, Typed
  <2>3. StrandedIsRecorded'
    BY <1>15, <2>1, <2>2, RecordStays DEF ensure_inventory_empty, journal
  <2> QED
    BY <1>15, <2>3 DEF ensure_inventory_empty, Recorded, Busy, Opened
<1>16. CASE Reconcile
  <2>1. StrandedIsRecorded'
    BY <1>16 DEF Reconcile, StrandedIsRecorded, Away, Home
  <2> QED
    BY <1>16, <2>1 DEF Reconcile, Recorded, Busy, Opened
<1> QED
  BY <1>1, <1>2, <1>3, <1>4, <1>5, <1>6, <1>7, <1>8, <1>9, <1>10, <1>12, <1>13, <1>14, <1>15, <1>16
     DEF Next, automated_chest_io, Scan, ScanFails, NextPass, Report, Answered, journal, Busy, Opened

---------------------------------------------------------------------------
(* What a report says. *)

(* Where no operation is at work there is nothing to show. *)
LEMMA Idle ==
  ASSUME pc \notin Busy \union AtLoop, was = Home
  PROVE  Faithful
BY DEF Faithful, Tracked, Accounted, CountsHold, Home

(* The shulker in hand is that of the slot. *)
LEMMA InHand ==
  ASSUME Tracked, NotLoose, pc \in Busy,
         NEW s \in Slots, place[s] \in {Aboard, Station}
  PROVE  was[s] = slot
BY Elsewhere DEF Tracked, OnlyItMoves, NotLoose

Handled == UNCHANGED place \/ Broken \/ \E s \in Carried : Placed(s)

(* What is placed or broken is that shulker, *)
LEMMA HandlesOnlyIt ==
  ASSUME Typed, Tracked, NotLoose, pc \in Busy, slot \in Slots,
         Handled, UNCHANGED <<was, slot>>
  PROVE  OnlyItMoves'
<1>1. OnlyItMoves
  BY DEF Tracked
<1> QED
  BY <1>1, InHand, Elsewhere
     DEF OnlyItMoves, Handled, Broken, Placed, Carried, OnStation, Typed

(* what is taken is, *)
LEMMA TakesOnlyIt ==
  ASSUME Typed, NotLoose, place = was, slot \in Slots,
         UNCHANGED place \/ Taken, UNCHANGED <<was, slot>>
  PROVE  OnlyItMoves'
BY Elsewhere DEF OnlyItMoves, Taken, NotLoose, Typed

(* and putting it back puts every shulker where it was. *)
LEMMA BackWhereItWas ==
  ASSUME Typed, Tracked, NotLoose, pc \in Busy, slot \in Slots, IntoSlot
  PROVE  place' = was
<1>1. PICK s \in Carried :
        place' = [t \in Slots |-> CASE t = s -> slot
                                    [] t # s /\ place[t] = slot -> Aboard
                                    [] OTHER -> place[t]]
  BY DEF IntoSlot
<1>2. s \in Slots /\ was[s] = slot
  BY <1>1, InHand DEF Carried
<1>3. ASSUME NEW t \in Slots, t # s PROVE place[t] = was[t] /\ place[t] # slot
  <2>1. was[t] # slot
    BY <1>2, <1>3 DEF Tracked
  <2> QED
    BY <2>1 DEF Tracked, OnlyItMoves
<1>4. \A t \in Slots : place'[t] = was[t]
  BY <1>1, <1>2, <1>3
<1> QED
  BY <1>1, <1>4 DEF Typed

(* So the shulkers are tracked throughout. *)
LEMMA TrackedKept ==
  ASSUME Typed, OnePerPlace, AtWork, Tracked, Next
  PROVE  Tracked'
<1> USE DEF Goto
<1>1. CASE GiveUp
  BY <1>1 DEF GiveUp, Fresh, Home, Tracked, Busy, Opened, AtLoop
<1>2. CASE pc' \in {"down", "idle"} /\ (UNCHANGED was \/ was' = Home)
  BY <1>2 DEF Home, Tracked, Busy, Opened, AtLoop
<1>3. ASSUME NEW d \in {"withdraw", "deposit"}, NEW n \in 1 .. Goods,
             NEW full \in SUBSET Slots, automated_chest_io(d, n, full)
      PROVE  Tracked'
  BY <1>3 DEF automated_chest_io, OnePerPlace, Tracked, Busy, Opened
<1>4. CASE Scan \/ NextPass \/ (Report /\ ~GiveUp) \/ (Complete /\ ~GiveUp)
  <2>1. pc \in AtLoop /\ pc' \in AtLoop \ Busy /\ UNCHANGED <<place, was>>
    BY <1>4 DEF Scan, NextPass, Report, Complete, Calm, AtLoop, Busy, Opened
  <2> QED
    BY <2>1 DEF Tracked, NotLoose
<1>5. CASE TakeShulker \/ PlaceOnStation \/ OpenShulker \/ Transfer
           \/ ((Pickup \/ RecoverPickup) /\ ~GiveUp)
  <2>1. /\ pc \in Busy \ AtLoop \/ pc = "take"
        /\ pc' \in Busy \ AtLoop /\ slot \in Slots /\ UNCHANGED <<was, slot>>
    BY <1>5 DEF TakeShulker, PlaceOnStation, OpenShulker, Transfer, Pickup, RecoverPickup,
                AtWork, Pointing, Busy, Opened, AtLoop, Calm, loop
  <2>2. (pc \in Busy /\ Handled) \/ (pc = "take" /\ (UNCHANGED place \/ Taken))
    BY <1>5 DEF TakeShulker, Taken, PlaceOnStation, Placed, OpenShulker, Transfer,
                Pickup, RecoverPickup, Handled, Busy, Opened
  <2>3. ASSUME NotLoose PROVE OnlyItMoves'
    <3>1. CASE pc \in Busy /\ Handled
      BY <2>1, <2>3, <3>1, HandlesOnlyIt
    <3>2. CASE pc = "take" /\ (UNCHANGED place \/ Taken)
      <4>1. place = was
        BY <2>3, <3>2 DEF Tracked, AtLoop
      <4> QED
        BY <2>1, <2>3, <3>2, <4>1, TakesOnlyIt
    <3> QED
      BY <2>2, <3>1, <3>2
  <2> QED
    BY <2>1, <2>3 DEF Tracked, NotLoose
<1>6. CASE PutBack /\ ~GiveUp
  <2>1. /\ pc \in Busy /\ slot \in Slots /\ IntoSlot /\ pc' = "reopen"
        /\ UNCHANGED <<was, slot>>
    BY <1>6 DEF PutBack, AtWork, Pointing, Busy, Calm, loop
  <2>2. NotLoose => place' = was
    BY <2>1, BackWhereItWas
  <2> QED
    BY <2>1, <2>2 DEF Tracked, NotLoose, OnlyItMoves
<1>7. CASE Restart \/ RestartBlind \/ ensure_inventory_empty \/ Reconcile \/ Crash
  BY <1>2, <1>7 DEF Restart, RestartBlind, ensure_inventory_empty, Reconcile, Crash, Fresh
<1> QED
  BY <1>1, <1>3, <1>4, <1>5, <1>6, <1>7
     DEF Next, ScanFails, Answered, TakeFails, PlaceFails, TransferFails,
         ReopenFails, RecoverPutBack, GiveUp

(* Goods that go from the open shulker to the bot, or back, are on the
   account. *)
LEMMA AccountMoves ==
  ASSUME Typed, AtWork, Accounted, pc = "transfer",
         NEW n \in Nat, moved' = n, UNCHANGED <<dir, amount, remaining, had>>,
         \/ slipped' = slipped /\ goods' = (IF dir = "withdraw" THEN goods + n ELSE goods - n)
         \/ slipped' # {} /\ (dir = "withdraw" => goods' \in Int /\ goods' >= goods + n)
  PROVE  Accounted'
<1>1. moved = 0 /\ Done \in Int /\ Done' = Done + n
  BY DEF AtWork, Opened, Done, Typed
<1>2. goods \in Int /\ had \in Int
  BY DEF Typed
<1>3. IF slipped = {} THEN goods = Kept(Done) ELSE dir = "withdraw" => goods >= Kept(Done)
  BY DEF Accounted, Busy, Opened
<1>4. Kept(Done)' = IF dir = "withdraw" THEN Kept(Done) + n ELSE Kept(Done) - n
  BY <1>1, <1>2 DEF Kept
<1>5. Kept(Done) \in Int
  BY <1>1, <1>2 DEF Kept
<1>6. IF slipped' = {} THEN goods' = Kept(Done)' ELSE dir' = "withdraw" => goods' >= Kept(Done)'
  <2>1. CASE slipped' = slipped /\ slipped = {}
    BY <1>2, <1>3, <1>4, <1>5, <2>1
  <2>2. CASE slipped' = slipped /\ slipped # {}
    BY <1>2, <1>3, <1>4, <1>5, <2>2
  <2>3. CASE slipped' # {} /\ (dir = "withdraw" => goods' \in Int /\ goods' >= goods + n)
    BY <1>2, <1>3, <1>4, <1>5, <2>3
  <2> QED
    BY <2>1, <2>2, <2>3
<1> QED
  BY <1>6 DEF Accounted

Transfers(n) ==
  \/ Move(IF dir = "withdraw" THEN 0 - n ELSE n) /\ UNCHANGED slipped
  \/ IF dir = "withdraw" THEN Slip(0 - n, goods + n) ELSE Slip(n, 0)

Counts(n) ==
  \/ n = 0 /\ UNCHANGED <<counts, told>> /\ dir # "withdraw"
  \/ Count(holds[Inside] + IF dir = "withdraw" THEN 0 - n ELSE n)

(* A transfer moves what it reports, or a click slips; and what it counts is
   what it found, less or more by what it reports. *)
LEMMA WhatTransfers ==
  ASSUME Typed, AtWork, Transfer
  PROVE  \E n \in Nat : moved' = n /\ Transfers(n) /\ Counts(n)
<1>1. Inside \in Slots /\ holds[Inside] \in Nat /\ goods \in Nat
  BY InsideIsThere DEF Transfer, Typed
<1>2. CASE dir = "withdraw"
  <2>1. PICK n \in Nat : \E want \in Nat :
          transfer_withdraw_from_shulker(n, want) /\ moved' = n /\ Count(holds[Inside] - n)
    BY <1>1, <1>2 DEF Transfer, Withdraw, Typed
  <2>2. holds[Inside] - n = holds[Inside] + (0 - n)
    BY <1>1
  <2> QED
    BY <1>2, <2>1, <2>2 DEF transfer_withdraw_from_shulker, Transfers, Counts
<1>3. CASE dir # "withdraw" /\ moved' = 0 /\ UNCHANGED <<holds, goods, slipped>>
           /\ (UNCHANGED <<counts, told>> \/ Count(holds[Inside]))
  <2>1. Move(0) /\ holds[Inside] + 0 = holds[Inside]
    BY <1>1, <1>3 DEF Move, Typed
  <2> QED
    BY <1>3, <2>1 DEF Transfers, Counts
<1>4. ASSUME dir # "withdraw", NEW want, NEW n \in 0 .. want,
             transfer_deposit_into_shulker(n, want), moved' = n,
             IF n = 0 THEN UNCHANGED <<counts, told>> ELSE Count(holds[Inside] + n)
      PROVE  \E m \in Nat : moved' = m /\ Transfers(m) /\ Counts(m)
  BY <1>4 DEF transfer_deposit_into_shulker, Transfers, Counts
<1>5. CASE dir # "withdraw" /\ Deposit
  BY <1>3, <1>4, <1>5 DEF Deposit
<1> QED
  BY <1>2, <1>5 DEF Transfer

(* The account is kept. *)
LEMMA AccountedKept ==
  ASSUME Typed, AtWork, Accounted, Next
  PROVE  Accounted'
<1> USE DEF Goto
<1>1. CASE pc' \in {"down", "idle"}
  BY <1>1 DEF Accounted, Busy, Opened, AtLoop
<1>2. ASSUME NEW d \in {"withdraw", "deposit"}, NEW n \in 1 .. Goods,
             NEW full \in SUBSET Slots, automated_chest_io(d, n, full)
      PROVE  Accounted'
  <2>1. remaining' = n /\ amount' = n /\ moved' = 0 /\ had' = goods /\ goods' = goods
        /\ slipped' = {} /\ dir' = d
    BY <1>2 DEF automated_chest_io
  <2>2. Done' = 0 /\ goods \in Int
    BY <2>1 DEF Done, Typed
  <2>3. goods' = Kept(Done)'
    BY <2>1, <2>2 DEF Kept
  <2> QED
    BY <2>1, <2>3 DEF Accounted
<1>3. CASE Transfer
  <2>1. PICK n \in Nat : moved' = n /\ Transfers(n)
    BY <1>3, WhatTransfers
  <2>2. pc = "transfer" /\ UNCHANGED <<dir, amount, remaining, had>> /\ goods \in Nat
    BY <1>3 DEF Transfer, Typed
  <2>3. \/ slipped' = slipped /\ goods' = (IF dir = "withdraw" THEN goods + n ELSE goods - n)
        \/ slipped' # {} /\ (dir = "withdraw" => goods' \in Int /\ goods' >= goods + n)
    <3>1. CASE Move(IF dir = "withdraw" THEN 0 - n ELSE n) /\ UNCHANGED slipped
      BY <2>2, <3>1 DEF Move
    <3>2. CASE dir = "withdraw" /\ Slip(0 - n, goods + n)
      <4>1. slipped' # {}
        BY <3>2 DEF Slip
      <4>2. PICK m \in (0 - holds[Inside]) .. (0 - n) : goods' \in (goods + n) .. (goods - m)
        BY <3>2 DEF Slip, Spill
      <4>3. goods + n \in Int
        BY <2>2
      <4>4. goods' \in Int /\ goods' >= goods + n
        BY <4>2, <4>3
      <4> QED
        BY <4>1, <4>4
    <3>3. CASE dir # "withdraw" /\ Slip(n, 0)
      BY <3>3 DEF Slip
    <3> QED
      BY <2>1, <3>1, <3>2, <3>3 DEF Transfers
  <2> QED
    BY <2>1, <2>2, <2>3, AccountMoves
<1>4. CASE /\ pc \in Busy \union AtLoop
           /\ UNCHANGED <<goods, dir, amount, had, slipped>>
           /\ remaining' - moved' = remaining - moved /\ remaining' \in Nat /\ moved' \in Nat
  <2>1. Done' = Done
    <3>1. {amount, remaining, moved, remaining', moved'} \subseteq Int /\ amount' = amount
      BY <1>4 DEF Typed
    <3> QED
      BY <1>4, <3>1 DEF Done
  <2> QED
    BY <1>4, <2>1 DEF Accounted, Kept
<1>5. CASE Complete /\ pc' # "idle"
  <2>1. /\ pc = "reopen" /\ remaining' = remaining - moved /\ moved' = 0
        /\ UNCHANGED <<goods, dir, amount, had, slipped>>
    BY <1>5 DEF Complete, GiveUp, Calm
  <2>2. remaining' \in Nat /\ remaining' - moved' = remaining - moved
    BY <2>1 DEF AtWork, Typed
  <2> QED
    BY <1>4, <2>1, <2>2 DEF AtLoop
<1>6. CASE /\ Scan \/ NextPass \/ Report \/ TakeShulker \/ PlaceOnStation \/ OpenShulker
              \/ Pickup \/ RecoverPickup \/ PutBack
           /\ pc' # "idle"
  <2>1. /\ pc \in Busy \union AtLoop
        /\ UNCHANGED <<goods, dir, amount, had, slipped, remaining, moved>>
    BY <1>6 DEF Scan, NextPass, Report, TakeShulker, PlaceOnStation, OpenShulker, Pickup,
                RecoverPickup, PutBack, GiveUp, Calm, op, Busy, Opened, AtLoop
  <2> QED
    BY <1>4, <2>1 DEF Typed
<1> QED
  BY <1>1, <1>2, <1>3, <1>5, <1>6
     DEF Next, ScanFails, Answered, TakeFails, PlaceFails, TransferFails, ReopenFails,
         RecoverPutBack, Crash, Restart, RestartBlind, ensure_inventory_empty, Reconcile, GiveUp

(* The counts are kept: where a transfer counts, it is the shulker of the
   slot that was opened. *)
LEMMA CountsKept ==
  ASSUME Typed, AtWork, Tracked, CountsHold, Next
  PROVE  CountsHold'
<1> USE DEF Goto
<1>1. CASE pc' \in {"down", "idle"}
  BY <1>1 DEF CountsHold, Busy, Opened, AtLoop
<1>2. ASSUME NEW d \in {"withdraw", "deposit"}, NEW n \in 1 .. Goods,
             NEW full \in SUBSET Slots, automated_chest_io(d, n, full)
      PROVE  CountsHold'
  <2>1. \A i \in Slots \ told' : counts'[i] = Unknown
    BY <1>2 DEF automated_chest_io
  <2> QED
    BY <2>1 DEF CountsHold, Counted
<1>3. CASE Transfer
  <2> SUFFICES ASSUME NotLoose, NEW s \in Slots PROVE Counted(s)'
    BY <1>3 DEF Transfer, CountsHold, NotLoose
  <2>1. PICK n \in Nat : Transfers(n) /\ Counts(n)
    BY <1>3, WhatTransfers
  <2>2. /\ pc = "transfer" /\ slot \in Slots /\ was' = was
        /\ Inside \in Slots /\ place[Inside] = Station
    BY <1>3, InsideIsThere DEF Transfer, AtWork, Pointing, Busy, Opened
  <2>3. was[Inside] = slot /\ holds[Inside] \in Int
    BY <2>2, InHand DEF Busy, Opened, Typed
  <2>4. Counted(s)
    BY <2>2 DEF CountsHold, Busy, Opened
  <2>5. CASE was[s] # slot
    <3>1. s # Inside
      BY <2>3, <2>5
    <3>2. holds'[s] = holds[s]
      BY <2>1, <3>1 DEF Transfers, Move, Slip, Spill, Typed
    <3>3. was[s] \in Slots => counts'[was[s]] = counts[was[s]]
      BY <2>1, <2>5 DEF Counts, Count, Typed
    <3>4. told \ {slot} \subseteq told' /\ slipped \subseteq slipped'
      BY <2>1 DEF Transfers, Counts, Count, Slip
    <3> QED
      BY <2>2, <2>4, <2>5, <3>2, <3>3, <3>4 DEF Counted
  <2>6. CASE was[s] = slot
    <3>1. s = Inside
      BY <2>2, <2>3, <2>6 DEF Tracked
    <3> DEFINE r == IF dir = "withdraw" THEN 0 - n ELSE n
    <3>2. r \in Int
      OBVIOUS
    <3>3. \/ holds'[s] = holds[s] + r /\ slipped' = slipped
          \/ holds'[s] \in Int /\ holds'[s] <= holds[s] + r /\ slot \in slipped'
      BY <2>1, <2>2, <2>3, <3>1, <3>2 DEF Transfers, Move, Slip, Spill, Typed
    <3>4. \/ n = 0 /\ UNCHANGED <<counts, told>> /\ r = 0
          \/ counts'[slot] = holds[s] + r
      BY <2>1, <2>2, <3>1 DEF Counts, Count, Typed
    <3>5. holds[s] \in Int
      BY <2>3, <3>1
    <3> HIDE DEF r
    <3>6. CASE counts'[slot] = holds[s] + r
      <4>1. counts'[slot] = holds'[s] \/ (slot \in slipped' /\ counts'[slot] > holds'[s])
        BY <3>2, <3>3, <3>5, <3>6
      <4> QED
        BY <2>2, <2>6, <4>1 DEF Counted
    <3>7. CASE UNCHANGED <<counts, told>> /\ r = 0
      <4>1. \/ holds'[s] = holds[s] /\ slipped' = slipped
            \/ holds'[s] \in Int /\ holds'[s] <= holds[s] /\ slot \in slipped'
        BY <3>3, <3>5, <3>7
      <4>2. slot \in told \/ counts[slot] \in {Unknown, holds[s]}
            \/ (slot \in slipped /\ counts[slot] > holds[s])
        BY <2>2, <2>4, <2>6 DEF Counted
      <4>3. slipped \subseteq slipped' /\ counts[slot] \in Int
        BY <2>1, <2>2 DEF Transfers, Slip, Typed, Unknown
      <4>4. \/ slot \in told' \/ counts'[slot] = Unknown \/ counts'[slot] = holds'[s]
            \/ (slot \in slipped' /\ counts'[slot] > holds'[s])
        BY <3>5, <3>7, <4>1, <4>2, <4>3
      <4> QED
        BY <2>2, <2>6, <4>4 DEF Counted
    <3> QED
      BY <3>4, <3>6, <3>7
  <2> QED
    BY <2>5, <2>6
<1>4. CASE /\ pc \in Busy \union AtLoop
           /\ UNCHANGED <<holds, was, counts, told, slipped>>
  BY <1>4 DEF CountsHold, Counted, NotLoose
<1>5. CASE /\ Scan \/ NextPass \/ Report \/ TakeShulker \/ PlaceOnStation \/ OpenShulker
              \/ Pickup \/ RecoverPickup \/ PutBack \/ Complete
           /\ pc' # "idle"
  <2>1. /\ pc \in Busy \union AtLoop
        /\ UNCHANGED <<holds, was, counts, told, slipped>>
    BY <1>5 DEF Scan, NextPass, Report, TakeShulker, PlaceOnStation, OpenShulker, Pickup,
                RecoverPickup, PutBack, Complete, GiveUp, Calm, op, Busy, Opened, AtLoop
  <2> QED
    BY <1>4, <2>1
<1> QED
  BY <1>1, <1>2, <1>3, <1>5
     DEF Next, ScanFails, Answered, TakeFails, PlaceFails, TransferFails, ReopenFails,
         RecoverPutBack, Crash, Restart, RestartBlind, ensure_inventory_empty, Reconcile, GiveUp

---------------------------------------------------------------------------
(* The theorems. *)

(* The invariant holds at the start, *)
LEMMA InitInv == Init => Inv
<1> SUFFICES ASSUME Init PROVE Inv
  OBVIOUS
<1>1. Typed /\ OnePerPlace /\ AtWork
  BY InitTyped
<1>2. pc = "idle" /\ leftovers = {} /\ was = Home /\ Away = {}
  BY DEF Init, JournalInit, Away, Home
<1>3. Filed
  BY <1>2 DEF Filed, Busy, Opened
<1>4. Recorded
  BY <1>2 DEF Recorded, StrandedIsRecorded, Busy, Opened
<1>5. Faithful
  BY <1>2, Idle DEF Busy, Opened, AtLoop
<1> QED
  BY <1>1, <1>3, <1>4, <1>5 DEF Inv

(* every step keeps it, *)
LEMMA StepInv == Inv /\ [Next]_vars => Inv'
<1> SUFFICES ASSUME Inv, [Next]_vars PROVE Inv'
  OBVIOUS
<1>1. CASE Next
  BY <1>1, TypesKept, PlacesKept, FiledKept, RecordedKept, TrackedKept, AccountedKept, CountsKept
     DEF Inv, Faithful
<1>2. CASE UNCHANGED vars
  <2> USE <1>2 DEF vars, journal, op, loop, Inv
  <2>1. Typed'
    BY DEF Typed, JournalType
  <2>2. OnePerPlace' /\ AtWork'
    BY DEF OnePerPlace, AtWork, OnStation
  <2>3. Filed'
    BY DEF Filed
  <2>4. Recorded'
    BY DEF Recorded, OnlyThis, Away, StrandedIsRecorded, Names
  <2>5. Faithful'
    BY DEF Faithful, Tracked, OnlyItMoves, NotLoose, Accounted, Kept, Done, CountsHold, Counted
  <2> QED
    BY <2>1, <2>2, <2>3, <2>4, <2>5
<1> QED
  BY <1>1, <1>2

(* and so it always holds. *)
LEMMA InvHolds == Spec => []Inv
BY InitInv, StepInv, PTL DEF Spec

(* Every variable of the operation and of the journal keeps its type, and  *)
(* no two shulkers are ever in one slot or on the station, whatever click  *)
(* is lost.                                                                *)
THEOREM TypesHold == Spec => []TypeOK
<1>1. Inv => TypeOK
  BY TypesFollow DEF Inv
<1> QED
  BY InvHolds, <1>1, PTL

(* begin archives what a start of the program restored before it writes    *)
(* its own entry over the file, and no other write of the journal comes    *)
(* before that: a leftover is never lost.                                  *)
THEOREM LeftoversAreKept == Spec => []LeftoverIsKept
<1>1. Inv => LeftoverIsKept
  BY DEF Inv, Filed, LeftoverIsKept
<1> QED
  BY InvHolds, <1>1, PTL

(* The journal is a step behind the bot: in the middle of an operation the *)
(* one record in the file is that of the only shulker that is away, or all *)
(* that are away had theirs replaced, and the record is cleared when the   *)
(* shulker is seen in its slot.                                            *)
THEOREM StrandedAreRecorded == Spec => []StrandedIsRecorded
<1>1. Inv => StrandedIsRecorded
  <2> SUFFICES ASSUME Inv PROVE StrandedIsRecorded
    OBVIOUS
  <2>1. CASE pc \notin Busy
    BY <2>1 DEF Inv, Recorded
  <2>2. CASE pc \in Busy
    <3>1. CASE Away \union {slot} \subseteq superseded
      BY <3>1 DEF StrandedIsRecorded
    <3>2. CASE OnlyThis
      <4>1. /\ Away \subseteq {slot} /\ file.slot = slot
            /\ Away = {} \/ file.state # "ShulkerPickedUp" \/ place[slot] # Station
        BY <2>2, <3>2, Elsewhere DEF Inv, Recorded, OnlyThis, Busy
      <4> QED
        BY <4>1 DEF StrandedIsRecorded, Names
    <3> QED
      BY <2>2, <3>1, <3>2 DEF Inv, Recorded
  <2> QED
    BY <2>1, <2>2
<1> QED
  BY InvHolds, <1>1, PTL

(* An operation keeps the account of what goes through the bot's hands and *)
(* the counts it takes, step by step, and answers only when nothing        *)
(* remains.  Clicks the transfer does not look for may be lost: they make  *)
(* its counts too high, never too low.  That each shulker is back, and the *)
(* counts, are said of operations that began with no shulker on the bot,   *)
(* the station or the ground: the bot tells one from another nowhere.      *)
THEOREM ReportsAreTrue == Spec => []ReportIsTrue
<1>1. Inv => ReportIsTrue
  <2> SUFFICES ASSUME Inv, pc = "done" PROVE ReportIsTrue
    BY DEF ReportIsTrue
  <2>1. remaining = 0 /\ moved = 0 /\ Done = amount
    BY DEF Inv, AtWork, Typed, Done
  <2> QED
    BY <2>1 DEF Inv, Faithful, Tracked, Accounted, CountsHold, AtLoop, Kept, Due, ReportIsTrue
<1> QED
  BY InvHolds, <1>1, PTL
=============================================================================
