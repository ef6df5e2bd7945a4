--------------------------- MODULE PlayerDeskProofs ---------------------------
(***************************************************************************)
(* Proofs about PlayerDesk: the types, that an answer of the resolver is   *)
(* never older than a time to live, and of the gate that it forgets no     *)
(* penalty, keeps the wait it announced and bounds its notices, for any    *)
(* number of players, of commands and of entries in the tables.            *)
(***************************************************************************)
EXTENDS PlayerDesk, TLAPS

---------------------------------------------------------------------------
(* What the steps of the desk do to the resolver and to the gate. *)

MojangStep ==
  \/ UNCHANGED mojangVars
  \/ \E c \in Callers, n \in Names : resolve_user_uuid(c, n)
  \/ \E c \in Callers : Resolving(c)
  \/ \E c \in Callers : Return(c) /\ UNCHANGED <<cache, in_flight, owner, disowned>>
  \/ cleanup_uuid_cache
  \/ \E n \in Names, a \in Accounts \union {Nobody} : Rename(n, a)
  \/ MojangTick

GateStep ==
  \/ UNCHANGED <<limiterVars, history>>
  \/ \E k \in Keys : check(k) /\ Remember(k)
  \/ cleanup_stale /\ UNCHANGED history
  \/ LimiterTick /\ history' = [k \in Keys |-> Later(history[k])]

(* Every step is one of the resolver beside one of the gate. *)
LEMMA Steps ==
  ASSUME command \in Commands, [Next]_vars
  PROVE  MojangStep /\ GateStep
<1>1. "store" \in Callers /\ "chat" \in Callers /\ ChatNames \subseteq Names
  BY DeskAssumption
<1>2. \A m \in Commands : m.by \in Names /\ m.to \in Names
  BY DeskAssumption
<1>3. /\ \A n \in Names : NameKey(n) \in Keys
      /\ \A a \in Accounts : UuidKey(a) \in Keys
  BY DeskAssumption DEF NameKey, UuidKey
<1>4. ASSUME NEW m \in Commands, ReadCommand(m) PROVE MojangStep /\ GateStep
  BY <1>1, <1>2, <1>3, <1>4 DEF ReadCommand, MojangStep, GateStep
<1>5. CASE SenderUnknown
  BY <1>1, <1>5 DEF SenderUnknown, Done, MojangStep, GateStep
<1>6. CASE SenderKnown
  BY <1>1, <1>3, <1>6 DEF SenderKnown, Done, MojangStep, GateStep
<1>7. CASE ResolveTarget
  BY <1>1, <1>2, <1>7 DEF ResolveTarget, MojangStep, GateStep
<1>8. CASE TargetResolved
  BY <1>1, <1>8 DEF TargetResolved, Done, MojangStep, GateStep
<1>9. CASE Cleanup
  BY <1>9 DEF Cleanup, MojangStep, GateStep
<1>10. CASE ChatAsks
  BY <1>1, <1>10 DEF ChatAsks, MojangStep, GateStep
<1>11. CASE ChatGoesOn
  BY <1>1, <1>11 DEF ChatGoesOn, MojangStep, GateStep
<1>12. CASE Resolver
  BY <1>12 DEF Resolver, MojangStep, GateStep
<1>13. CASE Renaming
  <2>1. PICK change \in Renames : Rename(change[1], change[2])
    BY <1>13 DEF Renaming
  <2>2. change[1] \in Names /\ change[2] \in Accounts \union {Nobody}
    BY MojangAssumption
  <2> QED
    BY <1>13, <2>1, <2>2 DEF Renaming, MojangStep, GateStep
<1>14. CASE Tick
  BY <1>14 DEF Tick, MojangStep, GateStep
<1>15. CASE UNCHANGED vars
  BY <1>15 DEF vars, MojangStep, GateStep
<1> QED
  BY <1>4, <1>5, <1>6, <1>7, <1>8, <1>9, <1>10, <1>11, <1>12, <1>13, <1>14, <1>15 DEF Next

---------------------------------------------------------------------------
(* The gate: an entry of its table and the history of its key. *)

(* The notices of a key are as old as its last attempt at least, and no     *)
(* three are in one window.                                                 *)
NoticesApart(h) ==
  /\ h.attempt <= h.message /\ h.attempt <= h.told[1]
  /\ h.told[1] <= h.told[2] /\ h.told[2] <= h.told[3] /\ h.told[3] >= ResetAfter

(* The entry of a key is its history.  A second notice in one window is the *)
(* one of the top of the cooldown, and a wait that was announced covers the *)
(* cooldown.                                                                *)
Mirrors(e, h) ==
  /\ NoticesApart(h)
  /\ e.message = h.message /\ e.attempt = h.attempt /\ e.violations = h.strikes
  /\ e.whisper <= h.told[1] \/ h.told[1] >= ResetAfter
  /\ h.told[2] < ResetAfter => e.violations >= Saturation
  /\ h.promise >= 0 => /\ h.attempt < ResetAfter
                       /\ h.message + h.promise >= calculate_cooldown(h.strikes)

(* A key without an entry has nothing left to serve. *)
Quiet(h) == NoticesApart(h) /\ h.attempt >= ResetAfter /\ h.promise = -1

GateInv ==
  /\ LimiterTypeOK
  /\ history \in [Keys -> History]
  /\ \A k \in Keys : IF k \in DOMAIN limits THEN Mirrors(limits[k], history[k])
                                            ELSE Quiet(history[k])

(* The constants of the gate are numbers in this order. *)
LEMMA Windows ==
  /\ BaseCooldown \in Nat /\ MaxCooldown \in Nat /\ ResetAfter \in Nat /\ StaleAfter \in Nat
  /\ 0 < MaxCooldown /\ MaxCooldown <= ResetAfter /\ ResetAfter <= StaleAfter
  /\ Saturation \in Nat /\ 1 <= Saturation
BY LimiterAssumption

(* No cooldown is longer than the longest. *)
LEMMA Cooldown ==
  ASSUME NEW v \in Violations
  PROVE  calculate_cooldown(v) \in Int /\ calculate_cooldown(v) <= MaxCooldown
<1>1. Min2(v, 10) \in Nat
  BY Windows DEF Min2, Violations
<1>2. \A n \in Nat : 2 ^ n \in Int
  OBVIOUS
<1>3. 2 ^ Min2(v, 10) \in Int
  BY <1>1, <1>2
<1> DEFINE x == BaseCooldown * 2 ^ Min2(v, 10)
<1>4. x \in Int
  BY <1>3, Windows
<1> HIDE DEF x
<1>5. Min2(x, MaxCooldown) \in Int /\ Min2(x, MaxCooldown) <= MaxCooldown
  BY <1>4, Windows DEF Min2
<1> QED
  BY <1>5 DEF calculate_cooldown, x

(* A tick. *)
LEMMA AgedIs ==
  ASSUME NEW a \in 0 .. StaleAfter
  PROVE  /\ Aged(a) \in 0 .. StaleAfter /\ Aged(a) >= a /\ Aged(a) <= a + 1
         /\ Aged(a) = a + 1 \/ Aged(a) = StaleAfter
BY Windows DEF Aged, Min2

LaterEntry(e) == [e EXCEPT !.message = Aged(@), !.attempt = Aged(@), !.whisper = Aged(@)]

(* An entry that gets older keeps its violations. *)
LEMMA EntryAges ==
  ASSUME NEW e \in UserRateLimit
  PROVE  /\ LaterEntry(e) \in UserRateLimit
         /\ LaterEntry(e).message = Aged(e.message) /\ LaterEntry(e).attempt = Aged(e.attempt)
         /\ LaterEntry(e).whisper = Aged(e.whisper) /\ LaterEntry(e).violations = e.violations
BY AgedIs DEF LaterEntry, UserRateLimit

(* So does what is remembered of a key. *)
LEMMA HistoryAges ==
  ASSUME NEW h \in History
  PROVE  /\ Later(h) \in History
         /\ Later(h).message = Aged(h.message) /\ Later(h).attempt = Aged(h.attempt)
         /\ Later(h).strikes = h.strikes
         /\ \A i \in 1 .. 3 : Later(h).told[i] = Aged(h.told[i])
         /\ Later(h).promise = IF h.attempt + 1 >= ResetAfter THEN -1
                               ELSE IF h.promise > 0 THEN h.promise - 1 ELSE h.promise
<1>1. /\ h.message \in 0 .. StaleAfter /\ h.attempt \in 0 .. StaleAfter
      /\ h.strikes \in Violations /\ h.promise \in -1 .. MaxCooldown
      /\ h.told \in [1 .. 3 -> 0 .. StaleAfter]
  BY DEF History
<1> DEFINE p == IF h.attempt + 1 >= ResetAfter THEN -1
                ELSE IF h.promise > 0 THEN h.promise - 1 ELSE h.promise
<1>2. Later(h) = [message |-> Aged(h.message), attempt |-> Aged(h.attempt),
                  strikes |-> h.strikes, promise |-> p,
                  told    |-> [i \in 1 .. 3 |-> Aged(h.told[i])]]
  BY DEF Later
<1>3. p \in -1 .. MaxCooldown
  BY <1>1, Windows
<1> HIDE DEF p
<1>4. [i \in 1 .. 3 |-> Aged(h.told[i])] \in [1 .. 3 -> 0 .. StaleAfter]
  <2>1. \A i \in 1 .. 3 : h.told[i] \in 0 .. StaleAfter
    BY <1>1
  <2> QED
    BY <2>1, AgedIs
<1>5. Later(h) \in History
  BY <1>1, <1>2, <1>3, <1>4, AgedIs DEF History
<1> QED
  BY <1>2, <1>5 DEF p

(* Time passes alike for an entry and for its key's history. *)
LEMMA QuietAges ==
  ASSUME NEW h \in History, Quiet(h)
  PROVE  Quiet(Later(h))
<1>1. /\ h.message \in 0 .. StaleAfter /\ h.attempt \in 0 .. StaleAfter
      /\ \A i \in 1 .. 3 : h.told[i] \in 0 .. StaleAfter
  BY DEF History
<1>2. NoticesApart(Later(h))
  BY <1>1, HistoryAges, AgedIs, Windows DEF Quiet, NoticesApart
<1>3. Later(h).attempt >= ResetAfter /\ Later(h).promise = -1
  BY <1>1, HistoryAges, AgedIs, Windows DEF Quiet
<1> QED
  BY <1>2, <1>3 DEF Quiet

(* Both get older together. *)
LEMMA MirrorsAge ==
  ASSUME NEW h \in History, NEW e \in UserRateLimit, Mirrors(e, h)
  PROVE  Mirrors(LaterEntry(e), Later(h))
<1>1. /\ h.message \in 0 .. StaleAfter /\ h.attempt \in 0 .. StaleAfter
      /\ h.strikes \in Violations /\ h.promise \in -1 .. MaxCooldown
      /\ \A i \in 1 .. 3 : h.told[i] \in 0 .. StaleAfter
      /\ e.whisper \in 0 .. StaleAfter
  BY DEF History, UserRateLimit
<1>2. NoticesApart(Later(h))
  BY <1>1, HistoryAges, AgedIs, Windows DEF Mirrors, NoticesApart
<1>3. /\ LaterEntry(e).message = Later(h).message /\ LaterEntry(e).attempt = Later(h).attempt
      /\ LaterEntry(e).violations = Later(h).strikes
  BY HistoryAges, EntryAges DEF Mirrors
<1>4. LaterEntry(e).whisper <= Later(h).told[1] \/ Later(h).told[1] >= ResetAfter
  <2>1. LaterEntry(e).whisper = Aged(e.whisper) /\ Later(h).told[1] = Aged(h.told[1])
    BY HistoryAges, EntryAges
  <2>2. e.whisper <= h.told[1] \/ h.told[1] >= ResetAfter
    BY DEF Mirrors
  <2> QED
    BY <1>1, <2>1, <2>2, Windows DEF Aged, Min2
<1>5. Later(h).told[2] < ResetAfter => LaterEntry(e).violations >= Saturation
  BY <1>1, HistoryAges, EntryAges, AgedIs, Windows DEF Mirrors
<1>6. Later(h).promise >= 0 => /\ Later(h).attempt < ResetAfter
                               /\ Later(h).message + Later(h).promise
                                    >= calculate_cooldown(Later(h).strikes)
  <2> SUFFICES ASSUME Later(h).promise >= 0
               PROVE  /\ Later(h).attempt < ResetAfter
                      /\ Later(h).message + Later(h).promise >= calculate_cooldown(h.strikes)
    BY HistoryAges
  <2>1. /\ h.attempt + 1 < ResetAfter
        /\ Later(h).promise = IF h.promise > 0 THEN h.promise - 1 ELSE h.promise
    BY <1>1, HistoryAges, Windows
  <2>2. h.promise >= 0
    BY <1>1, <2>1
  <2> DEFINE cooldown == calculate_cooldown(h.strikes)
  <2>3. cooldown \in Int /\ cooldown <= MaxCooldown /\ h.message + h.promise >= cooldown
    BY <1>1, <2>2, Cooldown DEF Mirrors
  <2> HIDE DEF cooldown
  <2>4. Later(h).attempt < ResetAfter
    BY <1>1, <2>1, HistoryAges, AgedIs, Windows
  <2>5. Later(h).message = h.message + 1 \/ Later(h).message = StaleAfter
    BY <1>1, HistoryAges, AgedIs
  <2>6. Later(h).message + Later(h).promise >= cooldown
    BY <1>1, <2>1, <2>2, <2>3, <2>5, Windows
  <2> QED
    BY <2>4, <2>6 DEF cooldown
<1> QED
  BY <1>2, <1>3, <1>4, <1>5, <1>6 DEF Mirrors

---------------------------------------------------------------------------
(* An attempt. *)

(* A pause long enough forgives the violations. *)
LEMMA ForgivenIs ==
  ASSUME NEW e \in UserRateLimit
  PROVE  /\ Forgiven(e) \in UserRateLimit
         /\ Forgiven(e).message = e.message /\ Forgiven(e).attempt = e.attempt
         /\ Forgiven(e).violations = IF e.attempt >= ResetAfter THEN 0 ELSE e.violations
         /\ Forgiven(e).whisper = IF e.attempt >= ResetAfter THEN StaleAfter ELSE e.whisper
<1>1. 0 \in Violations /\ StaleAfter \in 0 .. StaleAfter
  BY Windows DEF Violations
<1>2. CASE e.attempt >= ResetAfter
  BY <1>1, <1>2 DEF Forgiven, UserRateLimit
<1>3. CASE ~(e.attempt >= ResetAfter)
  BY <1>3 DEF Forgiven
<1> QED
  BY <1>2, <1>3

(* A violation adds one, up to the number at which the penalty stops growing. *)
LEMMA StruckIs ==
  ASSUME NEW e \in UserRateLimit
  PROVE  /\ Struck(e) \in Violations /\ Struck(e) >= Forgiven(e).violations
         /\ Forgiven(e).violations + 1 >= Saturation => Struck(e) >= Saturation
BY ForgivenIs, Windows DEF Struck, Min2, Violations, UserRateLimit

(* What an attempt leaves in the entry, passed or not. *)
LEMMA AttemptedIs ==
  ASSUME NEW e \in UserRateLimit
  PROVE  /\ Attempted(e) \in UserRateLimit
         /\ Attempted(e).attempt = 0
         /\ Attempted(e).message = IF Passes(e) THEN 0 ELSE e.message
         /\ Attempted(e).violations = IF Passes(e) THEN Forgiven(e).violations ELSE Struck(e)
         /\ Attempted(e).whisper = IF ~Passes(e) /\ Announced(e) THEN 0 ELSE Forgiven(e).whisper
<1>1. /\ Forgiven(e) \in UserRateLimit /\ Forgiven(e).message = e.message
      /\ Struck(e) \in Violations /\ 0 \in 0 .. StaleAfter
  BY ForgivenIs, StruckIs, Windows
<1>2. CASE Passes(e)
  BY <1>1, <1>2 DEF Attempted, UserRateLimit
<1>3. CASE ~Passes(e)
  <2>1. CASE Announced(e)
    BY <1>1, <1>3, <2>1 DEF Attempted, UserRateLimit
  <2>2. CASE ~Announced(e)
    BY <1>1, <1>3, <2>2 DEF Attempted, UserRateLimit
  <2> QED
    BY <2>1, <2>2
<1> QED
  BY <1>2, <1>3

(* The entry of a key, the new one of a key that has none included. *)
Entry_(k) == IF k \in DOMAIN limits THEN limits[k] ELSE NewEntry

(* A new entry passes. *)
LEMMA NewEntryIs ==
  /\ NewEntry \in UserRateLimit
  /\ NewEntry.message >= MaxCooldown /\ NewEntry.violations = 0 /\ NewEntry.whisper = StaleAfter
BY Windows DEF NewEntry, UserRateLimit, Min2, Violations

(* The gate and the history agree on what a key has to serve. *)
LEMMA Agree ==
  ASSUME GateInv, NEW k \in Keys
  PROVE  /\ Entry_(k) \in UserRateLimit
         /\ Strikes(k) \in Violations /\ Forgiven(Entry_(k)).violations = Strikes(k)
         /\ Passes(Entry_(k)) <=> IsOnTime(k)
         /\ k \notin DOMAIN limits => Passes(Entry_(k))
<1>1. /\ history[k] \in History /\ history[k].message \in 0 .. StaleAfter
      /\ history[k].attempt \in 0 .. StaleAfter /\ history[k].strikes \in Violations
  BY DEF GateInv, History
<1>2. CASE k \in DOMAIN limits
  <2>1. Entry_(k) \in UserRateLimit /\ Mirrors(Entry_(k), history[k])
    BY <1>2 DEF GateInv, LimiterTypeOK, Entry_
  <2>2. Forgiven(Entry_(k)).violations = Strikes(k)
    BY <2>1, ForgivenIs DEF Mirrors, Strikes
  <2>3. Strikes(k) \in Violations
    BY <2>1, <2>2, ForgivenIs DEF UserRateLimit
  <2>4. Passes(Entry_(k)) <=> IsOnTime(k)
    BY <2>1, <2>2 DEF Passes, IsOnTime, Mirrors
  <2> QED
    BY <1>2, <2>1, <2>2, <2>3, <2>4
<1>3. CASE k \notin DOMAIN limits
  <2>1. Entry_(k) = NewEntry /\ Quiet(history[k])
    BY <1>3 DEF Entry_, GateInv
  <2>2. Strikes(k) = 0 /\ Forgiven(NewEntry).violations = 0 /\ 0 \in Violations
    BY <2>1, NewEntryIs, ForgivenIs, Windows DEF Strikes, Quiet, Violations
  <2>3. calculate_cooldown(0) \in Int /\ calculate_cooldown(0) <= MaxCooldown
    BY <2>2, Cooldown
  <2>4. Passes(NewEntry)
    <3>1. NewEntry.message \in Int
      BY NewEntryIs DEF UserRateLimit
    <3> QED
      BY <2>2, <2>3, <3>1, NewEntryIs, Windows DEF Passes
  <2>5. IsOnTime(k)
    <3>1. history[k].message >= history[k].attempt /\ history[k].attempt >= ResetAfter
      BY <2>1 DEF Quiet, NoticesApart
    <3> QED
      BY <1>1, <2>2, <2>3, <3>1, Windows DEF IsOnTime
  <2> QED
    BY <2>1, <2>2, <2>4, <2>5, NewEntryIs
<1> QED
  BY <1>2, <1>3

(* What the gate tells a key that is not refused for want of room. *)
Told(k) ==
  IF Passes(Entry_(k))
  THEN [ok |-> TRUE, wait |-> -1, notice |-> FALSE]
  ELSE [ok |-> FALSE, wait |-> Remaining(Entry_(k)), notice |-> Announced(Entry_(k))]

(* What the gate works with: the entry that is there, or a new one. *)
LEMMA TableIs ==
  ASSUME NEW k
  PROVE  /\ k \in DOMAIN limits => Table(k) = limits
         /\ k \in DOMAIN Table(k) <=> k \in DOMAIN limits
         /\ EntryOf(k) = Entry_(k)
         /\ ~Refused(k) => Verdict(k) = Told(k)
<1>1. k \in DOMAIN limits => Table(k) = limits
  BY DEF Table, SweepDue, Crowded
<1>2. k \in DOMAIN Table(k) => k \in DOMAIN limits
  BY DEF Table, Kept, Restrict
<1>3. EntryOf(k) = Entry_(k)
  BY <1>1, <1>2 DEF EntryOf, Entry_
<1>4. ~Refused(k) => Verdict(k) = Told(k)
  BY <1>3 DEF Verdict, Told
<1> QED
  BY <1>1, <1>2, <1>3, <1>4

(* The wait that is told ends no earlier than the cooldown. *)
LEMMA RemainingIs ==
  ASSUME NEW e \in UserRateLimit
  PROVE  /\ Remaining(e) \in 0 .. MaxCooldown
         /\ e.message + Remaining(e) >= calculate_cooldown(Struck(e))
<1>1. calculate_cooldown(Struck(e)) \in Int /\ calculate_cooldown(Struck(e)) <= MaxCooldown
  BY StruckIs, Cooldown
<1>2. e.message \in 0 .. StaleAfter
  BY DEF UserRateLimit
<1> QED
  BY <1>1, <1>2, Windows DEF Remaining

(* What is remembered of an attempt that is not refused. *)
LEMMA RememberedIs ==
  ASSUME GateInv, NEW k \in Keys
  PROVE  LET r == Remembered(k, Told(k))
             e == Entry_(k)
         IN  /\ r \in History /\ r.attempt = 0
             /\ r.message = IF Passes(e) THEN 0 ELSE history[k].message
             /\ r.strikes = IF Passes(e) THEN Strikes(k) ELSE Struck(e)
             /\ r.promise = IF Passes(e) THEN -1 ELSE Remaining(e)
             /\ IF ~Passes(e) /\ Announced(e)
                THEN /\ r.told[1] = 0 /\ r.told[2] = history[k].told[1]
                     /\ r.told[3] = history[k].told[2]
                ELSE r.told = history[k].told
<1> DEFINE r == Remembered(k, Told(k))
           e == Entry_(k)
           h == history[k]
           later == [i \in 1 .. 3 |-> IF i = 1 THEN 0 ELSE h.told[i - 1]]
<1>1. /\ e \in UserRateLimit /\ Strikes(k) \in Violations /\ Forgiven(e).violations = Strikes(k)
  BY Agree
<1>2. Struck(e) = Min2(Strikes(k) + 1, Saturation + 1) /\ Struck(e) \in Violations
  BY <1>1, StruckIs DEF Struck
<1>3. h.message \in 0 .. StaleAfter /\ h.told \in [1 .. 3 -> 0 .. StaleAfter]
  BY DEF GateInv, History
<1>4. later \in [1 .. 3 -> 0 .. StaleAfter] /\ later[1] = 0 /\ later[2] = h.told[1] /\ later[3] = h.told[2]
  <2>1. \A i \in 1 .. 3 : i # 1 => i - 1 \in 1 .. 3
    OBVIOUS
  <2> QED
    BY <1>3, <2>1, Windows
<1>5. Remaining(e) \in -1 .. MaxCooldown /\ -1 \in -1 .. MaxCooldown /\ 0 \in 0 .. StaleAfter
  BY <1>1, RemainingIs, Windows
<1> HIDE DEF later, e
<1>6. CASE Passes(e)
  <2>1. Told(k) = [ok |-> TRUE, wait |-> -1, notice |-> FALSE]
    BY <1>6 DEF Told, e
  <2>2. r = [message |-> 0, attempt |-> 0, strikes |-> Strikes(k), promise |-> -1, told |-> h.told]
    BY <2>1 DEF Remembered
  <2> QED
    BY <1>1, <1>3, <1>5, <1>6, <2>2 DEF History, e
<1>7. CASE ~Passes(e) /\ Announced(e)
  <2>1. /\ ~Told(k).ok /\ Told(k).notice /\ Told(k).wait = Remaining(e)
    BY <1>7 DEF Told, e
  <2>2. r = [message |-> h.message, attempt |-> 0, strikes |-> Struck(e),
             promise |-> Remaining(e), told |-> later]
    BY <1>2, <2>1 DEF Remembered, later
  <2> QED
    BY <1>2, <1>3, <1>4, <1>5, <1>7, <2>2 DEF History, e
<1>8. CASE ~Passes(e) /\ ~Announced(e)
  <2>1. /\ ~Told(k).ok /\ ~Told(k).notice /\ Told(k).wait = Remaining(e)
    BY <1>8 DEF Told, e
  <2>2. r = [message |-> h.message, attempt |-> 0, strikes |-> Struck(e),
             promise |-> Remaining(e), told |-> h.told]
    BY <1>2, <2>1 DEF Remembered
  <2> QED
    BY <1>2, <1>3, <1>5, <1>8, <2>2 DEF History, e
<1> QED
  BY <1>6, <1>7, <1>8

(* An attempt leaves the entry and the history alike.  A notice is given    *)
(* only when at most one other is in the window: either none is, or the     *)
(* violations reach the top, which they do once between two forgivings.     *)
LEMMA AttemptMirrors ==
  ASSUME GateInv, NEW k \in Keys
  PROVE  Mirrors(Attempted(Entry_(k)), Remembered(k, Told(k)))
<1> DEFINE e == Entry_(k)
           h == history[k]
           f == Attempted(e)
           r == Remembered(k, Told(k))
<1>1. /\ e \in UserRateLimit /\ Strikes(k) \in Violations /\ Forgiven(e).violations = Strikes(k)
      /\ k \notin DOMAIN limits => Passes(e)
  BY Agree
<1>2. /\ f.attempt = 0
      /\ f.message = IF Passes(e) THEN 0 ELSE e.message
      /\ f.violations = IF Passes(e) THEN Strikes(k) ELSE Struck(e)
      /\ f.whisper = IF ~Passes(e) /\ Announced(e) THEN 0 ELSE Forgiven(e).whisper
      /\ f \in UserRateLimit
  BY <1>1, AttemptedIs
<1>3. /\ r \in History /\ r.attempt = 0
      /\ r.message = IF Passes(e) THEN 0 ELSE h.message
      /\ r.strikes = IF Passes(e) THEN Strikes(k) ELSE Struck(e)
      /\ r.promise = IF Passes(e) THEN -1 ELSE Remaining(e)
      /\ IF ~Passes(e) /\ Announced(e)
         THEN r.told[1] = 0 /\ r.told[2] = h.told[1] /\ r.told[3] = h.told[2]
         ELSE r.told = h.told
  BY RememberedIs
<1>4. /\ h.message \in 0 .. StaleAfter /\ h.attempt \in 0 .. StaleAfter
      /\ \A i \in 1 .. 3 : h.told[i] \in 0 .. StaleAfter
      /\ NoticesApart(h)
  BY DEF GateInv, History, Mirrors, Quiet
<1>5. /\ k \in DOMAIN limits => Mirrors(e, h)
      /\ k \notin DOMAIN limits => e = NewEntry /\ Quiet(h)
  BY DEF GateInv, Entry_
<1>6. /\ e.message \in 0 .. StaleAfter /\ Struck(e) \in Violations /\ Struck(e) >= Strikes(k)
      /\ Strikes(k) + 1 >= Saturation => Struck(e) >= Saturation
      /\ Forgiven(e).whisper \in 0 .. StaleAfter
  BY <1>1, StruckIs, ForgivenIs DEF UserRateLimit
<1>7. Forgiven(e).whisper <= h.told[1] \/ h.told[1] >= ResetAfter
  <2>1. CASE k \in DOMAIN limits
    <3>1. e.attempt = h.attempt /\ (e.whisper <= h.told[1] \/ h.told[1] >= ResetAfter)
      BY <1>5, <2>1 DEF Mirrors
    <3> QED
      BY <1>1, <1>4, <3>1, ForgivenIs, Windows DEF NoticesApart
  <2>2. CASE k \notin DOMAIN limits
    BY <1>4, <1>5, <2>2, Windows DEF Quiet, NoticesApart
  <2> QED
    BY <2>1, <2>2
<1>8. h.told[2] < ResetAfter => Strikes(k) >= Saturation
  <2> SUFFICES ASSUME h.told[2] < ResetAfter PROVE Strikes(k) >= Saturation
    OBVIOUS
  <2>1. h.attempt < ResetAfter
    BY <1>4, Windows DEF NoticesApart
  <2>2. k \in DOMAIN limits
    BY <1>4, <1>5, <2>1, Windows DEF Quiet
  <2>3. e.violations >= Saturation /\ e.violations = h.strikes
    BY <1>5, <2>2 DEF Mirrors
  <2> QED
    BY <1>4, <2>1, <2>3, Windows DEF Strikes
<1>9. ASSUME Announced(e) PROVE /\ h.told[2] >= ResetAfter
                                /\ h.told[1] < ResetAfter => Strikes(k) + 1 = Saturation
  <2>1. Strikes(k) \in Nat /\ Saturation \in Nat
    BY <1>1, Windows DEF Violations
  <2>2. Forgiven(e).whisper >= ResetAfter \/ Strikes(k) + 1 = Saturation
    BY <1>1, <1>9 DEF Announced
  <2>3. CASE Forgiven(e).whisper >= ResetAfter
    <3>1. h.told[1] >= ResetAfter
      BY <1>4, <1>6, <1>7, <2>3, Windows
    <3> QED
      BY <1>4, <3>1, Windows DEF NoticesApart
  <2>4. CASE Strikes(k) + 1 = Saturation
    BY <1>4, <1>8, <2>1, <2>4, Windows
  <2> QED
    BY <2>2, <2>3, <2>4
<1> HIDE DEF e, f, r, h
<1>10. NoticesApart(r)
  <2>0. r.message \in 0 .. StaleAfter /\ \A i \in 1 .. 3 : r.told[i] \in 0 .. StaleAfter
    BY <1>3 DEF History
  <2>1. CASE ~Passes(e) /\ Announced(e)
    BY <1>3, <1>4, <1>9, <2>0, <2>1 DEF NoticesApart
  <2>2. CASE ~(~Passes(e) /\ Announced(e))
    BY <1>3, <1>4, <2>0, <2>2 DEF NoticesApart
  <2> QED
    BY <2>1, <2>2
<1>11. f.message = r.message /\ f.attempt = r.attempt /\ f.violations = r.strikes
  <2>1. ~Passes(e) => e.message = h.message
    BY <1>1, <1>5 DEF Mirrors
  <2> QED
    BY <1>2, <1>3, <2>1
<1>12. f.whisper <= r.told[1] \/ r.told[1] >= ResetAfter
  <2>1. CASE ~Passes(e) /\ Announced(e)
    BY <1>2, <1>3, <2>1
  <2>2. CASE ~(~Passes(e) /\ Announced(e))
    BY <1>2, <1>3, <1>7, <2>2
  <2> QED
    BY <2>1, <2>2
<1>13. r.told[2] < ResetAfter => f.violations >= Saturation
  <2>0. Strikes(k) \in Nat /\ Struck(e) \in Nat /\ Saturation \in Nat
    BY <1>1, <1>6, Windows DEF Violations
  <2>1. CASE ~Passes(e) /\ Announced(e)
    BY <1>2, <1>3, <1>6, <1>9, <2>0, <2>1
  <2>2. CASE ~(~Passes(e) /\ Announced(e))
    BY <1>2, <1>3, <1>6, <1>8, <2>0, <2>2
  <2> QED
    BY <2>1, <2>2
<1>14. r.promise >= 0 => /\ r.attempt < ResetAfter
                         /\ r.message + r.promise >= calculate_cooldown(r.strikes)
  <2>1. 0 < ResetAfter
    BY Windows
  <2>2. CASE Passes(e)
    BY <1>3, <2>2
  <2>3. CASE ~Passes(e)
    <3>1. e.message = h.message
      BY <1>1, <1>5, <2>3 DEF Mirrors
    <3>2. e.message + Remaining(e) >= calculate_cooldown(Struck(e))
      BY <1>1, RemainingIs
    <3> QED
      BY <1>3, <2>1, <2>3, <3>1, <3>2
  <2> QED
    BY <2>2, <2>3
<1> QED
  BY <1>10, <1>11, <1>12, <1>13, <1>14 DEF Mirrors, e, f, r, h

---------------------------------------------------------------------------
(* The table of the gate. *)

(* A sweep drops only entries that have nothing left to serve. *)
LEMMA Swept ==
  ASSUME GateInv, NEW threshold \in {ResetAfter, StaleAfter}
  PROVE  LET kept == Kept(limits, threshold)
         IN  /\ DOMAIN kept \subseteq DOMAIN limits
             /\ \A k \in DOMAIN kept : kept[k] = limits[k]
             /\ \A k \in DOMAIN limits : k \notin DOMAIN kept => Quiet(history[k])
<1>1. clamp_stale_threshold(threshold) \in Nat /\ clamp_stale_threshold(threshold) >= ResetAfter
  BY Windows DEF clamp_stale_threshold
<1> DEFINE kept == Kept(limits, threshold)
<1>2. /\ DOMAIN kept = {k \in DOMAIN limits : limits[k].attempt < clamp_stale_threshold(threshold)}
      /\ \A k \in DOMAIN kept : kept[k] = limits[k]
  BY DEF Kept, Restrict
<1> HIDE DEF kept
<1>3. ASSUME NEW k \in DOMAIN limits, k \notin DOMAIN kept PROVE Quiet(history[k])
  <2>1. /\ k \in Keys /\ limits[k] \in UserRateLimit /\ history[k] \in History
        /\ Mirrors(limits[k], history[k])
    BY DEF GateInv, LimiterTypeOK
  <2>2. limits[k].attempt \in 0 .. StaleAfter /\ history[k].promise \in -1 .. MaxCooldown
    BY <2>1 DEF UserRateLimit, History
  <2>3. history[k].attempt >= ResetAfter /\ history[k].attempt \in Int
    BY <1>1, <1>2, <1>3, <2>1, <2>2, Windows DEF Mirrors
  <2>4. history[k].promise = -1
    BY <2>1, <2>2, <2>3, Windows DEF Mirrors
  <2> QED
    BY <2>1, <2>3, <2>4 DEF Quiet, Mirrors
<1> QED
  BY <1>2, <1>3 DEF kept

(* A check, with what the history remembers of it, keeps the gate's invariant. *)
LEMMA CheckKept ==
  ASSUME GateInv, NEW k \in Keys, check(k), Remember(k)
  PROVE  GateInv'
<1>1. /\ last_inline_sweep' \in 0 .. StaleAfter /\ cap_refusal_last_whisper' \in 0 .. StaleAfter
  BY Windows DEF check, GateInv, LimiterTypeOK
<1>2. CASE Refused(k)
  <2>1. limits' = limits /\ history' = history
    BY <1>2 DEF check, Remember
  <2> QED
    BY <1>1, <2>1 DEF GateInv, LimiterTypeOK
<1>3. CASE ~Refused(k)
  <2>1. /\ limits' = [j \in DOMAIN Table(k) \union {k} |->
                        IF j = k THEN Attempted(Entry_(k)) ELSE Table(k)[j]]
        /\ history' = [history EXCEPT ![k] = Remembered(k, Told(k))]
    BY <1>3, TableIs DEF check, Remember
  <2>2. /\ DOMAIN Table(k) \subseteq DOMAIN limits
        /\ \A j \in DOMAIN Table(k) : Table(k)[j] = limits[j]
        /\ \A j \in DOMAIN limits : j \notin DOMAIN Table(k) => Quiet(history[j])
    BY Swept DEF Table
  <2>3. DOMAIN limits \subseteq Keys /\ \A j \in DOMAIN limits : limits[j] \in UserRateLimit
    BY DEF GateInv, LimiterTypeOK
  <2>4. Attempted(Entry_(k)) \in UserRateLimit /\ Remembered(k, Told(k)) \in History
    BY Agree, AttemptedIs, RememberedIs
  <2>5. LimiterTypeOK'
    BY <1>1, <2>1, <2>2, <2>3, <2>4 DEF LimiterTypeOK
  <2>6. history' \in [Keys -> History]
    BY <2>1, <2>4 DEF GateInv
  <2>7. ASSUME NEW j \in Keys
        PROVE  IF j \in DOMAIN limits' THEN Mirrors(limits'[j], history'[j]) ELSE Quiet(history'[j])
    <3>1. CASE j = k
      <4>1. j \in DOMAIN limits' /\ limits'[j] = Attempted(Entry_(k))
        BY <2>1, <3>1
      <4>2. history'[j] = Remembered(k, Told(k))
        BY <2>1, <3>1 DEF GateInv
      <4> QED
        BY <4>1, <4>2, AttemptMirrors
    <3>2. CASE j # k
      <4>1. history'[j] = history[j]
        BY <2>1, <3>2 DEF GateInv
      <4>2. j \in DOMAIN limits' <=> j \in DOMAIN Table(k)
        BY <2>1, <3>2
      <4>3. j \in DOMAIN Table(k) => limits'[j] = limits[j] /\ j \in DOMAIN limits
        BY <2>1, <2>2, <3>2
      <4> QED
        BY <2>2, <4>1, <4>2, <4>3 DEF GateInv
    <3> QED
      BY <3>1, <3>2
  <2> QED
    BY <2>5, <2>6, <2>7 DEF GateInv
<1> QED
  BY <1>2, <1>3

(* Every step of the gate does. *)
LEMMA GateKept == GateInv /\ GateStep => GateInv'
<1> SUFFICES ASSUME GateInv, GateStep PROVE GateInv'
  OBVIOUS
<1>1. CASE UNCHANGED <<limiterVars, history>>
  BY <1>1 DEF GateInv, LimiterTypeOK, limiterVars
<1>2. ASSUME NEW k \in Keys, check(k), Remember(k) PROVE GateInv'
  BY <1>2, CheckKept
<1>3. CASE cleanup_stale /\ UNCHANGED history
  <2>1. /\ DOMAIN limits' \subseteq DOMAIN limits
        /\ \A k \in DOMAIN limits' : limits'[k] = limits[k]
        /\ \A k \in DOMAIN limits : k \notin DOMAIN limits' => Quiet(history[k])
    BY <1>3, Swept DEF cleanup_stale
  <2>2. LimiterTypeOK'
    BY <1>3, <2>1, Windows DEF cleanup_stale, GateInv, LimiterTypeOK
  <2>3. ASSUME NEW k \in Keys
        PROVE  IF k \in DOMAIN limits' THEN Mirrors(limits'[k], history[k]) ELSE Quiet(history[k])
    BY <2>1 DEF GateInv
  <2> QED
    BY <1>3, <2>2, <2>3 DEF GateInv
<1>4. CASE LimiterTick /\ history' = [k \in Keys |-> Later(history[k])]
  <2>1. limits' = [k \in DOMAIN limits |-> LaterEntry(limits[k])]
    BY <1>4 DEF LimiterTick, LaterEntry
  <2>2. \A k \in DOMAIN limits : k \in Keys /\ limits[k] \in UserRateLimit
    BY DEF GateInv, LimiterTypeOK
  <2>3. LimiterTypeOK'
    <3>1. /\ last_inline_sweep' \in 0 .. StaleAfter
          /\ cap_refusal_last_whisper' \in 0 .. StaleAfter
      BY <1>4, AgedIs DEF LimiterTick, GateInv, LimiterTypeOK
    <3> QED
      BY <2>1, <2>2, <3>1, EntryAges DEF LimiterTypeOK
  <2>4. \A k \in Keys : history[k] \in History
    BY DEF GateInv
  <2>5. history' \in [Keys -> History]
    BY <1>4, <2>4, HistoryAges
  <2>6. ASSUME NEW k \in Keys
        PROVE  IF k \in DOMAIN limits' THEN Mirrors(limits'[k], history'[k]) ELSE Quiet(history'[k])
    <3>1. history'[k] = Later(history[k])
      BY <1>4
    <3>2. CASE k \in DOMAIN limits
      <4>1. Mirrors(limits[k], history[k])
        BY <3>2 DEF GateInv
      <4> QED
        BY <2>1, <2>2, <2>4, <3>1, <3>2, <4>1, MirrorsAge
    <3>3. CASE k \notin DOMAIN limits
      <4>1. Quiet(history[k])
        BY <3>3 DEF GateInv
      <4> QED
        BY <2>1, <2>4, <3>1, <3>3, <4>1, QuietAges
    <3> QED
      BY <3>2, <3>3
  <2> QED
    BY <2>3, <2>5, <2>6 DEF GateInv
<1> QED
  BY <1>1, <1>2, <1>3, <1>4 DEF GateStep

(* It holds at the start. *)
LEMMA GateStarts == Init => GateInv
<1> SUFFICES ASSUME Init PROVE GateInv
  OBVIOUS
<1> DEFINE quiet == [message |-> StaleAfter, attempt |-> StaleAfter, strikes |-> 0,
                     promise |-> -1, told |-> [i \in 1 .. 3 |-> StaleAfter]]
<1>1. quiet \in History /\ Quiet(quiet)
  <2>1. 0 \in Violations /\ StaleAfter \in 0 .. StaleAfter /\ -1 \in -1 .. MaxCooldown
    BY Windows DEF Violations
  <2> QED
    BY <2>1, Windows DEF History, Quiet, NoticesApart
<1>2. history = [k \in Keys |-> quiet] /\ DOMAIN limits = {}
  BY DEF Init, LimiterInit
<1> HIDE DEF quiet
<1>3. LimiterTypeOK
  BY <1>2, Windows DEF Init, LimiterInit, LimiterTypeOK
<1> QED
  BY <1>1, <1>2, <1>3 DEF GateInv

(* What the gate promises follows. *)
LEMMA GatePromises == GateInv => PenaltyKept /\ HonestWait /\ NoticesBounded
<1> SUFFICES ASSUME GateInv, NEW k \in Keys
             PROVE  /\ LET entry == IF k \in DOMAIN limits THEN limits[k] ELSE NewEntry
                       IN  /\ Passes(entry) <=> IsOnTime(k)
                           /\ ~Passes(entry) => Struck(entry) = Min2(Strikes(k) + 1, Saturation + 1)
                    /\ history[k].promise = 0 => k \in DOMAIN limits /\ Passes(limits[k])
                    /\ history[k].told[3] >= ResetAfter
  BY DEF PenaltyKept, HonestWait, NoticesBounded
<1>1. /\ Passes(Entry_(k)) <=> IsOnTime(k)
      /\ Struck(Entry_(k)) = Min2(Strikes(k) + 1, Saturation + 1)
  BY Agree DEF Struck
<1>2. ASSUME history[k].promise = 0 PROVE k \in DOMAIN limits /\ Passes(limits[k])
  <2>1. k \in DOMAIN limits
    BY <1>2 DEF GateInv, Quiet
  <2>2. /\ limits[k] \in UserRateLimit /\ Mirrors(limits[k], history[k])
        /\ history[k] \in History
    BY <2>1 DEF GateInv, LimiterTypeOK
  <2>3. history[k].message \in Int /\ limits[k].attempt \in Int /\ limits[k].violations \in Violations
    BY <2>2 DEF UserRateLimit, History
  <2>4. /\ history[k].attempt < ResetAfter
        /\ history[k].message >= calculate_cooldown(limits[k].violations)
    <3>1. calculate_cooldown(limits[k].violations) \in Int
      BY <2>3, Cooldown
    <3> QED
      BY <1>2, <2>2, <2>3, <3>1 DEF Mirrors
  <2>5. Forgiven(limits[k]) = limits[k]
    BY <2>2, <2>3, <2>4, Windows DEF Forgiven, Mirrors
  <2> QED
    BY <2>1, <2>2, <2>4, <2>5 DEF Passes, Mirrors
<1>3. history[k].told[3] >= ResetAfter
  BY DEF GateInv, Mirrors, Quiet, NoticesApart
<1> QED
  BY <1>1, <1>2, <1>3 DEF Entry_

---------------------------------------------------------------------------
(* The resolver. *)

(* An entry for an account was right when its life began: the account bears *)
(* the name, or lost it no longer ago than the entry has lived.             *)
EntryIsRecent(e, n) ==
  e.kind = "found" => /\ e.account \in Accounts
                      /\ e.left <= TimeToLive
                      /\ \/ owner[n] = e.account
                         \/ disowned[n][e.account] + e.left <= TimeToLive

TableOK(table) ==
  /\ DOMAIN table \subseteq Names
  /\ \A n \in DOMAIN table : table[n] \in Entry /\ EntryIsRecent(table[n], n)

CallOK(r) ==
  /\ r \in Call
  /\ r.at \in {"storing", "done"} /\ r.answer \in Accounts => Bears(r.name, r.answer)

CallsOK == /\ call \in [Callers -> Call]
           /\ \A c \in Callers : CallOK(call[c])

OthersOK ==
  /\ DOMAIN in_flight \subseteq Names
  /\ \A n \in DOMAIN in_flight : in_flight[n] \in 0 .. StaleLookup
  /\ owner \in [Names -> Accounts \union {Nobody}]
  /\ disowned \in [Names -> [Accounts -> 0 .. TimeToLive]]

ResolverInv == TableOK(cache) /\ CallsOK /\ OthersOK

(* How the lives of the answers and of a lookup compare. *)
LEMMA Lives ==
  /\ TimeToLive \in Nat /\ 0 < TimeToLive
  /\ NegTimeToLive \in Nat /\ NegTimeToLive <= TimeToLive
  /\ MaxRetryAfter \in Nat /\ TimeToLive <= MaxRetryAfter
  /\ MaxLookup \in Nat /\ StaleLookup \in Nat /\ MaxLookup < StaleLookup
BY MojangAssumption

(* A table without some of its entries, or with one more that is right. *)
LEMMA Restricted ==
  ASSUME NEW t, TableOK(t), NEW S \in SUBSET DOMAIN t
  PROVE  TableOK(Restrict(t, S))
<1>1. DOMAIN Restrict(t, S) = S /\ \A n \in S : Restrict(t, S)[n] = t[n]
  BY DEF Restrict
<1> QED
  BY <1>1 DEF TableOK

(* Eviction removes entries and changes none, *)
LEMMA EvictedOK ==
  ASSUME NEW t, TableOK(t), NEW u \in Evicted(t)
  PROVE  TableOK(u)
<1>1. TableOK(Sweep(t))
  BY Restricted DEF Sweep
<1>2. CASE u = t \/ u = Sweep(t)
  BY <1>1, <1>2
<1>3. CASE \E n \in Victims(Sweep(t)) : u = Restrict(Sweep(t), DOMAIN Sweep(t) \ {n})
  <2>1. PICK n : u = Restrict(Sweep(t), DOMAIN Sweep(t) \ {n})
    BY <1>3
  <2> QED
    BY <1>1, <2>1, Restricted
<1> QED
  BY <1>2, <1>3 DEF Evicted

(* an insertion adds a recent one, *)
LEMMA Inserted ==
  ASSUME TableOK(cache), NEW n \in Names, NEW e \in Entry, EntryIsRecent(e, n), insert(n, e),
         UNCHANGED <<owner, disowned>>
  PROVE  TableOK(cache)'
<1>1. PICK t \in Evicted(cache) : cache' = Put(t, n, e)
  BY DEF insert
<1>2. TableOK(t)
  BY EvictedOK
<1> QED
  BY <1>1, <1>2 DEF TableOK, Put, EntryIsRecent

(* An answer of the table is no older than a time to live. *)
LEMMA HitIs ==
  ASSUME ResolverInv, NEW n \in Names, Hit(n)
  PROVE  /\ AnswerOf(cache[n]) \in Answers
         /\ AnswerOf(cache[n]) \in Accounts => Bears(n, AnswerOf(cache[n]))
<1>1. /\ cache[n] \in Entry /\ EntryIsRecent(cache[n], n) /\ cache[n].left > 0
  BY DEF Hit, is_fresh, ResolverInv, TableOK
<1>2. cache[n].left \in Nat /\ cache[n].kind \in {"found", "not_found", "rate_limited"}
  BY <1>1 DEF Entry
<1>3. CASE cache[n].kind = "found"
  <2>1. cache[n].account \in Accounts /\ AnswerOf(cache[n]) = cache[n].account
    BY <1>1, <1>3 DEF EntryIsRecent, AnswerOf
  <2>2. disowned[n][cache[n].account] \in Nat
    BY <2>1 DEF ResolverInv, OthersOK
  <2> QED
    BY <1>1, <1>2, <1>3, <2>1, <2>2, Lives DEF EntryIsRecent, Bears, Answers
<1>4. CASE cache[n].kind # "found"
  <2>1. AnswerOf(cache[n]) \in Errors
    BY <1>2, <1>4 DEF AnswerOf, Errors
  <2> QED
    BY <2>1, MojangAssumption DEF Answers
<1> QED
  BY <1>3, <1>4

(* and a read only stamps one. *)
LEMMA TouchedOK ==
  ASSUME TableOK(cache), NEW n \in DOMAIN cache
  PROVE  TableOK(Touched(n))
<1>1. \A m \in DOMAIN cache : m \in Names /\ cache[m] \in Entry /\ EntryIsRecent(cache[m], m)
  BY DEF TableOK
<1>2. CASE cache[n].kind = "found"
  <2>1. Touched(n) = [cache EXCEPT ![n] = [cache[n] EXCEPT !.idle = 0]]
    BY <1>2 DEF Touched
  <2>2. DOMAIN Touched(n) = DOMAIN cache
    BY <2>1
  <2>3. ASSUME NEW m \in DOMAIN cache
        PROVE  Touched(n)[m] = IF m = n THEN [cache[n] EXCEPT !.idle = 0] ELSE cache[m]
    BY <2>1
  <2>4. /\ [cache[n] EXCEPT !.idle = 0] \in Entry
        /\ [cache[n] EXCEPT !.idle = 0].kind = cache[n].kind
        /\ [cache[n] EXCEPT !.idle = 0].account = cache[n].account
        /\ [cache[n] EXCEPT !.idle = 0].left = cache[n].left
    BY <1>1, Lives DEF Entry
  <2>5. EntryIsRecent([cache[n] EXCEPT !.idle = 0], n)
    BY <1>1, <2>4 DEF EntryIsRecent
  <2> QED
    BY <1>1, <2>2, <2>3, <2>4, <2>5 DEF TableOK
<1>3. CASE cache[n].kind # "found"
  BY <1>3 DEF Touched
<1> QED
  BY <1>2, <1>3

(* What a caller knows of its call; the resolver changes one call at a time, *)
(* but for the wakings.                                                      *)
LEMMA NoCallOK == CallOK(NoCall) /\ NoCall.at = "idle"
<1>1. Names # {}
  BY DeskAssumption
<1>2. (CHOOSE n \in Names : TRUE) \in Names
  BY <1>1
<1> QED
  BY <1>2 DEF CallOK, NoCall, Call, Stages, Answers, Errors

(* One caller moves on and the others stay. *)
LEMMA SetCall ==
  ASSUME CallsOK, NEW c \in Callers, NEW r, CallOK(r), call' = [call EXCEPT ![c] = r],
         UNCHANGED <<owner, disowned>>
  PROVE  CallsOK'
<1>1. \A d \in Callers : call'[d] = IF d = c THEN r ELSE call[d]
  BY DEF CallsOK
<1>2. \A d \in Callers : CallOK(call'[d])
  BY <1>1 DEF CallsOK
<1>3. \A d \in Callers : CallOK(call[d])'
  BY <1>2 DEF CallOK, Bears
<1>4. call' \in [Callers -> Call]
  BY DEF CallsOK, CallOK
<1> QED
  BY <1>3, <1>4 DEF CallsOK

(* The stages of a caller that has no answer. *)
Unanswered == Stages \ {"storing", "done"}

(* A caller that has no answer yet may move on freely. *)
LEMMA Moved ==
  ASSUME NEW r \in Call, NEW s \in Unanswered, NEW b \in BOOLEAN
  PROVE  /\ CallOK([r EXCEPT !.at = s])
         /\ CallOK([r EXCEPT !.at = s, !.known = b])
         /\ CallOK([r EXCEPT !.at = s, !.again = b])
BY DEF CallOK, Call, Unanswered

(* A caller with an answer has one its name bears. *)
LEMMA AnsweredOK ==
  ASSUME NEW r \in Call, NEW s \in {"storing", "done"}, NEW a \in Answers, NEW b \in BOOLEAN,
         a \in Accounts => Bears(r.name, a)
  PROVE  /\ CallOK([r EXCEPT !.at = s, !.answer = a])
         /\ CallOK([r EXCEPT !.at = s, !.known = b, !.answer = a])
BY DEF CallOK, Call, Stages

(* A look into the table is a hit on a recent entry, or a miss. *)
LEMMA CheckCache ==
  ASSUME ResolverInv, NEW c \in Callers, NEW n \in Names, NEW base \in Call, base.name = n,
         NEW miss \in Unanswered, check_cache(c, n, base, miss),
         UNCHANGED <<in_flight, owner, disowned>>
  PROVE  ResolverInv'
<1>1. TableOK(cache) /\ CallsOK /\ OthersOK
  BY DEF ResolverInv
<1>2. OthersOK'
  BY <1>1 DEF OthersOK
<1>3. CASE Hit(n)
  <2>1. /\ call' = [call EXCEPT ![c] = [base EXCEPT !.at = "done", !.known = FALSE,
                                                   !.answer = AnswerOf(cache[n])]]
        /\ cache' = Touched(n)
    BY <1>3 DEF check_cache
  <2>2. CallsOK'
    BY <1>1, <1>3, <2>1, HitIs, AnsweredOK, SetCall
  <2>3. TableOK(cache)'
    <3>1. TableOK(Touched(n))
      BY <1>1, <1>3, TouchedOK DEF Hit
    <3> QED
      BY <2>1, <3>1 DEF TableOK, EntryIsRecent
  <2> QED
    BY <1>2, <2>2, <2>3 DEF ResolverInv
<1>4. CASE ~Hit(n)
  <2>1. call' = [call EXCEPT ![c] = [base EXCEPT !.at = miss]] /\ cache' = cache
    BY <1>4 DEF check_cache
  <2>2. CallsOK'
    BY <1>1, <2>1, Moved, SetCall
  <2>3. TableOK(cache)'
    BY <1>1, <2>1 DEF TableOK, EntryIsRecent
  <2> QED
    BY <1>2, <2>2, <2>3 DEF ResolverInv
<1> QED
  BY <1>3, <1>4

(* The steps of resolve_user_uuid. *)
LEMMA ResolveKept ==
  ASSUME ResolverInv, NEW c \in Callers, NEW n \in Names, resolve_user_uuid(c, n)
  PROVE  ResolverInv'
<1>1. /\ [NoCall EXCEPT !.name = n] \in Call /\ [NoCall EXCEPT !.name = n].name = n
      /\ "missed" \in Unanswered
  BY NoCallOK DEF CallOK, Call, Unanswered, Stages
<1>2. /\ check_cache(c, n, [NoCall EXCEPT !.name = n], "missed")
      /\ UNCHANGED <<in_flight, owner, disowned>>
  BY DEF resolve_user_uuid
<1> QED
  BY <1>1, <1>2, CheckCache

(* The parts of the invariant the steps of a caller use. *)
LEMMA CallIs ==
  ASSUME ResolverInv, NEW c \in Callers
  PROVE  /\ TableOK(cache) /\ CallsOK /\ OthersOK
         /\ call[c] \in Call /\ call[c].name \in Names /\ CallOK(call[c])
         /\ call[c].known \in BOOLEAN /\ call[c].answer \in Answers
BY DEF ResolverInv, CallsOK, Call

(* A caller becomes leader or follower. *)
LEMMA TakeRoleKept ==
  ASSUME ResolverInv, NEW c \in Callers, TakeRole(c)
  PROVE  ResolverInv'
<1> DEFINE n == call[c].name
<1>1. /\ TableOK(cache) /\ CallsOK /\ OthersOK /\ n \in Names /\ call[c] \in Call
  BY CallIs
<1>2. UNCHANGED <<cache, owner, disowned>>
  BY DEF TakeRole
<1>3. CallsOK'
  <2>1. {"follow", "asking"} \subseteq Unanswered
    BY DEF Unanswered, Stages
  <2>2. \/ call' = [call EXCEPT ![c] = [call[c] EXCEPT !.at = "follow", !.known = TRUE]]
        \/ call' = [call EXCEPT ![c] = [call[c] EXCEPT !.at = "asking"]]
    BY DEF TakeRole, MovesTo
  <2>3. /\ CallOK([call[c] EXCEPT !.at = "follow", !.known = TRUE])
        /\ CallOK([call[c] EXCEPT !.at = "asking"])
    BY <1>1, <2>1, Moved
  <2> QED
    BY <1>1, <1>2, <2>2, <2>3, SetCall
<1>4. OthersOK'
  <2>1. in_flight' = in_flight \/ in_flight' = Put(in_flight, n, 0)
    BY DEF TakeRole
  <2> QED
    BY <1>1, <1>2, <2>1, Lives DEF OthersOK, Put
<1>5. TableOK(cache)'
  BY <1>1, <1>2 DEF TableOK, EntryIsRecent
<1> QED
  BY <1>3, <1>4, <1>5 DEF ResolverInv

(* A follower looks into the table once more and waits, *)
LEMMA RegisterKept ==
  ASSUME ResolverInv, NEW c \in Callers, Register(c)
  PROVE  ResolverInv'
<1>1. call[c] \in Call /\ call[c].name \in Names /\ "parked" \in Unanswered
  BY CallIs DEF Unanswered, Stages
<1> QED
  BY <1>1, CheckCache DEF Register

(* and wakes. *)
LEMMA WokenKept ==
  ASSUME ResolverInv, NEW c \in Callers, Woken(c)
  PROVE  ResolverInv'
<1>1. /\ TableOK(cache) /\ CallsOK /\ OthersOK /\ call[c].name \in Names /\ call[c] \in Call
      /\ "direct" \in Unanswered /\ "missed" \in Unanswered
  BY CallIs DEF Unanswered, Stages
<1>2. UNCHANGED <<in_flight, owner, disowned>>
  BY DEF Woken
<1>3. CASE check_cache(c, call[c].name, call[c], "direct")
  BY <1>1, <1>2, <1>3, CheckCache
<1>4. CASE cache' = cache /\ call' = [call EXCEPT ![c].at = "missed", ![c].again = TRUE]
  <2>1. call' = [call EXCEPT ![c] = [call[c] EXCEPT !.at = "missed", !.again = TRUE]]
    BY <1>4
  <2>2. CallsOK'
    BY <1>1, <1>2, <2>1, Moved, SetCall
  <2> QED
    BY <1>1, <1>2, <1>4, <2>2 DEF ResolverInv, TableOK, OthersOK, EntryIsRecent
<1> QED
  BY <1>3, <1>4 DEF Woken

(* The service answers, fails or is asked again. *)
LEMMA ReplyKept ==
  ASSUME ResolverInv, NEW c \in Callers, NEW hint \in 0 .. MaxRetryAfter, Reply(c, hint)
  PROVE  ResolverInv'
<1> DEFINE n       == call[c].name
           leads   == call[c].at \in {"asking", "again"}
           settles == IF leads THEN "storing" ELSE "done"
           retry   == IF leads THEN "again" ELSE "direct_again"
           says    == IF owner[n] = Nobody THEN "not_found" ELSE owner[n]
           stored  == IF says = "not_found" THEN NotFound ELSE Found(owner[n])
           Ends(answer, entry) ==
             /\ call' = [call EXCEPT ![c].at = settles, ![c].answer = answer]
             /\ IF leads /\ answer # "transport" THEN insert(n, entry) ELSE UNCHANGED cache
<1>1. /\ TableOK(cache) /\ CallsOK /\ OthersOK /\ n \in Names /\ call[c] \in Call
  BY CallIs
<1>2. UNCHANGED <<in_flight, owner, disowned>>
  BY DEF Reply
<1>3. \/ Ends(says, stored) \/ Ends("rate_limited", RateLimited(hint)) \/ Ends("transport", NotFound)
      \/ call' = [call EXCEPT ![c].at = retry] /\ cache' = cache
  BY DEF Reply, MovesTo
<1>4. /\ owner[n] \in Accounts \union {Nobody} /\ Errors \intersect Accounts = {}
      /\ Nobody \notin Accounts /\ settles \in {"storing", "done"} /\ retry \in Unanswered
  BY <1>1, MojangAssumption DEF OthersOK, Unanswered, Stages
<1>5. /\ says \in Answers /\ (says \in Accounts => Bears(n, says))
      /\ "rate_limited" \in Answers \ Accounts /\ "transport" \in Answers \ Accounts
  BY <1>4 DEF Answers, Errors, Bears
<1>6. /\ NotFound \in Entry /\ EntryIsRecent(NotFound, n)
      /\ RateLimited(hint) \in Entry /\ EntryIsRecent(RateLimited(hint), n)
      /\ stored \in Entry /\ EntryIsRecent(stored, n)
  <2>1. NotFound \in Entry /\ EntryIsRecent(NotFound, n)
    BY Lives DEF NotFound, Entry, EntryIsRecent
  <2>2. RateLimited(hint) \in Entry /\ EntryIsRecent(RateLimited(hint), n)
    BY Lives DEF RateLimited, Entry, EntryIsRecent
  <2>3. says # "not_found" => Found(owner[n]) \in Entry /\ EntryIsRecent(Found(owner[n]), n)
    BY <1>4, Lives DEF Found, Entry, EntryIsRecent
  <2> QED
    BY <2>1, <2>2, <2>3
<1>7. OthersOK'
  BY <1>1, <1>2 DEF OthersOK
<1> HIDE DEF n, leads, settles, says, stored, retry
<1>8. ASSUME NEW a \in Answers, a \in Accounts => Bears(n, a), NEW e \in Entry, EntryIsRecent(e, n),
             Ends(a, e)
      PROVE  ResolverInv'
  <2>1. call' = [call EXCEPT ![c] = [call[c] EXCEPT !.at = settles, !.answer = a]]
    BY <1>8
  <2>2. CallOK([call[c] EXCEPT !.at = settles, !.answer = a])
    BY <1>1, <1>4, <1>8, AnsweredOK DEF n
  <2>3. CallsOK'
    BY <1>1, <1>2, <2>1, <2>2, SetCall
  <2>4. TableOK(cache)'
    <3>1. CASE insert(n, e)
      BY <1>1, <1>2, <1>8, <3>1, Inserted
    <3>2. CASE UNCHANGED cache
      BY <1>1, <1>2, <3>2 DEF TableOK, EntryIsRecent
    <3> QED
      BY <1>8, <3>1, <3>2
  <2> QED
    BY <1>7, <2>3, <2>4 DEF ResolverInv
<1>9. CASE call' = [call EXCEPT ![c].at = retry] /\ cache' = cache
  <2>1. call' = [call EXCEPT ![c] = [call[c] EXCEPT !.at = retry]]
    BY <1>9
  <2>2. CallsOK'
    BY <1>1, <1>2, <1>4, <2>1, Moved, SetCall
  <2> QED
    BY <1>1, <1>2, <1>7, <1>9, <2>2 DEF ResolverInv, TableOK, EntryIsRecent
<1> QED
  BY <1>3, <1>5, <1>6, <1>8, <1>9

(* A call that goes on with the answer it had, or without one. *)
GoesOn(r, q) ==
  /\ q \in Call
  /\ \/ q.at \in Unanswered
     \/ r.at \in {"storing", "done"} /\ q.name = r.name /\ q.answer = r.answer

(* All callers move on at once. *)
LEMMA CallsGoOn ==
  ASSUME CallsOK, UNCHANGED <<owner, disowned>>, call' \in [Callers -> Call],
         \A c \in Callers : GoesOn(call[c], call'[c])
  PROVE  CallsOK'
<1>1. ASSUME NEW c \in Callers PROVE CallOK(call[c])'
  BY DEF GoesOn, CallsOK, CallOK, Bears, Unanswered
<1> QED
  BY <1>1 DEF CallsOK

(* The leader stores its answer and wakes the followers. *)
LEMMA NotifyKept ==
  ASSUME ResolverInv, NEW c \in Callers, Notify(c)
  PROVE  ResolverInv'
<1> DEFINE n == call[c].name
           Follower(d) == call[d].name = n /\ call[d].known /\ d # c
<1>1. TableOK(cache) /\ CallsOK /\ OthersOK /\ UNCHANGED <<cache, owner, disowned>>
  BY CallIs DEF Notify
<1>2. OthersOK'
  BY <1>1 DEF Notify, OthersOK, Restrict
<1>3. ASSUME NEW d \in Callers
      PROVE  \/ d = c /\ call'[d] = [call[d] EXCEPT !.at = "done", !.known = FALSE]
             \/ call'[d] = [call[d] EXCEPT !.at = "woken", !.known = FALSE]
             \/ At(d, "follow") /\ call'[d] = [call[d] EXCEPT !.known = FALSE]
             \/ call'[d] = call[d]
  BY DEF Notify
<1>4. ASSUME NEW d \in Callers PROVE call'[d] \in Call /\ GoesOn(call[d], call'[d])
  <2>1. call[d] \in Call /\ At(c, "storing")
    BY <1>1 DEF CallsOK, Notify
  <2>2. CASE d = c /\ call'[d] = [call[d] EXCEPT !.at = "done", !.known = FALSE]
    BY <2>1, <2>2 DEF GoesOn, Call, Stages, At
  <2>3. CASE call'[d] = [call[d] EXCEPT !.at = "woken", !.known = FALSE]
    BY <2>1, <2>3 DEF GoesOn, Call, Stages, Unanswered
  <2>4. CASE At(d, "follow") /\ call'[d] = [call[d] EXCEPT !.known = FALSE]
    BY <2>1, <2>4 DEF GoesOn, Call, Stages, Unanswered, At
  <2>5. CASE call'[d] = call[d]
    BY <2>1, <2>5 DEF GoesOn, Call, Unanswered
  <2> QED
    BY <1>3, <2>2, <2>3, <2>4, <2>5
<1>5. DOMAIN call' = Callers /\ call' = [d \in Callers |-> call'[d]]
  BY DEF Notify
<1>6. CallsOK'
  BY <1>1, <1>4, <1>5, CallsGoOn
<1> QED
  BY <1>1, <1>2, <1>6 DEF ResolverInv, TableOK, EntryIsRecent

(* The cleanup removes entries past their life. *)
LEMMA CleanupKept ==
  ASSUME ResolverInv, cleanup_uuid_cache
  PROVE  ResolverInv'
<1>1. /\ TableOK(cache) /\ CallsOK /\ OthersOK /\ UNCHANGED <<owner, disowned>>
      /\ cache' = Sweep(cache)
  BY DEF ResolverInv, cleanup_uuid_cache
<1>2. OthersOK'
  BY <1>1 DEF cleanup_uuid_cache, OthersOK, Restrict
<1>3. ASSUME NEW d \in Callers
      PROVE  \/ call'[d] = [call[d] EXCEPT !.at = "woken"]
             \/ At(d, "follow") /\ call'[d] = [call[d] EXCEPT !.known = FALSE]
             \/ call'[d] = call[d]
  BY DEF cleanup_uuid_cache, At
<1>4. ASSUME NEW d \in Callers PROVE call'[d] \in Call /\ GoesOn(call[d], call'[d])
  <2>1. call[d] \in Call
    BY <1>1 DEF CallsOK
  <2>2. CASE call'[d] = [call[d] EXCEPT !.at = "woken"]
    BY <2>1, <2>2 DEF GoesOn, Call, Stages, Unanswered
  <2>3. CASE At(d, "follow") /\ call'[d] = [call[d] EXCEPT !.known = FALSE]
    BY <2>1, <2>3 DEF GoesOn, Call, Stages, Unanswered, At
  <2>4. CASE call'[d] = call[d]
    BY <2>1, <2>4 DEF GoesOn, Call, Unanswered
  <2> QED
    BY <1>3, <2>2, <2>3, <2>4
<1>5. DOMAIN call' = Callers /\ call' = [d \in Callers |-> call'[d]]
  BY DEF cleanup_uuid_cache
<1>6. CallsOK'
  BY <1>1, <1>4, <1>5, CallsGoOn
<1>7. TableOK(cache)'
  <2>1. TableOK(Sweep(cache))
    BY <1>1, Restricted DEF Sweep
  <2> QED
    BY <1>1, <2>1 DEF TableOK, EntryIsRecent
<1> QED
  BY <1>2, <1>6, <1>7 DEF ResolverInv

(* The service: an account that loses a name lost it just now. *)
LEMMA RenameKept ==
  ASSUME ResolverInv, NEW n \in Names, NEW a \in Accounts \union {Nobody}, Rename(n, a)
  PROVE  ResolverInv'
<1>1. /\ TableOK(cache) /\ CallsOK /\ OthersOK /\ UNCHANGED <<cache, in_flight, call>>
      /\ owner' = [owner EXCEPT ![n] = a]
      /\ disowned' = [m \in Names |-> [b \in Accounts |->
                        IF m = n /\ b = owner[n] THEN 0 ELSE disowned[m][b]]]
  BY DEF ResolverInv, Rename
<1>2. \A m \in Names, b \in Accounts : disowned[m][b] \in 0 .. TimeToLive
  BY <1>1 DEF OthersOK
<1>3. OthersOK'
  <2>1. owner' \in [Names -> Accounts \union {Nobody}]
    BY <1>1 DEF OthersOK
  <2>2. disowned' \in [Names -> [Accounts -> 0 .. TimeToLive]]
    BY <1>1, <1>2, Lives
  <2> QED
    BY <1>1, <2>1, <2>2 DEF OthersOK
<1>4. ASSUME NEW m \in Names, NEW b \in Accounts
      PROVE  /\ owner[m] = b => owner'[m] = b \/ disowned'[m][b] = 0
             /\ disowned'[m][b] \in {disowned[m][b], 0}
  BY <1>1 DEF OthersOK
<1>5. TableOK(cache)'
  <2>1. ASSUME NEW m \in DOMAIN cache, cache[m].kind = "found"
        PROVE  \/ owner'[m] = cache[m].account
               \/ disowned'[m][cache[m].account] + cache[m].left <= TimeToLive
    <3>1. /\ m \in Names /\ cache[m] \in Entry /\ cache[m].left \in Nat
          /\ EntryIsRecent(cache[m], m) /\ cache[m].account \in Accounts
      BY <1>1, <2>1 DEF TableOK, Entry, EntryIsRecent
    <3> QED
      BY <1>2, <1>4, <2>1, <3>1, Lives DEF EntryIsRecent
  <2> QED
    BY <1>1, <2>1 DEF TableOK, EntryIsRecent
<1>6. CallsOK'
  <2>1. ASSUME NEW m \in Names, NEW b \in Accounts, Bears(m, b) PROVE Bears(m, b)'
    BY <1>2, <1>4, <2>1, Lives DEF Bears
  <2>2. ASSUME NEW c \in Callers PROVE CallOK(call[c])'
    <3>1. call[c] \in Call /\ call[c].name \in Names /\ CallOK(call[c])
      BY <1>1 DEF CallsOK, Call
    <3> QED
      BY <1>1, <2>1, <3>1 DEF CallOK, Bears
  <2> QED
    BY <1>1, <2>2 DEF CallsOK
<1> QED
  BY <1>3, <1>5, <1>6 DEF ResolverInv

(* A tick: what an entry loses of its life, its account's loss of the name  *)
(* gains in age.                                                            *)
LEMMA MojangTickKept ==
  ASSUME ResolverInv, MojangTick
  PROVE  ResolverInv'
<1>1. /\ TableOK(cache) /\ CallsOK /\ OthersOK /\ UNCHANGED <<call, owner>>
      /\ cache' = [n \in DOMAIN cache |->
                     [cache[n] EXCEPT !.left = IF @ = 0 THEN 0 ELSE @ - 1, !.idle = Older(@, MaxRetryAfter)]]
      /\ disowned' = [n \in Names |-> [a \in Accounts |->
                        IF owner[n] = a THEN disowned[n][a] ELSE Older(disowned[n][a], TimeToLive)]]
  BY DEF ResolverInv, MojangTick
<1>2. /\ \A x \in 0 .. TimeToLive : Older(x, TimeToLive) \in 0 .. TimeToLive
                                     /\ Older(x, TimeToLive) <= x + 1
      /\ \A x \in 0 .. MaxRetryAfter : Older(x, MaxRetryAfter) \in 0 .. MaxRetryAfter
  BY Lives DEF Older, Least
<1>3. \A n \in Names, a \in Accounts :
        disowned[n][a] \in 0 .. TimeToLive /\ disowned'[n][a] \in 0 .. TimeToLive
          /\ disowned'[n][a] <= disowned[n][a] + 1
  <2>1. \A n \in Names, a \in Accounts : disowned[n][a] \in 0 .. TimeToLive
    BY <1>1 DEF OthersOK
  <2>2. ASSUME NEW n \in Names, NEW a \in Accounts
        PROVE  disowned'[n][a] \in {disowned[n][a], Older(disowned[n][a], TimeToLive)}
    BY <1>1
  <2>3. \A x \in 0 .. TimeToLive : x <= x + 1
    BY Lives
  <2> QED
    BY <1>2, <2>1, <2>2, <2>3
<1>4. OthersOK'
  <2>1. /\ DOMAIN in_flight' \subseteq Names
        /\ \A n \in DOMAIN in_flight' : in_flight'[n] \in 0 .. StaleLookup
    <3>1. in_flight' = [n \in DOMAIN in_flight |-> in_flight[n] + 1] /\ DOMAIN in_flight \subseteq Names
      BY <1>1 DEF MojangTick, OthersOK
    <3>2. \A n \in DOMAIN in_flight : in_flight[n] \in 0 .. StaleLookup /\ in_flight[n] < MaxLookup
      BY <1>1 DEF MojangTick, OthersOK
    <3>3. \A x \in 0 .. StaleLookup : x < MaxLookup => x + 1 \in 0 .. StaleLookup
      BY Lives
    <3> QED
      BY <3>1, <3>2, <3>3
  <2>2. disowned' \in [Names -> [Accounts -> 0 .. TimeToLive]]
    BY <1>1, <1>3
  <2> QED
    BY <1>1, <2>1, <2>2 DEF OthersOK
<1>5. ASSUME NEW n \in DOMAIN cache'
      PROVE  n \in Names /\ cache'[n] \in Entry /\ EntryIsRecent(cache[n], n)'
  <2>1. n \in DOMAIN cache /\ n \in Names /\ cache[n] \in Entry /\ EntryIsRecent(cache[n], n)
    BY <1>1 DEF TableOK
  <2>2. /\ cache'[n] = [cache[n] EXCEPT !.left = IF @ = 0 THEN 0 ELSE @ - 1,
                                        !.idle = Older(@, MaxRetryAfter)]
        /\ cache[n].left \in 0 .. MaxRetryAfter /\ cache[n].idle \in 0 .. MaxRetryAfter
    BY <1>1, <2>1 DEF Entry
  <2>3. /\ cache'[n].kind = cache[n].kind /\ cache'[n].account = cache[n].account
        /\ cache'[n].left = IF cache[n].left = 0 THEN 0 ELSE cache[n].left - 1
        /\ cache'[n] \in Entry
    <3> DEFINE left == IF cache[n].left = 0 THEN 0 ELSE cache[n].left - 1
               idle == Older(cache[n].idle, MaxRetryAfter)
    <3>1. left \in 0 .. MaxRetryAfter /\ idle \in 0 .. MaxRetryAfter
      BY <1>2, <2>2, Lives
    <3>2. cache'[n] = [cache[n] EXCEPT !.left = left, !.idle = idle]
      BY <2>2
    <3> HIDE DEF left, idle
    <3>3. /\ cache'[n].kind = cache[n].kind /\ cache'[n].account = cache[n].account
          /\ cache'[n].left = left /\ cache'[n] \in Entry
      BY <2>1, <3>1, <3>2 DEF Entry
    <3> QED
      BY <3>3 DEF left
  <2>4. ASSUME cache[n].kind = "found"
        PROVE  \/ owner'[n] = cache[n].account
               \/ disowned'[n][cache[n].account] + cache'[n].left <= TimeToLive
    <3>1. /\ cache[n].account \in Accounts
          /\ \/ owner[n] = cache[n].account
             \/ disowned[n][cache[n].account] + cache[n].left <= TimeToLive
      BY <2>1, <2>4 DEF EntryIsRecent
    <3> DEFINE old == disowned[n][cache[n].account]
               new == disowned'[n][cache[n].account]
    <3>2. old \in 0 .. TimeToLive /\ new \in 0 .. TimeToLive /\ new <= old + 1
      BY <1>3, <2>1, <3>1
    <3>3. owner' = owner /\ (owner[n] = cache[n].account \/ old + cache[n].left <= TimeToLive)
      BY <1>1, <3>1
    <3> HIDE DEF old, new
    <3>4. old + cache[n].left <= TimeToLive => new + cache'[n].left <= TimeToLive
      BY <2>2, <2>3, <3>2, Lives
    <3> QED
      BY <3>3, <3>4 DEF old, new
  <2>5. EntryIsRecent(cache[n], n)'
    <3>1. cache'[n].kind = "found" => cache'[n].account \in Accounts /\ cache'[n].left <= TimeToLive
      BY <2>1, <2>2, <2>3, Lives DEF EntryIsRecent
    <3> QED
      BY <2>3, <2>4, <3>1 DEF EntryIsRecent
  <2> QED
    BY <2>1, <2>3, <2>5
<1>6. TableOK(cache)'
  BY <1>5 DEF TableOK
<1>7. CallsOK'
  <2>1. \A c \in Callers : call[c].at \in Waiting /\ call[c] \in Call
    BY <1>1 DEF MojangTick, CallsOK
  <2>2. \A c \in Callers : CallOK(call[c])'
    BY <1>1, <2>1 DEF CallOK, Waiting
  <2> QED
    BY <1>1, <2>2 DEF CallsOK
<1> QED
  BY <1>4, <1>6, <1>7 DEF ResolverInv

(* Every step keeps the resolver's invariant. *)
LEMMA ResolverKept == ResolverInv /\ MojangStep => ResolverInv'
<1> SUFFICES ASSUME ResolverInv, MojangStep PROVE ResolverInv'
  OBVIOUS
<1>1. CASE UNCHANGED mojangVars
  BY <1>1 DEF mojangVars, ResolverInv, TableOK, EntryIsRecent, CallsOK, CallOK, Bears, OthersOK
<1>2. ASSUME NEW c \in Callers, Resolving(c) PROVE ResolverInv'
  BY <1>2, TakeRoleKept, RegisterKept, NotifyKept, WokenKept, ReplyKept DEF Resolving
<1>3. ASSUME NEW c \in Callers, Return(c), UNCHANGED <<cache, in_flight, owner, disowned>>
      PROVE  ResolverInv'
  <2>1. CallsOK'
    BY <1>3, CallIs, NoCallOK, SetCall DEF Return
  <2> QED
    BY <1>3, <2>1 DEF ResolverInv, TableOK, EntryIsRecent, OthersOK
<1> QED
  BY <1>1, <1>2, <1>3, ResolveKept, CleanupKept, RenameKept, MojangTickKept DEF MojangStep

(* It holds at the start. *)
LEMMA ResolverStarts == Init => ResolverInv
<1> SUFFICES ASSUME Init PROVE ResolverInv
  OBVIOUS
<1>1. /\ DOMAIN cache = {} /\ DOMAIN in_flight = {} /\ call = [c \in Callers |-> NoCall]
      /\ owner = FirstOwner
      /\ disowned = [n \in Names |-> [a \in Accounts |-> TimeToLive]]
  BY DEF Init, MojangInit
<1>2. OthersOK
  BY <1>1, MojangAssumption, Lives DEF OthersOK
<1>3. CallsOK
  BY <1>1, NoCallOK DEF CallsOK, CallOK
<1> QED
  BY <1>1, <1>2, <1>3 DEF ResolverInv, TableOK

---------------------------------------------------------------------------
(* The desk itself. *)

UsersOK(table) == /\ DOMAIN table \subseteq Accounts
                  /\ \A a \in DOMAIN table : table[a] \in [name : Names, balance : Nat]

(* A command that waits for the account it names has a sender who is        *)
(* recorded.                                                                *)
DeskInv ==
  /\ stage \in {"idle", "sender", "target"} /\ command \in Commands
  /\ sender \in Accounts \union {Nobody} /\ UsersOK(users) /\ reserve \in Nat
  /\ calls \in [store : 0 .. MaxCommands, chat : 0 .. MaxChatCalls]
  /\ stage = "target" => sender \in DOMAIN users

(* No command is one of the values of the command. *)
LEMMA NoCommandIs == NoCommand \in Commands
BY DeskAssumption DEF NoCommand

(* Registering an account adds or renames a user, *)
LEMMA RegisteredOK ==
  ASSUME NEW table, UsersOK(table), NEW a \in Accounts, NEW n \in Names
  PROVE  UsersOK(Registered(table, a, n)) /\ DOMAIN Registered(table, a, n) = DOMAIN table \union {a}
<1> DEFINE balance == IF a \in DOMAIN table THEN table[a].balance ELSE 0
<1>1. balance \in Nat
  BY DEF UsersOK
<1>2. Registered(table, a, n) = Put(table, a, [name |-> n, balance |-> balance])
  BY DEF Registered
<1> HIDE DEF balance
<1> QED
  BY <1>1, <1>2 DEF UsersOK, Put

(* and a payment registers both. *)
LEMMA PaidOK ==
  ASSUME DeskInv, stage = "target", NEW a \in Accounts
  PROVE  UsersOK(Paid(a))
<1> DEFINE with == IF a \in DOMAIN users THEN users ELSE Registered(users, a, command.to)
<1>1. /\ command.to \in Names /\ command.by \in Names /\ command.amount \in Nat
      /\ sender \in DOMAIN users /\ UsersOK(users)
  BY DeskAssumption DEF DeskInv
<1>2. UsersOK(with) /\ a \in DOMAIN with /\ sender \in DOMAIN with /\ with[sender] = users[sender]
  <2>1. CASE a \in DOMAIN users
    BY <1>1, <2>1
  <2>2. CASE a \notin DOMAIN users
    BY <1>1, <2>2, RegisteredOK DEF Registered, Put
  <2> QED
    BY <2>1, <2>2
<1>3. CASE a = sender \/ ~(users[sender].balance >= command.amount)
  BY <1>1, <1>2, <1>3 DEF Paid
<1>4. CASE a # sender /\ users[sender].balance >= command.amount
  <2>1. Paid(a) = [with EXCEPT ![sender].balance = @ - command.amount,
                               ![sender].name    = command.by,
                               ![a].balance      = @ + command.amount]
    BY <1>4 DEF Paid
  <2> HIDE DEF with
  <2>2. /\ with[sender] \in [name : Names, balance : Nat] /\ with[a] \in [name : Names, balance : Nat]
        /\ with[sender].balance - command.amount \in Nat /\ with[a].balance + command.amount \in Nat
    BY <1>1, <1>2, <1>4 DEF UsersOK
  <2> DEFINE s == [name |-> command.by, balance |-> with[sender].balance - command.amount]
             t == [name |-> with[a].name, balance |-> with[a].balance + command.amount]
  <2>3. Paid(a) = [x \in DOMAIN with |-> IF x = a THEN t ELSE IF x = sender THEN s ELSE with[x]]
    <3>1. Paid(a) = [x \in DOMAIN with |->
            IF x = a THEN [with[a] EXCEPT !.balance = @ + command.amount]
            ELSE IF x = sender THEN [[with[sender] EXCEPT !.balance = @ - command.amount]
                                       EXCEPT !.name = command.by]
            ELSE with[x]]
      BY <1>2, <1>4, <2>1
    <3>2. /\ [with[a] EXCEPT !.balance = @ + command.amount] = t
          /\ [[with[sender] EXCEPT !.balance = @ - command.amount] EXCEPT !.name = command.by] = s
      <4>1. ASSUME NEW e \in [name : Names, balance : Nat], NEW b, NEW n
            PROVE  /\ [e EXCEPT !.balance = b] = [name |-> e.name, balance |-> b]
                   /\ [[e EXCEPT !.balance = b] EXCEPT !.name = n] = [name |-> n, balance |-> b]
        <5>1. [e EXCEPT !.balance = b] = [name |-> e.name, balance |-> b]
          OBVIOUS
        <5>2. ASSUME NEW r, r = [name |-> e.name, balance |-> b]
              PROVE  [r EXCEPT !.name = n] = [name |-> n, balance |-> b]
          BY <5>2
        <5> QED
          BY <5>1, <5>2, Zenon
      <4>2. [with[a] EXCEPT !.balance = @ + command.amount] = t
        BY <2>2, <4>1, Zenon
      <4>3. [[with[sender] EXCEPT !.balance = @ - command.amount] EXCEPT !.name = command.by] = s
        <5> DEFINE r == [name |-> with[sender].name, balance |-> with[sender].balance - command.amount]
        <5>1. [with[sender] EXCEPT !.balance = @ - command.amount] = r
          BY <2>2, <4>1
        <5>2. [r EXCEPT !.name = command.by] = s
          OBVIOUS
        <5> HIDE DEF r, s
        <5> QED
          BY <5>1, <5>2
      <4> QED
        BY <4>2, <4>3
    <3> QED
      BY <3>1, <3>2
  <2>4. s \in [name : Names, balance : Nat] /\ t \in [name : Names, balance : Nat]
    BY <1>1, <2>2
  <2> HIDE DEF s, t
  <2> QED
    BY <1>2, <2>3, <2>4 DEF UsersOK
<1> QED
  BY <1>3, <1>4

(* Every step keeps what the desk knows of the account it acts on. *)
LEMMA DeskKept == DeskInv /\ [Next]_vars => DeskInv'
<1> SUFFICES ASSUME DeskInv, [Next]_vars PROVE DeskInv'
  OBVIOUS
<1> USE DEF DeskInv
<1>n. command.to \in Names /\ command.by \in Names /\ command.amount \in Nat
  BY DeskAssumption
<1>1. ASSUME NEW m \in Commands, ReadCommand(m) PROVE DeskInv'
  <2>1. /\ calls' = [calls EXCEPT !.store = calls.store + Weight(m)]
        /\ calls.store + Weight(m) <= MaxCommands /\ Weight(m) \in Nat
    BY <1>1 DEF ReadCommand, Weight
  <2>2. calls' \in [store : 0 .. MaxCommands, chat : 0 .. MaxChatCalls]
    <3>1. calls.store + Weight(m) \in 0 .. MaxCommands
      BY <2>1, DeskAssumption
    <3> QED
      BY <2>1, <3>1
  <2> QED
    BY <1>1, <2>2 DEF ReadCommand
<1>2. CASE SenderUnknown
  BY <1>2, NoCommandIs DEF SenderUnknown, Done
<1>3. CASE SenderKnown
  <2>1. call["store"].answer \in Accounts /\ users' = Registered(users, call["store"].answer, command.by)
    BY <1>3 DEF SenderKnown
  <2> DEFINE new == Registered(users, call["store"].answer, command.by)
  <2>2. UsersOK(users') /\ call["store"].answer \in DOMAIN users'
    <3>1. UsersOK(new) /\ DOMAIN new = DOMAIN users \union {call["store"].answer}
      BY <1>n, <2>1, RegisteredOK
    <3> HIDE DEF new
    <3> QED
      BY <2>1, <3>1 DEF new
  <2>3. UsersOK(users)'
    BY <2>2 DEF UsersOK
  <2> QED
    BY <1>3, <2>1, <2>2, <2>3, NoCommandIs DEF SenderKnown, Done
<1>4. CASE ResolveTarget
  BY <1>4 DEF ResolveTarget, deskVars
<1>5. CASE TargetResolved
  <2> DEFINE a == call["store"].answer
  <2>1. UsersOK(users') /\ reserve' \in Nat
    <3>1. CASE IsOrder(command) /\ a \in Accounts
      <4>1. UsersOK(Registered(users, a, command.by))
        BY <1>n, <3>1, RegisteredOK
      <4>2. users' \in {users, Registered(users, a, command.by)}
        BY <1>5, <3>1 DEF TargetResolved, resolve_operator_uuid, handle_add_currency,
                          handle_remove_currency
      <4>3. reserve' \in Nat
        BY <1>n, <1>5, <3>1 DEF TargetResolved, resolve_operator_uuid, handle_add_currency,
                                handle_remove_currency
      <4> QED
        BY <4>1, <4>2, <4>3
    <3>2. CASE ~IsOrder(command) /\ a \in Accounts
      <4>1. UsersOK(Paid(a))
        BY <1>5, <3>2, PaidOK DEF TargetResolved
      <4> QED
        BY <1>5, <3>2, <4>1 DEF TargetResolved, PayOrBalance
    <3>3. CASE a \notin Accounts
      BY <1>5, <3>3 DEF TargetResolved, PayOrBalance, resolve_operator_uuid
    <3> QED
      BY <3>1, <3>2, <3>3
  <2>2. UsersOK(users)'
    BY <2>1 DEF UsersOK
  <2> QED
    BY <1>5, <2>1, <2>2, NoCommandIs DEF TargetResolved, Done
<1>6. CASE ChatAsks
  <2>1. /\ calls' = [calls EXCEPT !.chat = calls.chat + 1] /\ calls.chat < MaxChatCalls
        /\ UNCHANGED deskVars
    BY <1>6 DEF ChatAsks
  <2>2. calls.chat + 1 \in 0 .. MaxChatCalls
    BY <2>1, DeskAssumption
  <2>3. calls' \in [store : 0 .. MaxCommands, chat : 0 .. MaxChatCalls]
    BY <2>1, <2>2
  <2> QED
    BY <2>1, <2>3 DEF deskVars, UsersOK
<1>7. CASE Cleanup \/ ChatGoesOn \/ Resolver \/ Renaming \/ Tick \/ UNCHANGED vars
  <2>1. UNCHANGED <<deskVars, calls>>
    BY <1>7 DEF Cleanup, ChatGoesOn, Resolver, Renaming, Tick, vars
  <2> QED
    BY <2>1 DEF deskVars, UsersOK
<1> QED
  BY <1>1, <1>2, <1>3, <1>4, <1>5, <1>6, <1>7 DEF Next

(* It holds at the start. *)
LEMMA DeskStarts == Init => DeskInv
<1> SUFFICES ASSUME Init PROVE DeskInv
  OBVIOUS
<1>1. \A a \in Accounts : FirstName(a) \in Names
  <2>1. ASSUME NEW a \in Accounts PROVE FirstName(a) \in Names
    <3>1. \E n \in Names : FirstOwner[n] = a
      BY DeskAssumption
    <3> QED
      BY <3>1 DEF FirstName
  <2> QED
    BY <2>1
<1>2. UsersOK(users)
  BY <1>1, DeskAssumption DEF Init, UsersOK
<1>3. calls \in [store : 0 .. MaxCommands, chat : 0 .. MaxChatCalls]
  BY DeskAssumption DEF Init
<1> QED
  BY <1>2, <1>3, NoCommandIs DEF Init, DeskInv

---------------------------------------------------------------------------
Inv == DeskInv /\ ResolverInv /\ GateInv

(* The three invariants always hold. *)
LEMMA InvHolds == Spec => []Inv
<1>1. Init => Inv
  BY DeskStarts, ResolverStarts, GateStarts DEF Inv
<1>2. Inv /\ [Next]_vars => Inv'
  <2>1. Inv /\ [Next]_vars => MojangStep /\ GateStep
    BY Steps DEF Inv, DeskInv
  <2> QED
    BY <2>1, DeskKept, ResolverKept, GateKept DEF Inv
<1> QED
  BY <1>1, <1>2, PTL DEF Spec

(* The tables, the calls, the accounts and the reserve have their types: no  *)
(* payment and no operator's removal takes a balance below zero.             *)
THEOREM TypesHold == Spec => []TypeOK
<1>1. Inv => TypeOK
  <2> SUFFICES ASSUME Inv PROVE TypeOK
    OBVIOUS
  <2>1. MojangTypeOK
    BY DEF Inv, ResolverInv, TableOK, CallsOK, OthersOK, MojangTypeOK
  <2> QED
    BY <2>1 DEF Inv, DeskInv, UsersOK, GateInv, TypeOK
<1> QED
  BY <1>1, InvHolds, PTL

(* resolve_user_uuid never answers with an account that lost the name a time *)
(* to live ago or longer, whoever led, followed or retried.                  *)
THEOREM AnswersAreRecent == Spec => []AnswerIsRecent
<1>1. Inv => AnswerIsRecent
  BY DEF Inv, ResolverInv, CallsOK, CallOK, AnswerIsRecent, At
<1> QED
  BY <1>1, InvHolds, PTL

(* cleanup_stale, the inline sweep and the refusal of a full table forgive   *)
(* nothing.                                                                  *)
THEOREM PenaltiesAreKept == Spec => []PenaltyKept
BY GatePromises, InvHolds, PTL DEF Inv

(* RateLimiter::check announces the wait after which it lets the key pass.   *)
THEOREM WaitsAreHonest == Spec => []HonestWait
BY GatePromises, InvHolds, PTL DEF Inv

(* No key is whispered three notices within the window of forgiveness.       *)
THEOREM NoticesAreBounded == Spec => []NoticesBounded
BY GatePromises, InvHolds, PTL DEF Inv

===============================================================================
