------------------------------ MODULE ChatProofs ------------------------------
(* Proofs about Chat: the handles kept open on the day files, the forgetting   *)
(* of a player, the daily bound on what is spent.                              *)
EXTENDS Chat, TLAPS

\* Where a turn waits once its sender is known to be a player, and where the
\* forgetting of one does.
TurnPcs == {"classify", "admit", "resolve", "compose", "tools", "filter", "shorten",
            "shape", "typing", "send"}
ScrubPcs == {"announce", "wait", "list", "history", "rename", "reannounce", "rewait"}

FileMaps == [FileNames -> SUBSET Marks]
Meters == [day : Days, composer : Nat, classifier : Nat, notes : Nat]
Turning == [who : Senders, mode : {"none", "live", "backlog", "proactive"},
            started : Days, resolved : BOOLEAN, iter : Nat, cost : Nat,
            nudged : BOOLEAN, before : Nat, notes : Nat, tries : Nat]
Scrubs == [who : Senders, removed : BOOLEAN, todo : SUBSET Days, cur : Days,
           kept : SUBSET Marks]

FilesOK == FilesTypeOK

TaskOK ==
    /\ turn \in Turning
    /\ cs \in ChatStates
    /\ saved \in ChatStates
    /\ billed \in Nat
    /\ lost \in Int
    /\ bus \in Seq(Senders)
    /\ backlog \in Seq(Senders)
    /\ pc \in TurnPcs => turn.who \in Players
    /\ cs.meter.day <= day
    /\ saved.meter.day <= cs.meter.day
    /\ turn.started <= day

ScrubOK ==
    /\ scrub \in Scrubs
    /\ done \in [Players -> 0..1]
    /\ pc \in ScrubPcs => scrub.who \in Players

Typed == FilesOK /\ TaskOK /\ ScrubOK

-----------------------------------------------------------------------------
(* Files and marks.                                                            *)

\* The marks that are found in some file, or that a line of now would get.
Known(fs) == {m \in Marks : \E f \in FileNames : m \in fs[f]} \cup {Mark(p) : p \in Players}

\* What the chat makes of its files has no mark from anywhere else.
Grown(fs, gs) == gs \in FileMaps /\ \A f \in FileNames : gs[f] \subseteq Known(fs)

(* The names of the files are names, and different kinds have different ones.  *)
LEMMA NamesAre ==
  ASSUME NEW d \in Days
  PROVE  /\ History(d) \in FileNames /\ Decisions(d) \in FileNames
         /\ Archive(d) \in FileNames /\ Pending \in FileNames
         /\ PlayerFile \in FileNames /\ Index \in FileNames
BY DEF History, Decisions, Archive, Pending, PlayerFile, Index, FileNames

(* Zero is a day: the days are counted from it.                                *)
LEMMA ZeroIsDay ==
  /\ 0 \in Days
  /\ FirstDay \in Days
  /\ Days \subseteq Nat
BY FilesAssumption DEF Days

(* The mark of a player now is a mark.                                         *)
LEMMA MarkIs ==
  ASSUME asked \in [Players -> 0..1]
  PROVE  /\ \A p \in Players : Mark(p) \in Marks
         /\ \A p : About(p) \in SUBSET Marks
         /\ \A p, m : m \in About(p) => p \in Players /\ m = Mark(p)
BY DEF Mark, About, Marks

(* A file map grows into itself, and growing is transitive.                    *)
LEMMA GrownReflexive ==
  ASSUME asked \in [Players -> 0..1], NEW fs \in FileMaps
  PROVE  Grown(fs, fs)
BY DEF Grown, Known, FileMaps

(* Two changes of the files, each of which leaves only known marks, make one. *)
LEMMA GrownTransitive ==
  ASSUME asked \in [Players -> 0..1], NEW fs, NEW gs, NEW hs, Grown(fs, gs), Grown(gs, hs)
  PROVE  Grown(fs, hs)
<1>1. Known(gs) \subseteq Known(fs)
  BY DEF Grown, Known
<1> QED
  BY <1>1 DEF Grown

(* Adding known marks to a file is growing.                                    *)
LEMMA PutGrows ==
  ASSUME asked \in [Players -> 0..1], NEW fs \in FileMaps, NEW f \in FileNames,
         NEW marks \in SUBSET Known(fs)
  PROVE  Grown(fs, Put(fs, f, marks))
<1>1. Known(fs) \subseteq Marks
  BY MarkIs DEF Known
<1>2. Put(fs, f, marks) \in FileMaps
  BY <1>1 DEF Put, FileMaps
<1>3. ASSUME NEW g \in FileNames PROVE Put(fs, f, marks)[g] \subseteq Known(fs)
  BY DEF Put, FileMaps, Known
<1> QED
  BY <1>2, <1>3 DEF Grown

(* What a player's line of now adds is known, in any files.                    *)
LEMMA AboutKnown ==
  ASSUME asked \in [Players -> 0..1], NEW fs, NEW p
  PROVE  /\ About(p) \in SUBSET Known(fs)
         /\ p \in Players => {Mark(p)} \in SUBSET Known(fs)
BY DEF About, Known

(* A decision is logged with marks known already.                              *)
LEMMA LoggedGrows ==
  ASSUME FilesOK, NEW fs \in FileMaps, NEW marks \in SUBSET Known(fs)
  PROVE  Grown(fs, Logged(fs, marks))
BY NamesAre, PutGrows, GrownReflexive DEF Logged, FilesOK, FilesTypeOK

(* The files after update_player_memory's first half and its second, and after *)
(* a lesson.                                                                   *)
LEMMA PlayerFileGrows ==
  ASSUME asked \in [Players -> 0..1], NEW fs \in FileMaps, NEW p \in Players
  PROVE  /\ Grown(fs, WithPlayerFile(fs, p))
         /\ Grown(fs, WithNote(fs, p))
         /\ Grown(fs, WithLesson(fs, p))
<1> DEFINE one == Put(fs, PlayerFile, {Mark(p)})
           two == WithPlayerFile(fs, p)
<1>1. PlayerFile \in FileNames /\ Index \in FileNames /\ Pending \in FileNames
  BY ZeroIsDay, NamesAre
<1>2. Grown(fs, one) /\ Grown(fs, WithLesson(fs, p))
  BY <1>1, AboutKnown, PutGrows DEF WithLesson
<1>3. one \in FileMaps
  BY <1>2 DEF Grown
<1>4. Grown(one, Put(one, Index, {Mark(p)}))
  <2> HIDE DEF one
  <2> QED
    BY <1>1, <1>3, AboutKnown, PutGrows
<1>5. Grown(fs, Put(one, Index, {Mark(p)}))
  <2> HIDE DEF one
  <2> QED
    BY <1>2, <1>4, GrownTransitive
<1>6. Grown(fs, two)
  BY <1>5, GrownReflexive DEF WithPlayerFile
<1>7. Grown(two, Put(two, PlayerFile, {Mark(p)}))
  <2>1. two \in FileMaps
    BY <1>6 DEF Grown
  <2> HIDE DEF two
  <2> QED
    BY <2>1, <1>1, AboutKnown, PutGrows
<1>8. Grown(fs, WithNote(fs, p))
  <2>1. Grown(fs, Put(two, PlayerFile, {Mark(p)}))
    <3> HIDE DEF two
    <3> QED
      BY <1>6, <1>7, GrownTransitive
  <2> QED
    BY <2>1 DEF WithNote
<1> QED
  BY <1>2, <1>6, <1>8

(* A map whose files are parts of files of another has grown from it.          *)
LEMMA PartsGrow ==
  ASSUME asked \in [Players -> 0..1], NEW fs \in FileMaps, NEW gs \in FileMaps,
         \A f \in FileNames : gs[f] \subseteq fs[f]
  PROVE  Grown(fs, gs)
BY DEF Grown, Known, FileMaps

(* Forgetting and sweeping only take away.                                     *)
LEMMA ForgottenIs ==
  ASSUME asked \in [Players -> 0..1], NEW fs \in FileMaps, NEW names, NEW p
  PROVE  /\ Grown(fs, Forgotten(fs, names, p))
         /\ Forgotten(fs, names, p) \in FileMaps
         /\ \A f \in FileNames : /\ f \in names => Forgotten(fs, names, p)[f] = fs[f] \ MarksOf(p)
                                 /\ f \notin names => Forgotten(fs, names, p)[f] = fs[f]
<1>1. Forgotten(fs, names, p) \in FileMaps
  BY DEF Forgotten, FileMaps
<1>2. \A f \in FileNames : /\ f \in names => Forgotten(fs, names, p)[f] = fs[f] \ MarksOf(p)
                           /\ f \notin names => Forgotten(fs, names, p)[f] = fs[f]
  BY DEF Forgotten
<1>3. \A f \in FileNames : Forgotten(fs, names, p)[f] \subseteq fs[f]
  BY <1>2
<1> HIDE DEF Forgotten
<1> QED
  BY <1>1, <1>2, <1>3, PartsGrow

(* The retention sweep empties files and adds nothing. *)
LEMMA SweptGrows ==
  ASSUME asked \in [Players -> 0..1], NEW fs \in FileMaps
  PROVE  Grown(fs, Swept(fs))
<1>1. Swept(fs) \in FileMaps
  BY DEF Swept, FileMaps
<1>2. \A f \in FileNames : Swept(fs)[f] \subseteq fs[f]
  BY DEF Swept
<1> QED
  BY <1>1, <1>2, PartsGrow

(* A rotation moves the marks of the pending lessons.                          *)
LEMMA RotatedGrows ==
  ASSUME FilesOK
  PROVE  Grown(files, Rotated(files))
<1> DEFINE emptied == [files EXCEPT ![Pending] = {}]
<1>1. /\ files \in FileMaps /\ asked \in [Players -> 0..1] /\ day \in Days
      /\ Archive(day) \in FileNames /\ Pending \in FileNames
  BY NamesAre DEF FilesOK, FilesTypeOK, FileMaps
<1>2. emptied \in FileMaps /\ \A f \in FileNames : emptied[f] \subseteq files[f]
  BY <1>1 DEF FileMaps
<1>3. files[Pending] \subseteq Known(files)
  BY <1>1 DEF Known, FileMaps
<1>4. Put(emptied, Archive(day), files[Pending]) \in FileMaps
  BY <1>1, <1>2 DEF Put, FileMaps
<1>5. ASSUME NEW f \in FileNames
      PROVE  Put(emptied, Archive(day), files[Pending])[f] \subseteq Known(files)
  <2>1. Put(emptied, Archive(day), files[Pending])[f] \subseteq emptied[f] \cup files[Pending]
    BY <1>1, <1>2 DEF Put, FileMaps
  <2>2. emptied[f] \subseteq Known(files)
    BY <1>1, <1>2 DEF Known, FileMaps
  <2> QED
    BY <2>1, <2>2, <1>3
<1> QED
  BY <1>4, <1>5 DEF Rotated, Grown

-----------------------------------------------------------------------------
(* The handles.                                                                *)

(* Both handles are typed whatever is done to them.                            *)
LEMMA HandlesAre ==
  ASSUME FilesOK
  PROVE  /\ LogOpened \in Handles
         /\ \A d \in Days : Opened(d) \in Handles
         /\ NoHandle \in Handles
         /\ \A h \in Handles, ds \in SUBSET Days : Orphaned(h, ds) \in Handles
         /\ \A p : LogDropped(p) \in Handles
<1>1. \A d \in Days : [day |-> d, live |-> TRUE] \in Handles
  BY DEF Handles
<1>2. NoHandle \in Handles /\ NoHandle.day \notin Days
  BY ZeroIsDay DEF Handles, NoHandle, Days
<1>3. day \in Days /\ handle \in Handles /\ logHandle \in Handles
  BY DEF FilesOK, FilesTypeOK
<1>4. ASSUME NEW h \in Handles, NEW ds \in SUBSET Days PROVE Orphaned(h, ds) \in Handles
  BY <1>2 DEF Orphaned, Handles
<1> QED
  BY <1>1, <1>2, <1>3, <1>4 DEF LogOpened, Opened, LogDropped

-----------------------------------------------------------------------------
(* The meter and the state.                                                    *)

\* What a meter has counted on the day d.
OnDay(m, d) == IF m.day = d THEN Usd(m) ELSE 0

(* What a day starts with: a meter of that day, with nothing spent. *)
LEMMA FreshIs ==
  ASSUME NEW d \in Days
  PROVE  FreshMeter(d) \in Meters /\ FreshMeter(d).day = d /\ Usd(FreshMeter(d)) = 0
BY DEF FreshMeter, Meters, Usd

(* Rolling forward reaches the day and loses nothing of it.                    *)
LEMMA RollIs ==
  ASSUME NEW m \in Meters, NEW d \in Days, m.day <= d
  PROVE  /\ RollToDay(m, d) \in Meters /\ RollToDay(m, d).day = d
         /\ Usd(RollToDay(m, d)) = OnDay(m, d)
         /\ RollToDay(m, d).notes \in Nat
<1>1. m.day \in Days /\ m.composer \in Nat /\ m.classifier \in Nat /\ m.notes \in Nat
  BY DEF Meters
<1>2. m.day \in Nat /\ d \in Nat
  BY <1>1, ZeroIsDay
<1>3. CASE d > m.day
  <2>1. RollToDay(m, d) = FreshMeter(d) /\ OnDay(m, d) = 0
    BY <1>2, <1>3 DEF RollToDay, OnDay
  <2>2. FreshMeter(d).notes \in Nat
    BY DEF FreshMeter
  <2> QED
    BY <2>1, <2>2, FreshIs
<1>4. CASE ~(d > m.day)
  <2>1. RollToDay(m, d) = m /\ m.day = d /\ OnDay(m, d) = Usd(m)
    BY <1>2, <1>4 DEF RollToDay, OnDay
  <2> QED
    BY <1>1, <2>1
<1> QED
  BY <1>3, <1>4

(* A meter that is ahead of the day stays as it is.                            *)
LEMMA RollTwice ==
  ASSUME NEW m \in Meters, NEW d \in Days, NEW s \in Days, m.day <= d, s <= d
  PROVE  /\ Rolled(m, d, s) \in Meters /\ Rolled(m, d, s).day = d
         /\ Usd(Rolled(m, d, s)) = OnDay(m, d)
<1> DEFINE r == RollToDay(m, d)
<1>1. r \in Meters /\ r.day = d /\ Usd(r) = OnDay(m, d)
  BY RollIs
<1> HIDE DEF r
<1>2. RollToDay(r, s) = r
  BY <1>1, ZeroIsDay DEF RollToDay
<1> QED
  BY <1>1, <1>2 DEF Rolled, r

(* A cost is added to what today's meter has counted.                          *)
LEMMA RecordIs ==
  ASSUME NEW m \in Meters, NEW d \in Days, NEW s \in Days, m.day <= d, s <= d, NEW c \in Nat
  PROVE  /\ RecordComposer(m, d, s, c) \in Meters
         /\ RecordComposer(m, d, s, c).day = d
         /\ Usd(RecordComposer(m, d, s, c)) = OnDay(m, d) + c
         /\ RecordClassifier(m, d, s, c) \in Meters
         /\ RecordClassifier(m, d, s, c).day = d
         /\ Usd(RecordClassifier(m, d, s, c)) = OnDay(m, d) + c
<1> DEFINE r == Rolled(m, d, s)
<1>1. r \in Meters /\ r.day = d /\ Usd(r) = OnDay(m, d)
  BY RollTwice
<1> HIDE DEF r
<1>2. /\ [r EXCEPT !.composer = @ + c] \in Meters
      /\ [r EXCEPT !.composer = @ + c].day = d
      /\ Usd([r EXCEPT !.composer = @ + c]) = Usd(r) + c
  BY <1>1 DEF Meters, Usd
<1>3. /\ [r EXCEPT !.classifier = @ + c] \in Meters
      /\ [r EXCEPT !.classifier = @ + c].day = d
      /\ Usd([r EXCEPT !.classifier = @ + c]) = Usd(r) + c
  BY <1>1 DEF Meters, Usd
<1> QED
  BY <1>1, <1>2, <1>3 DEF RecordComposer, RecordClassifier, r

(* Changes of the state, field by field.                                       *)
LEMMA StateMeter ==
  ASSUME NEW s \in ChatStates, NEW m \in Meters
  PROVE  [s EXCEPT !.meter = m] \in ChatStates /\ [s EXCEPT !.meter = m].meter = m
BY DEF ChatStates, Meters

(* A change of the holds leaves the meter alone. *)
LEMMA StateHeld ==
  ASSUME NEW s \in ChatStates, NEW h \in SUBSET Holds
  PROVE  [s EXCEPT !.held = h] \in ChatStates /\ [s EXCEPT !.held = h].meter = s.meter
BY DEF ChatStates

(* So does noting the day of the last sweep, *)
LEMMA StateSwept ==
  ASSUME NEW s \in ChatStates, NEW d \in Days
  PROVE  [s EXCEPT !.swept = d] \in ChatStates /\ [s EXCEPT !.swept = d].meter = s.meter
BY DEF ChatStates

(* and so do the three switches. *)
LEMMA StateFlags ==
  ASSUME NEW s \in ChatStates, NEW b \in BOOLEAN
  PROVE  /\ [s EXCEPT !.paused = b] \in ChatStates /\ [s EXCEPT !.paused = b].meter = s.meter
         /\ [s EXCEPT !.dry = b] \in ChatStates /\ [s EXCEPT !.dry = b].meter = s.meter
         /\ [s EXCEPT !.known = b] \in ChatStates /\ [s EXCEPT !.known = b].meter = s.meter
BY DEF ChatStates

(* What a state consists of. *)
LEMMA StateIs ==
  ASSUME NEW s \in ChatStates
  PROVE  s.meter \in Meters /\ s.held \in SUBSET Holds
BY DEF ChatStates, Meters

(* The state of a first start has the meter of that day. *)
LEMMA DefaultIs ==
  ASSUME NEW d \in Days
  PROVE  DefaultState(d) \in ChatStates /\ DefaultState(d).meter = FreshMeter(d)
BY FreshIs DEF DefaultState, ChatStates, Meters

-----------------------------------------------------------------------------
(* The steps of a turn: what each does to the files, the handles and the turn. *)

\* What a step of the chat task does to the files and its own handle when it
\* is not busy with forgetting a player.
FileEffect ==
    /\ Grown(files, files')
    /\ logHandle' \in {logHandle, LogOpened}

TurnEffect ==
    /\ FileEffect
    /\ turn' \in Turning
    /\ turn'.started <= day
    /\ cs' \in ChatStates
    /\ cs'.meter.day <= day
    /\ saved.meter.day <= cs'.meter.day
    /\ billed' \in Nat
    /\ lost' \in Int
    /\ pc \notin ScrubPcs
    /\ pc' \notin ScrubPcs
    /\ pc' \in TurnPcs => turn'.who \in Players

Resting == {"after", "next", "ticked"}

(* Between turns there is neither cost nor sender. *)
LEMMA NoTurnIs ==
  /\ NoTurn \in Turning
  /\ NoTurn.cost = 0 /\ NoTurn.iter = 0 /\ NoTurn.started = 0 /\ NoTurn.who = NoOne
  /\ ~NoTurn.nudged
BY ZeroIsDay DEF NoTurn, Turning, Senders

(* The end of a turn leaves NoTurn and goes back to the loop. *)
LEMMA TurnOverIs ==
  ASSUME TurnOver
  PROVE  turn' = NoTurn /\ pc' \in Resting
BY DEF TurnOver, Then, AfterTurn, Resting

(* A decision is recorded under today's name, by the handle or a new one. *)
LEMMA DecideIs ==
  ASSUME FilesOK, NEW marks \in SUBSET Known(files), Decide(files, marks)
  PROVE  FileEffect
BY LoggedGrows DEF Decide, FileEffect, FilesOK, FilesTypeOK, FileMaps

(* A decision about anyone, or about nobody.                                   *)
LEMMA DecideAbout ==
  ASSUME FilesOK, NEW p, Decide(files, About(p)) \/ Decide(files, {})
  PROVE  FileEffect
<1>1. About(p) \in SUBSET Known(files) /\ {} \in SUBSET Known(files)
  BY AboutKnown DEF FilesOK, FilesTypeOK
<1> QED
  BY <1>1, DecideIs

(* A step that leaves the files and the handle of the decision log alone. *)
LEMMA FilesStill ==
  ASSUME FilesOK, UNCHANGED <<files, logHandle>>
  PROVE  FileEffect
BY GrownReflexive DEF FileEffect, FilesOK, FilesTypeOK, FileMaps

(* A turn that ends with a record of its decision. *)
LEMMA EndIs ==
  ASSUME FilesOK, EndWithDecision
  PROVE  FileEffect /\ turn' = NoTurn /\ pc' \in Resting
BY DecideAbout, TurnOverIs DEF EndWithDecision

(* What is left to show of a step after which no turn is under way.            *)
LEMMA RestIs ==
  ASSUME turn' = NoTurn, day \in Days, pc' \in Resting
  PROVE  /\ turn' \in Turning /\ turn'.started <= day
         /\ pc' \notin ScrubPcs /\ pc' \notin TurnPcs
BY NoTurnIs, ZeroIsDay DEF Resting, ScrubPcs, TurnPcs

(* The parts of the types that the steps use, each as a fact of its own. *)
LEMMA TypedIs ==
  ASSUME Typed
  PROVE  /\ FilesOK /\ day \in Days /\ files \in FileMaps /\ asked \in [Players -> 0..1]
         /\ day \in Nat /\ day <= day
         /\ turn \in Turning /\ turn.started <= day /\ turn.started \in Days
         /\ cs \in ChatStates /\ cs.meter \in Meters /\ cs.held \in SUBSET Holds
         /\ saved \in ChatStates /\ saved.meter \in Meters
         /\ cs.meter.day <= day /\ saved.meter.day <= cs.meter.day /\ saved.meter.day <= day
         /\ cs.meter.day \in Nat /\ saved.meter.day \in Nat
         /\ billed \in Nat /\ lost \in Int
         /\ turn.cost \in Nat /\ turn.iter \in Nat /\ turn.who \in Senders
         /\ turn.notes \in Nat /\ turn.before \in Nat /\ turn.tries \in Nat
<1>1. FilesOK /\ TaskOK
  BY DEF Typed
<1>2. /\ day \in Days /\ files \in FileMaps /\ asked \in [Players -> 0..1]
  BY <1>1 DEF FilesOK, FilesTypeOK, FileMaps
<1>3. /\ turn \in Turning /\ turn.started <= day
      /\ cs \in ChatStates /\ saved \in ChatStates
      /\ cs.meter.day <= day /\ saved.meter.day <= cs.meter.day
      /\ billed \in Nat /\ lost \in Int
  BY <1>1 DEF TaskOK
<1>4. /\ turn.started \in Days /\ turn.cost \in Nat /\ turn.iter \in Nat
      /\ turn.who \in Senders /\ turn.notes \in Nat /\ turn.before \in Nat
      /\ turn.tries \in Nat
  BY <1>3 DEF Turning
<1>5. day \in Nat /\ day <= day
  <2>1. day \in Nat
    BY <1>2, ZeroIsDay
  <2> QED
    BY <2>1
<1>6. cs.meter \in Meters /\ saved.meter \in Meters /\ cs.held \in SUBSET Holds
  BY <1>3, StateIs
<1>7. /\ cs.meter.day \in Nat /\ saved.meter.day \in Nat
      /\ saved.meter.day <= day
  <2>1. cs.meter.day \in Days /\ saved.meter.day \in Days
    BY <1>6 DEF Meters
  <2>2. cs.meter.day \in Nat /\ saved.meter.day \in Nat
    BY <2>1, ZeroIsDay
  <2> QED
    BY <1>3, <1>5, <2>2
<1> QED
  BY <1>1, <1>2, <1>3, <1>4, <1>5, <1>6, <1>7

(* The pre-filter and the gate.                                                *)
LEMMA ScreenEffect ==
  ASSUME Typed, Screen
  PROVE  TurnEffect
<1> USE TypedIs
<1>1. ASSUME NEW moderated \in BOOLEAN, NobodyTurnsUp(moderated) PROVE TurnEffect
  <2>1. FileEffect
    BY <1>1, DecideAbout, FilesStill DEF NobodyTurnsUp
  <2>2. cs' \in ChatStates /\ cs'.meter = cs.meter
    <3>1. cs.held \cup {"moderation"} \in SUBSET Holds
      BY DEF Holds
    <3> QED
      BY <1>1, <3>1, StateHeld DEF NobodyTurnsUp
  <2>3. turn' = NoTurn /\ pc' \in Resting /\ pc = "screen"
    BY <1>1, TurnOverIs DEF NobodyTurnsUp
  <2> QED
    BY <1>1, <2>1, <2>2, <2>3, RestIs DEF NobodyTurnsUp, TurnEffect, ScrubPcs
<1>2. CASE BotUnnamed \/ PlayerLeft \/ ScreenedOut
  <2>1. EndWithDecision /\ UNCHANGED <<cs, billed, lost>> /\ pc = "screen"
    BY <1>2 DEF BotUnnamed, PlayerLeft, ScreenedOut
  <2> QED
    BY <2>1, EndIs, RestIs DEF TurnEffect, ScrubPcs
<1>3. CASE PassedOn
  <2>1. FileEffect
    BY <1>3, FilesStill DEF PassedOn
  <2>2. /\ turn' = [turn EXCEPT !.started = day] /\ pc' = "classify" /\ pc = "screen"
        /\ turn.who \in Players /\ UNCHANGED <<cs, billed, lost>>
    BY <1>3 DEF PassedOn, Then, Senders
  <2>3. turn' \in Turning /\ turn'.started = day /\ turn'.who = turn.who
    BY <2>2 DEF Turning
  <2> QED
    BY <2>1, <2>2, <2>3 DEF TurnEffect, ScrubPcs
<1> QED
  BY <1>1, <1>2, <1>3 DEF Screen

(* What a call costs is a natural number. *)
LEMMA CostsAre ==
  \A cost \in Costs \cup {0} : cost \in Nat
BY TurnAssumption

(* A call to the service that is tried again, or that the limiter refuses.     *)
LEMMA CallEffect ==
  ASSUME Typed, Call
  PROVE  TurnEffect
<1> USE TypedIs
<1>1. ASSUME NEW cost \in Costs \cup {0}, call_with_retry(cost) PROVE TurnEffect
  <2>1. cost \in Nat
    BY CostsAre
  <2>2. /\ UNCHANGED <<pc, turn, cs, files, logHandle>>
        /\ pc \in {"classify", "compose", "filter", "shorten"}
        /\ billed' = billed + cost /\ lost' = lost + cost
    BY <1>1 DEF call_with_retry
  <2>3. FileEffect
    BY <2>2, FilesStill
  <2>4. pc \in TurnPcs /\ pc \notin ScrubPcs /\ turn.who \in Players
    BY <2>2 DEF TurnPcs, ScrubPcs, Typed, TaskOK
  <2> QED
    BY <2>1, <2>2, <2>3, <2>4 DEF TurnEffect
<1>2. CASE LimiterRefuses
  <2>1. /\ EndWithDecision /\ UNCHANGED <<cs, billed>> /\ lost' = lost + turn.cost
        /\ pc \in {"classify", "compose"}
    BY <1>2 DEF LimiterRefuses
  <2> QED
    BY <2>1, EndIs, RestIs DEF TurnEffect, ScrubPcs
<1> QED
  BY <1>1, <1>2 DEF Call

(* What a failed attempt adds up to.                                           *)
LEMMA FailureIs ==
  ASSUME Typed, NEW cost \in Costs \cup {0}, send_one_fails(cost)
  PROVE  /\ cost \in Nat /\ billed' \in Nat /\ lost' \in Int
         /\ billed' = billed + cost /\ lost' = (lost + turn.cost) + cost
<1>1. cost \in Nat
  BY TurnAssumption
<1>2. billed \in Nat /\ lost \in Int /\ turn.cost \in Nat
  BY TypedIs
<1>3. billed' = billed + cost /\ lost' = lost + turn.cost + cost
  BY DEF send_one_fails
<1> QED
  BY <1>1, <1>2, <1>3

(* A hold that is set leaves the meter alone.                                  *)
LEMMA HoldIs ==
  ASSUME Typed, NEW h \in SUBSET Holds, cs' = [cs EXCEPT !.held = @ \cup h]
  PROVE  cs' \in ChatStates /\ cs'.meter = cs.meter
<1>1. cs \in ChatStates /\ cs.held \cup h \in SUBSET Holds
  BY TypedIs
<1> QED
  BY <1>1, StateHeld

(* A cost that is recorded.                                                    *)
LEMMA RecordedIs ==
  ASSUME Typed, NEW cost \in Nat,
         Metered(RecordClassifier(cs.meter, day, turn.started, cost))
  PROVE  /\ cs' \in ChatStates /\ cs'.meter.day = day
         /\ Usd(cs'.meter) = OnDay(cs.meter, day) + cost
BY TypedIs, RecordIs, StateMeter DEF Metered

(* The classifier.                                                             *)
LEMMA ClassifyEffect ==
  ASSUME Typed, Classify
  PROVE  TurnEffect
<1> USE TypedIs
<1>1. ASSUME NEW cost \in Costs \cup {0}, ClassifierFails(cost) PROVE TurnEffect
  <2>1. PICK h \in SUBSET {"model404"} : cs' = [cs EXCEPT !.held = @ \cup h]
    BY <1>1 DEF ClassifierFails
  <2>2. cs' \in ChatStates /\ cs'.meter = cs.meter
    BY <2>1, HoldIs DEF Holds
  <2>3. pc = "classify" /\ EndWithDecision /\ send_one_fails(cost)
    BY <1>1 DEF ClassifierFails
  <2>4. billed' \in Nat /\ lost' \in Int
    BY <2>3, FailureIs
  <2> QED
    BY <2>2, <2>3, <2>4, EndIs, RestIs DEF TurnEffect, ScrubPcs
<1>2. ASSUME NEW cost \in Costs, NEW callout \in BOOLEAN, NEW respond \in BOOLEAN,
             ClassifierAnswers(cost, callout, respond)
      PROVE  TurnEffect
  <2> DEFINE decided == Logged(files, About(turn.who))
  <2>1. cost \in Nat /\ pc = "classify" /\ turn.who \in Players
    BY <1>2, CostsAre DEF ClassifierAnswers, Typed, TaskOK, TurnPcs
  <2>2. Grown(files, decided)
    BY AboutKnown, LoggedGrows
  <2>3. Grown(files, WithLesson(decided, turn.who))
    <3>1. decided \in FileMaps
      BY <2>2 DEF Grown
    <3> HIDE DEF decided
    <3> QED
      BY <2>1, <2>2, <3>1, PlayerFileGrows, GrownTransitive
  <2>4. FileEffect
    BY <1>2, <2>2, <2>3 DEF ClassifierAnswers, FileEffect
  <2>5. cs' \in ChatStates /\ cs'.meter.day = day
    BY <1>2, <2>1, RecordedIs DEF ClassifierAnswers
  <2>6. billed' \in Nat /\ lost' \in Int
    BY <1>2, <2>1 DEF ClassifierAnswers
  <2>7. saved.meter.day <= cs'.meter.day
    <3>1. saved.meter.day \in Nat /\ cs.meter.day \in Nat
      BY ZeroIsDay DEF Meters
    <3> QED
      BY <2>5, <3>1
  <2>8. CASE respond
    <3>1. turn' = turn /\ pc' = "admit"
      BY <1>2, <2>8 DEF ClassifierAnswers, Then
    <3> QED
      BY <2>1, <2>4, <2>5, <2>6, <2>7, <3>1 DEF TurnEffect, ScrubPcs
  <2>9. CASE ~respond
    <3>1. TurnOver
      BY <1>2, <2>9 DEF ClassifierAnswers
    <3> QED
      BY <2>1, <2>4, <2>5, <2>6, <2>7, <3>1, TurnOverIs, RestIs DEF TurnEffect, ScrubPcs
  <2> QED
    BY <2>8, <2>9
<1>3. CASE NotAdmitted
  <2>1. EndWithDecision /\ UNCHANGED <<cs, billed, lost>> /\ pc = "admit"
    BY <1>3 DEF NotAdmitted
  <2> QED
    BY <2>1, EndIs, RestIs DEF TurnEffect, ScrubPcs
<1>4. CASE Admitted
  <2>1. /\ UNCHANGED <<turn, cs, billed, lost, files, logHandle>>
        /\ pc = "admit" /\ pc' = "resolve"
    BY <1>4 DEF Admitted, Then
  <2>2. turn.who \in Players
    BY <2>1 DEF Typed, TaskOK, TurnPcs
  <2> QED
    BY <2>1, <2>2, FilesStill DEF TurnEffect, ScrubPcs
<1> QED
  BY <1>1, <1>2, <1>3, <1>4 DEF Classify

(* The sender's account.                                                       *)
LEMMA ComposingIs ==
  ASSUME Typed, NEW found \in BOOLEAN
  PROVE  /\ Composing(found) \in Turning /\ Composing(found).started = day
         /\ Composing(found).who = turn.who /\ Composing(found).cost = turn.cost
         /\ Composing(found).iter = turn.iter /\ Composing(found).nudged = turn.nudged
<1>1. cs.meter.notes \in Nat
  BY TypedIs DEF Meters
<1> QED
  BY <1>1, TypedIs DEF Composing, Turning

(* The step that waits for the resolver keeps the types of the turn. *)
LEMMA ResolveEffect ==
  ASSUME Typed, Resolve
  PROVE  TurnEffect
<1> USE TypedIs
<1>1. CASE SenderUnresolved
  <2>1. EndWithDecision /\ UNCHANGED <<cs, billed, lost>> /\ pc = "resolve"
    BY <1>1 DEF SenderUnresolved
  <2> QED
    BY <2>1, EndIs, RestIs DEF TurnEffect, ScrubPcs
<1>2. ASSUME NEW found \in BOOLEAN, pc = "resolve", FileEffect, UNCHANGED <<cs, billed, lost>>,
             IF cancelled THEN TurnOver ELSE Then("compose") /\ turn' = Composing(found)
      PROVE  TurnEffect
  <2>1. turn.who \in Players
    BY <1>2 DEF Typed, TaskOK, TurnPcs
  <2>2. CASE cancelled
    BY <1>2, <2>2, TurnOverIs, RestIs DEF TurnEffect, ScrubPcs
  <2>3. CASE ~cancelled
    <3>1. turn' = Composing(found) /\ pc' = "compose"
      BY <1>2, <2>3 DEF Then
    <3> QED
      BY <1>2, <2>1, <3>1, ComposingIs DEF TurnEffect, ScrubPcs
  <2> QED
    BY <2>2, <2>3
<1>3. CASE SenderResolved
  <2>1. turn.who \in Players
    BY <1>3 DEF SenderResolved, Typed, TaskOK, TurnPcs
  <2>2. FileEffect
    BY <1>3, <2>1, PlayerFileGrows DEF SenderResolved, FileEffect
  <2> QED
    BY <1>2, <1>3, <2>2 DEF SenderResolved
<1>4. CASE PartnerUnresolved
  <2>1. FileEffect
    BY <1>4, FilesStill DEF PartnerUnresolved
  <2> QED
    BY <1>2, <1>4, <2>1 DEF PartnerUnresolved
<1> QED
  BY <1>1, <1>3, <1>4 DEF Resolve

(* The end of a composer's run.                                                *)
LEMMA RunOverIs ==
  ASSUME Typed, NEW cost \in Nat, NEW reply \in BOOLEAN, RunOver(cost, reply),
         pc = "compose"
  PROVE  /\ FileEffect
         /\ cs' \in ChatStates /\ cs'.meter.day = day
         /\ Usd(cs'.meter) = OnDay(cs.meter, day) + cost
         /\ turn' \in Turning /\ turn'.started <= day
         /\ turn'.cost = 0 /\ turn'.iter = 0 /\ ~turn'.nudged
         /\ pc' \in Resting \cup {"shape", "filter"}
         /\ pc' \in TurnPcs => turn'.who \in Players
<1> USE TypedIs
<1> DEFINE m == RecordComposer(cs.meter, day, turn.started, cost)
           n == [m EXCEPT !.notes = @ + turn.notes]
<1>1. m \in Meters /\ m.day = day /\ Usd(m) = OnDay(cs.meter, day) + cost
  BY RecordIs
<1>2. n \in Meters /\ n.day = day /\ Usd(n) = Usd(m)
  <2> HIDE DEF m
  <2> QED
    BY <1>1 DEF Meters, Usd
<1>3. cs' \in ChatStates /\ cs'.meter = n
  <2>1. cs' = [cs EXCEPT !.meter = n]
    BY DEF RunOver, Metered
  <2> HIDE DEF n
  <2> QED
    BY <1>2, <2>1, StateMeter
<1>4. FileEffect
  BY DecideAbout DEF RunOver
<1>5. turn.who \in Players
  BY DEF Typed, TaskOK, TurnPcs
<1>6. CASE reply
  <2>1. /\ turn' = [NoTurn EXCEPT !.who = turn.who, !.mode = turn.mode, !.started = turn.started]
        /\ pc' \in {"shape", "filter"}
    BY <1>6 DEF RunOver, Then
  <2>2. /\ turn' \in Turning /\ turn'.started = turn.started /\ turn'.who = turn.who
        /\ turn'.cost = 0 /\ turn'.iter = 0 /\ ~turn'.nudged
    BY <2>1 DEF NoTurn, Turning
  <2> QED
    BY <1>1, <1>2, <1>3, <1>4, <1>5, <2>1, <2>2
<1>7. CASE ~reply
  <2>1. TurnOver
    BY <1>7 DEF RunOver
  <2> QED
    BY <1>1, <1>2, <1>3, <1>4, <2>1, TurnOverIs, NoTurnIs, RestIs
<1> QED
  BY <1>6, <1>7

(* A run that is over, whatever it has cost.                                   *)
LEMMA RunOverEffect ==
  ASSUME Typed, NEW cost \in Nat, NEW reply \in BOOLEAN, RunOver(cost, reply),
         pc = "compose", billed' \in Nat, lost' \in Int
  PROVE  TurnEffect
<1>1. saved.meter.day <= day /\ day <= day
  BY TypedIs
<1>2. cs'.meter.day = day
  BY RunOverIs
<1>3. pc \notin ScrubPcs /\ pc' \notin ScrubPcs
  BY RunOverIs DEF ScrubPcs, Resting
<1> QED
  BY <1>1, <1>2, <1>3, RunOverIs DEF TurnEffect

(* The composer's run and its tools.                                           *)
LEMMA ComposeEffect ==
  ASSUME Typed, Compose
  PROVE  TurnEffect
<1> USE TypedIs
<1>1. CASE ComposerCancelled
  BY <1>1, RunOverEffect DEF ComposerCancelled
<1>2. ASSUME NEW cost \in Costs \cup {0}, ComposerFails(cost) PROVE TurnEffect
  <2>1. PICK h \in {{}, {"model404"}, {"throttle"}} : cs' = [cs EXCEPT !.held = @ \cup h]
    BY <1>2 DEF ComposerFails
  <2>2. cs' \in ChatStates /\ cs'.meter = cs.meter
    BY <2>1, HoldIs DEF Holds
  <2>3. pc = "compose" /\ EndWithDecision /\ send_one_fails(cost)
    BY <1>2 DEF ComposerFails
  <2>4. billed' \in Nat /\ lost' \in Int
    BY <2>3, FailureIs
  <2> QED
    BY <2>2, <2>3, <2>4, EndIs, RestIs DEF TurnEffect, ScrubPcs
<1>3. ASSUME NEW cost \in Costs, Called(cost)
      PROVE  /\ cost \in Nat /\ pc = "compose" /\ billed' \in Nat /\ lost' \in Int
             /\ turn.who \in Players /\ turn.cost + cost \in Nat /\ pc \notin ScrubPcs
  <2>1. cost \in Nat /\ pc = "compose" /\ billed' = billed + cost /\ lost' = lost
    BY <1>3, CostsAre DEF Called
  <2>2. turn.who \in Players
    BY <2>1 DEF Typed, TaskOK, TurnPcs
  <2> QED
    BY <2>1, <2>2 DEF ScrubPcs
<1>4. ASSUME NEW cost \in Costs, Called(cost), NEW reply \in BOOLEAN,
             RunOver(turn.cost + cost, reply)
      PROVE  TurnEffect
  BY <1>3, <1>4, RunOverEffect
<1>5. ASSUME NEW cost \in Costs, ComposerNudged(cost) PROVE TurnEffect
  <2>1. Called(cost) /\ UNCHANGED <<pc, cs>>
    BY <1>5 DEF ComposerNudged
  <2>2. turn' \in Turning /\ turn'.started = turn.started /\ turn'.who = turn.who
    <3>1. turn' = [turn EXCEPT !.iter = @ + 1, !.cost = @ + cost, !.nudged = TRUE]
      BY <1>5 DEF ComposerNudged
    <3>2. turn.cost + cost \in Nat /\ turn.iter + 1 \in Nat
      BY <1>3, <2>1
    <3> QED
      BY <3>1, <3>2 DEF Turning
  <2>3. FileEffect
    BY <1>5, DecideAbout DEF ComposerNudged
  <2> QED
    BY <1>3, <2>1, <2>2, <2>3 DEF TurnEffect
<1>6. ASSUME NEW cost \in Costs, ComposerAsksTools(cost) PROVE TurnEffect
  <2>1. Called(cost) /\ UNCHANGED cs /\ pc' = "tools"
    BY <1>6 DEF ComposerAsksTools, Then
  <2>2. turn' \in Turning /\ turn'.started = turn.started /\ turn'.who = turn.who
    <3>1. turn' = [turn EXCEPT !.iter = @ + 1, !.cost = @ + cost]
      BY <1>6 DEF ComposerAsksTools
    <3>2. turn.cost + cost \in Nat /\ turn.iter + 1 \in Nat
      BY <1>3, <2>1
    <3> QED
      BY <3>1, <3>2 DEF Turning
  <2>3. FileEffect
    BY <1>6, FilesStill DEF ComposerAsksTools
  <2> QED
    BY <1>3, <2>1, <2>2, <2>3 DEF TurnEffect, ScrubPcs
<1>7. ASSUME pc = "tools", pc' \in {"tools", "compose"}, FileEffect, UNCHANGED <<cs, billed, lost>>,
             turn' \in Turning, turn'.started = turn.started, turn'.who = turn.who
      PROVE  TurnEffect
  <2>1. turn.who \in Players
    BY <1>7 DEF Typed, TaskOK, TurnPcs
  <2> QED
    BY <1>7, <2>1 DEF TurnEffect, ScrubPcs
<1>8. CASE NoteTaken
  <2>1. turn.who \in Players /\ pc = "tools" /\ pc' = "tools"
    BY <1>8 DEF NoteTaken, Typed, TaskOK, TurnPcs
  <2>2. FileEffect
    BY <1>8, <2>1, PlayerFileGrows DEF NoteTaken, FileEffect
  <2>3. turn' \in Turning /\ turn'.started = turn.started /\ turn'.who = turn.who
    <3>1. turn' = [turn EXCEPT !.notes = @ + 1]
      BY <1>8 DEF NoteTaken
    <3> QED
      BY <3>1 DEF Turning
  <2> QED
    BY <1>7, <1>8, <2>1, <2>2, <2>3 DEF NoteTaken
<1>9. CASE NoteRefused
  BY <1>7, <1>9, DecideAbout DEF NoteRefused, Then
<1>10. CASE ToolsDone
  BY <1>7, <1>10, FilesStill DEF ToolsDone, Then
<1>11. ASSUME NEW cost \in Costs,
              \/ ComposerSpeaks(cost) \/ ComposerSilent(cost)
              \/ \E reply \in BOOLEAN : ComposerOutOfTurns(cost, reply)
       PROVE  TurnEffect
  <2>1. CASE ComposerSpeaks(cost)
    BY <1>4, <2>1 DEF ComposerSpeaks
  <2>2. CASE ComposerSilent(cost)
    BY <1>4, <2>2 DEF ComposerSilent
  <2>3. ASSUME NEW reply \in BOOLEAN, ComposerOutOfTurns(cost, reply) PROVE TurnEffect
    BY <1>4, <2>3 DEF ComposerOutOfTurns
  <2> QED
    BY <1>11, <2>1, <2>2, <2>3
<1> QED
  BY <1>1, <1>2, <1>5, <1>6, <1>8, <1>9, <1>10, <1>11 DEF Compose

(* The filter.                                                                 *)
LEMMA TriesIs ==
  ASSUME Typed, NEW t \in Nat
  PROVE  /\ [turn EXCEPT !.tries = t] \in Turning
         /\ [turn EXCEPT !.tries = t].started = turn.started
         /\ [turn EXCEPT !.tries = t].who = turn.who
         /\ [turn EXCEPT !.tries = t].cost = turn.cost
         /\ [turn EXCEPT !.tries = t].iter = turn.iter
         /\ [turn EXCEPT !.tries = t].nudged = turn.nudged
BY TypedIs DEF Turning

(* The screening of an answer does, with the call it may pay for. *)
LEMMA FilterEffect ==
  ASSUME Typed, Filter
  PROVE  TurnEffect
<1> USE TypedIs
<1>1. ASSUME Unfiltered, billed' \in Nat, lost' \in Int PROVE TurnEffect
  <2>1. /\ pc \in {"filter", "shorten"} /\ pc' = "shape" /\ UNCHANGED cs
        /\ turn' = [turn EXCEPT !.tries = 0]
    BY <1>1 DEF Unfiltered, Then
  <2>2. turn.who \in Players
    BY <2>1 DEF Typed, TaskOK, TurnPcs
  <2>3. FileEffect
    BY <1>1, DecideAbout DEF Unfiltered
  <2> QED
    BY <1>1, <2>1, <2>2, <2>3, TriesIs DEF TurnEffect, ScrubPcs
<1>2. CASE FilterSkipped
  BY <1>1, <1>2 DEF FilterSkipped
<1>3. ASSUME NEW cost \in Costs \cup {0}, FilterFails(cost) PROVE TurnEffect
  BY <1>1, <1>3, FailureIs DEF FilterFails
<1>4. ASSUME NEW cost \in Costs, FilterCalled(cost)
      PROVE  /\ cs' \in ChatStates /\ cs'.meter.day <= day /\ saved.meter.day <= cs'.meter.day
             /\ billed' \in Nat /\ lost' \in Int /\ FileEffect
  <2>1. cost \in Nat
    BY CostsAre
  <2>2. cs' \in ChatStates /\ cs'.meter.day = day
    BY <1>4, <2>1, RecordedIs DEF FilterCalled
  <2>3. saved.meter.day <= day
    OBVIOUS
  <2>4. FileEffect
    BY <1>4, DecideAbout DEF FilterCalled
  <2> QED
    BY <1>4, <2>1, <2>2, <2>3, <2>4 DEF FilterCalled
<1>5. ASSUME pc \in {"filter", "shorten"} PROVE turn.who \in Players /\ pc \notin ScrubPcs
  BY <1>5 DEF Typed, TaskOK, TurnPcs, ScrubPcs
<1>6. ASSUME NEW cost \in Costs, FilterRejects(cost) PROVE TurnEffect
  BY <1>4, <1>5, <1>6, TurnOverIs, RestIs DEF FilterRejects, TurnEffect
<1>7. ASSUME NEW cost \in Costs, NEW t \in Nat, FilterCalled(cost), pc \in {"filter", "shorten"},
             pc' \in {"shape", "shorten"}, turn' = [turn EXCEPT !.tries = t]
      PROVE  TurnEffect
  BY <1>4, <1>5, <1>7, TriesIs DEF TurnEffect, ScrubPcs
<1>8. ASSUME NEW cost \in Costs, FilterPasses(cost) PROVE TurnEffect
  BY <1>7, <1>8 DEF FilterPasses, Then
<1>9. ASSUME NEW cost \in Costs, FilterTooLong(cost) PROVE TurnEffect
  <2> DEFINE tries == IF pc = "filter" THEN 0 ELSE turn.tries + 1
             t == IF tries < MaxShorten THEN tries ELSE 0
  <2>1. t \in Nat
    OBVIOUS
  <2>2. /\ FilterCalled(cost) /\ pc \in {"filter", "shorten"} /\ pc' \in {"shape", "shorten"}
        /\ turn' = [turn EXCEPT !.tries = t]
    BY <1>9 DEF FilterTooLong, Then
  <2> HIDE DEF t
  <2> QED
    BY <1>7, <2>1, <2>2
<1> QED
  BY <1>2, <1>3, <1>6, <1>8, <1>9 DEF Filter

(* Shaping, typing, sending.                                                   *)
LEMMA ReplyEffect ==
  ASSUME Typed, Reply \/ \E spoken \in BOOLEAN : ReplyAnswered(spoken)
  PROVE  TurnEffect
<1> USE TypedIs
<1>1. ASSUME ReplyBlocked \/ ReplyDropped \/ \E spoken \in BOOLEAN : ReplyAnswered(spoken)
      PROVE  TurnEffect
  <2>1. EndWithDecision /\ UNCHANGED <<cs, billed, lost>> /\ pc \in {"shape", "typing", "send"}
    BY <1>1 DEF ReplyBlocked, ReplyDropped, ReplyAnswered
  <2> QED
    BY <2>1, EndIs, RestIs DEF TurnEffect, ScrubPcs
<1>2. ASSUME ReplyShaped \/ ReplyHandedOver PROVE TurnEffect
  <2>1. /\ UNCHANGED <<turn, cs, billed, lost, files, logHandle>>
        /\ pc \in {"shape", "typing"} /\ pc' \in {"typing", "send"}
    BY <1>2 DEF ReplyShaped, ReplyHandedOver, Then
  <2>2. turn.who \in Players
    BY <2>1 DEF Typed, TaskOK, TurnPcs
  <2> QED
    BY <2>1, <2>2, FilesStill DEF TurnEffect, ScrubPcs
<1> QED
  BY <1>1, <1>2 DEF Reply

(* Every step of a turn does. *)
LEMMA TurnStepEffect ==
  ASSUME Typed, TurnStep
  PROVE  TurnEffect
BY ScreenEffect, CallEffect, ClassifyEffect, ResolveEffect, ComposeEffect, FilterEffect,
   ReplyEffect DEF TurnStep

-----------------------------------------------------------------------------
(* The steps of the loop and of its commands, those of a turn among them.      *)

\* What such a step does, when no player is being forgotten.
CalmEffect ==
    /\ UNCHANGED <<day, acked, asked, done, unread>>
    /\ inbox' = inbox \/ \E p \in Senders : inbox' = Enqueued(About(p))
    /\ (FileEffect /\ UNCHANGED handle) \/ Sweep
    /\ scrub' \in {scrub, NoScrub}
    /\ turn' \in Turning
    /\ turn'.started <= day
    /\ cs' \in ChatStates
    /\ saved' \in ChatStates
    /\ cs'.meter.day <= day
    /\ saved'.meter.day <= cs'.meter.day
    /\ billed' \in Nat
    /\ lost' \in Int
    /\ bus' \in Seq(Senders)
    /\ backlog' \in Seq(Senders)
    /\ pc \notin ScrubPcs
    /\ pc' \notin ScrubPcs
    /\ pc' \in TurnPcs => turn'.who \in Players

(* The lines waiting on the bus and in the backlog have senders. *)
LEMMA LinesAre ==
  ASSUME Typed
  PROVE  bus \in Seq(Senders) /\ backlog \in Seq(Senders)
BY DEF Typed, TaskOK

(* A step of a turn, beside a loop that stands still, is calm. *)
LEMMA TurnIsCalm ==
  ASSUME Typed, TurnStep, UNCHANGED loopVars
  PROVE  CalmEffect
<1>1. TurnEffect
  BY TurnStepEffect
<1>2. /\ UNCHANGED <<day, acked, asked, handle>>
      /\ inbox' = inbox \/ \E p \in Senders : inbox' = Enqueued(About(p))
  <2>1. turn.who \in Senders
    BY TypedIs
  <2> QED
    BY <2>1 DEF TurnStep, ReplyAnswered
<1>3. UNCHANGED <<done, unread, scrub, saved, bus, backlog>>
  BY DEF loopVars
<1> QED
  BY <1>1, <1>2, <1>3, TypedIs, LinesAre DEF CalmEffect, TurnEffect

(* The state rolled to today.                                                  *)
LEMMA RolledIs ==
  ASSUME Typed
  PROVE  /\ RolledState \in ChatStates /\ RolledState.meter \in Meters
         /\ RolledState.meter.day = day
         /\ Usd(RolledState.meter) = OnDay(cs.meter, day)
<1> DEFINE m == RollToDay(cs.meter, day)
<1>1. m \in Meters /\ m.day = day /\ Usd(m) = OnDay(cs.meter, day)
  BY TypedIs, RollIs
<1>2. RolledState = [cs EXCEPT !.meter = m]
  BY DEF RolledState
<1> HIDE DEF m
<1>3. RolledState \in ChatStates /\ RolledState.meter = m
  BY <1>1, <1>2, TypedIs, StateMeter
<1> QED
  BY <1>1, <1>3

(* A turn that begins.                                                         *)
LEMMA BegunIs ==
  ASSUME Typed, NEW p \in Senders, NEW mode \in {"live", "backlog", "proactive"}
  PROVE  /\ [NoTurn EXCEPT !.who = p, !.mode = mode] \in Turning
         /\ [NoTurn EXCEPT !.who = p, !.mode = mode].started <= day
         /\ [NoTurn EXCEPT !.who = p, !.mode = mode].who = p
         /\ [NoTurn EXCEPT !.who = p, !.mode = mode].cost = 0
         /\ [NoTurn EXCEPT !.who = p, !.mode = mode].iter = 0
         /\ ~[NoTurn EXCEPT !.who = p, !.mode = mode].nudged
<1>1. 0 \in Days /\ 0 <= day
  BY ZeroIsDay, TypedIs
<1> QED
  BY <1>1 DEF NoTurn, Turning

\* Saving is all or nothing.
LEMMA SaveIs ==
  ASSUME NEW state, Save(state)
  PROVE  saved' = state \/ saved' = saved
BY DEF Save

\* The part of a calm step most commands leave alone.
LEMMA CalmWhen ==
  ASSUME Typed,
         UNCHANGED <<day, inbox, acked, asked, done, unread, scrub, turn, billed, lost, bus,
                     backlog>>,
         (FileEffect /\ UNCHANGED handle) \/ Sweep,
         cs' \in ChatStates, cs'.meter.day <= day, cs.meter.day <= cs'.meter.day,
         saved' = saved \/ saved' = cs',
         pc \notin ScrubPcs, pc' \notin ScrubPcs, pc' \notin TurnPcs
  PROVE  CalmEffect
<1>1. cs'.meter.day \in Nat
  <2>1. cs'.meter \in Meters
    BY StateIs
  <2>2. cs'.meter.day \in Days
    BY <2>1 DEF Meters
  <2> QED
    BY <2>2, ZeroIsDay
<1>2. saved' \in ChatStates /\ saved'.meter.day <= cs'.meter.day
  <2>1. CASE saved' = saved
    <3>1. saved.meter.day <= cs'.meter.day
      BY <1>1, TypedIs
    <3> QED
      BY <2>1, <3>1, TypedIs
  <2>2. CASE saved' = cs'
    BY <1>1, <2>2
  <2> QED
    BY <2>1, <2>2
<1>3. turn \in Turning /\ turn.started <= day /\ billed \in Nat /\ lost \in Int
  BY TypedIs
<1> QED
  BY <1>2, <1>3, LinesAre DEF CalmEffect

(* The head of the loop and its three branches.                                *)
LEMMA LoopHeadCalm ==
  ASSUME Typed, LoopHead
  PROVE  CalmEffect
<1>1. FileEffect
  BY TypedIs, FilesStill DEF LoopHead, fileVars
<1>2. cs' = cs \/ cs' = RolledState
  BY DEF LoopHead
<1>3. cs' \in ChatStates /\ cs'.meter.day <= day /\ cs.meter.day <= cs'.meter.day
  BY <1>2, RolledIs, TypedIs
<1>4. pc = "top" /\ pc' = "idle"
  BY DEF LoopHead, Then
<1> QED
  BY <1>1, <1>3, <1>4, CalmWhen DEF LoopHead, fileVars, ScrubPcs, TurnPcs

(* A line is taken from the bus. *)
LEMMA EventTakenCalm ==
  ASSUME Typed, NEW named \in BOOLEAN, EventTaken(named)
  PROVE  CalmEffect
<1>1. Head(bus) \in Senders /\ Tail(bus) \in Seq(Senders)
  BY LinesAre DEF EventTaken
<1>2. turn' = [NoTurn EXCEPT !.who = Head(bus), !.mode = "live"]
  BY DEF EventTaken
<1>3. turn' \in Turning /\ turn'.started <= day
  BY <1>1, <1>2, BegunIs
<1>4. cs' \in ChatStates /\ cs'.meter = RolledState.meter
  <2> DEFINE k == [RolledState EXCEPT !.known = named]
  <2>1. RolledState \in ChatStates /\ day \in Days
    BY RolledIs, TypedIs
  <2>2. k \in ChatStates /\ k.meter = RolledState.meter
    BY <2>1, StateFlags
  <2>3. cs' = [k EXCEPT !.swept = day]
    BY DEF EventTaken
  <2> HIDE DEF k
  <2> QED
    BY <2>1, <2>2, <2>3, StateSwept
<1>5. cs'.meter.day = day
  BY <1>4, RolledIs
<1>6. (FileEffect /\ UNCHANGED handle) \/ Sweep
  BY TypedIs, FilesStill DEF EventTaken
<1>7. pc = "idle" /\ pc' = "taken"
  BY DEF EventTaken, Then
<1>8. UNCHANGED <<day, inbox, acked, asked, done, unread, scrub, billed, lost, saved, backlog>>
  BY DEF EventTaken
<1>9. bus' = Tail(bus)
  BY DEF EventTaken
<1> QED
  BY <1>1, <1>3, <1>4, <1>5, <1>6, <1>7, <1>8, <1>9, TypedIs, LinesAre
  DEF CalmEffect, ScrubPcs, TurnPcs

(* The bus reports lines it has dropped. *)
LEMMA LagToldCalm ==
  ASSUME Typed, LagTold
  PROVE  CalmEffect
<1>1. FileEffect /\ UNCHANGED handle
  BY TypedIs, DecideAbout DEF LagTold
<1>2. cs' = RolledState /\ pc = "idle" /\ pc' = "top"
  BY DEF LagTold, ToTop, Then
<1>3. cs' \in ChatStates /\ cs'.meter.day = day
  BY <1>2, RolledIs
<1> QED
  BY <1>1, <1>2, <1>3, TypedIs, CalmWhen DEF LagTold, ScrubPcs, TurnPcs

(* Reflection.                                                                 *)
LEMMA ReflectionDueCalm ==
  ASSUME Typed, ReflectionDue
  PROVE  CalmEffect
<1>1. FileEffect /\ UNCHANGED handle
  BY TypedIs, RotatedGrows, FilesStill DEF ReflectionDue, FileEffect
<1>2. pc = "taken" /\ pc' \in {"reflecting", "reflected"}
  BY DEF ReflectionDue, Then
<1> QED
  BY <1>1, <1>2, TypedIs, CalmWhen DEF ReflectionDue, loopVars, ScrubPcs, TurnPcs

(* A reflection ends, with notes or without. *)
LEMMA ReflectionEndsCalm ==
  ASSUME Typed, ReflectionEnds
  PROVE  CalmEffect
<1>1. pc = "reflecting" /\ pc' \in {"reflected", "top"}
  BY DEF ReflectionEnds, Then
<1>2. UNCHANGED <<day, inbox, acked, asked, done, unread, scrub, turn, billed, lost, bus,
                  backlog, handle>>
  BY DEF ReflectionEnds
<1>3. ASSUME NEW cost \in Costs, Decide(files, {}), Save(cs'),
             cs' = [cs EXCEPT !.meter = RecordClassifier(@, day, day, cost)]
      PROVE  CalmEffect
  <2>1. cs' \in ChatStates /\ cs'.meter.day = day
    <3> DEFINE m == RecordClassifier(cs.meter, day, day, cost)
    <3>1. m \in Meters /\ m.day = day
      BY TypedIs, CostsAre, RecordIs
    <3>2. cs' = [cs EXCEPT !.meter = m]
      BY <1>3
    <3> HIDE DEF m
    <3> QED
      BY <3>1, <3>2, TypedIs, StateMeter
  <2>2. saved' = cs' \/ saved' = saved
    BY <1>3, SaveIs
  <2> QED
    BY <1>1, <1>2, <1>3, <2>1, <2>2, TypedIs, DecideAbout, CalmWhen DEF ScrubPcs, TurnPcs
<1>4. ASSUME UNCHANGED <<cs, saved, files, logHandle>> PROVE CalmEffect
  BY <1>1, <1>2, <1>4, TypedIs, FilesStill, CalmWhen DEF ScrubPcs, TurnPcs
<1> QED
  BY <1>3, <1>4 DEF ReflectionEnds

(* A line is dropped because the chat is paused. *)
LEMMA PauseSeenCalm ==
  ASSUME Typed, PauseSeen
  PROVE  CalmEffect
<1>1. UNCHANGED <<day, inbox, acked, asked, done, unread, scrub, cs, saved, billed, lost, bus,
                  backlog, handle>>
  BY DEF PauseSeen, loopVars
<1>2. FileEffect
  BY TypedIs, DecideAbout, FilesStill DEF PauseSeen
<1>3. turn' = turn \/ turn' = NoTurn
  BY DEF PauseSeen
<1>4. pc \in {"taken", "reflected"} /\ pc' \in {"top", "screen"}
  BY DEF PauseSeen, ToTop, Then
<1>5. turn' \in Turning /\ turn'.started <= day
  BY <1>3, TypedIs, NoTurnIs
<1> QED
  BY <1>1, <1>2, <1>4, <1>5, TypedIs, LinesAre DEF CalmEffect, ScrubPcs, TurnPcs

(* A command that arrives while a turn runs.                                   *)
LEMMA SniffCalm ==
  ASSUME Typed, NEW kind, NEW p, Sniff(kind, p)
  PROVE  CalmEffect
<1>1. UNCHANGED <<day, inbox, acked, asked, done, unread, scrub, pc, turn, cs, saved, billed,
                  lost, bus, backlog, handle>>
  BY DEF Sniff
<1>2. FileEffect
  BY TypedIs, DecideAbout, FilesStill DEF Sniff
<1>3. pc \notin ScrubPcs
  BY DEF Sniff, Awaits, ScrubPcs
<1>4. pc \in TurnPcs => turn.who \in Players
  BY DEF Typed, TaskOK
<1> QED
  BY <1>1, <1>2, <1>3, <1>4, TypedIs, LinesAre DEF CalmEffect

(* Between turns.                                                              *)
LEMMA TurnEndedCalm ==
  ASSUME Typed, TurnEnded
  PROVE  CalmEffect
<1>1. /\ UNCHANGED <<day, inbox, acked, asked, done, unread, scrub, cs, saved, billed, lost,
                     handle, files, logHandle>>
      /\ turn' = NoTurn /\ pc = "after" /\ pc' \in {"top", "next"}
  BY DEF TurnEnded, fileVars, ToTop, Then
<1>2. FileEffect
  BY <1>1, TypedIs, FilesStill
<1>3. bus' \in Seq(Senders) /\ backlog' \in Seq(Senders)
  <2>1. CASE UNCHANGED <<bus, backlog>>
    BY <2>1, LinesAre
  <2>2. CASE ~UNCHANGED <<bus, backlog>>
    <3>1. bus' = <<>>
      BY <2>2 DEF TurnEnded
    <3>2. PICK order \in [DOMAIN bus -> DOMAIN bus] :
            backlog' = [k \in DOMAIN bus |-> bus[order[k]]]
      BY <2>2 DEF TurnEnded
    <3>3. PICK n \in Nat : DOMAIN bus = 1..n /\ \A k \in 1..n : bus[k] \in Senders
      BY LinesAre
    <3>4. backlog' \in [1..n -> Senders]
      BY <3>2, <3>3
    <3> QED
      BY <3>1, <3>4
  <2> QED
    BY <2>1, <2>2
<1>4. turn' \in Turning /\ turn'.started <= day
  BY <1>1, TypedIs, NoTurnIs
<1> QED
  BY <1>1, <1>2, <1>3, <1>4, TypedIs DEF CalmEffect, ScrubPcs, TurnPcs

(* The next line of the backlog is taken up. *)
LEMMA NextOfBacklogCalm ==
  ASSUME Typed, NextOfBacklog
  PROVE  CalmEffect
<1>1. Head(backlog) \in Senders /\ Tail(backlog) \in Seq(Senders)
  BY LinesAre DEF NextOfBacklog
<1>2. turn' \in Turning /\ turn'.started <= day
  BY <1>1, BegunIs DEF NextOfBacklog
<1>3. FileEffect
  BY TypedIs, FilesStill DEF NextOfBacklog, fileVars
<1>4. /\ UNCHANGED <<day, inbox, acked, asked, done, unread, scrub, cs, saved, billed, lost,
                     handle, bus>>
      /\ pc = "next" /\ pc' = "screen" /\ backlog' = Tail(backlog)
  BY DEF NextOfBacklog, fileVars, Then
<1> QED
  BY <1>1, <1>2, <1>3, <1>4, TypedIs, LinesAre DEF CalmEffect, ScrubPcs, TurnPcs

(* The state is saved after a backlog or a tick. *)
LEMMA SavedCalm ==
  ASSUME Typed, BacklogDone \/ TickDone
  PROVE  CalmEffect
<1>1. /\ UNCHANGED <<day, inbox, acked, asked, done, unread, scrub, turn, cs, billed, lost,
                     handle, bus, backlog, files, logHandle>>
      /\ pc \in {"next", "ticked"} /\ pc' = "top"
      /\ Save(cs)
  BY DEF BacklogDone, TickDone, fileVars, ToTop, Then
<1>2. saved' = saved \/ saved' = cs'
  BY <1>1, SaveIs
<1> QED
  BY <1>1, <1>2, TypedIs, FilesStill, CalmWhen DEF ScrubPcs, TurnPcs

(* The clock's ticks.                                                          *)
LEMMA TickPassesCalm ==
  ASSUME Typed, TickPasses
  PROVE  CalmEffect
<1>1. /\ UNCHANGED <<day, inbox, acked, asked, done, unread, scrub, turn, cs, saved, billed,
                     lost, handle, bus, backlog>>
      /\ pc = "idle" /\ pc' = "top"
  BY DEF TickPasses, ToTop, Then
<1>2. FileEffect
  BY TypedIs, DecideAbout DEF TickPasses
<1> QED
  BY <1>1, <1>2, TypedIs, CalmWhen DEF ScrubPcs, TurnPcs

(* A tick starts a turn of the bot's own. *)
LEMMA TickFiresCalm ==
  ASSUME Typed, NEW p \in Players, TickFires(p)
  PROVE  CalmEffect
<1>1. /\ UNCHANGED <<day, inbox, acked, asked, done, unread, scrub, saved, billed, lost,
                     handle, bus, backlog>>
      /\ pc = "idle" /\ pc' \in {"resolve", "ticked"} /\ cs' = RolledState
  BY DEF TickFires, Then
<1>2. FileEffect
  BY TypedIs, DecideAbout DEF TickFires
<1>3. cs' \in ChatStates /\ cs'.meter.day = day
  BY <1>1, RolledIs
<1>4. CASE ComposerAllowed(RolledState.meter)
  <2>1. turn' = [NoTurn EXCEPT !.who = p, !.mode = "proactive"]
    BY <1>4 DEF TickFires
  <2>2. turn' \in Turning /\ turn'.started <= day /\ turn'.who = p
    BY <2>1, BegunIs DEF Senders
  <2> QED
    BY <1>1, <1>2, <1>3, <2>2, TypedIs, LinesAre DEF CalmEffect, ScrubPcs, TurnPcs
<1>5. CASE ~ComposerAllowed(RolledState.meter)
  <2>1. turn' = NoTurn /\ pc' = "ticked"
    BY <1>5 DEF TickFires, Then
  <2>2. turn' \in Turning /\ turn'.started <= day
    BY <2>1, NoTurnIs, TypedIs
  <2> QED
    BY <1>1, <1>2, <1>3, <2>1, <2>2, TypedIs, LinesAre DEF CalmEffect, ScrubPcs, TurnPcs
<1> QED
  BY <1>4, <1>5

(* The bot's task is gone: the state is the saved one.                         *)
LEMMA UnsavedIs ==
  ASSUME Typed
  PROVE  Unsaved = OnDay(cs.meter, day) - OnDay(saved.meter, day) /\ Unsaved \in Int
<1>1. Usd(cs.meter) \in Nat /\ Usd(saved.meter) \in Nat
  BY TypedIs DEF Meters, Usd
<1>2. CASE cs.meter.day < day
  BY <1>2, TypedIs DEF Unsaved, OnDay
<1>3. CASE ~(cs.meter.day < day)
  <2>1. cs.meter.day = day
    BY <1>3, TypedIs
  <2> QED
    BY <1>1, <1>3, <2>1 DEF Unsaved, OnDay
<1> QED
  BY <1>2, <1>3

(* The bus is closed: the task ends after a last save. *)
LEMMA EventsClosedCalm ==
  ASSUME Typed, EventsClosed
  PROVE  CalmEffect
<1>1. /\ UNCHANGED <<day, inbox, acked, asked, done, unread, saved, billed, handle, files,
                     logHandle>>
      /\ pc = "idle" /\ pc' = "off" /\ cs' = saved /\ turn' = NoTurn
      /\ scrub' = NoScrub /\ bus' = <<>> /\ backlog' = <<>> /\ lost' = lost + Unsaved
  BY DEF EventsClosed, Gone, fileVars, Then
<1>2. turn' \in Turning /\ turn'.started <= day /\ lost' \in Int
  BY <1>1, NoTurnIs, TypedIs, UnsavedIs
<1>3. saved.meter.day <= saved.meter.day
  BY TypedIs
<1>4. <<>> \in Seq(Senders)
  OBVIOUS
<1> QED
  BY <1>1, <1>2, <1>3, <1>4, TypedIs, FilesStill DEF CalmEffect, ScrubPcs, TurnPcs

(* Every step of the loop is calm. *)
LEMMA LoopIsCalm ==
  ASSUME Typed, Loop
  PROVE  CalmEffect
BY LoopHeadCalm, EventTakenCalm, LagToldCalm, ReflectionDueCalm, ReflectionEndsCalm,
   PauseSeenCalm, SniffCalm, TurnEndedCalm, NextOfBacklogCalm, SavedCalm, TickPassesCalm,
   TickFiresCalm, EventsClosedCalm DEF Loop, Sniffing

-----------------------------------------------------------------------------
(* The operator's commands.                                                    *)

(* Shutdown and the end of the commands are calm. *)
LEMMA StopCalm ==
  ASSUME Typed, NEW kind, Stop(kind)
  PROVE  CalmEffect
<1>1. /\ UNCHANGED <<day, inbox, acked, asked, done, unread, billed, handle>>
      /\ pc = "idle" /\ pc' = "off" /\ turn' = NoTurn /\ scrub' = NoScrub
      /\ bus' = <<>> /\ backlog' = <<>> /\ cs' = saved'
  BY DEF Stop, Then
<1>2. saved' = cs \/ saved' = saved
  BY DEF Stop
<1>3. lost' = lost \/ lost' = lost + Unsaved
  BY DEF Stop
<1>4. FileEffect
  BY TypedIs, DecideAbout, FilesStill DEF Stop
<1>5. turn' \in Turning /\ turn'.started <= day /\ lost' \in Int
  BY <1>1, <1>3, NoTurnIs, TypedIs, UnsavedIs
<1>6. cs' \in ChatStates /\ saved' \in ChatStates /\ cs'.meter.day <= day
  BY <1>1, <1>2, TypedIs
<1>7. saved'.meter.day <= cs'.meter.day
  <2>1. saved'.meter.day \in Nat
    BY <1>2, TypedIs
  <2> QED
    BY <1>1, <2>1
<1>8. <<>> \in Seq(Senders)
  OBVIOUS
<1> QED
  BY <1>1, <1>4, <1>5, <1>6, <1>7, <1>8, TypedIs DEF CalmEffect, ScrubPcs, TurnPcs

(* A command is taken only where the loop waits. *)
LEMMA TakenIs ==
  ASSUME NEW kind, NEW p, Taken(kind, p)
  PROVE  pc = "idle"
BY DEF Taken

(* The report of the status changes nothing but the reply. *)
LEMMA StatusCalm ==
  ASSUME Typed, NEW p, Status(p)
  PROVE  CalmEffect
<1>1. /\ UNCHANGED <<day, inbox, acked, asked, done, unread, scrub, turn, billed, lost, bus,
                     backlog, handle, files, logHandle, saved>>
      /\ pc = "idle" /\ pc' = "top" /\ cs' = RolledState
  BY TakenIs DEF Status, fileVars, stillVars, ToTop, Then
<1>2. cs' \in ChatStates /\ cs'.meter.day = day
  BY <1>1, RolledIs
<1> QED
  BY <1>1, <1>2, TypedIs, FilesStill, CalmWhen DEF ScrubPcs, TurnPcs

(* A command that changes switches or holds, *)
LEMMA SetStateCalm ==
  ASSUME Typed, NEW kind, NEW p, NEW state \in ChatStates, state.meter.day = day,
         SetState(kind, p, state)
  PROVE  CalmEffect
<1>1. /\ UNCHANGED <<day, inbox, acked, asked, done, unread, scrub, turn, billed, lost, bus,
                     backlog, handle, files, logHandle>>
      /\ pc = "idle" /\ pc' = "top" /\ cs' = state /\ Save(state)
  BY TakenIs DEF SetState, fileVars, stillVars, ToTop, Then
<1>2. saved' = cs' \/ saved' = saved
  BY <1>1, SaveIs
<1> QED
  BY <1>1, <1>2, TypedIs, FilesStill, CalmWhen DEF ScrubPcs, TurnPcs

(* which these three are. *)
LEMMA SettingsCalm ==
  ASSUME Typed, NEW p, SetPaused(p) \/ SetDryRun(p) \/ ClearModerationBackoff(p)
  PROVE  CalmEffect
<1>1. RolledState \in ChatStates /\ RolledState.meter.day = day
  BY RolledIs
<1>2. ASSUME NEW b \in BOOLEAN
      PROVE  /\ [RolledState EXCEPT !.paused = b] \in ChatStates
             /\ [RolledState EXCEPT !.paused = b].meter.day = day
             /\ [RolledState EXCEPT !.dry = b] \in ChatStates
             /\ [RolledState EXCEPT !.dry = b].meter.day = day
  BY <1>1, StateFlags
<1>3. /\ [RolledState EXCEPT !.held = @ \ {"moderation"}] \in ChatStates
      /\ [RolledState EXCEPT !.held = @ \ {"moderation"}].meter.day = day
  <2>1. RolledState.held \ {"moderation"} \in SUBSET Holds
    BY <1>1, StateIs
  <2> QED
    BY <1>1, <2>1, StateHeld
<1>4. CASE SetPaused(p)
  BY <1>2, <1>4, SetStateCalm DEF SetPaused
<1>5. CASE SetDryRun(p)
  BY <1>2, <1>5, SetStateCalm DEF SetDryRun
<1>6. CASE ClearModerationBackoff(p)
  BY <1>3, <1>6, SetStateCalm DEF ClearModerationBackoff
<1> QED
  BY <1>4, <1>5, <1>6

(* The sweep that the operator asks for. *)
LEMMA RunRetentionSweepCalm ==
  ASSUME Typed, NEW p, RunRetentionSweep(p)
  PROVE  CalmEffect
<1>1. /\ UNCHANGED <<day, inbox, acked, asked, done, unread, scrub, turn, billed, lost, bus,
                     backlog, saved>>
      /\ pc = "idle" /\ pc' = "top" /\ cs' = [cs EXCEPT !.swept = day] /\ Sweep
  BY TakenIs DEF RunRetentionSweep, stillVars, ToTop, Then
<1>2. cs' \in ChatStates /\ cs'.meter = cs.meter
  BY <1>1, TypedIs, StateSwept
<1>3. cs.meter.day <= cs.meter.day
  BY TypedIs
<1> QED
  BY <1>1, <1>2, <1>3, TypedIs, CalmWhen DEF ScrubPcs, TurnPcs

\* A command that leaves the state and the turns alone and does what it does to
\* the files through the chat task.
LEMMA FileCommandCalm ==
  ASSUME Typed,
         UNCHANGED <<day, inbox, acked, asked, done, unread, scrub, turn, cs, billed, lost, bus,
                     backlog, handle>>,
         saved' = saved \/ saved' = cs,
         FileEffect,
         pc \in {"idle", "persona"}, pc' \in {"top", "reflecting", "persona"}
  PROVE  CalmEffect
BY TypedIs, CalmWhen DEF ScrubPcs, TurnPcs

(* The commands that reach neither the files of the scrub nor its marks. *)
LEMMA CommandsCalm ==
  ASSUME Typed, NEW p,
         \/ RunReflection(p) \/ BotDisconnected(p) \/ RegeneratePersona(p)
         \/ p \in Players /\ (ResetPlayerMemory(p) \/ SetOperatorTrust(p) \/ ForgetUnresolved(p))
         \/ PersonaGenerated
  PROVE  CalmEffect
<1> USE TypedIs
<1>1. CASE RunReflection(p)
  <2>1. pc = "idle" /\ pc' \in {"top", "reflecting"}
    BY <1>1, TakenIs DEF RunReflection, ToTop, Then
  <2>2. FileEffect
    BY <1>1, RotatedGrows, FilesStill DEF RunReflection, FileEffect
  <2> QED
    BY <1>1, <2>1, <2>2, FileCommandCalm DEF RunReflection, stillVars
<1>2. CASE BotDisconnected(p)
  <2>1. pc = "idle" /\ pc' = "top"
    BY <1>2, TakenIs DEF BotDisconnected, ToTop, Then
  <2>2. FileEffect
    BY <1>2, DecideAbout, FilesStill DEF BotDisconnected
  <2> QED
    BY <1>2, <2>1, <2>2, FileCommandCalm DEF BotDisconnected, stillVars
<1>3. CASE RegeneratePersona(p)
  <2>1. pc = "idle" /\ pc' = "persona"
    BY <1>3, TakenIs DEF RegeneratePersona, Then
  <2>2. FileEffect
    BY <1>3, FilesStill DEF RegeneratePersona, fileVars
  <2> QED
    BY <1>3, <2>1, <2>2, FileCommandCalm DEF RegeneratePersona, stillVars, fileVars
<1>4. CASE p \in Players /\ ResetPlayerMemory(p)
  <2>1. pc = "idle" /\ pc' = "top"
    BY <1>4, TakenIs DEF ResetPlayerMemory, ToTop, Then
  <2>2. FileEffect
    BY <1>4, ForgottenIs, FilesStill DEF ResetPlayerMemory, FileEffect
  <2> QED
    BY <1>4, <2>1, <2>2, FileCommandCalm DEF ResetPlayerMemory, stillVars
<1>5. CASE p \in Players /\ SetOperatorTrust(p)
  <2>1. pc = "idle" /\ pc' = "top"
    BY <1>5, TakenIs DEF SetOperatorTrust, ToTop, Then
  <2>2. FileEffect
    BY <1>5, PlayerFileGrows, FilesStill DEF SetOperatorTrust, FileEffect
  <2> QED
    BY <1>5, <2>1, <2>2, FileCommandCalm DEF SetOperatorTrust, stillVars
<1>6. CASE p \in Players /\ ForgetUnresolved(p)
  <2>1. pc = "idle" /\ pc' = "top"
    BY <1>6, TakenIs DEF ForgetUnresolved, ToTop, Then
  <2>2. FileEffect
    BY <1>6, FilesStill DEF ForgetUnresolved, fileVars
  <2> QED
    BY <1>6, <2>1, <2>2, FileCommandCalm DEF ForgetUnresolved, stillVars, fileVars
<1>7. CASE PersonaGenerated
  <2>1. pc = "persona" /\ pc' = "top"
    BY <1>7 DEF PersonaGenerated, ToTop, Then
  <2>2. FileEffect
    BY <1>7, FilesStill DEF PersonaGenerated, fileVars
  <2>3. saved' = saved \/ saved' = cs
    BY <1>7, SaveIs DEF PersonaGenerated
  <2> QED
    BY <1>7, <2>1, <2>2, <2>3, FileCommandCalm DEF PersonaGenerated, stillVars, fileVars
<1> QED
  BY <1>1, <1>2, <1>3, <1>4, <1>5, <1>6, <1>7

(* A command is calm, or belongs to the forgetting of a player. *)
LEMMA CommandIs ==
  ASSUME Typed, Command
  PROVE  CalmEffect \/ Forgetting \/ \E p \in Players : ForgetPlayer(p)
BY StopCalm, StatusCalm, SettingsCalm, RunRetentionSweepCalm, CommandsCalm DEF Command

(* A start, with the sweep or without.                                         *)
LEMMA StartCalm ==
  ASSUME Typed, Start
  PROVE  CalmEffect
<1>1. /\ UNCHANGED <<day, inbox, acked, asked, done, unread, scrub, turn, billed, saved, bus,
                     backlog>>
      /\ pc = "stopped" /\ pc' \in {"top", "off"}
  BY DEF Start, Then
<1>2. ASSUME NEW state \in ChatStates, state.meter.day <= day,
             saved.meter.day <= state.meter.day,
             cs' = [state EXCEPT !.swept = day], lost' \in Int, Sweep
      PROVE  CalmEffect
  <2>1. cs' \in ChatStates /\ cs'.meter = state.meter
    BY <1>2, TypedIs, StateSwept
  <2> QED
    BY <1>1, <1>2, <2>1, TypedIs, LinesAre DEF CalmEffect, ScrubPcs, TurnPcs
<1>3. CASE cs' = [saved EXCEPT !.swept = day] /\ UNCHANGED lost /\ Sweep
  BY <1>2, <1>3, TypedIs
<1>4. CASE /\ cs' = [DefaultState(day) EXCEPT !.swept = day] /\ Sweep
           /\ lost' = lost + (IF saved.meter.day = day THEN Usd(saved.meter) ELSE 0)
  <2>1. DefaultState(day) \in ChatStates /\ DefaultState(day).meter.day = day
    BY TypedIs, DefaultIs, FreshIs
  <2>2. Usd(saved.meter) \in Int
    BY TypedIs DEF Meters, Usd
  <2>3. lost' \in Int
    BY <1>4, <2>2, TypedIs
  <2> QED
    BY <1>2, <1>4, <2>1, <2>3, TypedIs
<1>5. CASE UNCHANGED <<cs, lost, files, handle, logHandle>>
  BY <1>1, <1>5, TypedIs, LinesAre, FilesStill DEF CalmEffect, ScrubPcs, TurnPcs
<1> QED
  BY <1>3, <1>4, <1>5 DEF Start

-----------------------------------------------------------------------------
(* The types are kept by every step.                                           *)

(* A line and the request to drop the handle are different items. *)
LEMMA ItemsAre ==
  ASSUME FilesOK, NEW marks \in SUBSET Marks
  PROVE  /\ Line(day, marks) \in Items /\ Line(day, marks) # DropCacheAndAck
         /\ Line(day, marks).kind = "line" /\ Line(day, marks).day = day
         /\ Line(day, marks).about = marks
         /\ DropCacheAndAck \in Items
         /\ DropCacheAndAck.kind = "drop" /\ DropCacheAndAck.about = {}
BY DEF FilesOK, FilesTypeOK, Line, DropCacheAndAck, Items

(* The writer's inbox, its head and its tail. *)
LEMMA InboxIs ==
  ASSUME FilesOK
  PROVE  /\ inbox \in Seq(Items) /\ Len(inbox) <= InboxCap /\ Len(inbox) \in Nat
         /\ InboxCap \in Nat
         /\ \A i \in DOMAIN inbox : inbox[i] \in Items
         /\ inbox # <<>> => /\ Tail(inbox) \in Seq(Items) /\ Len(Tail(inbox)) = Len(inbox) - 1
                            /\ Head(inbox) \in Items /\ Head(inbox) = inbox[1]
                            /\ 1 \in DOMAIN inbox
BY FilesAssumption DEF FilesOK, FilesTypeOK

(* A line that finds the inbox full is not added to it. *)
LEMMA EnqueuedIs ==
  ASSUME FilesOK, NEW marks \in SUBSET Marks
  PROVE  /\ Enqueued(marks) \in Seq(Items) /\ Len(Enqueued(marks)) <= InboxCap
         /\ Append(inbox, Line(day, marks)) \in Seq(Items)
BY InboxIs, ItemsAre DEF Enqueued

(* A sweep orphans the handles of the days whose files it removes. *)
LEMMA SweepIs ==
  ASSUME FilesOK, Sweep
  PROVE  /\ Grown(files, files')
         /\ handle' \in Handles /\ logHandle' \in Handles
         /\ handle' = Orphaned(handle, ExpiredDays)
         /\ logHandle' = Orphaned(logHandle, ExpiredDays)
<1>1. ExpiredDays \in SUBSET Days
  BY DEF ExpiredDays
<1>2. handle \in Handles /\ logHandle \in Handles /\ files \in FileMaps
      /\ asked \in [Players -> 0..1]
  BY DEF FilesOK, FilesTypeOK, FileMaps
<1> QED
  BY <1>1, <1>2, SweptGrows, HandlesAre DEF Sweep

(* Calm steps keep the types. *)
LEMMA CalmTyped ==
  ASSUME Typed, CalmEffect
  PROVE  Typed'
<1>1. FilesOK
  BY DEF Typed
<1>2. /\ Grown(files, files') /\ handle' \in Handles /\ logHandle' \in Handles
  <2>1. handle \in Handles /\ logHandle \in Handles
    BY <1>1 DEF FilesOK, FilesTypeOK
  <2>2. CASE FileEffect /\ UNCHANGED handle
    BY <1>1, <2>1, <2>2, HandlesAre DEF FileEffect
  <2>3. CASE Sweep
    BY <1>1, <2>3, SweepIs
  <2> QED
    BY <2>2, <2>3 DEF CalmEffect
<1>3. inbox' \in Seq(Items) /\ Len(inbox') <= InboxCap
  <2>1. CASE inbox' = inbox
    BY <1>1, <2>1, InboxIs
  <2>2. ASSUME NEW p \in Senders, inbox' = Enqueued(About(p))
        PROVE  inbox' \in Seq(Items) /\ Len(inbox') <= InboxCap
    <3>1. About(p) \in SUBSET Marks
      BY TypedIs, MarkIs
    <3> QED
      BY <1>1, <2>2, <3>1, EnqueuedIs
  <2> QED
    BY <2>1, <2>2 DEF CalmEffect
<1>4. FilesOK'
  <2>1. day \in Days /\ acked \in BOOLEAN /\ asked \in [Players -> 0..1]
    BY <1>1 DEF FilesOK, FilesTypeOK
  <2>2. UNCHANGED <<day, acked, asked>>
    BY DEF CalmEffect
  <2>3. files' \in [FileNames -> SUBSET Marks]
    BY <1>2 DEF Grown, FileMaps
  <2> QED
    BY <1>2, <1>3, <2>1, <2>2, <2>3 DEF FilesOK, FilesTypeOK
<1>5. TaskOK'
  BY DEF CalmEffect, TaskOK
<1>6. ScrubOK'
  <2>1. scrub \in Scrubs /\ done \in [Players -> 0..1]
    BY DEF Typed, ScrubOK
  <2>2. NoScrub \in Scrubs
    BY ZeroIsDay DEF NoScrub, Scrubs, Senders
  <2>3. scrub' \in Scrubs /\ done' = done /\ pc' \notin ScrubPcs
    BY <2>1, <2>2 DEF CalmEffect
  <2> QED
    BY <2>1, <2>3 DEF ScrubOK
<1> QED
  BY <1>4, <1>5, <1>6 DEF Typed

(* The variables of turns that a step leaves alone keep their types.           *)
LEMMA TaskStill ==
  ASSUME Typed, UNCHANGED <<turn, cs, saved, bus, backlog, day>>,
         billed' \in Nat, lost' \in Int, pc' = pc \/ pc' \notin TurnPcs
  PROVE  TaskOK'
BY DEF Typed, TaskOK

(* So does the first step of the forgetting, *)
LEMMA ForgetPlayerTyped ==
  ASSUME Typed, NEW p \in Players, ForgetPlayer(p)
  PROVE  Typed'
<1>1. asked' \in [Players -> 0..1] /\ files' \in FileMaps
  <2>1. asked \in [Players -> 0..1] /\ files \in FileMaps
    BY TypedIs
  <2>2. asked' = [asked EXCEPT ![p] = 1]
    BY DEF ForgetPlayer
  <2>3. files' = files \/ files' = Forgotten(files, {PlayerFile}, p)
    BY DEF ForgetPlayer
  <2> QED
    BY <2>1, <2>2, <2>3, ForgottenIs
<1>2. scrub' \in Scrubs /\ scrub'.who = p
  <2>1. ASSUME NEW b \in BOOLEAN PROVE ScrubBegun(p, b) \in Scrubs /\ ScrubBegun(p, b).who = p
    BY ZeroIsDay DEF ScrubBegun, NoScrub, Scrubs, Senders
  <2> QED
    BY <2>1 DEF ForgetPlayer
<1>3. /\ UNCHANGED <<day, inbox, acked, handle, logHandle, turn, cs, saved, billed, lost, bus,
                     backlog, done>>
      /\ pc' = "announce"
  BY DEF ForgetPlayer, stillVars, Then
<1>4. FilesOK'
  BY <1>1, <1>3 DEF FilesOK, FilesTypeOK, Typed, FileMaps
<1>5. TaskOK'
  BY <1>3, TypedIs, TaskStill DEF TurnPcs
<1>6. ScrubOK'
  BY <1>2, <1>3 DEF ScrubOK, Typed
<1> QED
  BY <1>4, <1>5, <1>6 DEF Typed

(* The steps of a scrub.                                                       *)
LEMMA ScrubIs ==
  ASSUME Typed, pc \in ScrubPcs
  PROVE  /\ scrub \in Scrubs /\ scrub.who \in Players /\ scrub.todo \in SUBSET Days
         /\ scrub.cur \in Days /\ scrub.kept \in SUBSET Marks
         /\ done \in [Players -> 0..1] /\ NoScrub \in Scrubs
         /\ History(scrub.cur) \in FileNames
BY ZeroIsDay, NamesAre DEF Typed, ScrubOK, Scrubs, NoScrub, Senders

(* the handshake with the writer and the listing of the directory, *)
LEMMA AnnounceTyped ==
  ASSUME Typed, Announce \/ Acknowledged \/ ListHistory
  PROVE  Typed'
<1>1. pc \in ScrubPcs /\ pc' \in ScrubPcs /\ pc' \notin TurnPcs
  BY DEF Announce, Acknowledged, ListHistory, Then, ScrubPcs, TurnPcs
<1>2. UNCHANGED <<day, handle, logHandle, files, asked, turn, cs, saved, billed, lost, bus,
                  backlog, done>>
  BY DEF Announce, Acknowledged, ListHistory, scrubStill, stillVars
<1>3. inbox' \in Seq(Items) /\ Len(inbox') <= InboxCap /\ acked' \in BOOLEAN
  <2>1. FilesOK /\ acked \in BOOLEAN /\ DropCacheAndAck \in Items
    BY ItemsAre DEF Typed, FilesOK, FilesTypeOK
  <2>2. CASE Announce
    <3>1. Len(inbox) < InboxCap /\ inbox' = Append(inbox, DropCacheAndAck) /\ acked' = FALSE
      BY <2>2 DEF Announce, SendDrop
    <3>2. inbox \in Seq(Items) /\ Len(inbox) \in Nat /\ InboxCap \in Nat
      BY <2>1, InboxIs
    <3>3. inbox' \in Seq(Items) /\ Len(inbox') = Len(inbox) + 1
      BY <2>1, <3>1, <3>2
    <3>4. Len(inbox') <= InboxCap
      BY <3>1, <3>2, <3>3
    <3> QED
      BY <3>1, <3>3, <3>4
  <2>3. CASE Acknowledged \/ ListHistory
    BY <2>1, <2>3, InboxIs DEF Acknowledged, ListHistory
  <2> QED
    BY <2>2, <2>3
<1>4. scrub' \in Scrubs /\ scrub'.who = scrub.who
  <2>1. CASE UNCHANGED scrub
    BY <1>1, <2>1, ScrubIs
  <2>2. CASE scrub' = [scrub EXCEPT !.todo = DatedDays("history", files)]
    BY <1>1, <2>2, ScrubIs DEF Scrubs, DatedDays
  <2> QED
    BY <2>1, <2>2 DEF Announce, Acknowledged, ListHistory
<1>5. FilesOK'
  BY <1>2, <1>3 DEF FilesOK, FilesTypeOK, Typed
<1>6. TaskOK'
  BY <1>1, <1>2, TypedIs, TaskStill
<1>7. ScrubOK'
  BY <1>1, <1>2, <1>4, ScrubIs DEF ScrubOK
<1> QED
  BY <1>5, <1>6, <1>7 DEF Typed

(* What the reading of one day's history leads to: a file to be rewritten, one with nothing
   to remove, or one that could not be read. *)
LEMMA ReadHistoryIs ==
  ASSUME Typed, NEW d \in Days, ReadHistory(d)
  PROVE  /\ scrub' \in Scrubs /\ scrub'.who = scrub.who /\ scrub'.todo = scrub.todo \ {d}
         /\ scrub'.removed = scrub.removed
         /\ pc = "history" /\ pc' \in {"history", "rename"}
         /\ \/ /\ pc' = "rename" /\ scrub'.cur = d /\ unread' = unread
               /\ scrub'.kept = files[History(d)] \ MarksOf(scrub.who)
            \/ /\ pc' = "history" /\ unread' = unread /\ scrub'.kept = {}
               /\ files[History(d)] \cap MarksOf(scrub.who) = {}
            \/ /\ pc' = "history" /\ scrub'.kept = scrub.kept
               /\ unread' = unread \cup (files[History(d)] \cap MarksOf(scrub.who))
<1>1. pc = "history" /\ pc \in ScrubPcs
  BY DEF ReadHistory, ScrubPcs
<1>2. scrub \in Scrubs
  BY <1>1, ScrubIs
<1>3. files[History(d)] \in SUBSET Marks
  BY TypedIs, NamesAre DEF FileMaps
<1> DEFINE named == files[History(d)] \cap MarksOf(scrub.who) # {}
           rest == IF named THEN files[History(d)] \ MarksOf(scrub.who) ELSE {}
<1>4. CASE /\ scrub' = [scrub EXCEPT !.todo = @ \ {d}, !.cur = IF named THEN d ELSE 0,
                                     !.kept = rest]
           /\ Then(IF named THEN "rename" ELSE "history")
           /\ UNCHANGED unread
  <2>1. rest \in SUBSET Marks /\ 0 \in Days
    BY <1>3, ZeroIsDay
  <2>2. /\ scrub' \in Scrubs /\ scrub'.who = scrub.who /\ scrub'.todo = scrub.todo \ {d}
        /\ scrub'.removed = scrub.removed
        /\ scrub'.cur = (IF named THEN d ELSE 0) /\ scrub'.kept = rest
    <3> HIDE DEF named, rest
    <3> QED
      BY <1>2, <1>4, <2>1 DEF Scrubs
  <2>3. CASE named
    BY <1>1, <1>4, <2>2, <2>3 DEF Then
  <2>4. CASE ~named
    BY <1>1, <1>4, <2>2, <2>4 DEF Then
  <2> QED
    BY <2>3, <2>4
<1>5. CASE /\ scrub' = [scrub EXCEPT !.todo = @ \ {d}]
           /\ unread' = unread \cup (files[History(d)] \cap MarksOf(scrub.who))
           /\ UNCHANGED pc
  <2>1. /\ scrub' \in Scrubs /\ scrub'.who = scrub.who /\ scrub'.todo = scrub.todo \ {d}
        /\ scrub'.removed = scrub.removed /\ scrub'.kept = scrub.kept
    BY <1>2, <1>5 DEF Scrubs
  <2> QED
    BY <1>1, <1>5, <2>1
<1> QED
  BY <1>4, <1>5 DEF ReadHistory

(* The reading keeps the types, *)
LEMMA ReadHistoryTyped ==
  ASSUME Typed, NEW d \in Days, ReadHistory(d)
  PROVE  Typed'
<1>1. UNCHANGED <<day, inbox, acked, handle, logHandle, files, asked, turn, cs, saved, billed,
                  lost, bus, backlog, done>>
  BY DEF ReadHistory, scrubStill, stillVars
<1>2. pc \in ScrubPcs /\ pc' \in ScrubPcs /\ pc' \notin TurnPcs
  BY ReadHistoryIs DEF ScrubPcs, TurnPcs
<1>3. scrub' \in Scrubs /\ scrub'.who = scrub.who
  BY ReadHistoryIs
<1>4. FilesOK'
  BY <1>1 DEF FilesOK, FilesTypeOK, Typed
<1>5. TaskOK'
  BY <1>1, <1>2, TypedIs, TaskStill
<1>6. ScrubOK'
  BY <1>1, <1>2, <1>3, ScrubIs DEF ScrubOK
<1> QED
  BY <1>4, <1>5, <1>6 DEF Typed

(* A day file is replaced, or the forgetting fails.                            *)
LEMMA RewriteHistoryIs ==
  ASSUME Typed, RewriteHistory
  PROVE  /\ pc = "rename"
         /\ UNCHANGED <<day, inbox, acked, logHandle, asked, turn, cs, saved, billed, lost, bus,
                        backlog, done, unread>>
         /\ files' \in FileMaps /\ handle' \in Handles
         /\ scrub' \in Scrubs
         /\ \/ /\ pc' = "reannounce"
               /\ \A f \in FileNames : files'[f] = IF f = History(scrub.cur) THEN scrub.kept
                                                   ELSE files[f]
               /\ scrub'.who = scrub.who /\ scrub'.todo = scrub.todo /\ scrub'.kept = {}
               /\ scrub'.removed = scrub.removed
            \/ pc' = "top" /\ scrub' = NoScrub /\ UNCHANGED <<files, handle>>
<1>1. pc = "rename" /\ pc \in ScrubPcs
  BY DEF RewriteHistory, ScrubPcs
<1>2. /\ scrub \in Scrubs /\ scrub.cur \in Days /\ scrub.kept \in SUBSET Marks
      /\ NoScrub \in Scrubs /\ History(scrub.cur) \in FileNames
  BY <1>1, ScrubIs
<1>3. files \in FileMaps /\ handle \in Handles /\ FilesOK
  BY TypedIs DEF FilesOK, FilesTypeOK
<1>4. UNCHANGED <<day, inbox, acked, logHandle, asked, turn, cs, saved, billed, lost, bus,
                  backlog, done, unread>>
  BY DEF RewriteHistory, stillVars
<1>5. CASE /\ files' = [files EXCEPT ![History(scrub.cur)] = scrub.kept]
           /\ handle' = Orphaned(handle, {scrub.cur})
           /\ scrub' = [scrub EXCEPT !.cur = 0, !.kept = {}]
           /\ Then("reannounce")
  <2>1. files' \in FileMaps /\ \A f \in FileNames :
           files'[f] = IF f = History(scrub.cur) THEN scrub.kept ELSE files[f]
    BY <1>2, <1>3, <1>5 DEF FileMaps
  <2>2. handle' \in Handles
    BY <1>2, <1>3, <1>5, HandlesAre
  <2>3. /\ scrub' \in Scrubs /\ scrub'.who = scrub.who /\ scrub'.todo = scrub.todo
        /\ scrub'.removed = scrub.removed /\ scrub'.kept = {}
    BY <1>2, <1>5, ZeroIsDay DEF Scrubs
  <2> QED
    BY <1>1, <1>4, <1>5, <2>1, <2>2, <2>3 DEF Then
<1>6. CASE ForgetFails /\ UNCHANGED <<files, handle>>
  BY <1>1, <1>2, <1>3, <1>4, <1>6 DEF ForgetFails, ToTop, Then
<1> QED
  BY <1>5, <1>6 DEF RewriteHistory

(* the rewriting does, *)
LEMMA RewriteHistoryTyped ==
  ASSUME Typed, RewriteHistory
  PROVE  Typed'
<1>1. scrub.who \in Players /\ done \in [Players -> 0..1]
  BY RewriteHistoryIs, ScrubIs DEF ScrubPcs
<1>2. pc' \notin TurnPcs /\ (pc' \in ScrubPcs => scrub'.who \in Players)
  BY <1>1, RewriteHistoryIs DEF ScrubPcs, TurnPcs
<1>3. FilesOK'
  BY RewriteHistoryIs DEF FilesOK, FilesTypeOK, Typed, FileMaps
<1>4. TaskOK'
  BY <1>2, RewriteHistoryIs, TypedIs, TaskStill
<1>5. ScrubOK'
  BY <1>1, <1>2, RewriteHistoryIs DEF ScrubOK
<1> QED
  BY <1>3, <1>4, <1>5 DEF Typed

(* The rest of a scrub: some of the files are cleaned, and when the answer is  *)
(* Ok all of them but one that could not be read.                              *)
LEMMA ScrubRestIs ==
  ASSUME Typed, ScrubRest
  PROVE  /\ pc = "history" /\ scrub.todo = {} /\ pc' = "top" /\ scrub' = NoScrub
         /\ UNCHANGED <<day, inbox, acked, handle, asked, turn, cs, billed, lost, bus, backlog>>
         /\ files' \in FileMaps /\ logHandle' \in {logHandle, LogDropped(scrub.who)}
         /\ saved' \in {saved, cs}
         /\ \A f \in FileNames : files'[f] \subseteq files[f]
         /\ \/ done' = done
            \/ /\ scrub.removed
               /\ done' = [done EXCEPT ![scrub.who] = asked[scrub.who]]
               /\ \A f \in FileNames :
                     f[1] \in {"decisions", "pending", "archive", "index"} =>
                         files'[f] \cap MarksOf(scrub.who) \subseteq unread'
         /\ unread \subseteq unread'
<1>1. /\ pc = "history" /\ scrub.todo = {} /\ pc' = "top" /\ scrub' = NoScrub
      /\ UNCHANGED <<day, inbox, acked, handle, asked, turn, cs, billed, lost, bus, backlog>>
  BY DEF ScrubRest, stillVars, ToTop, Then
<1>2. files \in FileMaps /\ asked \in [Players -> 0..1]
  BY TypedIs
<1>3. ASSUME NEW skipped \in {{}} \cup {{f} : f \in Naming(scrub.who)},
             saved' = IF scrub.removed THEN cs ELSE saved,
             unread' = unread \cup UNION {files[f] \cap MarksOf(scrub.who) : f \in skipped},
             files' = Forgotten(files, NamesOf(Scrubbed[4]) \ skipped, scrub.who),
             logHandle' = IF Decisions(logHandle.day) \in skipped THEN logHandle
                          ELSE LogDropped(scrub.who),
             done' = IF scrub.removed
                     THEN [done EXCEPT ![scrub.who] = asked[scrub.who]] ELSE done
      PROVE  /\ files' \in FileMaps /\ logHandle' \in {logHandle, LogDropped(scrub.who)}
             /\ saved' \in {saved, cs} /\ unread \subseteq unread'
             /\ \A f \in FileNames : files'[f] \subseteq files[f]
             /\ \A f \in FileNames :
                   f[1] \in {"decisions", "pending", "archive", "index"} =>
                       files'[f] \cap MarksOf(scrub.who) \subseteq unread'
             /\ done' = done \/ /\ scrub.removed
                                /\ done' = [done EXCEPT ![scrub.who] = asked[scrub.who]]
  <2> DEFINE names == NamesOf(Scrubbed[4]) \ skipped
  <2>1. /\ files' \in FileMaps
        /\ \A f \in FileNames : /\ f \in names => files'[f] = files[f] \ MarksOf(scrub.who)
                                /\ f \notin names => files'[f] = files[f]
    <3> HIDE DEF names
    <3>1. files' = Forgotten(files, names, scrub.who)
      BY <1>3 DEF names
    <3> QED
      BY <1>2, <3>1, ForgottenIs
  <2>2. \A f \in FileNames : files'[f] \subseteq files[f]
    <3> HIDE DEF names
    <3> QED
      BY <2>1
  <2>3. ASSUME NEW f \in FileNames, f[1] \in {"decisions", "pending", "archive", "index"}
        PROVE  files'[f] \cap MarksOf(scrub.who) \subseteq unread'
    <3>1. f \in NamesOf(Scrubbed[4])
      BY <2>3 DEF NamesOf, Scrubbed
    <3>2. CASE f \in skipped
      <4>1. files[f] \cap MarksOf(scrub.who)
              \subseteq UNION {files[g] \cap MarksOf(scrub.who) : g \in skipped}
        BY <3>2
      <4>2. files'[f] \subseteq files[f]
        BY <2>2
      <4>3. UNION {files[g] \cap MarksOf(scrub.who) : g \in skipped} \subseteq unread'
        BY <1>3
      <4> QED
        BY <4>1, <4>2, <4>3
    <3>3. CASE f \notin skipped
      <4>1. files'[f] = files[f] \ MarksOf(scrub.who)
        BY <2>1, <3>1, <3>3
      <4> QED
        BY <4>1
    <3> QED
      BY <3>2, <3>3
  <2> QED
    BY <1>3, <2>1, <2>2, <2>3
<1>4. ASSUME NEW k \in 0..3,
             files' = IF k = 0 THEN files
                      ELSE Forgotten(files, NamesOf(Scrubbed[k]), scrub.who),
             logHandle' = IF k = 0 THEN logHandle ELSE LogDropped(scrub.who)
      PROVE  /\ files' \in FileMaps /\ logHandle' \in {logHandle, LogDropped(scrub.who)}
             /\ \A f \in FileNames : files'[f] \subseteq files[f]
  <2>1. files' = files \/ \E names : files' = Forgotten(files, names, scrub.who)
    BY <1>4
  <2>2. ASSUME NEW names, files' = Forgotten(files, names, scrub.who)
        PROVE  files' \in FileMaps /\ \A f \in FileNames : files'[f] \subseteq files[f]
    BY <1>2, <2>2, ForgottenIs
  <2> QED
    BY <1>2, <1>4, <2>1, <2>2
<1>5. CASE \E skipped \in {{}} \cup {{f} : f \in Naming(scrub.who)} :
          /\ IF skipped = {} THEN UNCHANGED faults ELSE Fault
          /\ saved' = IF scrub.removed THEN cs ELSE saved
          /\ unread' = unread \cup UNION {files[f] \cap MarksOf(scrub.who) : f \in skipped}
          /\ files' = Forgotten(files, NamesOf(Scrubbed[4]) \ skipped, scrub.who)
          /\ logHandle' = IF Decisions(logHandle.day) \in skipped THEN logHandle
                          ELSE LogDropped(scrub.who)
          /\ done' = IF scrub.removed
                     THEN [done EXCEPT ![scrub.who] = asked[scrub.who]] ELSE done
  BY <1>1, <1>3, <1>5
<1>6. CASE \E k \in 0..3 :
          /\ Fault
          /\ files' = IF k = 0 THEN files
                      ELSE Forgotten(files, NamesOf(Scrubbed[k]), scrub.who)
          /\ logHandle' = IF k = 0 THEN logHandle ELSE LogDropped(scrub.who)
          /\ UNCHANGED <<saved, unread, done>>
  BY <1>1, <1>4, <1>6
<1> QED
  BY <1>5, <1>6 DEF ScrubRest

(* and the files that follow the history. *)
LEMMA ScrubRestTyped ==
  ASSUME Typed, ScrubRest
  PROVE  Typed'
<1>1. pc = "history" /\ pc \in ScrubPcs /\ pc' = "top" /\ pc' \notin ScrubPcs /\ pc' \notin TurnPcs
  BY ScrubRestIs DEF ScrubPcs, TurnPcs
<1>2. scrub.who \in Players /\ done \in [Players -> 0..1] /\ NoScrub \in Scrubs
  BY <1>1, ScrubIs
<1>3. FilesOK'
  BY ScrubRestIs, HandlesAre DEF FilesOK, FilesTypeOK, Typed, FileMaps
<1>4. TaskOK'
  <2>1. saved' = saved \/ saved' = cs
    BY ScrubRestIs
  <2>2. saved' \in ChatStates /\ saved'.meter.day <= cs.meter.day
    BY <2>1, TypedIs
  <2> QED
    BY <1>1, <2>2, ScrubRestIs DEF Typed, TaskOK
<1>5. ScrubOK'
  <2>1. done' \in [Players -> 0..1]
    BY <1>2, ScrubRestIs, TypedIs
  <2> QED
    BY <1>1, <1>2, <2>1, ScrubRestIs DEF ScrubOK
<1> QED
  BY <1>3, <1>4, <1>5 DEF Typed

(* Around the task: lines, midnight, holds, the writer, a crash.               *)
LEMMA HeardIs ==
  ASSUME Typed, NEW p \in Senders, Heard(p)
  PROVE  /\ UNCHANGED <<day, acked, handle, logHandle, files, asked, pc, turn, cs, saved, billed,
                        lost, backlog, scrub, done, unread>>
         /\ inbox' = Enqueued(About(p))
         /\ bus' \in Seq(Senders)
<1>1. bus \in Seq(Senders)
  BY LinesAre
<1>2. Append(bus, p) \in Seq(Senders)
  BY <1>1
<1>3. bus # <<>> => Append(Tail(bus), p) \in Seq(Senders)
  BY <1>1
<1>4. ~(Len(bus) < BusCap) => bus # <<>>
  BY <1>1, TaskAssumption
<1> QED
  BY <1>2, <1>3, <1>4 DEF Heard, turnVars

(* A line that is heard goes to the bus and to the writer. *)
LEMMA HeardTyped ==
  ASSUME Typed, NEW p \in Senders, Heard(p)
  PROVE  Typed'
<1>1. FilesOK'
  <2>1. About(p) \in SUBSET Marks /\ FilesOK
    BY TypedIs, MarkIs
  <2>2. inbox' \in Seq(Items) /\ Len(inbox') <= InboxCap
    BY <2>1, HeardIs, EnqueuedIs
  <2> QED
    BY <2>1, <2>2, HeardIs DEF FilesOK, FilesTypeOK
<1>2. TaskOK' /\ ScrubOK'
  BY HeardIs DEF Typed, TaskOK, ScrubOK
<1> QED
  BY <1>1, <1>2 DEF Typed

(* The day passes. *)
LEMMA MidnightTyped ==
  ASSUME Typed, Midnight
  PROVE  Typed'
<1>1. day \in Nat /\ day' = day + 1 /\ day' \in Days
  BY TypedIs, FilesAssumption DEF Midnight, Days
<1>2. cs.meter.day <= day' /\ turn.started <= day'
  <2>1. turn.started \in Nat
    BY TypedIs, ZeroIsDay
  <2> QED
    BY <1>1, <2>1, TypedIs
<1>3. billed' = 0 /\ lost' = 0
  BY DEF Midnight
<1>4. UNCHANGED <<inbox, acked, handle, logHandle, files, asked, pc, turn, cs, saved, bus,
                  backlog, scrub, done>>
  BY DEF Midnight
<1> QED
  BY <1>1, <1>2, <1>3, <1>4 DEF Typed, FilesOK, FilesTypeOK, TaskOK, ScrubOK

(* The end of a hold touches neither meter. *)
LEMMA HoldPassesIs ==
  ASSUME Typed, HoldPasses
  PROVE  /\ UNCHANGED <<day, inbox, acked, handle, logHandle, files, asked, pc, turn, billed,
                        lost, bus, backlog, scrub, done, unread>>
         /\ cs' \in ChatStates /\ cs'.meter = cs.meter
         /\ saved' \in ChatStates /\ saved'.meter = saved.meter
<1>1. PICK h \in cs.held : /\ cs' = [cs EXCEPT !.held = @ \ {h}]
                           /\ saved' = [saved EXCEPT !.held = @ \ {h}]
  BY DEF HoldPasses
<1>2. cs.held \ {h} \in SUBSET Holds /\ saved.held \ {h} \in SUBSET Holds
  BY TypedIs, StateIs
<1> QED
  BY <1>1, <1>2, TypedIs, StateHeld DEF HoldPasses, fileVars

(* It keeps the types. *)
LEMMA HoldPassesTyped ==
  ASSUME Typed, HoldPasses
  PROVE  Typed'
BY HoldPassesIs DEF Typed, FilesOK, FilesTypeOK, TaskOK, ScrubOK

(* What the history's writer does to its files, its channel and its handle.    *)
LEMMA WriterIs ==
  ASSUME Typed, Writer
  PROVE  /\ UNCHANGED <<day, logHandle, asked, pc, turn, cs, saved, billed, lost, bus, backlog,
                        scrub, done, unread>>
         /\ inbox # <<>> /\ inbox' = Tail(inbox)
         /\ files' \in FileMaps /\ handle' \in Handles /\ acked' \in BOOLEAN
         /\ Head(inbox) \in Items
         /\ \A f \in FileNames : files'[f] \subseteq files[f] \cup Head(inbox).about
         /\ \A f \in FileNames : files'[f] # files[f] => f[1] = "history"
         /\ \/ Head(inbox).kind = "line" /\ handle' = Opened(Head(inbox).day) /\ UNCHANGED acked
            \/ Head(inbox).kind = "line" /\ handle' = NoHandle /\ UNCHANGED <<acked, files>>
            \/ Head(inbox) = DropCacheAndAck /\ handle' = NoHandle /\ acked' = TRUE
                 /\ UNCHANGED files
<1>1. UNCHANGED <<pc, turn, cs, saved, billed, lost, bus, backlog, scrub, done, unread>>
  BY DEF Writer, loopVars
<1>2. inbox # <<>> => Head(inbox) \in Items
  BY TypedIs, InboxIs
<1>3. files \in FileMaps /\ FilesOK /\ acked \in BOOLEAN /\ NoHandle \in Handles
  BY TypedIs, HandlesAre DEF FilesOK, FilesTypeOK
<1>4. CASE WriteLine
  <2> DEFINE item == Head(inbox)
  <2>1. /\ inbox # <<>> /\ item.kind = "line" /\ inbox' = Tail(inbox)
        /\ UNCHANGED <<day, acked, logHandle, asked>>
        /\ handle' = Opened(item.day)
        /\ files' = IF Opened(item.day).live THEN Put(files, History(item.day), item.about)
                    ELSE files
    BY <1>4 DEF WriteLine
  <2>2. item.day \in Days /\ item.about \in SUBSET Marks
    BY <1>2, <2>1 DEF Items, DropCacheAndAck
  <2>3. handle' \in Handles
    BY <1>3, <2>1, <2>2, HandlesAre
  <2> HIDE DEF item
  <2>4. /\ Put(files, History(item.day), item.about) \in FileMaps
        /\ \A f \in FileNames : Put(files, History(item.day), item.about)[f]
                                  \subseteq files[f] \cup item.about
        /\ \A f \in FileNames : f # History(item.day) =>
              Put(files, History(item.day), item.about)[f] = files[f]
    BY <1>3, <2>2, NamesAre DEF Put, FileMaps
  <2>5. /\ files' \in FileMaps
        /\ \A f \in FileNames : files'[f] \subseteq files[f] \cup item.about
        /\ \A f \in FileNames : files'[f] # files[f] => f = History(item.day)
    BY <1>3, <2>1, <2>4
  <2>6. History(item.day)[1] = "history"
    BY DEF History
  <2> QED
    BY <1>1, <1>2, <1>3, <2>1, <2>3, <2>5, <2>6 DEF item
<1>5. CASE LineLost
  BY <1>1, <1>2, <1>3, <1>5 DEF LineLost
<1>6. CASE AnswerDrop
  BY <1>1, <1>2, <1>3, <1>6 DEF AnswerDrop
<1> QED
  BY <1>4, <1>5, <1>6 DEF Writer

(* So does the writer of the history, *)
LEMMA WriterTyped ==
  ASSUME Typed, Writer
  PROVE  Typed'
<1>1. inbox' \in Seq(Items) /\ Len(inbox') <= InboxCap
  <2>1. FilesOK
    BY TypedIs
  <2>2. inbox # <<>> /\ inbox' = Tail(inbox)
    BY WriterIs
  <2>3. inbox' \in Seq(Items) /\ Len(inbox') = Len(inbox) - 1
    BY <2>1, <2>2, InboxIs
  <2>4. Len(inbox) <= InboxCap /\ Len(inbox) \in Nat /\ InboxCap \in Nat
    BY <2>1, InboxIs
  <2> QED
    BY <2>3, <2>4
<1>2. FilesOK'
  BY <1>1, WriterIs DEF Typed, FilesOK, FilesTypeOK, FileMaps
<1>3. TaskOK' /\ ScrubOK'
  BY WriterIs DEF Typed, TaskOK, ScrubOK
<1> QED
  BY <1>2, <1>3 DEF Typed

(* so does a crash, *)
LEMMA CrashTyped ==
  ASSUME Typed, Crash
  PROVE  Typed'
<1>1. /\ UNCHANGED <<day, files, asked, billed, saved, done>>
      /\ pc' = "stopped" /\ turn' = NoTurn /\ cs' = saved /\ bus' = <<>> /\ backlog' = <<>>
      /\ inbox' = <<>> /\ acked' = FALSE /\ handle' = NoHandle /\ logHandle' = NoHandle
      /\ scrub' = NoScrub /\ lost' = lost + Unsaved + turn.cost
  BY DEF Crash, Gone, Then
<1>2. <<>> \in Seq(Items) /\ <<>> \in Seq(Senders) /\ Len(<<>>) = 0
  OBVIOUS
<1>3. NoHandle \in Handles /\ 0 <= InboxCap /\ NoScrub \in Scrubs
  BY TypedIs, HandlesAre, FilesAssumption, ZeroIsDay DEF NoScrub, Scrubs, Senders
<1>4. FilesOK'
  BY <1>1, <1>2, <1>3 DEF Typed, FilesOK, FilesTypeOK
<1>5. TaskOK'
  <2>1. lost' \in Int
    BY <1>1, TypedIs, UnsavedIs
  <2>2. turn' \in Turning /\ turn'.started <= day
    BY <1>1, NoTurnIs, TypedIs
  <2>3. saved.meter.day <= saved.meter.day
    BY TypedIs
  <2> QED
    BY <1>1, <1>2, <2>1, <2>2, <2>3, TypedIs DEF TaskOK, TurnPcs
<1>6. ScrubOK'
  BY <1>1, <1>3 DEF Typed, ScrubOK, ScrubPcs
<1> QED
  BY <1>4, <1>5, <1>6 DEF Typed

\* A step of Next, sorted by what it may do.
LEMMA StepIs ==
  ASSUME Typed, [Next]_vars
  PROVE  \/ CalmEffect
         \/ \E p \in Players : ForgetPlayer(p)
         \/ Announce \/ Acknowledged \/ ListHistory
         \/ \E d \in Days : ReadHistory(d)
         \/ RewriteHistory \/ ScrubRest
         \/ \E p \in Senders : Heard(p)
         \/ Midnight \/ HoldPasses \/ Writer \/ Crash
         \/ UNCHANGED vars
BY TurnIsCalm, LoopIsCalm, CommandIs, StartCalm DEF Next, Around, Forgetting

(* and the step in which nothing happens. *)
LEMMA StutterTyped ==
  ASSUME Typed, UNCHANGED vars
  PROVE  Typed'
BY DEF Typed, FilesOK, FilesTypeOK, TaskOK, ScrubOK, vars, fileVars, turnVars, loopVars

(* The types hold at the start, *)
LEMMA InitTyped ==
  ASSUME Init
  PROVE  Typed
<1>1. FilesOK
  <2>1. PICK p \in Players : files = OldFiles(p)
    BY DEF Init
  <2>2. files \in [FileNames -> SUBSET Marks]
    BY <2>1 DEF OldFiles, Marks
  <2>3. NoHandle \in Handles
    BY DEF Handles
  <2>4. <<>> \in Seq(Items) /\ Len(<<>>) = 0 /\ 0 <= InboxCap
    BY FilesAssumption
  <2>5. /\ day = FirstDay /\ inbox = <<>> /\ acked = FALSE /\ handle = NoHandle
        /\ logHandle = NoHandle /\ asked = [q \in Players |-> 0]
    BY DEF Init
  <2>6. asked \in [Players -> 0..1] /\ day \in Days
    BY <2>5, ZeroIsDay
  <2> QED
    BY <2>2, <2>3, <2>4, <2>5, <2>6 DEF FilesOK, FilesTypeOK
<1>2. TaskOK
  <2>1. PICK plan \in Plans : saved = [DefaultState(FirstDay) EXCEPT !.paused = plan.paused]
    BY DEF Init
  <2>2. plan.paused \in BOOLEAN
    BY TaskAssumption DEF PlanType
  <2>3. saved \in ChatStates /\ saved.meter = FreshMeter(FirstDay)
    BY <2>1, <2>2, ZeroIsDay, DefaultIs, StateFlags
  <2>4. saved.meter.day = FirstDay /\ FirstDay \in Nat
    BY <2>3, ZeroIsDay, FreshIs
  <2>5. <<>> \in Seq(Senders)
    OBVIOUS
  <2>6. /\ cs = saved /\ turn = NoTurn /\ day = FirstDay /\ billed = 0 /\ lost = 0
        /\ bus = <<>> /\ backlog = <<>> /\ pc = "stopped"
    BY DEF Init
  <2> QED
    BY <2>3, <2>4, <2>5, <2>6, NoTurnIs DEF TaskOK, TurnPcs
<1>3. ScrubOK
  <2>1. NoScrub \in Scrubs
    BY ZeroIsDay DEF NoScrub, Scrubs, Senders
  <2> QED
    BY <2>1 DEF Init, ScrubOK, ScrubPcs
<1> QED
  BY <1>1, <1>2, <1>3 DEF Typed

(* and every step keeps them. *)
LEMMA NextTyped ==
  ASSUME Typed, [Next]_vars
  PROVE  Typed'
BY StepIs, CalmTyped, ForgetPlayerTyped, AnnounceTyped, ReadHistoryTyped, RewriteHistoryTyped,
   ScrubRestTyped, HeardTyped, MidnightTyped, HoldPassesTyped, WriterTyped, CrashTyped,
   StutterTyped

(* Whatever the chat does, its files hold marks only, its turns are of players *)
(* where they must be, and no meter is ahead of the clock.                     *)
THEOREM ChatTyped == Spec => []Typed
<1>1. Init => Typed
  BY InitTyped
<1>2. Typed /\ [Next]_vars => Typed'
  BY NextTyped
<1> QED
  BY <1>1, <1>2, PTL DEF Spec

-----------------------------------------------------------------------------
(* The handles kept open.                                                      *)

\* The history's handle is dead for a day the retention has removed, or between
\* the replacement of its file and the answer of the writer.
HandleOK ==
    /\ logHandle.day <= day
    /\ ~logHandle.live => logHandle.day < day
    /\ \/ handle.live
       \/ Expired(handle.day)
       \/ pc = "reannounce"
       \/ pc = "rewait" /\ ~acked

(* The day and the liveness of a handle.                                       *)
LEMMA HandleIs ==
  ASSUME NEW h \in Handles
  PROVE  /\ h.day \in Int /\ h.live \in BOOLEAN
         /\ NoHandle.day = 0 - 1 /\ NoHandle.live = TRUE
<1>1. NoHandle.day = 0 - 1 /\ NoHandle.live = TRUE
  BY DEF NoHandle
<1>2. CASE h = NoHandle
  <2>1. 0 - 1 \in Int
    OBVIOUS
  <2>2. h.day \in Int
    BY <1>1, <1>2, <2>1
  <2>3. h.live \in BOOLEAN
    <3>1. h.live = TRUE
      BY <1>1, <1>2
    <3> QED
      BY <3>1
  <2> QED
    BY <1>1, <2>2, <2>3
<1>3. CASE h \in [day : Days, live : BOOLEAN]
  <2>1. h.day \in Days
    BY <1>3
  <2>2. h.live \in BOOLEAN
    BY <1>3
  <2>3. h.day \in Int
    <3>1. h.day \in Nat
      BY <2>1, ZeroIsDay
    <3> QED
      BY <3>1
  <2> QED
    BY <1>1, <2>2, <2>3
<1> QED
  BY <1>2, <1>3 DEF Handles

(* An orphaned handle keeps its day, and only the days removed orphan it. *)
LEMMA OrphanedIs ==
  ASSUME NEW h \in Handles, NEW ds \in SUBSET Days
  PROVE  /\ Orphaned(h, ds).day = h.day
         /\ h.day \notin ds => Orphaned(h, ds) = h
<1>1. CASE h.day \in ds
  <2>1. h \in [day : Days, live : BOOLEAN]
    BY <1>1, ZeroIsDay DEF Handles, NoHandle
  <2> QED
    BY <1>1, <2>1 DEF Orphaned
<1>2. CASE h.day \notin ds
  BY <1>2 DEF Orphaned
<1> QED
  BY <1>1, <1>2

(* Only a day that has passed is expired. *)
LEMMA ExpiredIs ==
  ASSUME Typed, NEW d \in Int
  PROVE  /\ Expired(d) => d < day
         /\ d \in Days /\ Expired(d) <=> d \in ExpiredDays
<1>1. RetainDays \in Nat /\ RetainDays > 0 /\ day \in Nat
  BY FilesAssumption, TypedIs
<1> QED
  BY <1>1 DEF Expired, ExpiredDays

\* Where the log's handle of today was live, the one that is opened is.
LEMMA LogOpenedIs ==
  ASSUME Typed, HandleOK
  PROVE  LogOpened.day = day /\ LogOpened.live = TRUE
<1>1. logHandle \in Handles /\ day \in Nat
  BY TypedIs DEF FilesOK, FilesTypeOK
<1>2. CASE logHandle.day = day
  <2>1. logHandle.live
    BY <1>1, <1>2 DEF HandleOK
  <2>2. logHandle.live = TRUE
    BY <1>1, <2>1, HandleIs
  <2> QED
    BY <1>2, <2>2 DEF LogOpened
<1>3. CASE logHandle.day # day
  BY <1>3 DEF LogOpened
<1> QED
  BY <1>2, <1>3

(* The types of the two handles. *)
LEMMA HandlesTyped ==
  ASSUME Typed
  PROVE  /\ handle \in Handles /\ logHandle \in Handles
         /\ handle.day \in Int /\ logHandle.day \in Int /\ day \in Nat
         /\ handle.live \in BOOLEAN /\ logHandle.live \in BOOLEAN /\ acked \in BOOLEAN
<1>1. handle \in Handles /\ logHandle \in Handles /\ acked \in BOOLEAN
  BY DEF Typed, FilesOK, FilesTypeOK
<1> QED
  BY <1>1, HandleIs, TypedIs

(* Calm steps touch the writer's handle only to orphan it with an expired day. *)
LEMMA CalmHandle ==
  ASSUME Typed, CalmEffect, HandleOK
  PROVE  HandleOK'
<1>1. day' = day /\ pc \notin ScrubPcs /\ pc' \notin ScrubPcs
  BY DEF CalmEffect
<1>2. handle.live \/ Expired(handle.day)
  BY <1>1 DEF HandleOK, ScrubPcs
<1>3. CASE FileEffect /\ UNCHANGED handle
  <2>1. logHandle'.day <= day /\ (~logHandle'.live => logHandle'.day < day)
    <3>1. CASE logHandle' = logHandle
      BY <3>1 DEF HandleOK
    <3>2. CASE logHandle' = LogOpened
      <4>1. logHandle'.day = day /\ logHandle'.live = TRUE
        BY <3>2, LogOpenedIs
      <4>2. day <= day
        BY TypedIs
      <4> QED
        BY <4>1, <4>2
    <3> QED
      BY <1>3, <3>1, <3>2 DEF FileEffect
  <2> QED
    BY <1>1, <1>2, <1>3, <2>1 DEF HandleOK, Expired
<1>4. CASE Sweep
  <2>1. ExpiredDays \in SUBSET Days
    BY DEF ExpiredDays
  <2>2. /\ handle' = Orphaned(handle, ExpiredDays)
        /\ logHandle' = Orphaned(logHandle, ExpiredDays)
    BY <1>4, TypedIs, SweepIs
  <2>3. /\ handle'.day = handle.day /\ logHandle'.day = logHandle.day
        /\ handle.day \notin ExpiredDays => handle' = handle
        /\ logHandle.day \notin ExpiredDays => logHandle' = logHandle
    BY <2>1, <2>2, HandlesTyped, OrphanedIs
  <2>4. /\ handle.day \in ExpiredDays => Expired(handle.day)
        /\ logHandle.day \in ExpiredDays => logHandle.day < day
    BY HandlesTyped, ExpiredIs
  <2>5. handle'.live \/ Expired(handle'.day)
    BY <1>2, <2>3, <2>4
  <2>6. logHandle'.day <= day /\ (~logHandle'.live => logHandle'.day < day)
    BY <2>3, <2>4 DEF HandleOK
  <2> QED
    BY <1>1, <2>5, <2>6 DEF HandleOK, Expired
<1> QED
  BY <1>3, <1>4 DEF CalmEffect

\* Steps that leave both handles and the day alone.
LEMMA HandleStill ==
  ASSUME UNCHANGED <<day, handle, logHandle>>, HandleOK,
         \/ UNCHANGED <<pc, acked>>
         \/ pc \notin {"reannounce", "rewait"}
         \/ pc = "reannounce" /\ pc' = "rewait" /\ acked' = FALSE
         \/ pc = "rewait" /\ acked
  PROVE  HandleOK'
BY DEF HandleOK, Expired

(* The scrub renames a file under the handle only while the writer has let go of it. *)
LEMMA ScrubHandle ==
  ASSUME Typed, HandleOK,
         \/ \E p \in Players : ForgetPlayer(p)
         \/ Announce \/ Acknowledged \/ ListHistory
         \/ \E d \in Days : ReadHistory(d)
         \/ RewriteHistory \/ ScrubRest
  PROVE  HandleOK'
<1>1. ASSUME NEW p \in Players, ForgetPlayer(p) PROVE HandleOK'
  BY <1>1, TakenIs, HandleStill DEF ForgetPlayer
<1>2. CASE Announce
  BY <1>2, HandleStill DEF Announce, SendDrop, scrubStill, Then
<1>3. CASE Acknowledged
  BY <1>3, HandleStill DEF Acknowledged, scrubStill
<1>4. CASE ListHistory
  BY <1>4, HandleStill DEF ListHistory, scrubStill
<1>5. ASSUME NEW d \in Days, ReadHistory(d) PROVE HandleOK'
  BY <1>5, HandleStill DEF ReadHistory, scrubStill
<1>6. CASE RewriteHistory
  <2>1. pc = "rename" /\ UNCHANGED <<day, logHandle>>
    BY <1>6, RewriteHistoryIs
  <2>2. CASE pc' = "reannounce"
    BY <2>1, <2>2 DEF HandleOK
  <2>3. CASE UNCHANGED handle
    BY <2>1, <2>3, HandleStill
  <2> QED
    BY <1>6, <2>2, <2>3, RewriteHistoryIs
<1>7. CASE ScrubRest
  <2>1. /\ pc = "history" /\ UNCHANGED <<day, handle>>
        /\ logHandle' \in {logHandle, LogDropped(scrub.who)}
    BY <1>7, ScrubRestIs
  <2>2. logHandle' = logHandle \/ logHandle' = NoHandle
    BY <2>1 DEF LogDropped
  <2>3. logHandle'.day <= day /\ (~logHandle'.live => logHandle'.day < day)
    <3>1. CASE logHandle' = logHandle
      BY <3>1 DEF HandleOK
    <3>2. CASE logHandle' = NoHandle
      <4>1. logHandle'.day = 0 - 1 /\ logHandle'.live = TRUE
        BY <3>2, HandlesTyped, HandleIs
      <4>2. 0 - 1 <= day
        BY TypedIs
      <4> QED
        BY <4>1, <4>2
    <3> QED
      BY <2>2, <3>1, <3>2
  <2> QED
    BY <2>1, <2>3 DEF HandleOK, Expired
<1> QED
  BY <1>1, <1>2, <1>3, <1>4, <1>5, <1>6, <1>7

(* What happens around the chat: lines, midnight, the writer and a crash. *)
LEMMA AroundHandle ==
  ASSUME Typed, HandleOK,
         \/ \E p \in Senders : Heard(p)
         \/ Midnight \/ HoldPasses \/ Writer \/ Crash
         \/ UNCHANGED vars
  PROVE  HandleOK'
<1>1. ASSUME NEW p \in Senders, Heard(p) PROVE HandleOK'
  BY <1>1, HeardIs, HandleStill
<1>2. CASE Midnight
  <2>1. day' = day + 1 /\ UNCHANGED <<handle, logHandle, acked, pc>>
    BY <1>2 DEF Midnight
  <2>2. RetainDays \in Nat
    BY FilesAssumption
  <2>3. Expired(handle.day) => Expired(handle.day)'
    BY <2>1, <2>2, HandlesTyped DEF Expired
  <2>4. logHandle.day <= day' /\ (~logHandle.live => logHandle.day < day')
    BY <2>1, HandlesTyped DEF HandleOK
  <2> QED
    BY <2>1, <2>3, <2>4 DEF HandleOK
<1>3. CASE HoldPasses
  BY <1>3, HoldPassesIs, HandleStill
<1>4. CASE Writer
  <2>1. UNCHANGED <<day, logHandle, pc>>
    BY <1>4, WriterIs
  <2>2. CASE UNCHANGED acked /\ handle' = Opened(Head(inbox).day)
    <3>1. CASE handle' = handle
      BY <2>1, <2>2, <3>1, HandleStill
    <3>2. CASE handle' # handle
      <4>1. handle'.live
        BY <2>2, <3>2 DEF Opened
      <4> QED
        BY <2>1, <4>1 DEF HandleOK
    <3> QED
      BY <3>1, <3>2
  <2>3. CASE handle' = NoHandle
    <3>1. handle'.live
      BY <2>3 DEF NoHandle
    <3> QED
      BY <2>1, <3>1 DEF HandleOK
  <2> QED
    BY <1>4, <2>2, <2>3, WriterIs
<1>5. CASE Crash
  <2>1. handle' = NoHandle /\ logHandle' = NoHandle /\ day' = day
    BY <1>5 DEF Crash
  <2>2. handle'.live /\ logHandle'.live /\ logHandle'.day <= day'
    BY <2>1, HandlesTyped DEF NoHandle
  <2> QED
    BY <2>2 DEF HandleOK
<1>6. CASE UNCHANGED vars
  BY <1>6, HandleStill DEF vars, fileVars, turnVars
<1> QED
  BY <1>1, <1>2, <1>3, <1>4, <1>5, <1>6

(* At the start there is no handle. *)
LEMMA InitHandle ==
  ASSUME Init
  PROVE  HandleOK
<1>1. logHandle = NoHandle /\ handle = NoHandle /\ day = FirstDay /\ FirstDay \in Nat
  BY ZeroIsDay DEF Init
<1> QED
  BY <1>1 DEF HandleOK, NoHandle

(* Nobody appends to a file that has been replaced or removed, but in the time *)
(* a scrub waits for the writer, and for days the retention has removed:       *)
(* DAY_FILE_CACHE, drop_cache_and_ack and the sweeps, at any number of players *)
(* and days.                                                                   *)
THEOREM HandlesStayCurrent == Spec => []HandleIsCurrent
<1>1. Init => Typed /\ HandleOK
  BY InitTyped, InitHandle
<1>2. (Typed /\ HandleOK) /\ [Next]_vars => (Typed /\ HandleOK)'
  <2> SUFFICES ASSUME Typed, HandleOK, [Next]_vars PROVE Typed' /\ HandleOK'
    OBVIOUS
  <2>1. HandleOK'
    BY StepIs, CalmHandle, ScrubHandle, AroundHandle
  <2> QED
    BY <2>1, NextTyped
<1>3. Typed /\ HandleOK => HandleIsCurrent
  <2> SUFFICES ASSUME Typed, HandleOK PROVE HandleIsCurrent
    OBVIOUS
  <2>1. logHandle.day = day => logHandle.live
    BY HandlesTyped DEF HandleOK
  <2> QED
    BY <2>1 DEF HandleOK, HandleIsCurrent
<1> QED
  BY <1>1, <1>2, <1>3, PTL DEF Spec

-----------------------------------------------------------------------------
(* The forgetting of a player.                                                 *)

\* The mark of a player's lines from before the request to forget him, and that
\* none of them is left in the channel.
Old(p) == <<p, 0>>
NoLine(p) == \A i \in DOMAIN inbox : Old(p) \notin inbox[i].about

\* At most one DropCacheAndAck is on its way, and the task waits for it.
OneDrop ==
    /\ \A i \in DOMAIN inbox : \A j \in DOMAIN inbox :
          (inbox[i] = DropCacheAndAck /\ inbox[j] = DropCacheAndAck) => i = j
    /\ \A i \in DOMAIN inbox :
          inbox[i] = DropCacheAndAck => (pc \in {"wait", "rewait"} /\ acked = FALSE)

\* Behind the DropCacheAndAck there is no old line of his.
NoneBehind(p) ==
    \A i \in DOMAIN inbox : \A j \in DOMAIN inbox :
        (inbox[i] = DropCacheAndAck /\ i < j) => Old(p) \notin inbox[j].about

\* What holds of a player from the answer Ok on.
Cleared(p) ==
    (done[p] = 1 /\ Old(p) \notin unread) =>
        /\ \A f \in FileNames : Old(p) \notin files[f]
        /\ NoLine(p)
        /\ Old(p) \notin scrub.kept

\* The day files that still may have an old line of his are those to be read,
\* the one being rewritten and those that could not be read.
Remaining(p) ==
    \A d \in Days : Old(p) \in files[History(d)] =>
        \/ d \in scrub.todo
        \/ pc = "rename" /\ d = scrub.cur
        \/ Old(p) \in unread

\* What holds of him while he is being forgotten.
Underway(p) ==
    /\ asked[p] = 1 /\ done[p] = 0
    /\ Old(p) \notin scrub.kept
    /\ scrub.removed => Old(p) \notin files[PlayerFile]
    /\ (pc = "wait" /\ acked = FALSE) => NoneBehind(p)
    /\ (pc \notin {"announce", "wait"} \/ (pc = "wait" /\ acked = TRUE)) => NoLine(p)
    /\ pc \in {"history", "rename", "reannounce", "rewait"} => Remaining(p)

PlayerOK(p) ==
    /\ done[p] <= asked[p]
    /\ Cleared(p)
    /\ (scrub.who = p /\ pc \in ScrubPcs) => Underway(p)

ForgetOK == OneDrop /\ \A p \in Players : PlayerOK(p)

(* An old mark is one of the player's and of nobody else; once he has asked,   *)
(* no new line gets it.                                                        *)
LEMMA OldIs ==
  ASSUME NEW p \in Players
  PROVE  /\ Old(p) \in Marks /\ Old(p) \in MarksOf(p)
         /\ \A q : Old(p) \in MarksOf(q) => q = p
         /\ (asked \in [Players -> 0..1] /\ asked[p] = 1) =>
               \A q : Old(p) \notin About(q)
BY DEF Old, Marks, MarksOf, About, Mark

(* What is asked and done is counted once.                                     *)
LEMMA CountsAre ==
  ASSUME Typed, NEW p \in Players
  PROVE  /\ asked[p] \in 0..1 /\ done[p] \in 0..1
         /\ asked \in [Players -> 0..1] /\ done \in [Players -> 0..1]
BY TypedIs DEF Typed, ScrubOK

(* Files that have grown from others have no mark of a player that these have  *)
(* not, once he has asked to be forgotten.                                     *)
LEMMA OldStaysOut ==
  ASSUME Typed, NEW p \in Players, asked[p] = 1, Grown(files, files'),
         \A f \in FileNames : Old(p) \notin files[f]
  PROVE  \A f \in FileNames : Old(p) \notin files'[f]
<1>1. \A q \in Players : Old(p) # Mark(q)
  BY TypedIs DEF Old, Mark
<1> QED
  BY <1>1 DEF Grown, Known

(* The names of the files, by kind.                                            *)
LEMMA NamesSplit ==
  ASSUME NEW f \in FileNames
  PROVE  \/ f[1] \in {"decisions", "pending", "archive", "index"}
         \/ f = PlayerFile
         \/ \E d \in Days : f = History(d)
BY DEF FileNames, Pending, PlayerFile, Index, History

(* The names of the files are different. *)
LEMMA NamesDiffer ==
  ASSUME NEW c, NEW d
  PROVE  /\ History(d)[1] = "history" /\ PlayerFile[1] = "player"
         /\ PlayerFile # History(d)
         /\ History(c) = History(d) => c = d
BY DEF History, PlayerFile

(* The channel's items after a line has been added, and after one was taken.   *)
LEMMA EnqueuedAt ==
  ASSUME Typed, NEW q, inbox' = inbox \/ inbox' = Enqueued(About(q)), NEW i \in DOMAIN inbox'
  PROVE  /\ i \in Nat
         /\ \/ i \in DOMAIN inbox /\ inbox'[i] = inbox[i]
            \/ inbox'[i] # DropCacheAndAck /\ inbox'[i].about = About(q)
<1>1. /\ FilesOK /\ About(q) \in SUBSET Marks
  BY TypedIs, MarkIs
<1>2. inbox \in Seq(Items) /\ Len(inbox) \in Nat
  BY <1>1, InboxIs
<1> DEFINE line == Line(day, About(q))
<1>3. line \in Items /\ line # DropCacheAndAck /\ line.about = About(q)
  BY <1>1, ItemsAre
<1> HIDE DEF line
<1>4. CASE inbox' = inbox
  BY <1>2, <1>4
<1>5. CASE inbox' = Append(inbox, line)
  <2>1. DOMAIN inbox' = 1..(Len(inbox) + 1) /\ DOMAIN inbox = 1..Len(inbox)
    BY <1>2, <1>3, <1>5
  <2>2. CASE i = Len(inbox) + 1
    <3>1. inbox'[i] = line
      BY <1>2, <1>3, <1>5, <2>2
    <3> QED
      BY <1>2, <1>3, <2>2, <3>1
  <2>3. CASE i # Len(inbox) + 1
    <3>1. i \in 1..Len(inbox)
      BY <1>2, <2>1, <2>3
    <3>2. inbox'[i] = inbox[i]
      BY <1>2, <1>3, <1>5, <3>1
    <3> QED
      BY <2>1, <3>1, <3>2
  <2> QED
    BY <2>2, <2>3
<1> QED
  BY <1>4, <1>5 DEF Enqueued, line

(* An item of the tail was one place further back. *)
LEMMA TailAt ==
  ASSUME Typed, inbox # <<>>, inbox' = Tail(inbox), NEW i \in DOMAIN inbox'
  PROVE  /\ i \in Nat /\ i + 1 \in DOMAIN inbox /\ 1 < i + 1
         /\ inbox'[i] = inbox[i + 1]
<1>1. inbox \in Seq(Items) /\ Len(inbox) \in Nat
  BY TypedIs, InboxIs
<1>2. DOMAIN inbox' = 1..(Len(inbox) - 1) /\ DOMAIN inbox = 1..Len(inbox)
  BY <1>1
<1>3. i \in Nat /\ 1 <= i /\ i <= Len(inbox) - 1
  BY <1>1, <1>2
<1>4. inbox'[i] = inbox[i + 1]
  BY <1>1, <1>3
<1> QED
  BY <1>1, <1>2, <1>3, <1>4

(* The steps that have nothing to do with a forgetting.                        *)
LEMMA CalmForget ==
  ASSUME Typed, ForgetOK, CalmEffect
  PROVE  ForgetOK'
<1>1. /\ pc \notin ScrubPcs /\ pc' \notin ScrubPcs /\ UNCHANGED <<asked, done, unread>>
      /\ scrub' = scrub \/ scrub' = NoScrub
  BY DEF CalmEffect
<1>2. PICK q \in Senders : inbox' = inbox \/ inbox' = Enqueued(About(q))
  BY DEF CalmEffect, Senders
<1>3. Grown(files, files')
  <2>1. FilesOK
    BY TypedIs
  <2> QED
    BY <2>1, SweepIs DEF CalmEffect, FileEffect
<1>4. \A i \in DOMAIN inbox : inbox[i] # DropCacheAndAck
  BY <1>1 DEF ForgetOK, OneDrop, ScrubPcs
<1>5. \A i \in DOMAIN inbox' : inbox'[i] # DropCacheAndAck
  BY <1>2, <1>4, EnqueuedAt
<1>6. OneDrop'
  BY <1>5 DEF OneDrop
<1>7. ASSUME NEW p \in Players PROVE PlayerOK(p)'
  <2>1. done[p] <= asked[p] /\ Cleared(p) /\ done[p] \in 0..1 /\ asked[p] \in 0..1
    BY CountsAre DEF ForgetOK, PlayerOK
  <2>2. ASSUME done[p] = 1, Old(p) \notin unread
        PROVE  /\ \A f \in FileNames : Old(p) \notin files'[f]
               /\ NoLine(p)'
               /\ Old(p) \notin scrub'.kept
    <3>1. asked[p] = 1
      BY <2>1, <2>2
    <3>2. \A f \in FileNames : Old(p) \notin files'[f]
      BY <1>3, <2>1, <2>2, <3>1, OldStaysOut DEF Cleared
    <3>3. NoLine(p)'
      <4>1. Old(p) \notin About(q)
        BY <3>1, CountsAre, OldIs
      <4> QED
        BY <1>2, <2>1, <2>2, <4>1, EnqueuedAt DEF Cleared, NoLine
    <3>4. Old(p) \notin scrub'.kept
      BY <1>1, <2>1, <2>2 DEF Cleared, NoScrub
    <3> QED
      BY <3>2, <3>3, <3>4
  <2> QED
    BY <1>1, <2>1, <2>2 DEF PlayerOK, Cleared
<1> QED
  BY <1>6, <1>7 DEF ForgetOK

(* Files that lose marks, a channel that stays as it is.                       *)
LEMMA ClearedStill ==
  ASSUME Typed, NEW p \in Players, Cleared(p), UNCHANGED inbox,
         done'[p] = done[p], unread \subseteq unread',
         \A f \in FileNames : files'[f] \subseteq files[f] \/ files'[f] \subseteq scrub.kept,
         \/ scrub'.kept \subseteq scrub.kept
         \/ \E f \in FileNames : scrub'.kept \subseteq files[f]
  PROVE  Cleared(p)'
BY DEF Cleared, NoLine

(* The request.                                                                *)
LEMMA BegunForget ==
  ASSUME Typed, ForgetOK, NEW p \in Players, ForgetPlayer(p)
  PROVE  ForgetOK'
<1>1. /\ UNCHANGED <<inbox, acked, done, unread>> /\ asked[p] = 0
      /\ asked' = [asked EXCEPT ![p] = 1] /\ pc = "idle" /\ pc' = "announce"
  BY DEF ForgetPlayer, Taken, Then
<1>2. asked \in [Players -> 0..1] /\ files \in FileMaps
  BY TypedIs
<1>3. /\ scrub'.who = p /\ scrub'.kept = {}
      /\ \A f \in FileNames : files'[f] \subseteq files[f]
      /\ scrub'.removed => Old(p) \notin files'[PlayerFile]
  <2>1. CASE files' = Forgotten(files, {PlayerFile}, p) /\ scrub' = ScrubBegun(p, TRUE)
    <3>1. PlayerFile \in FileNames
      BY ZeroIsDay, NamesAre
    <3>2. files'[PlayerFile] = files[PlayerFile] \ MarksOf(p)
      BY <1>2, <2>1, <3>1, ForgottenIs
    <3>3. \A f \in FileNames : files'[f] \subseteq files[f]
      BY <1>2, <2>1, ForgottenIs
    <3>4. scrub'.who = p /\ scrub'.kept = {}
      BY <2>1 DEF ScrubBegun, NoScrub
    <3> QED
      BY <3>2, <3>3, <3>4, OldIs
  <2>2. CASE UNCHANGED files /\ scrub' = ScrubBegun(p, FALSE)
    <3>1. scrub'.who = p /\ scrub'.kept = {} /\ scrub'.removed = FALSE
      BY <2>2 DEF ScrubBegun, NoScrub
    <3> QED
      BY <2>2, <3>1
  <2> QED
    BY <2>1, <2>2 DEF ForgetPlayer
<1>4. OneDrop'
  BY <1>1 DEF ForgetOK, OneDrop
<1>5. ASSUME NEW q \in Players PROVE PlayerOK(q)'
  <2>1. done[q] <= asked[q] /\ Cleared(q) /\ done[q] \in 0..1 /\ asked[q] \in 0..1
    BY CountsAre DEF ForgetOK, PlayerOK
  <2>2. done'[q] <= asked'[q]
    BY <1>1, <1>2, <2>1
  <2>3. Cleared(q)'
    BY <1>1, <1>3, <2>1, ClearedStill
  <2>4. ASSUME q = p PROVE Underway(q)'
    <3>1. asked'[q] = 1
      BY <1>1, <1>2, <2>4
    <3>2. done'[q] = 0
      BY <1>1, <2>1, <2>4
    <3> QED
      BY <1>1, <1>3, <2>4, <3>1, <3>2 DEF Underway
  <2> QED
    BY <1>3, <2>2, <2>3, <2>4 DEF PlayerOK
<1> QED
  BY <1>4, <1>5 DEF ForgetOK

(* What a step of a scrub has to show: of the player it is about, and that the *)
(* others lose nothing.                                                        *)
LEMMA ScrubStep ==
  ASSUME Typed, ForgetOK, UNCHANGED <<inbox, asked, done>>, OneDrop',
         unread \subseteq unread',
         \A f \in FileNames : files'[f] \subseteq files[f] \/ files'[f] \subseteq scrub.kept,
         \/ scrub'.kept \subseteq scrub.kept
         \/ \E f \in FileNames : scrub'.kept \subseteq files[f],
         pc \in ScrubPcs,
         pc' \in ScrubPcs => scrub'.who = scrub.who,
         \A p \in Players : (pc' \in ScrubPcs /\ scrub.who = p /\ Underway(p)) => Underway(p)'
  PROVE  ForgetOK'
<1>1. ASSUME NEW p \in Players PROVE PlayerOK(p)'
  <2>1. PlayerOK(p)
    BY DEF ForgetOK
  <2>2. Cleared(p)'
    BY <2>1, ClearedStill DEF PlayerOK
  <2>3. ASSUME scrub'.who = p, pc' \in ScrubPcs PROVE Underway(p)'
    <3>1. scrub.who = p
      BY <2>3
    <3>2. Underway(p)
      BY <2>1, <3>1 DEF PlayerOK
    <3> QED
      BY <2>3, <3>1, <3>2
  <2> QED
    BY <2>1, <2>2, <2>3 DEF PlayerOK
<1> QED
  BY <1>1 DEF ForgetOK

(* The writer is asked: nothing is behind the question yet.                    *)
LEMMA AnnounceForget ==
  ASSUME Typed, ForgetOK, Announce
  PROVE  ForgetOK'
<1>1. /\ inbox' = Append(inbox, DropCacheAndAck) /\ acked' = FALSE
      /\ UNCHANGED <<files, asked, done, unread, scrub>>
      /\ \/ pc = "announce" /\ pc' = "wait"
         \/ pc = "reannounce" /\ pc' = "rewait"
  BY DEF Announce, SendDrop, Then, scrubStill
<1>2. pc \in ScrubPcs /\ pc \notin {"wait", "rewait"}
  BY <1>1 DEF ScrubPcs
<1> DEFINE n == Len(inbox) + 1
<1>3. /\ DOMAIN inbox' = 1..n /\ inbox'[n] = DropCacheAndAck /\ n \in Nat
      /\ \A i \in 1..n : i # n => i \in DOMAIN inbox /\ inbox'[i] = inbox[i]
  <2>1. inbox \in Seq(Items) /\ Len(inbox) \in Nat /\ DropCacheAndAck \in Items
    BY TypedIs, InboxIs, ItemsAre DEF Items
  <2> QED
    BY <1>1, <2>1
<1> HIDE DEF n
<1>4. \A i \in DOMAIN inbox : inbox[i] # DropCacheAndAck
  BY <1>2 DEF ForgetOK, OneDrop
<1>5. \A i \in DOMAIN inbox' : inbox'[i] = DropCacheAndAck => i = n
  BY <1>3, <1>4
<1>6. OneDrop'
  <2>1. pc' \in {"wait", "rewait"}
    BY <1>1
  <2> QED
    BY <1>1, <1>5, <2>1 DEF OneDrop
<1>7. DropCacheAndAck.about = {}
  BY DEF DropCacheAndAck
<1>8. ASSUME NEW p \in Players, NoLine(p) PROVE NoLine(p)'
  BY <1>3, <1>7, <1>8 DEF NoLine
<1>9. ASSUME NEW p \in Players PROVE NoneBehind(p)'
  <2>1. ASSUME NEW i \in DOMAIN inbox', NEW j \in DOMAIN inbox',
               inbox'[i] = DropCacheAndAck, i < j
        PROVE  FALSE
    <3>1. i = n /\ j <= n /\ j \in Nat
      BY <1>3, <1>5, <2>1
    <3> QED
      BY <1>3, <2>1, <3>1
  <2> QED
    BY <2>1 DEF NoneBehind
<1>10. ASSUME NEW p \in Players PROVE PlayerOK(p)'
  <2>1. PlayerOK(p)
    BY DEF ForgetOK
  <2>2. Cleared(p)'
    BY <1>1, <1>8, <2>1 DEF PlayerOK, Cleared
  <2>3. ASSUME scrub.who = p PROVE Underway(p)'
    <3>1. Underway(p)
      BY <1>2, <2>1, <2>3 DEF PlayerOK
    <3>2. CASE pc = "announce"
      <4>1. pc' = "wait"
        BY <1>1, <3>2
      <4> QED
        BY <1>1, <1>9, <3>1, <4>1 DEF Underway
    <3>3. CASE pc = "reannounce"
      <4>1. pc' = "rewait"
        BY <1>1, <3>3
      <4>2. NoLine(p)' /\ Remaining(p)
        BY <1>8, <3>1, <3>3 DEF Underway
      <4>3. Remaining(p)'
        BY <1>1, <3>3, <4>1, <4>2 DEF Remaining
      <4> QED
        BY <1>1, <3>1, <4>1, <4>2, <4>3 DEF Underway
    <3> QED
      BY <1>1, <3>2, <3>3
  <2> QED
    BY <1>1, <2>1, <2>2, <2>3 DEF PlayerOK
<1> QED
  BY <1>6, <1>10 DEF ForgetOK

(* The writer has answered: of the lines before the question none is left.     *)
LEMMA AcknowledgedForget ==
  ASSUME Typed, ForgetOK, Acknowledged
  PROVE  ForgetOK'
<1>1. /\ UNCHANGED <<inbox, files, asked, done, unread, scrub>> /\ acked = TRUE
      /\ \/ pc = "wait" /\ pc' = "list"
         \/ pc = "rewait" /\ pc' = "history"
  <2>1. acked \in BOOLEAN /\ acked
    BY DEF Acknowledged, Typed, FilesOK, FilesTypeOK
  <2>2. acked = TRUE
    BY <2>1
  <2> QED
    BY <2>2 DEF Acknowledged, Then, scrubStill
<1>2. pc \in ScrubPcs
  BY <1>1 DEF ScrubPcs
<1>3. OneDrop'
  BY <1>1 DEF ForgetOK, OneDrop
<1>4. ASSUME NEW p \in Players, Underway(p) PROVE Underway(p)'
  <2>1. CASE pc = "wait"
    <3>1. pc' = "list"
      BY <1>1, <2>1
    <3> QED
      BY <1>1, <1>4, <2>1, <3>1 DEF Underway, NoLine
  <2>2. CASE pc = "rewait"
    <3>1. pc' = "history"
      BY <1>1, <2>2
    <3>2. Remaining(p)'
      BY <1>1, <1>4, <2>2, <3>1 DEF Underway, Remaining
    <3> QED
      BY <1>1, <1>4, <2>2, <3>1, <3>2 DEF Underway, NoLine
  <2> QED
    BY <1>1, <2>1, <2>2
<1> QED
  BY <1>1, <1>2, <1>3, <1>4, ScrubStep

(* Every day file with a line of his is to be read.                            *)
LEMMA ListForget ==
  ASSUME Typed, ForgetOK, ListHistory
  PROVE  ForgetOK'
<1>1. /\ UNCHANGED <<inbox, acked, files, asked, done, unread>>
      /\ pc = "list" /\ pc' = "history" /\ pc \in ScrubPcs
  BY DEF ListHistory, scrubStill, Then, ScrubPcs
<1>2. /\ scrub'.who = scrub.who /\ scrub'.kept = scrub.kept
      /\ scrub'.removed = scrub.removed /\ scrub'.todo = DatedDays("history", files)
  <2>1. scrub \in Scrubs
    BY <1>1, ScrubIs
  <2> QED
    BY <2>1 DEF ListHistory, Scrubs
<1>3. OneDrop'
  BY <1>1 DEF ForgetOK, OneDrop
<1>4. ASSUME NEW p \in Players, Underway(p) PROVE Underway(p)'
  <2>1. Remaining(p)'
    BY <1>1, <1>2 DEF Remaining, DatedDays, History
  <2> QED
    BY <1>1, <1>2, <1>4, <2>1 DEF Underway, NoLine
<1> QED
  BY <1>1, <1>2, <1>3, <1>4, ScrubStep

(* A day file is read, or passed over.                                         *)
LEMMA ReadForget ==
  ASSUME Typed, ForgetOK, NEW d \in Days, ReadHistory(d)
  PROVE  ForgetOK'
<1>1. /\ UNCHANGED <<inbox, acked, files, asked, done>> /\ pc \in ScrubPcs
      /\ unread \subseteq unread' /\ pc' \in ScrubPcs /\ pc' \notin {"announce", "wait"}
  BY ReadHistoryIs DEF ReadHistory, scrubStill, ScrubPcs
<1>2. /\ scrub'.who = scrub.who /\ scrub'.todo = scrub.todo \ {d}
      /\ scrub'.removed = scrub.removed /\ pc = "history" /\ History(d) \in FileNames
  BY <1>1, ReadHistoryIs, ScrubIs, NamesAre
<1>3. OneDrop'
  BY <1>1, <1>2 DEF ForgetOK, OneDrop
<1>4. \/ scrub'.kept \subseteq scrub.kept
      \/ \E f \in FileNames : scrub'.kept \subseteq files[f]
  BY <1>2, ReadHistoryIs
<1>5. ASSUME NEW p \in Players, scrub.who = p, Underway(p) PROVE Underway(p)'
  <2>1. Old(p) \notin scrub'.kept
    BY <1>2, <1>5, ReadHistoryIs, OldIs DEF Underway
  <2>2. Remaining(p)
    BY <1>2, <1>5 DEF Underway
  <2>3. Remaining(p)'
    <3>1. ASSUME NEW c \in Days, Old(p) \in files[History(c)]
          PROVE  \/ c \in scrub'.todo \/ (pc' = "rename" /\ c = scrub'.cur)
                 \/ Old(p) \in unread'
      <4>1. c \in scrub.todo \/ Old(p) \in unread
        BY <1>2, <2>2, <3>1 DEF Remaining
      <4>2. CASE c # d
        BY <1>1, <1>2, <4>1, <4>2
      <4>3. CASE c = d
        BY <1>2, <1>5, <3>1, <4>3, ReadHistoryIs, OldIs
      <4> QED
        BY <4>2, <4>3
    <3> QED
      BY <1>1, <3>1 DEF Remaining
  <2> QED
    BY <1>1, <1>2, <1>5, <2>1, <2>3 DEF Underway, NoLine
<1> QED
  BY <1>1, <1>2, <1>3, <1>4, <1>5, ScrubStep

(* What was kept of a day file replaces it.                                    *)
LEMMA RewriteForget ==
  ASSUME Typed, ForgetOK, RewriteHistory
  PROVE  ForgetOK'
<1>1. /\ pc = "rename" /\ pc \in ScrubPcs
      /\ UNCHANGED <<inbox, acked, asked, done, unread>>
  BY RewriteHistoryIs DEF ScrubPcs
<1>2. OneDrop'
  BY <1>1 DEF ForgetOK, OneDrop
<1>3. CASE /\ pc' = "reannounce"
           /\ \A f \in FileNames : files'[f] = IF f = History(scrub.cur) THEN scrub.kept
                                               ELSE files[f]
           /\ scrub'.who = scrub.who /\ scrub'.todo = scrub.todo /\ scrub'.kept = {}
           /\ scrub'.removed = scrub.removed
  <2>1. \A f \in FileNames : files'[f] \subseteq files[f] \/ files'[f] \subseteq scrub.kept
    BY <1>3
  <2>2. ASSUME NEW p \in Players, Underway(p) PROVE Underway(p)'
    <3>1. Old(p) \notin scrub.kept /\ Remaining(p) /\ NoLine(p)
      BY <1>1, <2>2 DEF Underway
    <3>2. Remaining(p)'
      <4>1. ASSUME NEW d \in Days, Old(p) \in files'[History(d)]
            PROVE  d \in scrub'.todo \/ Old(p) \in unread'
        <5>1. History(d) \in FileNames
          BY NamesAre
        <5>2. History(d) # History(scrub.cur) /\ Old(p) \in files[History(d)]
          BY <1>3, <3>1, <4>1, <5>1
        <5>3. d # scrub.cur
          BY <5>2
        <5> QED
          BY <1>1, <1>3, <3>1, <5>2, <5>3 DEF Remaining
      <4> QED
        BY <4>1 DEF Remaining
    <3>3. scrub'.removed => Old(p) \notin files'[PlayerFile]
      <4>1. PlayerFile \in FileNames /\ PlayerFile # History(scrub.cur)
        BY ZeroIsDay, NamesAre, NamesDiffer
      <4> QED
        BY <1>3, <2>2, <4>1 DEF Underway
    <3>4. NoLine(p)' /\ asked'[p] = 1 /\ done'[p] = 0 /\ Old(p) \notin scrub'.kept
      BY <1>1, <1>3, <2>2, <3>1 DEF Underway, NoLine
    <3> QED
      BY <1>3, <3>2, <3>3, <3>4 DEF Underway
  <2> QED
    BY <1>1, <1>2, <1>3, <2>1, <2>2, ScrubStep
<1>4. CASE pc' = "top" /\ scrub' = NoScrub /\ UNCHANGED <<files, handle>>
  <2>1. scrub'.kept \subseteq scrub.kept /\ pc' \notin ScrubPcs
    BY <1>4 DEF NoScrub, ScrubPcs
  <2> QED
    BY <1>1, <1>2, <1>4, <2>1, ScrubStep
<1> QED
  BY <1>3, <1>4, RewriteHistoryIs

(* The answer: when it is Ok, nothing of him is left but what could not be     *)
(* read.                                                                       *)
LEMMA RestForget ==
  ASSUME Typed, ForgetOK, ScrubRest
  PROVE  ForgetOK'
<1>1. /\ pc = "history" /\ pc \in ScrubPcs /\ pc' = "top" /\ pc' \notin ScrubPcs
      /\ UNCHANGED <<inbox, acked, asked>> /\ scrub.todo = {} /\ scrub' = NoScrub
      /\ unread \subseteq unread'
      /\ \A f \in FileNames : files'[f] \subseteq files[f]
  BY ScrubRestIs DEF ScrubPcs
<1>2. OneDrop'
  BY <1>1 DEF ForgetOK, OneDrop
<1>3. scrub'.kept = {}
  BY <1>1 DEF NoScrub
<1>4. CASE done' = done
  BY <1>1, <1>2, <1>3, <1>4, ScrubStep
<1>5. CASE /\ scrub.removed
           /\ done' = [done EXCEPT ![scrub.who] = asked[scrub.who]]
           /\ \A f \in FileNames :
                 f[1] \in {"decisions", "pending", "archive", "index"} =>
                     files'[f] \cap MarksOf(scrub.who) \subseteq unread'
  <2>1. ASSUME NEW p \in Players PROVE PlayerOK(p)'
    <3>1. PlayerOK(p) /\ asked[p] \in 0..1 /\ done \in [Players -> 0..1]
      BY CountsAre DEF ForgetOK
    <3>2. CASE p # scrub.who
      <4>1. done'[p] = done[p]
        BY <1>5, <3>1, <3>2
      <4>2. Cleared(p)'
        BY <1>1, <1>3, <3>1, <4>1, ClearedStill DEF PlayerOK
      <4> QED
        BY <1>1, <3>1, <4>1, <4>2 DEF PlayerOK
    <3>3. CASE p = scrub.who
      <4>1. Underway(p)
        BY <1>1, <3>1, <3>3 DEF PlayerOK
      <4>2. done'[p] = asked'[p] /\ asked'[p] = 1
        BY <1>1, <1>5, <3>1, <3>3, <4>1 DEF Underway
      <4>3. NoLine(p)'
        BY <1>1, <4>1 DEF Underway, NoLine
      <4>4. ASSUME Old(p) \notin unread', NEW f \in FileNames PROVE Old(p) \notin files'[f]
        <5>1. Old(p) \notin unread /\ files'[f] \subseteq files[f]
          BY <1>1, <4>4
        <5>2. CASE f[1] \in {"decisions", "pending", "archive", "index"}
          BY <1>5, <3>3, <4>4, <5>2, OldIs
        <5>3. CASE f = PlayerFile
          BY <1>5, <4>1, <5>1, <5>3 DEF Underway
        <5>4. ASSUME NEW d \in Days, f = History(d) PROVE Old(p) \notin files'[f]
          BY <1>1, <4>1, <5>1, <5>4 DEF Underway, Remaining
        <5> QED
          BY <5>2, <5>3, <5>4, NamesSplit
      <4>5. Cleared(p)'
        BY <1>3, <4>3, <4>4 DEF Cleared
      <4>6. done'[p] <= asked'[p]
        BY <4>2
      <4> QED
        BY <1>1, <4>5, <4>6 DEF PlayerOK
    <3> QED
      BY <3>2, <3>3
  <2> QED
    BY <1>2, <2>1 DEF ForgetOK
<1> QED
  BY <1>4, <1>5, ScrubRestIs

(* A line that is heard: of a player who has asked, it has the new mark.       *)
LEMMA HeardForget ==
  ASSUME Typed, ForgetOK, NEW q \in Senders, Heard(q)
  PROVE  ForgetOK'
<1>1. /\ UNCHANGED <<files, asked, pc, acked, scrub, done, unread>>
      /\ inbox' = Enqueued(About(q))
  BY HeardIs
<1>2. OneDrop'
  <2>1. ASSUME NEW i \in DOMAIN inbox', inbox'[i] = DropCacheAndAck
        PROVE  i \in DOMAIN inbox /\ inbox[i] = DropCacheAndAck
    BY <1>1, <2>1, EnqueuedAt
  <2> QED
    BY <1>1, <2>1 DEF ForgetOK, OneDrop
<1>3. ASSUME NEW p \in Players PROVE PlayerOK(p)'
  <2>1. PlayerOK(p) /\ asked[p] \in 0..1 /\ done[p] \in 0..1 /\ asked \in [Players -> 0..1]
    BY CountsAre DEF ForgetOK
  <2>2. ASSUME asked[p] = 1, NoLine(p) PROVE NoLine(p)'
    BY <1>1, <2>1, <2>2, OldIs, EnqueuedAt DEF NoLine
  <2>3. ASSUME asked[p] = 1, NoneBehind(p) PROVE NoneBehind(p)'
    <3>1. ASSUME NEW i \in DOMAIN inbox', NEW j \in DOMAIN inbox',
                 inbox'[i] = DropCacheAndAck, i < j
          PROVE  Old(p) \notin inbox'[j].about
      <4>1. i \in DOMAIN inbox /\ inbox[i] = DropCacheAndAck
        BY <1>1, <3>1, EnqueuedAt
      <4>2. CASE j \in DOMAIN inbox /\ inbox'[j] = inbox[j]
        BY <2>3, <3>1, <4>1, <4>2 DEF NoneBehind
      <4>3. CASE inbox'[j].about = About(q)
        BY <2>1, <2>3, <4>3, OldIs
      <4> QED
        BY <1>1, <4>2, <4>3, EnqueuedAt
    <3> QED
      BY <3>1 DEF NoneBehind
  <2>4. Cleared(p)'
    <3>1. done[p] = 1 => asked[p] = 1
      BY <2>1 DEF PlayerOK
    <3> QED
      BY <1>1, <2>1, <2>2, <3>1 DEF PlayerOK, Cleared
  <2>5. ASSUME scrub.who = p, pc \in ScrubPcs PROVE Underway(p)'
    <3>1. Underway(p)
      BY <2>1, <2>5 DEF PlayerOK
    <3>2. pc \in {"history", "rename", "reannounce", "rewait"} => Remaining(p)'
      BY <1>1, <3>1 DEF Underway, Remaining
    <3> QED
      BY <1>1, <2>2, <2>3, <3>1, <3>2 DEF Underway
  <2> QED
    BY <1>1, <2>1, <2>4, <2>5 DEF PlayerOK
<1> QED
  BY <1>2, <1>3 DEF ForgetOK

(* The writer takes the first item: a line goes to its day's file, the         *)
(* question is answered, and what was behind it stays free of his lines.       *)
LEMMA WriterForget ==
  ASSUME Typed, ForgetOK, Writer
  PROVE  ForgetOK'
<1>1. /\ UNCHANGED <<asked, pc, scrub, done, unread>>
      /\ inbox # <<>> /\ inbox' = Tail(inbox) /\ acked' \in BOOLEAN
      /\ \A f \in FileNames : files'[f] \subseteq files[f] \cup Head(inbox).about
      /\ \A f \in FileNames : files'[f] # files[f] => f[1] = "history"
  BY WriterIs
<1>2. Head(inbox) = inbox[1] /\ 1 \in DOMAIN inbox
  BY <1>1, TypedIs, InboxIs
<1>3. CASE inbox[1] = DropCacheAndAck
  <2>1. pc \in {"wait", "rewait"} /\ acked = FALSE
    BY <1>2, <1>3 DEF ForgetOK, OneDrop
  <2>2. inbox[1].kind = "drop"
    BY <1>3 DEF DropCacheAndAck
  <2>3. acked' = TRUE /\ UNCHANGED files
    BY <1>2, <2>2, WriterIs
  <2>4. ASSUME NEW i \in DOMAIN inbox' PROVE inbox'[i] # DropCacheAndAck
    BY <1>1, <1>2, <1>3, TailAt DEF ForgetOK, OneDrop
  <2>5. OneDrop'
    BY <2>4 DEF OneDrop
  <2>6. ASSUME NEW p \in Players PROVE PlayerOK(p)'
    <3>1. PlayerOK(p)
      BY DEF ForgetOK
    <3>2. ASSUME NoLine(p) PROVE NoLine(p)'
      BY <1>1, <3>2, TailAt DEF NoLine
    <3>3. ASSUME NoneBehind(p) PROVE NoLine(p)'
      <4>1. ASSUME NEW i \in DOMAIN inbox' PROVE Old(p) \notin inbox'[i].about
        <5>1. i + 1 \in DOMAIN inbox /\ 1 < i + 1 /\ inbox'[i] = inbox[i + 1]
          BY <1>1, TailAt
        <5> QED
          BY <1>2, <1>3, <3>3, <5>1 DEF NoneBehind
      <4> QED
        BY <4>1 DEF NoLine
    <3>4. Cleared(p)'
      BY <1>1, <2>3, <3>1, <3>2 DEF PlayerOK, Cleared
    <3>5. ASSUME scrub.who = p, pc \in ScrubPcs PROVE Underway(p)'
      <4>1. Underway(p)
        BY <3>1, <3>5 DEF PlayerOK
      <4>2. NoLine(p)'
        BY <2>1, <3>2, <3>3, <4>1 DEF Underway
      <4>3. pc \in {"history", "rename", "reannounce", "rewait"} => Remaining(p)'
        BY <1>1, <2>3, <4>1 DEF Underway, Remaining
      <4>4. (pc' = "wait" /\ acked' = FALSE) => NoneBehind(p)'
        BY <2>3
      <4> QED
        BY <1>1, <2>3, <4>1, <4>2, <4>3, <4>4 DEF Underway
    <3> QED
      BY <1>1, <3>1, <3>4, <3>5 DEF PlayerOK
  <2> QED
    BY <2>5, <2>6 DEF ForgetOK
<1>4. CASE inbox[1] # DropCacheAndAck
  <2>1. UNCHANGED acked
    BY <1>2, <1>4, WriterIs
  <2>2. OneDrop'
    <3>1. ASSUME NEW i \in DOMAIN inbox', inbox'[i] = DropCacheAndAck
          PROVE  i \in Nat /\ i + 1 \in DOMAIN inbox /\ inbox[i + 1] = DropCacheAndAck
      BY <1>1, <3>1, TailAt
    <3>2. ASSUME NEW i \in DOMAIN inbox', NEW j \in DOMAIN inbox',
                 inbox'[i] = DropCacheAndAck, inbox'[j] = DropCacheAndAck
          PROVE  i = j
      <4>1. i + 1 = j + 1 /\ i \in Nat /\ j \in Nat
        BY <3>1, <3>2 DEF ForgetOK, OneDrop
      <4> QED
        BY <4>1
    <3> QED
      BY <1>1, <2>1, <3>1, <3>2 DEF ForgetOK, OneDrop
  <2>3. ASSUME NEW p \in Players PROVE PlayerOK(p)'
    <3>1. PlayerOK(p)
      BY DEF ForgetOK
    <3>2. ASSUME NoLine(p) PROVE NoLine(p)' /\ Old(p) \notin Head(inbox).about
      BY <1>1, <1>2, <3>2, TailAt DEF NoLine
    <3>3. ASSUME NoneBehind(p) PROVE NoneBehind(p)'
      <4>1. ASSUME NEW i \in DOMAIN inbox', NEW j \in DOMAIN inbox',
                   inbox'[i] = DropCacheAndAck, i < j
            PROVE  Old(p) \notin inbox'[j].about
        <5>1. /\ i + 1 \in DOMAIN inbox /\ inbox'[i] = inbox[i + 1] /\ i \in Nat
              /\ j + 1 \in DOMAIN inbox /\ inbox'[j] = inbox[j + 1] /\ j \in Nat
          BY <1>1, TailAt
        <5>2. i + 1 < j + 1
          BY <4>1, <5>1
        <5> QED
          BY <3>3, <4>1, <5>1, <5>2 DEF NoneBehind
      <4> QED
        BY <4>1 DEF NoneBehind
    <3>4. Cleared(p)'
      <4>1. ASSUME done[p] = 1, Old(p) \notin unread
            PROVE  /\ \A f \in FileNames : Old(p) \notin files'[f]
                   /\ NoLine(p)' /\ Old(p) \notin scrub.kept
        BY <1>1, <3>1, <3>2, <4>1 DEF PlayerOK, Cleared
      <4> QED
        BY <1>1, <4>1 DEF Cleared
    <3>5. ASSUME scrub.who = p, pc \in ScrubPcs PROVE Underway(p)'
      <4>1. Underway(p)
        BY <3>1, <3>5 DEF PlayerOK
      <4>2. scrub.removed => Old(p) \notin files'[PlayerFile]
        <5>1. files'[PlayerFile] = files[PlayerFile]
          BY <1>1, ZeroIsDay, NamesAre, NamesDiffer
        <5> QED
          BY <4>1, <5>1 DEF Underway
      <4>3. pc \in {"history", "rename", "reannounce", "rewait"} => Remaining(p)'
        <5>1. ASSUME pc \in {"history", "rename", "reannounce", "rewait"}
              PROVE  Remaining(p)'
          <6>1. Remaining(p) /\ NoLine(p)
            BY <4>1, <5>1 DEF Underway
          <6>2. ASSUME NEW d \in Days, Old(p) \in files'[History(d)]
                PROVE  Old(p) \in files[History(d)]
            BY <1>1, <3>2, <6>1, <6>2, NamesAre
          <6> QED
            BY <1>1, <6>1, <6>2 DEF Remaining
        <5> QED
          BY <5>1
      <4> QED
        BY <1>1, <2>1, <3>2, <3>3, <4>1, <4>2, <4>3 DEF Underway
    <3> QED
      BY <1>1, <3>1, <3>4, <3>5 DEF PlayerOK
  <2> QED
    BY <2>2, <2>3 DEF ForgetOK
<1> QED
  BY <1>3, <1>4

(* A new day, a hold that passes, a step that changes nothing.                 *)
LEMMA StillForget ==
  ASSUME ForgetOK, UNCHANGED <<inbox, acked, files, asked, pc, scrub, done, unread>>
  PROVE  ForgetOK'
BY DEF ForgetOK, OneDrop, PlayerOK, Cleared, Underway, NoLine, NoneBehind, Remaining

(* A crash: the channel is lost, the files are as they were.                   *)
LEMMA CrashForget ==
  ASSUME Typed, ForgetOK, Crash
  PROVE  ForgetOK'
<1>1. /\ UNCHANGED <<files, asked, done, unread>> /\ inbox' = <<>> /\ pc' = "stopped"
      /\ scrub' = NoScrub
  BY DEF Crash, Gone, Then
<1>2. DOMAIN inbox' = {} /\ scrub'.kept = {} /\ pc' \notin ScrubPcs
  BY <1>1 DEF NoScrub, ScrubPcs
<1> QED
  BY <1>1, <1>2 DEF ForgetOK, OneDrop, PlayerOK, Cleared, NoLine

(* At the start nobody has been forgotten. *)
LEMMA InitForget ==
  ASSUME Init
  PROVE  ForgetOK
<1>1. /\ inbox = <<>> /\ asked = [p \in Players |-> 0] /\ done = [p \in Players |-> 0]
      /\ pc = "stopped"
  BY DEF Init
<1>2. DOMAIN inbox = {} /\ pc \notin ScrubPcs
  BY <1>1 DEF ScrubPcs
<1> QED
  BY <1>1, <1>2 DEF ForgetOK, OneDrop, PlayerOK, Cleared

(* The invariant of the forgetting is kept by every step.                      *)
LEMMA NextForget ==
  ASSUME Typed, ForgetOK, [Next]_vars
  PROVE  ForgetOK'
<1>1. CASE Midnight
  BY <1>1, StillForget DEF Midnight
<1>2. CASE HoldPasses
  BY <1>2, HoldPassesIs, StillForget
<1>3. CASE UNCHANGED vars
  BY <1>3, StillForget DEF vars, fileVars, turnVars, loopVars
<1> QED
  BY <1>1, <1>2, <1>3, StepIs, CalmForget, BegunForget, AnnounceForget, AcknowledgedForget,
     ListForget, ReadForget, RewriteForget, RestForget, HeardForget, WriterForget, CrashForget

(* Once the request to forget a player has been answered Ok, no file has a     *)
(* line of his from before it, but where a file could not be read: whatever    *)
(* the writer still had in its channel, whatever turns, rotations, sweeps and  *)
(* crashes have done since, for any number of players and days.                *)
THEOREM ForgottenStaysGone == Spec => []ForgottenIsGone
<1>1. Init => Typed /\ ForgetOK
  BY InitTyped, InitForget
<1>2. (Typed /\ ForgetOK) /\ [Next]_vars => (Typed /\ ForgetOK)'
  <2> SUFFICES ASSUME Typed, ForgetOK, [Next]_vars PROVE Typed' /\ ForgetOK'
    OBVIOUS
  <2> QED
    BY NextTyped, NextForget
<1>3. Typed /\ ForgetOK => ForgottenIsGone
  <2> SUFFICES ASSUME Typed, ForgetOK, NEW p \in Players, NEW n \in 0..1,
                      n < done[p], <<p, n>> \notin unread, NEW f \in FileNames
               PROVE  <<p, n>> \notin files[f]
    BY DEF ForgottenIsGone
  <2>1. n = 0 /\ done[p] = 1
    BY CountsAre
  <2> QED
    BY <2>1 DEF ForgetOK, PlayerOK, Cleared, Old
<1> QED
  BY <1>1, <1>2, <1>3, PTL DEF Spec

-----------------------------------------------------------------------------
(* What is spent in a day.                                                     *)

\* What the calls have cost today that is in no way accounted for as lost; what
\* the meter in memory and the saved one have of today; what is still missing
\* from the meter of the task, the run under way left out.
Charged == billed - lost
Today == OnDay(cs.meter, day)
Kept == OnDay(saved.meter, day)
Missing == (Charged - Today) - turn.cost

\* The room a call finds when the caps let it in, and what a run may add to it.
Room == UsdCap - Estimate
Bound(most) == Room + (MaxIterations + 1) * most
Within(x, most) == x <= 0 \/ x <= Bound(most)

\* A turn whose composer is not running.
Idle(t) == t.cost = 0 /\ t.iter = 0 /\ t.nudged = FALSE

\* Where a turn waits after a look at the caps.
Admitting == {"classify", "resolve"}
Running == {"compose", "tools"}

\* No more is charged than is metered, and were the task to end now, with the
\* saved meter alone, the bound would hold as well.
Money(most) ==
    /\ Missing <= 0
    /\ Within(Charged, most)
    /\ Within(Missing + Kept, most)

Phase(most) ==
    /\ pc \in Admitting => (0 <= Room /\ Charged <= Room)
    /\ pc \in Running =>
          /\ 0 <= Room
          /\ Charged <= Room + turn.cost
          /\ turn.cost <= turn.iter * most
          /\ turn.iter <= MaxIterations
          /\ turn.iter = MaxIterations => turn.nudged = TRUE
    /\ pc \notin Running => Idle(turn)

\* A task that has ended has in memory what was saved.
Settled == pc \in {"stopped", "off"} => cs.meter = saved.meter

SpendOK(most) == Money(most) /\ Phase(most) /\ Settled

(* The numbers are numbers, before a step and after it.                        *)
LEMMA OnDayIs ==
  ASSUME NEW m \in Meters, NEW d
  PROVE  OnDay(m, d) \in Nat /\ Usd(m) \in Nat /\ OnDay(m, d) <= Usd(m)
BY DEF Meters, OnDay, Usd

(* A call that was admitted below the cap exceeds it by no more than the turn may still cost. *)
LEMMA RoomIs ==
  ASSUME NEW most \in Nat
  PROVE  /\ Room \in Int /\ Bound(most) \in Int /\ MaxIterations \in Nat
         /\ Room + most <= Bound(most)
         /\ \A i \in Nat, c \in Nat, x \in Int :
               (i <= MaxIterations /\ c <= i * most /\ x <= (Room + c) + most)
                   => x <= Bound(most)
<1>1. UsdCap \in Nat /\ Estimate \in Nat /\ MaxIterations \in Nat /\ 1 <= MaxIterations
  BY MeterAssumption, TurnAssumption
<1>2. Room \in Int
  BY <1>1 DEF Room
<1> DEFINE k == MaxIterations * most
<1>3. k \in Nat /\ most <= k
  BY <1>1
<1>4. (MaxIterations + 1) * most = k + most
  BY <1>1
<1>5. Bound(most) = Room + (k + most)
  BY <1>4 DEF Bound
<1>6. ASSUME NEW i \in Nat, i <= MaxIterations PROVE i * most \in Nat /\ i * most <= k
  BY <1>1, <1>6
<1>7. ASSUME NEW i \in Nat, NEW c \in Nat, NEW x \in Int,
             i <= MaxIterations, c <= i * most, x <= (Room + c) + most
      PROVE  x <= Bound(most)
  <2> DEFINE s == i * most
  <2>1. s \in Nat /\ s <= k /\ c <= s
    BY <1>6, <1>7
  <2> HIDE DEF s, k
  <2> QED
    BY <1>2, <1>3, <1>5, <1>7, <2>1
<1> HIDE DEF k
<1> QED
  BY <1>1, <1>2, <1>3, <1>5, <1>7

(* The amounts are numbers, and what is missing is what was charged less what is metered or
   on the turn's account. *)
LEMMA NumbersAre ==
  ASSUME Typed
  PROVE  /\ Charged \in Int /\ Today \in Nat /\ Kept \in Nat /\ Missing \in Int
         /\ turn.cost \in Nat /\ turn.iter \in Nat /\ turn.nudged \in BOOLEAN
         /\ Missing = (Charged - Today) - turn.cost
<1>1. billed \in Nat /\ lost \in Int /\ turn.cost \in Nat
  BY TypedIs
<1>2. Today \in Nat /\ Kept \in Nat
  BY TypedIs, OnDayIs DEF Today, Kept
<1>3. Charged \in Int
  BY <1>1 DEF Charged
<1>4. turn.iter \in Nat /\ turn.nudged \in BOOLEAN
  BY TypedIs DEF Turning
<1> QED
  BY <1>1, <1>2, <1>3, <1>4 DEF Missing

(* The same of the next state. *)
LEMMA NumbersNext ==
  ASSUME Typed'
  PROVE  /\ Charged' \in Int /\ Today' \in Nat /\ Kept' \in Nat /\ Missing' \in Int
         /\ turn'.cost \in Nat
         /\ Missing' = (Charged' - Today') - turn'.cost
<1>1. /\ billed' \in Nat /\ lost' \in Int /\ turn' \in Turning
      /\ cs' \in ChatStates /\ saved' \in ChatStates
  BY DEF Typed, TaskOK
<1>2. turn'.cost \in Nat
  BY <1>1 DEF Turning
<1>3. cs'.meter \in Meters /\ saved'.meter \in Meters
  BY <1>1, StateIs
<1>4. Today' \in Nat /\ Kept' \in Nat
  BY <1>3, OnDayIs DEF Today, Kept
<1>5. Charged' \in Int
  BY <1>1 DEF Charged
<1> QED
  BY <1>2, <1>4, <1>5 DEF Missing

(* An amount below one that is within the bound is within it. *)
LEMMA WithinLess ==
  ASSUME NEW most \in Nat, NEW x \in Int, NEW y \in Int, x <= y, Within(y, most)
  PROVE  Within(x, most)
BY RoomIs DEF Within

(* A step that adds nothing to what is missing keeps the bounds, when it keeps *)
(* the one on what is charged and saves nothing or all.                        *)
LEMMA MoneyStep ==
  ASSUME Typed, Typed', NEW most \in Nat, Money(most), Missing' <= Missing,
         Within(Charged', most), Kept' = Kept \/ Kept' = Today'
  PROVE  Money(most)'
<1>1. Missing' \in Int /\ Missing \in Int /\ Kept \in Nat /\ Kept' \in Nat
  BY NumbersAre, NumbersNext
<1>2. Missing' <= 0
  BY <1>1 DEF Money
<1>3. Within(Missing' + Kept', most)
  <2>1. CASE Kept' = Kept
    <3>1. Missing' + Kept' <= Missing + Kept
      <4>1. \A a, b, c \in Int : a <= b => a + c <= b + c
        OBVIOUS
      <4>2. Missing' + Kept <= Missing + Kept
        <5>1. Missing' \in Int /\ Missing \in Int /\ Kept \in Int /\ Missing' <= Missing
          BY <1>1
        <5> QED
          BY ONLY <4>1, <5>1
      <4> QED
        BY <2>1, <4>2
    <3>2. Missing' + Kept' \in Int /\ Missing + Kept \in Int
      BY <1>1
    <3> QED
      BY <3>1, <3>2, WithinLess DEF Money
  <2>2. CASE Kept' = Today'
    <3>1. Missing' + Kept' <= Charged'
      BY <2>2, NumbersNext
    <3>2. Missing' + Kept' \in Int /\ Charged' \in Int
      BY <1>1, NumbersNext
    <3> QED
      BY <3>1, <3>2, WithinLess
  <2> QED
    BY <2>1, <2>2
<1> QED
  BY <1>2, <1>3 DEF Money, Within, Bound, Room

(* Where nothing is charged and no run is under way.                           *)
LEMMA QuietSpend ==
  ASSUME Typed, Typed', NEW most \in Nat, SpendOK(most),
         UNCHANGED <<day, billed, lost>>,
         pc \notin Running, pc' \notin Running, pc' \notin Admitting,
         turn' = turn \/ turn' = NoTurn \/ Idle(turn'),
         Today <= Today',
         saved' = saved \/ saved' = cs',
         pc' \in {"stopped", "off"} => cs'.meter = saved'.meter
  PROVE  SpendOK(most)'
<1>1. Idle(turn) /\ Idle(NoTurn)
  <2>1. NoTurn.nudged = FALSE
    BY DEF NoTurn
  <2> QED
    BY <2>1, NoTurnIs DEF SpendOK, Phase, Idle
<1>2. Idle(turn')
  BY <1>1
<1>3. turn.cost = 0 /\ turn'.cost = 0
  BY <1>1, <1>2 DEF Idle
<1>4. Charged' = Charged
  BY DEF Charged
<1>5. Missing' <= Missing
  BY <1>3, <1>4, NumbersAre, NumbersNext
<1>6. Kept' = Kept \/ Kept' = Today'
  BY DEF Kept, Today
<1>7. Money(most)'
  BY <1>4, <1>5, <1>6, MoneyStep DEF SpendOK, Money
<1>8. Phase(most)'
  BY <1>2 DEF Phase
<1> QED
  BY <1>7, <1>8 DEF SpendOK, Settled

(* Where the money, the turn and the place are left alone.                     *)
LEMMA StillSpend ==
  ASSUME NEW most, SpendOK(most), UNCHANGED <<day, billed, lost, turn, pc>>,
         cs'.meter = cs.meter, saved'.meter = saved.meter
  PROVE  SpendOK(most)'
BY DEF SpendOK, Money, Phase, Settled, Charged, Missing, Today, Kept, OnDay, Usd, Within, Bound,
       Room, Idle

(* What the meter of today has is kept by rolling it and by setting flags.     *)
LEMMA TodayIs ==
  ASSUME Typed, UNCHANGED day, cs'.meter = cs.meter \/ cs'.meter = RolledState.meter
  PROVE  Today' = Today /\ Today <= Today'
<1>1. Today' = Today
  BY RolledIs DEF Today, OnDay, Usd
<1> QED
  BY <1>1, NumbersAre

(* The loop.                                                                   *)
LEMMA RolledFlags ==
  ASSUME Typed, NEW b \in BOOLEAN, NEW h \in SUBSET Holds
  PROVE  /\ [RolledState EXCEPT !.paused = b].meter = RolledState.meter
         /\ [RolledState EXCEPT !.dry = b].meter = RolledState.meter
         /\ [RolledState EXCEPT !.held = h].meter = RolledState.meter
         /\ [RolledState EXCEPT !.known = b, !.swept = day].meter = RolledState.meter
BY RolledIs DEF ChatStates

(* The steps of the loop move no money but the cost of the turn into the meter. *)
LEMMA LoopSpend ==
  ASSUME Typed, Typed', NEW most \in Nat, SpendOK(most),
         \/ LoopHead \/ LagTold \/ ReflectionDue \/ PauseSeen \/ BacklogDone \/ TickPasses
         \/ TickDone \/ TurnEnded \/ NextOfBacklog
         \/ \E named \in BOOLEAN : EventTaken(named)
  PROVE  SpendOK(most)'
<1>1. UNCHANGED <<day, billed, lost>>
  BY DEF LoopHead, LagTold, ReflectionDue, PauseSeen, BacklogDone, TickPasses, TickDone,
         TurnEnded, NextOfBacklog, EventTaken, fileVars
<1>2. /\ pc \in {"top", "idle", "taken", "reflected", "next", "ticked", "after"}
      /\ pc' \in {"idle", "top", "reflecting", "reflected", "screen", "next", "taken"}
  BY DEF LoopHead, LagTold, ReflectionDue, PauseSeen, BacklogDone, TickPasses, TickDone,
         TurnEnded, NextOfBacklog, EventTaken, ToTop, Then
<1>3. turn' = turn \/ turn' = NoTurn \/ Idle(turn')
  <2>1. CASE NextOfBacklog
    <3>1. turn' = [NoTurn EXCEPT !.who = Head(backlog), !.mode = "backlog"]
      BY <2>1 DEF NextOfBacklog
    <3> QED
      BY <3>1 DEF NoTurn, Idle
  <2>2. ASSUME NEW named \in BOOLEAN, EventTaken(named) PROVE Idle(turn')
    <3>1. turn' = [NoTurn EXCEPT !.who = Head(bus), !.mode = "live"]
      BY <2>2 DEF EventTaken
    <3> QED
      BY <3>1 DEF NoTurn, Idle
  <2> QED
    BY <2>1, <2>2 DEF LoopHead, LagTold, ReflectionDue, PauseSeen, BacklogDone, TickPasses,
                      TickDone, TurnEnded
<1>4. cs'.meter = cs.meter \/ cs'.meter = RolledState.meter
  <2>1. ASSUME NEW named \in BOOLEAN, EventTaken(named) PROVE cs'.meter = RolledState.meter
    BY <2>1, RolledFlags DEF EventTaken
  <2> QED
    BY <2>1 DEF LoopHead, LagTold, ReflectionDue, PauseSeen, BacklogDone, TickPasses, TickDone,
                TurnEnded, NextOfBacklog
<1>5. saved' = saved \/ saved' = cs'
  BY DEF LoopHead, LagTold, ReflectionDue, PauseSeen, BacklogDone, TickPasses, TickDone,
         TurnEnded, NextOfBacklog, EventTaken, Save, loopVars
<1>6. /\ pc \notin Running /\ pc' \notin Running /\ pc' \notin Admitting
      /\ pc' \notin {"stopped", "off"}
  BY <1>2 DEF Running, Admitting
<1> QED
  BY <1>1, <1>3, <1>4, <1>5, <1>6, TodayIs, QuietSpend

(* A reflection is metered and not held to the caps. *)
LEMMA ReflectionSpend ==
  ASSUME Typed, Typed', NEW most \in Nat, SpendOK(most), ReflectionEnds
  PROVE  SpendOK(most)'
<1>1. /\ UNCHANGED <<day, billed, lost, turn>>
      /\ pc = "reflecting" /\ pc' \in {"reflected", "top"}
  BY DEF ReflectionEnds, Then
<1>2. Today <= Today'
  <2>1. ASSUME NEW cost \in Costs,
               cs' = [cs EXCEPT !.meter = RecordClassifier(@, day, day, cost)]
        PROVE  Today <= Today'
    <3>1. cost \in Nat
      BY CostsAre
    <3>2. /\ RecordClassifier(cs.meter, day, day, cost) \in Meters
          /\ RecordClassifier(cs.meter, day, day, cost).day = day
          /\ Usd(RecordClassifier(cs.meter, day, day, cost)) = Today + cost
      BY <3>1, TypedIs, RecordIs DEF Today
    <3>3. cs'.meter = RecordClassifier(cs.meter, day, day, cost)
      BY <2>1, <3>2, TypedIs, StateMeter
    <3>4. Today' = Usd(cs'.meter)
      BY <1>1, <3>2, <3>3 DEF Today, OnDay, Usd
    <3>5. Today' = Today + cost
      BY <3>2, <3>3, <3>4
    <3> QED
      BY <3>1, <3>5, NumbersAre
  <2>2. CASE UNCHANGED cs
    BY <1>1, <2>2, TodayIs
  <2> QED
    BY <2>1, <2>2 DEF ReflectionEnds
<1>3. saved' = saved \/ saved' = cs'
  BY DEF ReflectionEnds, Save
<1>4. /\ pc \notin Running /\ pc' \notin Running /\ pc' \notin Admitting
      /\ pc' \notin {"stopped", "off"}
  BY <1>1 DEF Running, Admitting
<1> QED
  BY <1>1, <1>2, <1>3, <1>4, QuietSpend

\* The caps let a call in: today's sum is within the room, which is not empty.
LEMMA AllowedIs ==
  ASSUME Typed, NEW m \in Meters, OnDay(m, day) = Today,
         ComposerAllowed(m) \/ ClassifierAllowed(m)
  PROVE  0 <= Room /\ Today <= Room
<1>1. Usd(m) \in Nat /\ Today <= Usd(m) /\ UsdCap \in Nat /\ Estimate \in Nat
  BY OnDayIs, MeterAssumption
<1>2. Usd(m) + Estimate <= UsdCap
  BY DEF ComposerAllowed, ClassifierAllowed
<1>3. Today \in Nat
  BY NumbersAre
<1> QED
  BY <1>1, <1>2, <1>3 DEF Room

(* With nothing missing but the run under way, what is charged is within what  *)
(* today's meter and the run have.                                             *)
LEMMA ChargedIs ==
  ASSUME Typed, NEW most \in Nat, SpendOK(most)
  PROVE  Charged <= Today + turn.cost
BY NumbersAre DEF SpendOK, Money

(* A turn of the bot's own is admitted like one that answers a line. *)
LEMMA TickFiresSpend ==
  ASSUME Typed, Typed', NEW most \in Nat, SpendOK(most), NEW p \in Players, TickFires(p)
  PROVE  SpendOK(most)'
<1>1. /\ UNCHANGED <<day, billed, lost, saved>> /\ cs' = RolledState
      /\ pc = "idle" /\ pc \notin Running
  BY DEF TickFires, Running
<1>2. CASE ~ComposerAllowed(RolledState.meter)
  <2>1. pc' = "ticked" /\ turn' = NoTurn
    BY <1>2 DEF TickFires, Then
  <2>2. /\ pc' \notin Running /\ pc' \notin Admitting /\ pc' \notin {"stopped", "off"}
    BY <2>1 DEF Running, Admitting
  <2> QED
    BY <1>1, <2>1, <2>2, TodayIs, QuietSpend
<1>3. CASE ComposerAllowed(RolledState.meter)
  <2>1. pc' = "resolve" /\ turn' = [NoTurn EXCEPT !.who = p, !.mode = "proactive"]
    BY <1>3 DEF TickFires, Then
  <2>2. Idle(turn') /\ turn'.cost = 0
    BY <2>1 DEF NoTurn, Idle
  <2>3. Idle(turn) /\ turn.cost = 0
    BY <1>1 DEF SpendOK, Phase, Idle
  <2>4. OnDay(RolledState.meter, day) = Today
    BY RolledIs DEF Today, OnDay
  <2>5. 0 <= Room /\ Today <= Room
    BY <1>3, <2>4, RolledIs, AllowedIs
  <2>6. Charged <= Room
    <3>1. Room \in Int
      BY RoomIs
    <3> QED
      BY <2>3, <2>5, <3>1, ChargedIs, NumbersAre
  <2>7. Today' = Today /\ Charged' = Charged
    BY <1>1, TodayIs DEF Charged
  <2>8. Missing' <= Missing
    BY <2>2, <2>3, <2>7, NumbersAre, NumbersNext
  <2>9. Kept' = Kept
    BY <1>1 DEF Kept
  <2>10. Money(most)'
    BY <2>7, <2>8, <2>9, MoneyStep DEF SpendOK, Money
  <2>11. Phase(most)'
    <3>1. 0 <= Room' /\ Charged' <= Room'
      BY <2>5, <2>6, <2>7 DEF Room
    <3> QED
      BY <2>1, <2>2, <3>1 DEF Phase, Running, Admitting
  <2>12. Settled'
    BY <2>1 DEF Settled
  <2> QED
    BY <2>10, <2>11, <2>12 DEF SpendOK
<1> QED
  BY <1>2, <1>3

(* A task that ends without a save: what its meter had over the saved one, and *)
(* its run, is lost.                                                           *)
LEMMA EndedSpend ==
  ASSUME Typed, Typed', NEW most \in Nat, SpendOK(most), UNCHANGED <<day, billed, saved>>,
         cs' = saved, turn' = NoTurn, lost' = (lost + Unsaved) + turn.cost,
         pc' \in {"stopped", "off"}
  PROVE  SpendOK(most)'
<1>1. turn'.cost = 0 /\ Idle(turn')
  <2>1. NoTurn.nudged = FALSE
    BY DEF NoTurn
  <2> QED
    BY <2>1, NoTurnIs DEF Idle
<1>2. Today' = Kept /\ Kept' = Kept
  BY DEF Today, Kept
<1>3. Unsaved = Today - Kept
  BY UnsavedIs DEF Today, Kept
<1>4. Charged' = Missing + Kept
  <2>1. billed \in Nat /\ lost \in Int
    BY TypedIs
  <2>2. Charged' = billed - lost'
    BY DEF Charged
  <2> QED
    BY <1>3, <2>1, <2>2, NumbersAre DEF Charged
<1>5. Missing' <= Missing
  BY <1>1, <1>2, <1>4, NumbersAre, NumbersNext
<1>6. Money(most)'
  BY <1>2, <1>4, <1>5, MoneyStep DEF SpendOK, Money
<1>7. Phase(most)' /\ Settled'
  BY <1>1 DEF Phase, Settled, Running, Admitting
<1> QED
  BY <1>6, <1>7 DEF SpendOK

(* Where the task stops or crashes, what was not saved is counted as lost. *)
LEMMA StopSpend ==
  ASSUME Typed, Typed', NEW most \in Nat, SpendOK(most),
         EventsClosed \/ Crash \/ \E kind \in {"shutdown", "closed"} : Stop(kind)
  PROVE  SpendOK(most)'
<1>1. ASSUME pc = "idle", lost' = lost + Unsaved
      PROVE  lost' = (lost + Unsaved) + turn.cost
  <2>1. turn.cost = 0
    BY <1>1 DEF SpendOK, Phase, Running, Idle
  <2>2. lost \in Int /\ Unsaved \in Int
    BY TypedIs, UnsavedIs
  <2> QED
    BY <1>1, <2>1, <2>2
<1>2. CASE EventsClosed
  BY <1>1, <1>2, EndedSpend DEF EventsClosed, Gone, fileVars, Then
<1>3. CASE Crash
  <2>1. lost' = (lost + Unsaved) + turn.cost
    <3>1. lost' = lost + Unsaved + turn.cost
      BY <1>3 DEF Crash
    <3> QED
      BY <3>1, TypedIs, UnsavedIs
  <2> QED
    BY <1>3, <2>1, EndedSpend DEF Crash, Gone, Then
<1>4. ASSUME NEW kind, Stop(kind) PROVE SpendOK(most)'
  <2>1. /\ UNCHANGED <<day, billed>> /\ pc = "idle" /\ pc' = "off" /\ turn' = NoTurn
        /\ cs' = saved'
    BY <1>4 DEF Stop, Then
  <2>2. CASE UNCHANGED saved /\ lost' = lost + Unsaved
    BY <1>1, <2>1, <2>2, EndedSpend
  <2>3. CASE saved' = cs /\ UNCHANGED lost
    <3>1. Today <= Today'
      BY <2>1, <2>3, TodayIs
    <3>2. pc \notin Running /\ pc' \notin Running /\ pc' \notin Admitting
      BY <2>1 DEF Running, Admitting
    <3> QED
      BY <2>1, <2>3, <3>1, <3>2, QuietSpend
  <2> QED
    BY <1>4, <2>2, <2>3 DEF Stop
<1> QED
  BY <1>2, <1>3, <1>4

(* The commands, those of a forgetting among them.                             *)
LEMMA CommandSpend ==
  ASSUME Typed, Typed', NEW most \in Nat, SpendOK(most),
         \/ Status(NoOne) \/ SetPaused(NoOne) \/ SetDryRun(NoOne)
         \/ ClearModerationBackoff(NoOne) \/ RunRetentionSweep(NoOne) \/ RunReflection(NoOne)
         \/ BotDisconnected(NoOne) \/ RegeneratePersona(NoOne) \/ PersonaGenerated
         \/ \E p \in Players : \/ ResetPlayerMemory(p) \/ SetOperatorTrust(p)
                                \/ ForgetPlayer(p) \/ ForgetUnresolved(p)
  PROVE  SpendOK(most)'
<1>1. /\ UNCHANGED <<day, billed, lost, turn>>
      /\ pc \in {"idle", "persona"} /\ pc' \in {"top", "reflecting", "persona", "announce"}
  BY DEF Status, SetPaused, SetDryRun, ClearModerationBackoff, RunRetentionSweep, RunReflection,
         BotDisconnected, RegeneratePersona, PersonaGenerated, ResetPlayerMemory,
         SetOperatorTrust, ForgetPlayer, ForgetUnresolved, SetState, Taken, ToTop, Then, fileVars
<1>2. cs'.meter = cs.meter \/ cs'.meter = RolledState.meter
  <2>1. CASE SetPaused(NoOne)
    BY <2>1, RolledFlags DEF SetPaused, SetState
  <2>2. CASE SetDryRun(NoOne)
    BY <2>2, RolledFlags DEF SetDryRun, SetState
  <2>3. CASE ClearModerationBackoff(NoOne)
    <3>1. RolledState.held \ {"moderation"} \in SUBSET Holds
      BY RolledIs, StateIs
    <3> QED
      BY <2>3, <3>1, RolledFlags DEF ClearModerationBackoff, SetState
  <2>4. CASE RunRetentionSweep(NoOne)
    <3>1. cs' = [cs EXCEPT !.swept = day] /\ day \in Days /\ cs \in ChatStates
      BY <2>4, TypedIs DEF RunRetentionSweep
    <3> QED
      BY <3>1, StateSwept
  <2> QED
    BY <2>1, <2>2, <2>3, <2>4
       DEF Status, RunReflection, BotDisconnected, RegeneratePersona, PersonaGenerated,
           ResetPlayerMemory, SetOperatorTrust, ForgetPlayer, ForgetUnresolved
<1>3. saved' = saved \/ saved' = cs'
  BY DEF Status, SetPaused, SetDryRun, ClearModerationBackoff, RunRetentionSweep, RunReflection,
         BotDisconnected, RegeneratePersona, PersonaGenerated, ResetPlayerMemory,
         SetOperatorTrust, ForgetPlayer, ForgetUnresolved, SetState, Save
<1>4. /\ pc \notin Running /\ pc' \notin Running /\ pc' \notin Admitting
      /\ pc' \notin {"stopped", "off"}
  BY <1>1 DEF Running, Admitting
<1> QED
  BY <1>1, <1>2, <1>3, <1>4, TodayIs, QuietSpend

(* Forgetting a player costs nothing. *)
LEMMA ScrubSpend ==
  ASSUME Typed, Typed', NEW most \in Nat, SpendOK(most), Forgetting
  PROVE  SpendOK(most)'
<1>1. UNCHANGED <<day, billed, lost, turn, cs>>
  BY DEF Forgetting, Announce, Acknowledged, ListHistory, ReadHistory, RewriteHistory, ScrubRest,
         scrubStill
<1>2. pc \in ScrubPcs /\ pc' \in ScrubPcs \cup {"top"}
  BY DEF Forgetting, Announce, Acknowledged, ListHistory, ReadHistory, RewriteHistory, ScrubRest,
         ForgetFails, ToTop, Then, ScrubPcs
<1>3. saved' = saved \/ saved' = cs'
  BY DEF Forgetting, Announce, Acknowledged, ListHistory, ReadHistory, RewriteHistory, ScrubRest,
         scrubStill
<1>4. /\ pc \notin Running /\ pc' \notin Running /\ pc' \notin Admitting
      /\ pc' \notin {"stopped", "off"}
  BY <1>2 DEF Running, Admitting, ScrubPcs
<1> QED
  BY <1>1, <1>3, <1>4, TodayIs, QuietSpend

(* A start: with the saved state, or, where that cannot be read, with none.    *)
LEMMA StartSpend ==
  ASSUME Typed, Typed', NEW most \in Nat, SpendOK(most), Start
  PROVE  SpendOK(most)'
<1>1. /\ UNCHANGED <<day, billed, turn, saved>> /\ pc = "stopped" /\ pc' \in {"top", "off"}
      /\ pc \notin Running /\ pc' \notin Running /\ pc' \notin Admitting
      /\ cs.meter = saved.meter
  BY DEF Start, Then, Running, Admitting, SpendOK, Settled
<1>2. day \in Days /\ saved \in ChatStates /\ DefaultState(day) \in ChatStates
  BY TypedIs, DefaultIs
<1>3. CASE cs' = [saved EXCEPT !.swept = day] /\ UNCHANGED lost
  <2>1. cs'.meter = saved.meter
    BY <1>2, <1>3, StateSwept
  <2> QED
    BY <1>1, <1>3, <2>1, TodayIs, QuietSpend
<1>4. CASE UNCHANGED <<cs, lost>>
  BY <1>1, <1>4, TodayIs, QuietSpend
<1>5. CASE /\ cs' = [DefaultState(day) EXCEPT !.swept = day] /\ pc' = "top"
           /\ lost' = lost + (IF saved.meter.day = day THEN Usd(saved.meter) ELSE 0)
  <2>1. cs'.meter = FreshMeter(day)
    BY <1>2, <1>5, DefaultIs, StateSwept
  <2>2. Today' = 0
    BY <1>1, <1>2, <2>1, FreshIs DEF Today, OnDay, Usd
  <2>3. Today = Kept /\ Kept' = Kept
    BY <1>1 DEF Today, Kept
  <2>4. Idle(turn) /\ turn'.cost = 0 /\ turn.cost = 0
    BY <1>1 DEF SpendOK, Phase, Idle
  <2>5. Charged' = Charged - Kept
    <3>1. billed \in Nat /\ lost \in Int
      BY TypedIs
    <3>2. lost' = lost + Kept
      BY <1>5 DEF Kept, OnDay
    <3>3. Charged' = billed - lost'
      BY <1>1 DEF Charged
    <3> QED
      BY <3>1, <3>2, <3>3, NumbersAre DEF Charged
  <2>6. Missing' <= Missing
    BY <2>2, <2>3, <2>4, <2>5, NumbersAre, NumbersNext
  <2>7. Within(Charged', most)
    <3>1. Charged' <= Charged
      BY <2>5, NumbersAre
    <3> QED
      BY <3>1, NumbersAre, NumbersNext, WithinLess DEF SpendOK, Money
  <2>8. Money(most)'
    BY <2>3, <2>6, <2>7, MoneyStep DEF SpendOK
  <2>9. Phase(most)' /\ Settled'
    BY <1>1, <1>5, <2>4 DEF Phase, Settled
  <2> QED
    BY <2>8, <2>9 DEF SpendOK
<1> QED
  BY <1>3, <1>4, <1>5 DEF Start, Then

(* A new day: nothing is charged, and today's meters are empty.                *)
LEMMA MidnightSpend ==
  ASSUME Typed, Typed', NEW most \in Nat, SpendOK(most), Midnight
  PROVE  SpendOK(most)'
<1>1. /\ UNCHANGED <<pc, turn, cs, saved>> /\ day' = day + 1 /\ billed' = 0 /\ lost' = 0
  BY DEF Midnight
<1>2. Charged' = 0
  BY <1>1 DEF Charged
<1>3. Today' = 0 /\ Kept' = 0
  <2>1. cs.meter.day # day' /\ saved.meter.day # day'
    BY <1>1, TypedIs
  <2> QED
    BY <1>1, <2>1 DEF Today, Kept, OnDay
<1>4. Missing' = 0 - turn.cost /\ turn.cost \in Nat
  BY <1>1, <1>2, <1>3, NumbersAre, NumbersNext
<1>5. Missing' <= 0 /\ Missing' + Kept' <= 0 /\ Charged' <= 0
  BY <1>2, <1>3, <1>4
<1>6. Money(most)'
  BY <1>5 DEF Money, Within
<1>7. Phase(most)'
  <2>1. CASE pc \in Admitting
    <3>1. 0 <= Room /\ pc \notin Running /\ Idle(turn)
      BY <2>1 DEF SpendOK, Phase, Admitting, Running
    <3> QED
      BY <1>1, <1>2, <2>1, <3>1 DEF Phase, Idle, Room
  <2>2. CASE pc \in Running
    <3>1. /\ 0 <= Room /\ turn.cost <= turn.iter * most /\ turn.iter <= MaxIterations
          /\ turn.iter = MaxIterations => turn.nudged = TRUE
          /\ pc \notin Admitting
      BY <2>2 DEF SpendOK, Phase, Admitting, Running
    <3>2. Charged' <= Room + turn.cost
      <4>1. Room \in Int /\ turn.cost \in Nat
        BY NumbersAre, RoomIs
      <4>2. 0 <= Room + turn.cost
        BY <3>1, <4>1
      <4> QED
        BY <1>2, <4>2
    <3>3. pc' = pc /\ turn' = turn
      BY <1>1
    <3> QED
      BY <2>2, <3>1, <3>2, <3>3 DEF Phase, Room
  <2>3. CASE pc \notin Admitting /\ pc \notin Running
    BY <1>1, <2>3 DEF SpendOK, Phase, Idle
  <2> QED
    BY <2>1, <2>2, <2>3
<1> QED
  BY <1>1, <1>6, <1>7 DEF SpendOK, Settled

-----------------------------------------------------------------------------
(* What a turn spends.                                                         *)

\* Of a step of a turn: the day and the saved state stay, nothing more is
\* missing, and the bound is kept.
TurnSpend(most) ==
    /\ Missing' <= Missing
    /\ Within(Charged', most)
    /\ Phase(most)'
    /\ pc' \notin {"stopped", "off"}

(* An end of the turn, with nothing charged and nothing metered.               *)
LEMMA TurnEnds ==
  ASSUME Typed, Typed', NEW most \in Nat, SpendOK(most), UNCHANGED <<day, saved>>,
         cs'.meter = cs.meter, turn' = NoTurn, pc' \in Resting,
         Charged' = Charged - turn.cost
  PROVE  TurnSpend(most)
<1>1. turn'.cost = 0 /\ Idle(turn')
  <2>1. NoTurn.nudged = FALSE
    BY DEF NoTurn
  <2> QED
    BY <2>1, NoTurnIs DEF Idle
<1>2. Today' = Today
  BY DEF Today, OnDay, Usd
<1>3. Missing' <= Missing
  BY <1>1, <1>2, NumbersAre, NumbersNext
<1>4. Charged' <= Charged
  BY NumbersAre
<1>5. Within(Charged', most)
  BY <1>4, NumbersAre, NumbersNext, WithinLess DEF SpendOK, Money
<1>6. Phase(most)' /\ pc' \notin {"stopped", "off"}
  BY <1>1 DEF Phase, Resting, Running, Admitting
<1> QED
  BY <1>3, <1>5, <1>6 DEF TurnSpend

(* A step of a turn without a call.                                            *)
LEMMA TurnWaits ==
  ASSUME Typed, Typed', NEW most \in Nat, SpendOK(most),
         UNCHANGED <<day, saved, billed, lost>>,
         cs'.meter = cs.meter, turn'.cost = turn.cost, Phase(most)',
         pc' \notin {"stopped", "off"}
  PROVE  TurnSpend(most)
<1>1. Today' = Today /\ Charged' = Charged
  BY DEF Today, OnDay, Usd, Charged
<1>2. Missing' <= Missing
  BY <1>1, NumbersAre, NumbersNext
<1> QED
  BY <1>1, <1>2 DEF TurnSpend, SpendOK, Money

(* A call whose cost goes to the meter, or waits in the run for the meter.     *)
LEMMA TurnCalls ==
  ASSUME Typed, Typed', NEW most \in Nat, SpendOK(most), UNCHANGED <<day, saved>>,
         NEW cost \in Nat, cost <= most,
         Charged' = Charged + cost,
         Today' + turn'.cost = (Today + turn.cost) + cost,
         \/ 0 <= Room /\ Charged <= Room
         \/ pc \in Running,
         Phase(most)', pc' \notin {"stopped", "off"}
  PROVE  TurnSpend(most)
<1>1. Missing' <= Missing
  <2>1. \A a, b, c, d, e, f, g \in Int :
           (a = b + g /\ c + d = (e + f) + g) => ((a - c) - d = (b - e) - f)
    OBVIOUS
  <2>2. Missing' = Missing
    BY <2>1, NumbersAre, NumbersNext
  <2> QED
    BY <2>2, NumbersAre
<1>2. Charged' <= Bound(most)
  <2>1. CASE 0 <= Room /\ Charged <= Room
    <3>1. Charged' <= Room + most
      BY <2>1, RoomIs, NumbersAre
    <3> QED
      BY <3>1, RoomIs, NumbersNext
  <2>2. CASE pc \in Running
    <3>1. Charged <= Room + turn.cost /\ turn.cost <= turn.iter * most /\ turn.iter <= MaxIterations
      BY <2>2 DEF SpendOK, Phase
    <3>2. Room \in Int /\ turn.iter \in Nat /\ turn.cost \in Nat
      BY RoomIs, NumbersAre
    <3>3. Charged' <= (Room + turn.cost) + most
      BY <3>1, <3>2, NumbersAre
    <3> QED
      BY <3>1, <3>2, <3>3, RoomIs, NumbersNext
  <2> QED
    BY <2>1, <2>2
<1> QED
  BY <1>1, <1>2 DEF TurnSpend, Within

(* Where the caps are not looked at and no run is under way, and where a look  *)
(* has just found room.                                                        *)
LEMMA QuietPhase ==
  ASSUME NEW most, pc' \notin Running, Idle(turn'), pc' \notin Admitting
  PROVE  Phase(most)'
BY DEF Phase

(* What the gates on the way into a turn establish. *)
LEMMA AdmitPhase ==
  ASSUME NEW most, pc' \in Admitting, Idle(turn'), 0 <= Room, Charged' <= Room
  PROVE  Phase(most)'
BY DEF Phase, Running, Admitting, Room

(* Outside a run everything charged is in the meter. *)
LEMMA IdleIs ==
  ASSUME Typed, NEW most \in Nat, SpendOK(most), pc \notin Running
  PROVE  /\ Idle(turn) /\ turn.cost = 0 /\ Charged <= Today
         /\ Charged = Charged - turn.cost
<1>1. Idle(turn) /\ turn.cost = 0
  BY DEF SpendOK, Phase, Idle
<1>2. Charged <= Today + turn.cost
  BY ChargedIs
<1> QED
  BY <1>1, <1>2, NumbersAre

\* A decision, or none, and the turn is over, with nothing charged.
LEMMA QuietEnd ==
  ASSUME Typed, Typed', NEW most \in Nat, SpendOK(most),
         UNCHANGED <<day, saved, billed, lost>>,
         cs'.meter = cs.meter, pc \notin Running, EndWithDecision \/ TurnOver
  PROVE  TurnSpend(most)
<1>1. turn' = NoTurn /\ pc' \in Resting
  BY TypedIs, EndIs, TurnOverIs
<1>2. Charged' = Charged - turn.cost
  <2>1. Charged' = Charged
    BY DEF Charged
  <2> QED
    BY <2>1, IdleIs
<1> QED
  BY <1>1, <1>2, TurnEnds

(* The gate of the caps is where room for the run is known. *)
LEMMA ScreenSpend ==
  ASSUME Typed, Typed', NEW most \in Nat, SpendOK(most), UNCHANGED <<day, saved>>, Screen
  PROVE  TurnSpend(most)
<1>1. pc = "screen" /\ pc \notin Running /\ UNCHANGED <<billed, lost>>
  BY DEF Screen, NobodyTurnsUp, BotUnnamed, PlayerLeft, ScreenedOut, PassedOn, Running
<1>2. ASSUME NEW moderated \in BOOLEAN, NobodyTurnsUp(moderated) PROVE TurnSpend(most)
  <2>1. cs'.meter = cs.meter
    <3>1. cs.held \cup {"moderation"} \in SUBSET Holds
      BY TypedIs DEF Holds
    <3> QED
      BY <1>2, <3>1, TypedIs, StateHeld DEF NobodyTurnsUp
  <2> QED
    BY <1>1, <1>2, <2>1, QuietEnd DEF NobodyTurnsUp
<1>3. CASE BotUnnamed \/ PlayerLeft \/ ScreenedOut
  BY <1>1, <1>3, QuietEnd DEF BotUnnamed, PlayerLeft, ScreenedOut
<1>4. CASE PassedOn
  <2>1. /\ turn' = [turn EXCEPT !.started = day] /\ pc' = "classify" /\ cs' = cs
        /\ ClassifierAllowed(cs.meter)
    BY <1>4 DEF PassedOn, Then
  <2>2. /\ turn'.cost = turn.cost /\ turn'.iter = turn.iter /\ turn'.nudged = turn.nudged
    BY <2>1, TypedIs DEF Turning
  <2>3. Idle(turn')
    BY <1>1, <2>2, IdleIs DEF Idle
  <2>4. 0 <= Room /\ Today <= Room
    BY <2>1, TypedIs, AllowedIs DEF Today
  <2>5. Charged' <= Room
    <3>1. Charged <= Today /\ Charged \in Int /\ Today \in Nat /\ Room \in Int
      BY <1>1, IdleIs, NumbersAre, RoomIs
    <3>2. Charged <= Room
      BY <2>4, <3>1
    <3> QED
      BY <1>1, <3>2 DEF Charged
  <2>6. Phase(most)'
    BY <2>1, <2>3, <2>4, <2>5, AdmitPhase DEF Admitting
  <2> QED
    BY <1>1, <2>1, <2>2, <2>6, TurnWaits
<1> QED
  BY <1>2, <1>3, <1>4 DEF Screen

(* A call starts, or the run ends for want of iterations. *)
LEMMA CallSpend ==
  ASSUME Typed, Typed', NEW most \in Nat, SpendOK(most), UNCHANGED <<day, saved>>, Call
  PROVE  TurnSpend(most)
<1>1. ASSUME NEW cost \in Costs \cup {0}, call_with_retry(cost) PROVE TurnSpend(most)
  <2>1. /\ UNCHANGED <<pc, turn, cs>> /\ billed' = billed + cost /\ lost' = lost + cost
        /\ pc \notin {"stopped", "off"}
    BY <1>1 DEF call_with_retry
  <2>2. Charged' = Charged
    <3>1. cost \in Nat /\ billed \in Nat /\ lost \in Int
      BY TypedIs, CostsAre
    <3>2. (billed + cost) - (lost + cost) = billed - lost
      BY <3>1
    <3>3. Charged' = billed' - lost'
      BY DEF Charged
    <3> QED
      BY <2>1, <3>2, <3>3 DEF Charged
  <2>3. Phase(most)'
    BY <2>1, <2>2 DEF SpendOK, Phase, Room, Idle
  <2>4. Today' = Today
    BY <2>1 DEF Today, OnDay, Usd
  <2>5. Missing' = Missing
    BY <2>1, <2>2, <2>4, NumbersAre, NumbersNext
  <2>6. Missing' <= Missing
    BY <2>5, NumbersAre
  <2> QED
    BY <2>1, <2>2, <2>3, <2>6 DEF TurnSpend, SpendOK, Money
<1>2. CASE LimiterRefuses
  <2>1. UNCHANGED <<cs, billed>> /\ lost' = lost + turn.cost /\ EndWithDecision
    BY <1>2 DEF LimiterRefuses
  <2>2. turn' = NoTurn /\ pc' \in Resting
    BY <2>1, TypedIs, EndIs
  <2>3. Charged' = Charged - turn.cost
    <3>1. turn.cost \in Nat /\ billed \in Nat /\ lost \in Int
      BY TypedIs
    <3>2. billed - (lost + turn.cost) = (billed - lost) - turn.cost
      BY <3>1
    <3>3. Charged' = billed' - lost'
      BY DEF Charged
    <3> QED
      BY <2>1, <3>2, <3>3 DEF Charged
  <2> QED
    BY <2>1, <2>2, <2>3, TurnEnds
<1> QED
  BY <1>1, <1>2 DEF Call

\* A failed attempt: what it may have cost, and what its run has, is lost.
LEMMA FailureSpend ==
  ASSUME Typed, NEW cost \in Costs \cup {0}, send_one_fails(cost)
  PROVE  Charged' = Charged - turn.cost
<1>1. turn.cost \in Nat /\ billed \in Nat /\ lost \in Int /\ cost \in Nat
  BY TypedIs, CostsAre
<1>2. (billed + cost) - ((lost + turn.cost) + cost) = (billed - lost) - turn.cost
  BY <1>1
<1>3. Charged' = billed' - lost'
  BY DEF Charged
<1> QED
  BY <1>2, <1>3, FailureIs DEF Charged

(* The classifier is paid for once, *)
LEMMA ClassifySpend ==
  ASSUME Typed, Typed', NEW most \in Nat, \A c \in Costs : c <= most, SpendOK(most),
         UNCHANGED <<day, saved>>, Classify
  PROVE  TurnSpend(most)
<1>1. ASSUME NEW cost \in Costs \cup {0}, ClassifierFails(cost) PROVE TurnSpend(most)
  <2>1. PICK h \in SUBSET {"model404"} : cs' = [cs EXCEPT !.held = @ \cup h]
    BY <1>1 DEF ClassifierFails
  <2>2. cs'.meter = cs.meter
    BY <2>1, HoldIs DEF Holds
  <2>3. turn' = NoTurn /\ pc' \in Resting
    BY <1>1, TypedIs, EndIs DEF ClassifierFails
  <2>4. Charged' = Charged - turn.cost
    BY <1>1, FailureSpend DEF ClassifierFails
  <2> QED
    BY <2>2, <2>3, <2>4, TurnEnds
<1>2. ASSUME NEW cost \in Costs, NEW callout \in BOOLEAN, NEW respond \in BOOLEAN,
             ClassifierAnswers(cost, callout, respond)
      PROVE  TurnSpend(most)
  <2>1. /\ pc = "classify" /\ billed' = billed + cost /\ lost' = lost
        /\ Metered(RecordClassifier(cs.meter, day, turn.started, cost))
        /\ cost \in Nat /\ cost <= most
    BY <1>2, CostsAre DEF ClassifierAnswers
  <2>2. pc \in Admitting /\ pc \notin Running
    BY <2>1 DEF Admitting, Running
  <2>3. 0 <= Room /\ Charged <= Room /\ Idle(turn) /\ turn.cost = 0
    BY <2>2, IdleIs DEF SpendOK, Phase
  <2>4. Charged' = Charged + cost
    <3>1. billed \in Nat /\ lost \in Int
      BY TypedIs
    <3>2. (billed + cost) - lost = (billed - lost) + cost
      BY <2>1, <3>1
    <3>3. Charged' = billed' - lost'
      BY DEF Charged
    <3> QED
      BY <2>1, <3>2, <3>3 DEF Charged
  <2>5. Today' = Today + cost
    <3>1. cs'.meter.day = day /\ Usd(cs'.meter) = Today + cost
      BY <2>1, RecordedIs DEF Today
    <3>2. Today' = Usd(cs'.meter)
      BY <3>1 DEF Today, OnDay, Usd
    <3> QED
      BY <3>1, <3>2
  <2>6. Idle(turn') /\ turn'.cost = 0 /\ pc' \in Resting \cup {"admit"}
    <3>1. CASE respond
      BY <1>2, <2>3, <3>1 DEF ClassifierAnswers, Then
    <3>2. CASE ~respond
      <4>1. turn' = NoTurn /\ pc' \in Resting
        BY <1>2, <3>2, TurnOverIs DEF ClassifierAnswers
      <4>2. NoTurn.nudged = FALSE
        BY DEF NoTurn
      <4> QED
        BY <4>1, <4>2, NoTurnIs DEF Idle
    <3> QED
      BY <3>1, <3>2
  <2>7. Phase(most)' /\ pc' \notin {"stopped", "off"}
    <3>1. pc' \notin Running /\ pc' \notin Admitting /\ pc' \notin {"stopped", "off"}
      BY <2>6 DEF Resting, Running, Admitting
    <3> QED
      BY <2>6, <3>1, QuietPhase
  <2>8. Today' + turn'.cost = (Today + turn.cost) + cost
    BY <2>1, <2>3, <2>5, <2>6, NumbersAre
  <2> QED
    BY <2>1, <2>3, <2>4, <2>7, <2>8, TurnCalls
<1>3. CASE NotAdmitted
  <2>1. pc \notin Running /\ UNCHANGED <<billed, lost, cs>> /\ EndWithDecision
    BY <1>3 DEF NotAdmitted, Running
  <2> QED
    BY <2>1, QuietEnd
<1>4. CASE Admitted
  <2>1. /\ UNCHANGED <<turn, cs, billed, lost>> /\ pc' = "resolve" /\ pc = "admit"
        /\ ComposerAllowed(cs.meter)
    BY <1>4 DEF Admitted, ComposerOpen, Then
  <2>2. pc \notin Running /\ pc' \in Admitting
    BY <2>1 DEF Running, Admitting
  <2>3. 0 <= Room /\ Today <= Room /\ Idle(turn')
    BY <2>1, <2>2, IdleIs, TypedIs, AllowedIs DEF Today
  <2>4. Charged' <= Room
    <3>1. Charged <= Today /\ Charged \in Int /\ Today \in Nat /\ Room \in Int
      BY <2>2, IdleIs, NumbersAre, RoomIs
    <3>2. Charged <= Room
      BY <2>3, <3>1
    <3> QED
      BY <2>1, <3>2 DEF Charged
  <2>5. Phase(most)'
    BY <2>2, <2>3, <2>4, AdmitPhase
  <2> QED
    BY <2>1, <2>5, TurnWaits
<1> QED
  BY <1>1, <1>2, <1>3, <1>4 DEF Classify

(* the resolver costs nothing, *)
LEMMA ResolveSpend ==
  ASSUME Typed, Typed', NEW most \in Nat, SpendOK(most), UNCHANGED <<day, saved>>, Resolve
  PROVE  TurnSpend(most)
<1>1. pc = "resolve" /\ UNCHANGED <<cs, billed, lost>>
  BY DEF Resolve, SenderUnresolved, SenderResolved, PartnerUnresolved
<1>2. pc \notin Running /\ pc \in Admitting
  BY <1>1 DEF Running, Admitting
<1>3. CASE EndWithDecision \/ TurnOver
  BY <1>1, <1>2, <1>3, QuietEnd
<1>4. ASSUME NEW found \in BOOLEAN, pc' = "compose", turn' = Composing(found)
      PROVE  TurnSpend(most)
  <2>1. 0 <= Room /\ Charged <= Room /\ Idle(turn) /\ turn.cost = 0
    BY <1>2, IdleIs DEF SpendOK, Phase
  <2>2. turn'.cost = 0 /\ turn'.iter = 0 /\ turn'.nudged = turn.nudged
    BY <1>4, <2>1, ComposingIs DEF Idle
  <2>3. Charged' = Charged
    BY <1>1 DEF Charged
  <2>4. /\ Charged' <= Room + turn'.cost /\ turn'.cost <= turn'.iter * most
        /\ turn'.iter <= MaxIterations /\ turn'.iter # MaxIterations
    BY <2>1, <2>2, <2>3, RoomIs, NumbersAre, TurnAssumption
  <2>5. Phase(most)'
    BY <1>4, <2>1, <2>4 DEF Phase, Running, Admitting, Room
  <2> QED
    BY <1>1, <1>4, <2>1, <2>2, <2>5, TurnWaits
<1> QED
  BY <1>3, <1>4 DEF Resolve, SenderUnresolved, SenderResolved, PartnerUnresolved, Then

\* The end of a run meters what the run has cost.
LEMMA RunOverSpend ==
  ASSUME Typed, Typed', NEW most \in Nat, NEW cost \in Nat, NEW reply \in BOOLEAN,
         UNCHANGED day, pc = "compose", RunOver(cost, reply)
  PROVE  /\ Today' = Today + cost /\ turn'.cost = 0
         /\ Phase(most)' /\ pc' \notin {"stopped", "off"}
<1>1. Today' = Today + cost
  <2>1. cs'.meter.day = day /\ Usd(cs'.meter) = Today + cost
    BY RunOverIs DEF Today
  <2>2. Today' = Usd(cs'.meter)
    BY <2>1 DEF Today, OnDay, Usd
  <2> QED
    BY <2>1, <2>2
<1>2. turn'.cost = 0 /\ turn'.iter = 0 /\ ~turn'.nudged /\ turn'.nudged \in BOOLEAN
  BY RunOverIs DEF Turning
<1>3. Idle(turn')
  BY <1>2 DEF Idle
<1>4. pc' \notin Running /\ pc' \notin Admitting /\ pc' \notin {"stopped", "off"}
  BY RunOverIs DEF Resting, Running, Admitting
<1> QED
  BY <1>1, <1>2, <1>3, <1>4, QuietPhase

(* each answer of the model costs at most one call, *)
LEMMA ComposeSpend ==
  ASSUME Typed, Typed', NEW most \in Nat, \A c \in Costs : c <= most, SpendOK(most),
         UNCHANGED <<day, saved>>, Compose
  PROVE  TurnSpend(most)
<1>1. pc \in Running
  BY DEF Compose, ComposerCancelled, ComposerFails, ComposerSpeaks, ComposerNudged, ComposerSilent,
         ComposerAsksTools, ComposerOutOfTurns, Called, NoteTaken, NoteRefused, ToolsDone, Running
<1>2. /\ 0 <= Room /\ Charged <= Room + turn.cost /\ turn.cost <= turn.iter * most
      /\ turn.iter <= MaxIterations
      /\ turn.iter = MaxIterations => turn.nudged = TRUE
  BY <1>1 DEF SpendOK, Phase
<1>3. CASE ComposerCancelled
  <2>1. /\ UNCHANGED <<billed, lost>> /\ RunOver(turn.cost, FALSE) /\ pc = "compose"
        /\ turn.cost \in Nat
    BY <1>3, NumbersAre DEF ComposerCancelled
  <2>2. /\ Today' = Today + turn.cost /\ turn'.cost = 0
        /\ Phase(most)' /\ pc' \notin {"stopped", "off"}
    BY <2>1, RunOverSpend
  <2>3. Charged' = Charged
    BY <2>1 DEF Charged
  <2>4. Missing' <= Missing
    BY <2>2, <2>3, NumbersAre, NumbersNext
  <2> QED
    BY <2>2, <2>3, <2>4 DEF TurnSpend, SpendOK, Money
<1>4. ASSUME NEW cost \in Costs \cup {0}, ComposerFails(cost) PROVE TurnSpend(most)
  <2>1. PICK h \in {{}, {"model404"}, {"throttle"}} : cs' = [cs EXCEPT !.held = @ \cup h]
    BY <1>4 DEF ComposerFails
  <2>2. cs'.meter = cs.meter
    BY <2>1, HoldIs DEF Holds
  <2>3. turn' = NoTurn /\ pc' \in Resting
    BY <1>4, TypedIs, EndIs DEF ComposerFails
  <2>4. Charged' = Charged - turn.cost
    BY <1>4, FailureSpend DEF ComposerFails
  <2> QED
    BY <2>2, <2>3, <2>4, TurnEnds
<1>5. ASSUME NEW cost \in Costs, Called(cost)
      PROVE  /\ cost \in Nat /\ cost <= most /\ pc = "compose"
             /\ Charged' = Charged + cost
             /\ turn.cost + cost \in Nat
             /\ turn.cost + cost <= (turn.iter + 1) * most
             /\ Charged' <= Room + (turn.cost + cost)
  <2>1. cost \in Nat /\ cost <= most /\ pc = "compose" /\ billed' = billed + cost /\ lost' = lost
    BY <1>5, CostsAre DEF Called
  <2>2. billed \in Nat /\ lost \in Int /\ turn.cost \in Nat /\ turn.iter \in Nat /\ Room \in Int
    BY TypedIs, RoomIs
  <2>3. Charged' = Charged + cost
    <3>1. (billed + cost) - lost = (billed - lost) + cost
      BY <2>1, <2>2
    <3>2. Charged' = billed' - lost'
      BY DEF Charged
    <3> QED
      BY <2>1, <3>1, <3>2 DEF Charged
  <2>4. turn.cost + cost <= (turn.iter + 1) * most
    <3> DEFINE s == turn.iter * most
    <3>1. (turn.iter + 1) * most = s + most /\ s \in Nat
      BY <2>2
    <3>2. turn.cost <= s
      BY <1>2
    <3> HIDE DEF s
    <3> QED
      BY <2>1, <2>2, <3>1, <3>2
  <2>5. Charged' <= Room + (turn.cost + cost)
    <3>1. Charged \in Int /\ Charged <= Room + turn.cost
      BY <1>2, NumbersAre
    <3>2. Charged + cost <= Room + (turn.cost + cost)
      BY <2>1, <2>2, <3>1
    <3> QED
      BY <2>3, <3>2
  <2> QED
    BY <2>1, <2>2, <2>3, <2>4, <2>5
<1>6. ASSUME NEW cost \in Costs, Called(cost), NEW reply \in BOOLEAN,
             RunOver(turn.cost + cost, reply)
      PROVE  TurnSpend(most)
  <2>1. /\ cost \in Nat /\ cost <= most /\ Charged' = Charged + cost /\ pc = "compose"
        /\ turn.cost + cost \in Nat
    BY <1>5, <1>6
  <2>2. /\ Today' = Today + (turn.cost + cost) /\ turn'.cost = 0
        /\ Phase(most)' /\ pc' \notin {"stopped", "off"}
    BY <1>6, <2>1, RunOverSpend
  <2>3. Today' + turn'.cost = (Today + turn.cost) + cost
    BY <2>1, <2>2, NumbersAre
  <2> QED
    BY <1>1, <2>1, <2>2, <2>3, TurnCalls
<1>7. ASSUME NEW cost \in Costs, Called(cost), cs' = cs,
             turn'.iter = turn.iter + 1, turn'.cost = turn.cost + cost,
             turn'.iter <= MaxIterations, turn'.iter = MaxIterations => turn'.nudged = TRUE,
             pc' \in Running
      PROVE  TurnSpend(most)
  <2>1. /\ cost \in Nat /\ cost <= most /\ Charged' = Charged + cost
        /\ Charged' <= Room + turn'.cost /\ turn'.cost <= turn'.iter * most
    BY <1>5, <1>7
  <2>2. pc' \notin Admitting /\ pc' \notin {"stopped", "off"}
    BY <1>7 DEF Running, Admitting
  <2>3. Phase(most)'
    BY <1>2, <1>7, <2>1, <2>2 DEF Phase, Room
  <2>4. Today' = Today
    BY <1>7 DEF Today, OnDay, Usd
  <2>5. Today' + turn'.cost = (Today + turn.cost) + cost
    BY <1>7, <2>1, <2>4, NumbersAre
  <2> QED
    BY <1>1, <2>1, <2>2, <2>3, <2>5, TurnCalls
<1>8. ASSUME NEW cost \in Costs, ComposerNudged(cost) PROVE TurnSpend(most)
  <2>1. /\ Called(cost) /\ UNCHANGED <<pc, cs>> /\ ~turn.nudged
        /\ turn' = [turn EXCEPT !.iter = @ + 1, !.cost = @ + cost, !.nudged = TRUE]
    BY <1>8 DEF ComposerNudged
  <2>2. turn'.iter = turn.iter + 1 /\ turn'.cost = turn.cost + cost /\ turn'.nudged = TRUE
    BY <2>1, TypedIs DEF Turning
  <2>3. turn.iter # MaxIterations
    BY <1>2, <2>1
  <2>4. turn'.iter <= MaxIterations
    <3>1. turn.iter \in Nat /\ MaxIterations \in Nat
      BY TurnAssumption, NumbersAre
    <3>2. turn.iter + 1 <= MaxIterations
      BY <1>2, <2>3, <3>1
    <3> QED
      BY <2>2, <3>2
  <2> QED
    BY <1>1, <1>7, <2>1, <2>2, <2>4
<1>9. ASSUME NEW cost \in Costs, ComposerAsksTools(cost) PROVE TurnSpend(most)
  <2>1. /\ Called(cost) /\ pc' = "tools" /\ UNCHANGED cs /\ turn.iter + 1 < MaxIterations
        /\ turn' = [turn EXCEPT !.iter = @ + 1, !.cost = @ + cost]
    BY <1>9 DEF ComposerAsksTools, Then
  <2>2. turn'.iter = turn.iter + 1 /\ turn'.cost = turn.cost + cost
    BY <2>1, TypedIs DEF Turning
  <2>3. turn'.iter <= MaxIterations /\ turn'.iter # MaxIterations
    <3>1. turn.iter \in Nat /\ MaxIterations \in Nat
      BY TurnAssumption, NumbersAre
    <3>2. turn.iter + 1 <= MaxIterations /\ turn.iter + 1 # MaxIterations
      BY <2>1, <3>1
    <3> QED
      BY <2>2, <3>2
  <2>4. pc' \in Running
    BY <2>1 DEF Running
  <2> QED
    BY <1>7, <2>1, <2>2, <2>3, <2>4
<1>10. CASE NoteTaken \/ NoteRefused \/ ToolsDone
  <2>1. UNCHANGED <<billed, lost, cs>> /\ pc' \in Running
    BY <1>10 DEF NoteTaken, NoteRefused, ToolsDone, Then, Running
  <2>2. turn'.cost = turn.cost /\ turn'.iter = turn.iter /\ turn'.nudged = turn.nudged
    BY <1>10, TypedIs DEF NoteTaken, NoteRefused, ToolsDone, Turning
  <2>3. pc' \notin Admitting /\ pc' \notin {"stopped", "off"}
    BY <2>1 DEF Running, Admitting
  <2>4. Charged' = Charged
    BY <2>1 DEF Charged
  <2>5. Phase(most)'
    BY <1>2, <2>1, <2>2, <2>3, <2>4 DEF Phase, Room
  <2> QED
    BY <2>1, <2>2, <2>3, <2>5, TurnWaits
<1> QED
  BY <1>3, <1>4, <1>6, <1>8, <1>9, <1>10
     DEF Compose, ComposerSpeaks, ComposerSilent, ComposerOutOfTurns

(* and so does the screening of a reply. *)
LEMMA FilterSpend ==
  ASSUME Typed, Typed', NEW most \in Nat, \A c \in Costs : c <= most, SpendOK(most),
         UNCHANGED <<day, saved>>, Filter
  PROVE  TurnSpend(most)
<1>1. pc \in {"filter", "shorten"} /\ pc \notin Running
  BY DEF Filter, FilterSkipped, FilterFails, FilterRejects, FilterPasses, FilterTooLong,
         Unfiltered, Running
<1>2. Idle(turn) /\ turn.cost = 0 /\ turn \in Turning
  BY <1>1, IdleIs, TypedIs
<1>3. \A n \in Nat : Idle([turn EXCEPT !.tries = n])
  BY <1>2 DEF Idle, Turning
<1>4. ASSUME NEW n \in Nat, turn' = [turn EXCEPT !.tries = n], pc' \in {"shape", "shorten"}
      PROVE  Phase(most)' /\ turn'.cost = 0 /\ pc' \notin {"stopped", "off"}
  <2>1. Idle(turn')
    BY <1>3, <1>4
  <2>2. pc' \notin Running /\ pc' \notin Admitting /\ pc' \notin {"stopped", "off"}
    BY <1>4 DEF Running, Admitting
  <2> QED
    BY <2>1, <2>2, QuietPhase DEF Idle
<1>5. CASE Unfiltered /\ UNCHANGED <<billed, lost>>
  <2>1. turn' = [turn EXCEPT !.tries = 0] /\ pc' = "shape" /\ UNCHANGED <<cs, billed, lost>>
    BY <1>5 DEF Unfiltered, Then
  <2>2. Phase(most)' /\ turn'.cost = 0 /\ pc' \notin {"stopped", "off"}
    BY <1>4, <2>1
  <2> QED
    BY <1>2, <2>1, <2>2, TurnWaits
<1>6. ASSUME NEW cost \in Costs \cup {0}, Unfiltered, send_one_fails(cost)
      PROVE  TurnSpend(most)
  <2>1. turn' = [turn EXCEPT !.tries = 0] /\ pc' = "shape" /\ UNCHANGED cs
    BY <1>6 DEF Unfiltered, Then
  <2>2. Phase(most)' /\ turn'.cost = 0 /\ pc' \notin {"stopped", "off"}
    BY <1>4, <2>1
  <2>3. Charged' = Charged
    BY <1>2, <1>6, FailureSpend, NumbersAre
  <2>4. Today' = Today
    BY <2>1 DEF Today, OnDay, Usd
  <2>5. Missing' <= Missing
    BY <1>2, <2>2, <2>3, <2>4, NumbersAre, NumbersNext
  <2> QED
    BY <2>2, <2>3, <2>5 DEF TurnSpend, SpendOK, Money
<1>7. ASSUME NEW cost \in Costs, FilterCalled(cost), turn'.cost = 0, Phase(most)',
             pc' \notin {"stopped", "off"}
      PROVE  TurnSpend(most)
  <2>1. /\ ClassifierAllowed(cs.meter) /\ billed' = billed + cost /\ lost' = lost
        /\ Metered(RecordClassifier(cs.meter, day, turn.started, cost))
        /\ cost \in Nat /\ cost <= most
    BY <1>7, CostsAre DEF FilterCalled
  <2>2. 0 <= Room /\ Today <= Room
    BY <2>1, TypedIs, AllowedIs DEF Today
  <2>3. Charged <= Room
    <3>1. Charged <= Today /\ Charged \in Int /\ Today \in Nat /\ Room \in Int
      BY <1>1, IdleIs, NumbersAre, RoomIs
    <3> QED
      BY <2>2, <3>1
  <2>4. Charged' = Charged + cost
    <3>1. billed \in Nat /\ lost \in Int
      BY TypedIs
    <3>2. (billed + cost) - lost = (billed - lost) + cost
      BY <2>1, <3>1
    <3>3. Charged' = billed' - lost'
      BY DEF Charged
    <3> QED
      BY <2>1, <3>2, <3>3 DEF Charged
  <2>5. Today' = Today + cost
    <3>1. cs'.meter.day = day /\ Usd(cs'.meter) = Today + cost
      BY <2>1, RecordedIs DEF Today
    <3>2. Today' = Usd(cs'.meter)
      BY <3>1 DEF Today, OnDay, Usd
    <3> QED
      BY <3>1, <3>2
  <2>6. Today' + turn'.cost = (Today + turn.cost) + cost
    BY <1>2, <1>7, <2>1, <2>5, NumbersAre
  <2> QED
    BY <1>7, <2>1, <2>2, <2>3, <2>4, <2>6, TurnCalls
<1>8. ASSUME NEW cost \in Costs, FilterRejects(cost) PROVE TurnSpend(most)
  <2>1. turn' = NoTurn /\ pc' \in Resting /\ FilterCalled(cost)
    BY <1>8, TurnOverIs DEF FilterRejects
  <2>2. NoTurn.nudged = FALSE
    BY DEF NoTurn
  <2>3. Idle(turn') /\ turn'.cost = 0
    BY <2>1, <2>2, NoTurnIs DEF Idle
  <2>4. pc' \notin Running /\ pc' \notin Admitting /\ pc' \notin {"stopped", "off"}
    BY <2>1 DEF Resting, Running, Admitting
  <2> QED
    BY <1>7, <2>1, <2>3, <2>4, QuietPhase
<1>9. ASSUME NEW cost \in Costs, FilterPasses(cost) PROVE TurnSpend(most)
  BY <1>4, <1>7, <1>9 DEF FilterPasses, Then
<1>10. ASSUME NEW cost \in Costs, FilterTooLong(cost) PROVE TurnSpend(most)
  <2> DEFINE tries == IF pc = "filter" THEN 0 ELSE turn.tries + 1
             again == tries < MaxShorten
             n == IF again THEN tries ELSE 0
  <2>1. n \in Nat
    BY TypedIs
  <2>2. FilterCalled(cost) /\ turn' = [turn EXCEPT !.tries = n] /\ pc' \in {"shape", "shorten"}
    BY <1>10 DEF FilterTooLong, Then
  <2> HIDE DEF n
  <2> QED
    BY <1>4, <1>7, <2>1, <2>2
<1> QED
  BY <1>5, <1>6, <1>8, <1>9, <1>10 DEF Filter, FilterSkipped, FilterFails

(* The reply itself costs nothing. *)
LEMMA ReplySpend ==
  ASSUME Typed, Typed', NEW most \in Nat, SpendOK(most), UNCHANGED <<day, saved>>,
         Reply \/ \E spoken \in BOOLEAN : ReplyAnswered(spoken)
  PROVE  TurnSpend(most)
<1>1. /\ pc \in {"shape", "typing", "send"} /\ pc \notin Running
      /\ UNCHANGED <<cs, billed, lost>>
  BY DEF Reply, ReplyBlocked, ReplyShaped, ReplyDropped, ReplyHandedOver, ReplyAnswered, Running
<1>2. CASE EndWithDecision
  BY <1>1, <1>2, QuietEnd
<1>3. CASE ReplyShaped \/ ReplyHandedOver
  <2>1. UNCHANGED turn /\ pc' \in {"typing", "send"}
    BY <1>3 DEF ReplyShaped, ReplyHandedOver, Then
  <2>2. Idle(turn')
    BY <1>1, <2>1, IdleIs
  <2>3. pc' \notin Running /\ pc' \notin Admitting /\ pc' \notin {"stopped", "off"}
    BY <2>1 DEF Running, Admitting
  <2> QED
    BY <1>1, <2>1, <2>2, <2>3, QuietPhase, TurnWaits
<1> QED
  BY <1>2, <1>3 DEF Reply, ReplyBlocked, ReplyDropped, ReplyAnswered

(* Every step of a turn keeps the bound. *)
LEMMA TurnStepSpend ==
  ASSUME Typed, Typed', NEW most \in Nat, \A c \in Costs : c <= most, SpendOK(most),
         TurnStep, UNCHANGED loopVars
  PROVE  SpendOK(most)'
<1>1. UNCHANGED <<day, saved>>
  BY DEF TurnStep, loopVars
<1>2. TurnSpend(most)
  BY <1>1, ScreenSpend, CallSpend, ClassifySpend, ResolveSpend, ComposeSpend, FilterSpend,
     ReplySpend DEF TurnStep
<1>3. Kept' = Kept
  BY <1>1 DEF Kept, OnDay, Usd
<1>4. Money(most)'
  BY <1>2, <1>3, MoneyStep DEF TurnSpend, SpendOK
<1> QED
  BY <1>2, <1>4 DEF TurnSpend, SpendOK, Settled

(* What is spent stays bounded, by every step.                                 *)
LEMMA NextSpend ==
  ASSUME Typed, NEW most \in Nat, \A c \in Costs : c <= most, SpendOK(most), [Next]_vars
  PROVE  SpendOK(most)'
<1>1. Typed'
  BY NextTyped
<1>2. CASE TurnStep /\ UNCHANGED loopVars
  BY <1>1, <1>2, TurnStepSpend
<1>3. CASE Command
  BY <1>1, <1>3, CommandSpend, ScrubSpend, StopSpend DEF Command
<1>4. CASE Loop
  <2>1. ASSUME NEW kind, NEW p, Sniff(kind, p) PROVE SpendOK(most)'
    BY <2>1, StillSpend DEF Sniff
  <2> QED
    BY <1>1, <1>4, <2>1, LoopSpend, ReflectionSpend, TickFiresSpend, StopSpend
       DEF Loop, Sniffing
<1>5. CASE Around
  <2>1. ASSUME NEW p \in Senders, Heard(p) PROVE SpendOK(most)'
    BY <2>1, HeardIs, StillSpend
  <2>2. CASE HoldPasses
    BY <2>2, HoldPassesIs, StillSpend
  <2>3. CASE Writer
    BY <2>3, WriterIs, StillSpend
  <2> QED
    BY <1>1, <1>5, <2>1, <2>2, <2>3, MidnightSpend, StopSpend, StartSpend DEF Around
<1>6. CASE UNCHANGED vars
  BY <1>6, StillSpend DEF vars, fileVars, turnVars, loopVars
<1> QED
  BY <1>2, <1>3, <1>4, <1>5, <1>6 DEF Next

(* At the start nothing has been spent. *)
LEMMA InitSpend ==
  ASSUME Init, NEW most \in Nat
  PROVE  SpendOK(most)
<1>1. Typed
  BY InitTyped
<1>2. /\ cs = saved /\ turn = NoTurn /\ billed = 0 /\ lost = 0 /\ pc = "stopped"
  BY DEF Init
<1>3. Idle(turn) /\ turn.cost = 0
  <2>1. NoTurn.nudged = FALSE
    BY DEF NoTurn
  <2> QED
    BY <1>2, <2>1, NoTurnIs DEF Idle
<1>4. Charged = 0 /\ Today = Kept
  BY <1>2 DEF Charged, Today, Kept
<1>5. Missing <= 0 /\ Missing + Kept <= 0 /\ Charged <= 0
  BY <1>1, <1>3, <1>4, NumbersAre
<1> QED
  BY <1>2, <1>3, <1>5 DEF SpendOK, Money, Phase, Settled, Within, Running, Admitting

\* For every bound on the cost of one call.
SpendInv ==
    \A most \in Costs : (\A c \in Costs : c <= most) => SpendOK(most)

(* The calls held to the caps cost no more in a day than the daily cap, a run  *)
(* that is let in on the estimate of one call, and what never reached a meter: *)
(* for any caps and costs, any interleaving of turns, reflections, failures,   *)
(* saves that fail, crashes and midnights.                                     *)
THEOREM SpendStaysBounded == Spec => []SpendBounded
<1>1. Init => Typed /\ SpendInv
  BY InitTyped, InitSpend, CostsAre DEF SpendInv
<1>2. (Typed /\ SpendInv) /\ [Next]_vars => (Typed /\ SpendInv)'
  <2> SUFFICES ASSUME Typed, SpendInv, [Next]_vars PROVE Typed' /\ SpendInv'
    OBVIOUS
  <2>1. ASSUME NEW most \in Costs, \A c \in Costs : c <= most PROVE SpendOK(most)'
    <3>1. most \in Nat /\ SpendOK(most)
      BY <2>1, CostsAre DEF SpendInv
    <3> QED
      BY <2>1, <3>1, NextSpend
  <2> QED
    BY <2>1, NextTyped DEF SpendInv
<1>3. Typed /\ SpendInv => SpendBounded
  <2> SUFFICES ASSUME Typed, SpendInv, NEW most \in Costs, \A c \in Costs : c <= most
               PROVE  \/ billed <= lost
                      \/ billed - lost <= (UsdCap - Estimate) + (MaxIterations + 1) * most
    BY DEF SpendBounded
  <2>1. Within(Charged, most)
    BY DEF SpendInv, SpendOK, Money
  <2>2. CASE Charged <= 0
    <3>1. billed \in Nat /\ lost \in Int /\ billed - lost <= 0
      BY <2>2, TypedIs DEF Charged
    <3> QED
      BY <3>1
  <2>3. CASE Charged <= Bound(most)
    BY <2>3 DEF Charged, Bound, Room
  <2> QED
    BY <2>1, <2>2, <2>3 DEF Within
<1> QED
  BY <1>1, <1>2, <1>3, PTL DEF Spec

===============================================================================
