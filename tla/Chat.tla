--------------------------------- MODULE Chat ---------------------------------
(* The operator's side of the chat task: the arms of its command channel, and  *)
(* the forgetting of a player, which rewrites every file that names him while  *)
(* the history's writer goes on appending.                                     *)
EXTENDS ChatTask

\* A command is taken from the slot, or, when that is empty, from the channel.
Taken(kind, p) ==
    /\ pc = "idle"
    /\ \/ slot = [kind |-> kind, who |-> p] /\ slot' = NoCommand /\ UNCHANGED left
       \/ slot = NoCommand /\ UNCHANGED slot /\ Offered(kind)

stillVars == <<sniffed, bus, lagged, backlog, drops>>

-----------------------------------------------------------------------------
(* The end of the task.                                                        *)

\* Shutdown fires the token and empties both channels; both arms save.  A
\* state that cannot be saved is gone.
Stop(kind) ==
    /\ pc = "idle"
    /\ \/ slot.kind = kind /\ UNCHANGED left
       \/ slot = NoCommand /\ Offered(kind)
    /\ IF kind = "shutdown" /\ ~cancelled THEN Decide(files, {})
       ELSE UNCHANGED <<files, logHandle>>
    /\ \/ saved' = cs /\ UNCHANGED <<faults, lost>>
       \/ UNCHANGED saved /\ Fault /\ lost' = lost + Unsaved
    /\ Then("off")
    /\ turn' = NoTurn /\ cs' = saved' /\ roster' = {} /\ cancelled' = FALSE
    /\ slot' = NoCommand /\ sniffed' = NoCommand /\ backlog' = <<>> /\ scrub' = NoScrub
    /\ bus' = <<>> /\ lagged' = FALSE /\ drops' = FALSE
    /\ UNCHANGED <<day, inbox, acked, handle, asked, billed, persona, done, unread>>

-----------------------------------------------------------------------------
(* Commands that change the state, the token or one file.                      *)

Status(p) ==
    /\ Taken("status", p)
    /\ cs' = RolledState
    /\ ToTop
    /\ UNCHANGED <<fileVars, turn, roster, cancelled, billed, lost, faults, saved, stillVars,
                   persona, scrub, done, unread>>

\* SetPaused, SetDryRun and ClearModerationBackoff save what they change.
SetState(kind, p, state) ==
    /\ Taken(kind, p)
    /\ cs' = state
    /\ Save(state)
    /\ ToTop
    /\ UNCHANGED <<fileVars, turn, roster, cancelled, billed, lost, stillVars, persona,
                   scrub, done, unread>>

SetPaused(p) == \E paused \in BOOLEAN :
    SetState("pause", p, [RolledState EXCEPT !.paused = paused])
SetDryRun(p) == \E dry \in BOOLEAN :
    SetState("dry", p, [RolledState EXCEPT !.dry = dry])
ClearModerationBackoff(p) ==
    SetState("clear", p, [RolledState EXCEPT !.held = @ \ {"moderation"}])

RunRetentionSweep(p) ==
    /\ Taken("sweep", p)
    /\ Sweep
    /\ cs' = [cs EXCEPT !.swept = day]
    /\ ToTop
    /\ UNCHANGED <<day, inbox, acked, asked, turn, roster, cancelled, billed, lost, faults,
                   saved, stillVars, persona, scrub, done, unread>>

\* With nothing pending, or with a rotation that fails, it ends at once.
RunReflection(p) ==
    /\ Taken("reflect", p)
    /\ \/ files[Pending] = {} /\ ToTop /\ UNCHANGED <<files, faults>>
       \/ files[Pending] # {} /\ ToTop /\ Fault /\ UNCHANGED files
       \/ files[Pending] # {} /\ Then("reflecting") /\ files' = Rotated(files)
            /\ UNCHANGED faults
    /\ UNCHANGED <<day, inbox, acked, handle, logHandle, asked, turn, cs, roster, cancelled,
                   billed, lost, saved, stillVars, persona, scrub, done, unread>>

\* The token is fired, if no turn's sniffing has done so, and replaced.
BotDisconnected(p) ==
    /\ Taken("disconnected", p)
    /\ IF cancelled THEN UNCHANGED <<files, logHandle>> ELSE Decide(files, {})
    /\ cancelled' = FALSE
    /\ roster' = {}
    /\ ToTop
    /\ UNCHANGED <<day, inbox, acked, handle, asked, turn, cs, billed, lost, faults, saved,
                   stillVars, persona, scrub, done, unread>>

Forgotten(fs, names, p) == [f \in FileNames |->
    IF f \in names THEN fs[f] \ MarksOf(p) ELSE fs[f]]

\* The player's file goes; the index keeps his name.
ResetPlayerMemory(p) ==
    /\ Taken("reset", p)
    /\ \/ files' = Forgotten(files, {PlayerFile}, p) /\ UNCHANGED faults
       \/ UNCHANGED files /\ Fault
    /\ ToTop
    /\ UNCHANGED <<day, inbox, acked, handle, logHandle, asked, turn, cs, roster, cancelled,
                   billed, lost, saved, stillVars, persona, scrub, done, unread>>

SetOperatorTrust(p) ==
    /\ Taken("trust", p)
    /\ \/ files' = WithPlayerFile(files, p) /\ UNCHANGED faults
       \/ UNCHANGED files /\ Fault
    /\ ToTop
    /\ UNCHANGED <<day, inbox, acked, handle, logHandle, asked, turn, cs, roster, cancelled,
                   billed, lost, saved, stillVars, persona, scrub, done, unread>>

\* The persona is set aside first; a generation that fails leaves none.
RegeneratePersona(p) ==
    /\ Taken("regenerate", p)
    /\ persona' = FALSE
    /\ Then("persona")
    /\ UNCHANGED <<fileVars, turn, cs, roster, cancelled, billed, lost, faults, saved,
                   stillVars, scrub, done, unread>>

PersonaGenerated ==
    /\ pc = "persona"
    /\ \/ persona' = TRUE /\ Save(cs)
       \/ UNCHANGED <<persona, saved>> /\ Fault
    /\ ToTop
    /\ UNCHANGED <<fileVars, turn, cs, roster, cancelled, billed, lost, slot, stillVars,
                   scrub, done, unread, left>>

-----------------------------------------------------------------------------
(* ForgetPlayer and scrub_history_for_player.                                  *)

ScrubBegun(p, removed) == [NoScrub EXCEPT !.who = p, !.removed = removed]

(* Mutant: the history is read without the writer having been waited for. *)
ForgetUnannounced(p) ==
    /\ asked[p] = 0
    /\ Taken("forget", p)
    /\ asked' = [asked EXCEPT ![p] = 1]
    /\ files' = Forgotten(files, {PlayerFile}, p)
    /\ Then("list")
    /\ scrub' = ScrubBegun(p, TRUE)
    /\ UNCHANGED <<day, inbox, acked, handle, logHandle, turn, cs, roster, cancelled, faults,
                   billed, lost, saved, stillVars, persona, done, unread>>

\* The account is resolved, the player's file removed; whether that worked is
\* looked at in the end only.
ForgetPlayer(p) ==
    /\ asked[p] = 0
    /\ Taken("forget", p)
    /\ asked' = [asked EXCEPT ![p] = 1]
    /\ \/ /\ files' = Forgotten(files, {PlayerFile}, p)
          /\ scrub' = ScrubBegun(p, TRUE)
          /\ UNCHANGED faults
       \/ /\ UNCHANGED files
          /\ scrub' = ScrubBegun(p, FALSE)
          /\ Fault
    /\ Then("announce")
    /\ UNCHANGED <<day, inbox, acked, handle, logHandle, turn, cs, roster, cancelled,
                   billed, lost, saved, stillVars, persona, done, unread>>

ForgetUnresolved(p) ==
    /\ Taken("forget", p)
    /\ ToTop
    /\ UNCHANGED <<fileVars, turn, cs, roster, cancelled, billed, lost, faults, saved,
                   stillVars, persona, scrub, done, unread>>

scrubStill == <<day, handle, logHandle, files, asked, turn, cs, roster, cancelled, billed,
                lost, saved, slot, stillVars, persona, done, left>>

\* drop_cache_and_ack, before the directory is read and after every rewrite.
Announce ==
    /\ pc \in {"announce", "reannounce"}
    /\ SendDrop
    /\ Then(IF pc = "announce" THEN "wait" ELSE "rewait")
    /\ UNCHANGED <<scrubStill, faults, scrub, unread>>

Acknowledged ==
    /\ pc \in {"wait", "rewait"}
    /\ acked
    /\ acked' = FALSE
    /\ Then(IF pc = "wait" THEN "list" ELSE "history")
    /\ UNCHANGED <<scrubStill, inbox, faults, scrub, unread>>

ListHistory ==
    /\ pc = "list"
    /\ scrub' = [scrub EXCEPT !.todo = DatedDays("history", files)]
    /\ Then("history")
    /\ UNCHANGED <<scrubStill, inbox, acked, faults, unread>>

\* A day file is read: with nothing of the player in it, it is left alone, as
\* is one that cannot be read.
ReadHistory(d) ==
    /\ pc = "history"
    /\ d \in scrub.todo
    /\ LET named == files[History(d)] \cap MarksOf(scrub.who) # {}
       IN  \/ /\ scrub' = [scrub EXCEPT !.todo = @ \ {d},
                                 !.cur = IF named THEN d ELSE 0,
                                 !.kept = IF named
                                          THEN files[History(d)] \ MarksOf(scrub.who)
                                          ELSE {}]
              /\ Then(IF named THEN "rename" ELSE "history")
              /\ UNCHANGED <<faults, unread>>
           \/ /\ scrub' = [scrub EXCEPT !.todo = @ \ {d}]
              /\ unread' = unread \cup (files[History(d)] \cap MarksOf(scrub.who))
              /\ Fault
              /\ UNCHANGED pc
    /\ UNCHANGED <<scrubStill, inbox, acked>>

ForgetFails == ToTop /\ scrub' = NoScrub

(* Mutant: the writer keeps the handle it has when the file is replaced. *)
RewriteSilently ==
    /\ pc = "rename"
    /\ files' = [files EXCEPT ![History(scrub.cur)] = scrub.kept]
    /\ handle' = Orphaned(handle, {scrub.cur})
    /\ scrub' = [scrub EXCEPT !.cur = 0, !.kept = {}]
    /\ Then("history")
    /\ UNCHANGED <<day, inbox, acked, logHandle, asked, turn, cs, roster, cancelled, billed,
                   lost, faults, saved, slot, stillVars, persona, done, unread, left>>

\* What was kept replaces the file by rename.
RewriteHistory ==
    /\ pc = "rename"
    /\ \/ /\ files' = [files EXCEPT ![History(scrub.cur)] = scrub.kept]
          /\ handle' = Orphaned(handle, {scrub.cur})
          /\ scrub' = [scrub EXCEPT !.cur = 0, !.kept = {}]
          /\ Then("reannounce")
          /\ UNCHANGED faults
       \/ ForgetFails /\ Fault /\ UNCHANGED <<files, handle>>
    /\ UNCHANGED <<day, inbox, acked, logHandle, asked, turn, cs, roster, cancelled, billed,
                   lost, saved, slot, stillVars, persona, done, unread, left>>

\* The other files have no writer but this task: the decision log, the lessons
\* and their archives, the index, in this order.
Scrubbed == <<{"decisions"}, {"decisions", "pending"},
              {"decisions", "pending", "archive"},
              {"decisions", "pending", "archive", "index"}>>
NamesOf(kinds) == {f \in FileNames : f[1] \in kinds}
Naming(p) == {f \in NamesOf(Scrubbed[3]) : files[f] \cap MarksOf(p) # {}}

\* A rewritten decision log of a day loses its cached handle.
LogDropped(p) ==
    IF logHandle.day >= 0 /\ files[Decisions(logHandle.day)] \cap MarksOf(p) # {}
    THEN NoHandle ELSE logHandle

\* The reply is Ok when every part has worked; a file that could not be read
\* counts as one with nothing to remove.
ScrubRest ==
    /\ pc = "history"
    /\ scrub.todo = {}
    /\ scrub' = NoScrub
    /\ ToTop
    /\ \/ \E skipped \in {{}} \cup {{f} : f \in Naming(scrub.who)} :
          /\ IF skipped = {} THEN UNCHANGED faults ELSE Fault
          /\ saved' = IF scrub.removed THEN cs ELSE saved
          /\ unread' = unread \cup UNION {files[f] \cap MarksOf(scrub.who) : f \in skipped}
          /\ files' = Forgotten(files, NamesOf(Scrubbed[4]) \ skipped, scrub.who)
          /\ logHandle' = IF Decisions(logHandle.day) \in skipped THEN logHandle
                          ELSE LogDropped(scrub.who)
          /\ done' = IF scrub.removed
                     THEN [done EXCEPT ![scrub.who] = asked[scrub.who]] ELSE done
       \/ \E k \in 0..3 :
          /\ Fault
          /\ files' = IF k = 0 THEN files
                      ELSE Forgotten(files, NamesOf(Scrubbed[k]), scrub.who)
          /\ logHandle' = IF k = 0 THEN logHandle ELSE LogDropped(scrub.who)
          /\ UNCHANGED <<saved, unread, done>>
    /\ UNCHANGED <<day, inbox, acked, handle, asked, turn, cs, roster, cancelled, billed,
                   lost, slot, stillVars, persona, left>>

Forgetting == \/ Announce \/ Acknowledged \/ ListHistory \/ RewriteHistory \/ ScrubRest
              \/ \E d \in Days : ReadHistory(d)

-----------------------------------------------------------------------------
(* The whole.                                                                  *)

Command ==
    \/ \E kind \in {"shutdown", "closed"} : Stop(kind)
    \/ Status(NoOne) \/ SetPaused(NoOne) \/ SetDryRun(NoOne)
    \/ ClearModerationBackoff(NoOne) \/ RunRetentionSweep(NoOne) \/ RunReflection(NoOne)
    \/ BotDisconnected(NoOne) \/ RegeneratePersona(NoOne)
    \/ \E p \in Players : \/ ResetPlayerMemory(p) \/ SetOperatorTrust(p)
                           \/ ForgetPlayer(p) \/ ForgetUnresolved(p)
    \/ PersonaGenerated \/ Forgetting

ForPlayers == {"reset", "trust", "forget"}

Sniffing == \/ \E kind \in left.offers \ ForPlayers : Sniff(kind, NoOne)
            \/ \E kind \in left.offers \cap ForPlayers, p \in Players : Sniff(kind, p)

Loop ==
    \/ LoopHead \/ LagTold \/ EventsClosed \/ ReflectionDue \/ ReflectionEnds \/ PauseSeen
    \/ TurnEnded \/ NextOfBacklog \/ BacklogDone \/ TickPasses \/ TickDone \/ Sniffing
    \/ \E named \in BOOLEAN : EventTaken(named)
    \/ \E p \in Players : TickFires(p)

Around == \/ \E p \in Senders : Heard(p)
          \/ Midnight \/ HoldPasses \/ Writer \/ Crash \/ Start

\* A chat that has run before: every kind of file names a player, some of them
\* older than the retention keeps.
OldFiles(p) == [f \in FileNames |->
    IF f[1] \in {"player", "index", "pending"} \/ f[2] \in {0, FirstDay}
    THEN {<<p, 0>>} ELSE {}]

Init ==
    /\ day = FirstDay
    /\ inbox = <<>> /\ acked = FALSE /\ handle = NoHandle /\ logHandle = NoHandle
    /\ \E p \in Players : files = OldFiles(p)
    /\ asked = [p \in Players |-> 0]
    /\ pc = "stopped" /\ turn = NoTurn /\ roster = {} /\ cancelled = FALSE
    /\ billed = 0 /\ lost = 0
    /\ slot = NoCommand /\ sniffed = NoCommand
    /\ bus = <<>> /\ lagged = FALSE /\ backlog = <<>> /\ drops = FALSE
    /\ persona \in BOOLEAN
    /\ scrub = NoScrub
    /\ done = [p \in Players |-> 0]
    /\ unread = {}
    /\ \E plan \in Plans : /\ left = plan.left
                           /\ faults = plan.faults
                           /\ saved = [DefaultState(FirstDay) EXCEPT !.paused = plan.paused]
    /\ cs = saved

Next == (TurnStep /\ UNCHANGED loopVars) \/ Command \/ Loop \/ Around

Spec == Init /\ [][Next]_vars

-----------------------------------------------------------------------------
(* Once a request to forget a player has been answered Ok, no file has a line  *)
(* of his from before the request, those apart of a file that could not be     *)
(* read while it was carried out (ForgetPlayer, scrub_history_for_player): neither  *)
(* the lines that were still in the writer's channel, nor those a turn, a      *)
(* rotation or the index has moved or written since.                           *)
ForgottenIsGone ==
    \A p \in Players, n \in 0..1 :
        n < done[p] /\ <<p, n>> \notin unread => \A f \in FileNames : <<p, n>> \notin files[f]

(* Nobody appends to a file that has been replaced or removed: the decision    *)
(* log's handle of today is live, and so is the one the history's writer has   *)
(* open, but for the time between the replacement of that day's file by a      *)
(* scrub and the acknowledgement it waits for, and but for a day so old that   *)
(* the retention has removed its file.                                         *)
HandleIsCurrent ==
    /\ logHandle.day = day => logHandle.live
    /\ handle.live \/ pc \in {"reannounce", "rewait"} \/ Expired(handle.day)

(* What the calls held to the caps cost in a day stays within the daily cap,   *)
(* an overrun by the calls of one composer run, which is let in on the         *)
(* estimate of one call, and what failed or retried attempts, failed runs and  *)
(* crashes have kept from the meter (would_exceed_caps_composer,               *)
(* would_exceed_caps_classifier, roll_to_day, record_composer).                *)
SpendBounded ==
    \A most \in Costs : (\A c \in Costs : c <= most) =>
        \/ billed <= lost
        \/ billed - lost <= (UsdCap - Estimate) + (MaxIterations + 1) * most
=============================================================================
