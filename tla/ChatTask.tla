------------------------------- MODULE ChatTask -------------------------------
(* The chat task (chat/mod.rs): one loop over operator commands, lines heard   *)
(* from the bot and the ticks of its own clock; the turns of ChatTurn; the     *)
(* state kept in state.json; the forgetting of a player; beside it the writer  *)
(* of the history, the bot that publishes lines, midnight and crashes.         *)
EXTENDS ChatTurn

CONSTANTS
    BusCap,      \* the capacity of the broadcast of events
    MinSenders,  \* config.reflection_min_distinct_senders
    Plans        \* how much of what may happen: see PlanType

VARIABLES
    saved,    \* state.json
    slot,     \* replay_chat_cmd_next_tick
    sniffed,  \* sniffed_cmd of the turn under way
    bus,      \* the lines published and not yet received
    lagged,   \* the broadcast has dropped lines this task has not been told of
    backlog,  \* what is left of the backlog being drained
    drops,    \* bot_history_drops is not zero
    persona,  \* persona.md exists
    scrub,    \* the forgetting under way
    done,     \* player |-> how many requests to forget him were answered Ok
    unread,   \* the marks in files a scrub could not read and passed over
    left      \* what of the plan is left

loopVars == <<saved, slot, sniffed, bus, lagged, backlog, drops, persona, scrub, done,
              unread, left>>
vars == <<fileVars, turnVars, loopVars>>

Budgets == [events : Nat, commands : Nat, ticks : Nat, days : Nat, restarts : Nat,
            nameless : Nat,
            offers : SUBSET {"shutdown", "closed", "status", "pause", "dry", "clear",
                             "sweep", "reflect", "disconnected", "reset", "trust",
                             "regenerate", "forget"}]
\* A plan also says whether the chat was paused when it last stopped.
PlanType == [left : Budgets, faults : Nat, paused : BOOLEAN]

ASSUME TaskAssumption ==
    /\ BusCap \in Nat \ {0}
    /\ MinSenders \in Nat \ {0}
    /\ Plans \subseteq PlanType

NoCommand == [kind |-> "none", who |-> NoOne]
NoScrub == [who |-> NoOne, removed |-> FALSE, todo |-> {}, cur |-> 0, kept |-> {}]

TypeOK ==
    /\ FilesTypeOK
    /\ TurnTypeOK
    /\ saved \in ChatStates
    /\ slot.who \in Senders /\ sniffed.who \in Senders
    /\ bus \in Seq(Senders) /\ Len(bus) <= BusCap
    /\ backlog \in Seq(Senders)
    /\ lagged \in BOOLEAN /\ drops \in BOOLEAN /\ persona \in BOOLEAN
    /\ scrub.todo \subseteq Days /\ scrub.kept \subseteq Marks
    /\ done \in [Players -> 0..1]
    /\ unread \subseteq Marks
    /\ left \in Budgets

\* ChatState::default, for today
DefaultState(d) == [meter |-> FreshMeter(d), paused |-> FALSE, dry |-> FALSE, held |-> {},
                    known |-> FALSE, swept |-> 0 - 1]

RolledState == [cs EXCEPT !.meter = RollToDay(@, day)]

\* save: state.json is replaced, or a warning is logged.
Save(state) == \/ saved' = state /\ UNCHANGED faults
               \/ UNCHANGED saved /\ Fault

ToTop == Then("top")
Spend(what) == left[what] > 0 /\ left' = [left EXCEPT ![what] = @ - 1]

-----------------------------------------------------------------------------
(* Around the task.                                                            *)

\* The bot publishes a line: to the history's channel, then to the broadcast,
\* which drops its oldest line for a receiver that is behind.
Heard(p) ==
    /\ pc \notin {"stopped", "off"}
    /\ Spend("events")
    /\ inbox' = Enqueued(About(p))
    /\ drops' = (drops \/ Len(inbox) = InboxCap)
    /\ IF Len(bus) < BusCap THEN bus' = Append(bus, p) /\ UNCHANGED lagged
       ELSE bus' = Append(Tail(bus), p) /\ lagged' = TRUE
    /\ UNCHANGED <<day, acked, handle, logHandle, files, asked, turnVars,
                   saved, slot, sniffed, backlog, persona, scrub, done, unread>>

Midnight ==
    /\ day < MaxDay
    /\ Spend("days")
    /\ day' = day + 1
    /\ billed' = 0
    /\ lost' = 0
    /\ UNCHANGED <<inbox, acked, handle, logHandle, files, asked, pc, turn, cs, roster,
                   cancelled, faults, saved, slot, sniffed, bus, lagged, backlog, drops,
                   persona, scrub, done, unread>>

\* A hold is an instant: it passes for the state in memory and the saved one.
HoldPasses ==
    /\ \E h \in cs.held : /\ cs' = [cs EXCEPT !.held = @ \ {h}]
                          /\ saved' = [saved EXCEPT !.held = @ \ {h}]
    /\ UNCHANGED <<fileVars, pc, turn, roster, cancelled, billed, lost, faults,
                   slot, sniffed, bus, lagged, backlog, drops, persona, scrub, done,
                   unread, left>>

Writer == /\ \/ (WriteLine \/ AnswerDrop) /\ UNCHANGED faults
             \/ LineLost /\ Fault
          /\ UNCHANGED <<pc, turn, cs, roster, cancelled, billed, lost, loopVars>>

\* What the meter in memory has of today that the saved one has not.
Unsaved == IF cs.meter.day < day THEN 0
           ELSE Usd(cs.meter) - (IF saved.meter.day = day THEN Usd(saved.meter) ELSE 0)

\* The task's memory ends with the task.
Gone(where) ==
    /\ Then(where)
    /\ turn' = NoTurn
    /\ cs' = saved
    /\ roster' = {}
    /\ cancelled' = FALSE
    /\ slot' = NoCommand
    /\ sniffed' = NoCommand
    /\ bus' = <<>>
    /\ lagged' = FALSE
    /\ backlog' = <<>>
    /\ drops' = FALSE
    /\ scrub' = NoScrub

\* The process ends, with what the history's channel still holds.
Crash ==
    /\ pc # "stopped"
    /\ left.restarts > 0
    /\ lost' = lost + Unsaved + turn.cost
    /\ Gone("stopped")
    /\ inbox' = <<>>
    /\ acked' = FALSE
    /\ handle' = NoHandle
    /\ logHandle' = NoHandle
    /\ UNCHANGED <<day, files, asked, billed, faults, saved, persona, done, unread, left>>

\* The settings, the key, the persona, generated when there is none; then the
\* state, the startup sweep, the loop.
Start ==
    /\ pc = "stopped"
    /\ Spend("restarts")
    /\ \/ /\ Then("top")
          /\ persona' = TRUE
          /\ \/ cs' = [saved EXCEPT !.swept = day] /\ UNCHANGED <<lost, faults>>
             \/ /\ Fault
                /\ cs' = [DefaultState(day) EXCEPT !.swept = day]
                /\ lost' = lost + (IF saved.meter.day = day THEN Usd(saved.meter) ELSE 0)
          /\ Sweep
       \/ /\ Then("off")
          /\ Fault
          /\ UNCHANGED <<persona, cs, lost, files, handle, logHandle>>
    /\ UNCHANGED <<day, inbox, acked, asked, turn, roster, cancelled, billed, saved, slot,
                   sniffed, bus, lagged, backlog, drops, scrub, done, unread>>

-----------------------------------------------------------------------------
(* The loop.                                                                   *)

\* The history drops of the bot are counted for today at the head of the loop.
LoopHead ==
    /\ pc = "top"
    /\ Then("idle")
    /\ drops' = FALSE
    /\ cs' = IF drops THEN RolledState ELSE cs
    /\ UNCHANGED <<fileVars, turn, roster, cancelled, billed, lost, faults, saved, slot,
                   sniffed, bus, lagged, backlog, persona, scrub, done, unread, left>>

\* A command in the slot is polled beside the lines and the ticks; the branch
\* that wins leaves the slot empty.
EventTaken(named) ==
    /\ pc = "idle"
    /\ bus # <<>>
    /\ ~lagged
    /\ slot' = NoCommand
    /\ bus' = Tail(bus)
    /\ turn' = [NoTurn EXCEPT !.who = Head(bus), !.mode = "live"]
    /\ Then("taken")
    /\ IF named THEN UNCHANGED left ELSE Spend("nameless")
    /\ cs' = [RolledState EXCEPT !.known = named, !.swept = day]
    /\ IF cs.swept = day THEN UNCHANGED <<files, handle, logHandle>> ELSE Sweep
    /\ UNCHANGED <<day, inbox, acked, asked, roster, cancelled, billed, lost, faults, saved,
                   sniffed, lagged, backlog, drops, persona, scrub, done, unread>>

LagTold ==
    /\ pc = "idle"
    /\ lagged
    /\ lagged' = FALSE
    /\ slot' = NoCommand
    /\ cs' = RolledState
    /\ Decide(files, {})
    /\ ToTop
    /\ UNCHANGED <<day, inbox, acked, handle, asked, turn, roster, cancelled, billed, lost,
                   faults, saved, sniffed, bus, backlog, drops, persona, scrub, done,
                   unread, left>>

\* The bot's task is gone: the state is not saved.
EventsClosed ==
    /\ pc = "idle"
    /\ bus = <<>>
    /\ "closed" \in left.offers
    /\ lost' = lost + Unsaved
    /\ Gone("off")
    /\ UNCHANGED <<fileVars, billed, faults, saved, persona, done, unread, left>>

\* run_pass: what is pending is set aside before the model is asked.
ReflectionDue ==
    /\ pc = "taken"
    /\ Cardinality(PendingSenders) >= MinSenders
    /\ \/ files' = Rotated(files) /\ Then("reflecting") /\ UNCHANGED faults
       \/ Then("reflected") /\ Fault /\ UNCHANGED files
    /\ UNCHANGED <<day, inbox, acked, handle, logHandle, asked, turn, cs, roster, cancelled,
                   billed, lost, loopVars>>

\* Its cost is recorded, whatever the caps; an error leaves what was set aside
\* where it is and records nothing.
ReflectionEnds ==
    /\ pc = "reflecting"
    /\ Then(IF turn.mode = "live" THEN "reflected" ELSE "top")
    /\ \/ \E cost \in Costs :
              LET state == [cs EXCEPT !.meter = RecordClassifier(@, day, day, cost)]
              IN  cs' = state /\ Save(state) /\ Decide(files, {})
       \/ Fault /\ UNCHANGED <<cs, saved, files, logHandle>>
    /\ UNCHANGED <<day, inbox, acked, handle, asked, turn, roster, cancelled, billed, lost,
                   slot, sniffed, bus, lagged, backlog, drops, persona, scrub, done, unread,
                   left>>

PauseSeen ==
    /\ pc \in {"taken", "reflected"}
    /\ IF cs.paused
       THEN Decide(files, About(turn.who)) /\ ToTop /\ turn' = NoTurn
       ELSE Then("screen") /\ UNCHANGED <<files, logHandle, turn>>
    /\ UNCHANGED <<day, inbox, acked, handle, asked, cs, roster, cancelled, billed, lost,
                   faults, loopVars>>

-----------------------------------------------------------------------------
(* While a live turn runs, and after it.                                       *)

Offered(kind) == kind \in left.offers /\ Spend("commands")

\* One command is taken from the channel per turn; only the two that end a
\* session fire the token.
Sniff(kind, p) ==
    /\ turn.mode = "live"
    /\ pc \in Awaits
    /\ sniffed = NoCommand
    /\ Offered(kind)
    /\ sniffed' = [kind |-> kind, who |-> p]
    /\ IF kind \in {"shutdown", "disconnected"} /\ ~cancelled
       THEN cancelled' = TRUE /\ Decide(files, {})
       ELSE UNCHANGED <<cancelled, files, logHandle>>
    /\ UNCHANGED <<day, inbox, acked, handle, asked, pc, turn, cs, roster, billed, lost,
                   faults, saved, slot, bus, lagged, backlog, drops, persona, scrub, done,
                   unread>>

\* Most recent first, those that address the bot before the others.
Sooner(i, j, addressing) ==
    \/ i \in addressing /\ j \notin addressing
    \/ (i \in addressing <=> j \in addressing) /\ i > j

Prioritised(lines, addressing, order) ==
    \A k, l \in DOMAIN lines : k < l => Sooner(order[k], order[l], addressing)

\* The first try_recv of the drain takes the notice of a lag for an empty bus.
TurnEnded ==
    /\ pc = "after"
    /\ slot' = sniffed
    /\ sniffed' = NoCommand
    /\ turn' = NoTurn
    /\ IF cancelled THEN ToTop /\ UNCHANGED <<bus, lagged, backlog>>
       ELSE /\ Then("next")
            /\ lagged' = FALSE
            /\ IF lagged THEN UNCHANGED <<bus, backlog>>
               ELSE /\ bus' = <<>>
                    /\ \E addressing \in SUBSET DOMAIN bus,
                          order \in [DOMAIN bus -> DOMAIN bus] :
                          /\ Prioritised(bus, addressing, order)
                          /\ backlog' = [k \in DOMAIN bus |-> bus[order[k]]]
    /\ UNCHANGED <<fileVars, cs, roster, cancelled, billed, lost, faults, saved, drops,
                   persona, scrub, done, unread, left>>

NextOfBacklog ==
    /\ pc = "next"
    /\ backlog # <<>>
    /\ backlog' = Tail(backlog)
    /\ turn' = [NoTurn EXCEPT !.who = Head(backlog), !.mode = "backlog"]
    /\ Then("screen")
    /\ UNCHANGED <<fileVars, cs, roster, cancelled, billed, lost, faults, saved, slot,
                   sniffed, bus, lagged, drops, persona, scrub, done, unread, left>>

\* The roster loses whom it has not seen for hours; the state is saved.
BacklogDone ==
    /\ pc = "next"
    /\ backlog = <<>>
    /\ \E stale \in SUBSET roster : roster' = roster \ stale
    /\ Save(cs)
    /\ ToTop
    /\ UNCHANGED <<fileVars, turn, cs, cancelled, billed, lost, slot, sniffed, bus, lagged,
                   backlog, drops, persona, scrub, done, unread, left>>

-----------------------------------------------------------------------------
(* The bot's own turns.                                                        *)

TickPasses ==
    /\ pc = "idle"
    /\ Spend("ticks")
    /\ slot' = NoCommand
    /\ \E p \in roster \cup {NoOne} : Decide(files, About(p))
    /\ ToTop
    /\ UNCHANGED <<day, inbox, acked, handle, asked, turn, cs, roster, cancelled, billed,
                   lost, faults, saved, sniffed, bus, lagged, backlog, drops, persona,
                   scrub, done, unread>>

\* The gates of evaluate_proactive_tick passed, a partner who is online; the
\* moderation hold is not one of the gates.
TickFires(p) ==
    /\ pc = "idle"
    /\ Spend("ticks")
    /\ slot' = NoCommand
    /\ p \in roster
    /\ ~cs.paused
    /\ cs.held \cap {"model404", "throttle"} = {}
    /\ cs' = RolledState
    /\ Decide(files, About(p))
    /\ Then(IF ComposerAllowed(RolledState.meter) THEN "resolve" ELSE "ticked")
    /\ turn' = IF ComposerAllowed(RolledState.meter)
               THEN [NoTurn EXCEPT !.who = p, !.mode = "proactive"] ELSE NoTurn
    /\ UNCHANGED <<day, inbox, acked, handle, asked, roster, cancelled, billed, lost, faults,
                   saved, sniffed, bus, lagged, backlog, drops, persona, scrub, done,
                   unread>>

TickDone ==
    /\ pc = "ticked"
    /\ Save(cs)
    /\ ToTop
    /\ UNCHANGED <<fileVars, turn, cs, roster, cancelled, billed, lost, slot, sniffed, bus,
                   lagged, backlog, drops, persona, scrub, done, unread, left>>
=============================================================================
