------------------------------- MODULE ChatTurn -------------------------------
(* One turn of the chat: process_event for a line heard, live or from the      *)
(* backlog, and process_proactive_tick for a conversation the bot starts.      *)
(* A step runs from one await to the next.  What the model answers, what a     *)
(* gate of time, chance or wording decides, and what a call costs, is any of   *)
(* the outcomes the code tells apart.                                          *)
EXTENDS ChatFiles, ChatMeter

CONSTANTS
    NoOne,          \* the sender of a line that is no player's
    Costs,          \* what one call may cost
    MaxIterations,  \* config.composer_max_tool_iterations
    MaxShorten      \* MAX_SHORTEN_ITERS

ASSUME TurnAssumption ==
    /\ NoOne \notin Players
    /\ Costs \subseteq Nat
    /\ MaxIterations \in Nat \ {0}
    /\ MaxShorten \in Nat \ {0}

VARIABLES
    pc,         \* where the chat task waits
    turn,       \* the turn under way
    cs,         \* ChatState
    roster,     \* OnlinePlayers
    cancelled,  \* composer_cancel
    billed,     \* what the calls held to the caps have cost since midnight
    lost,       \* the part of it no meter has: attempts and runs that failed, states not saved
    faults      \* how many more calls and writes may fail

turnVars == <<pc, turn, cs, roster, cancelled, billed, lost, faults>>

Holds == {"moderation", "model404", "throttle"}
Senders == Players \cup {NoOne}

NoTurn == [who |-> NoOne, mode |-> "none", started |-> 0, resolved |-> FALSE,
           iter |-> 0, cost |-> 0, nudged |-> FALSE, before |-> 0, notes |-> 0,
           tries |-> 0]

Turns == [who : Senders, mode : {"none", "live", "backlog", "proactive"},
          started : Days, resolved : BOOLEAN, iter : Nat, cost : Nat,
          nudged : BOOLEAN, before : 0..MaxNotes, notes : 0..MaxNotes,
          tries : 0..MaxShorten]

ChatStates == [meter : [day : Days, composer : Nat, classifier : Nat, notes : Nat],
               paused : BOOLEAN, dry : BOOLEAN, held : SUBSET Holds,
               known : BOOLEAN, swept : Days \cup {0 - 1}]

TurnTypeOK ==
    /\ turn \in Turns
    /\ cs \in ChatStates
    /\ roster \subseteq Players
    /\ cancelled \in BOOLEAN
    /\ billed \in Nat
    /\ lost \in Nat
    /\ faults \in Nat

Fault == faults > 0 /\ faults' = faults - 1

Then(where) == pc' = where
AfterTurn(mode) ==
    CASE mode = "live" -> "after" [] mode = "backlog" -> "next" [] OTHER -> "ticked"
TurnOver == Then(AfterTurn(turn.mode)) /\ turn' = NoTurn

(* The decision is recorded, with the sender, and the turn is over. *)
EndWithDecision == Decide(files, About(turn.who)) /\ TurnOver

Metered(m) == cs' = [cs EXCEPT !.meter = m]

-----------------------------------------------------------------------------
(* The calls to the service.                                                   *)

\* An attempt without an answer to meter: refused, lost on the way there, or
\* lost after the service had done the work and billed it.
send_one_fails(cost) ==
    /\ Fault
    /\ billed' = billed + cost
    /\ lost' = lost + turn.cost + cost

\* Such an attempt is made again, in a composer's run without a look at the
\* token; what it may have cost is in no meter.
call_with_retry(cost) ==
    /\ pc \in {"classify", "compose", "filter", "shorten"}
    /\ pc = "compose" => ~cancelled
    /\ Fault
    /\ billed' = billed + cost
    /\ lost' = lost + cost
    /\ UNCHANGED <<pc, turn, cs, roster, cancelled, files, logHandle>>

\* The local limiter keeps a call from being made; a composer's run ends with
\* that as with any other error.
LimiterRefuses ==
    /\ pc = "classify" \/ (pc = "compose" /\ ~cancelled)
    /\ lost' = lost + turn.cost
    /\ EndWithDecision
    /\ UNCHANGED <<cs, roster, cancelled, billed, faults>>

Call == \/ \E cost \in Costs \cup {0} : call_with_retry(cost)
        \/ LimiterRefuses

-----------------------------------------------------------------------------
(* The pre-filter and the gate before the classifier.                          *)

\* A line of the server, a plugin or a moderator, or the echo of the bot's own.
NobodyTurnsUp(moderated) ==
    /\ pc = "screen"
    /\ turn.who = NoOne
    /\ IF moderated
       THEN /\ cs' = [cs EXCEPT !.held = @ \cup {"moderation"}]
            /\ Decide(files, {})
       ELSE UNCHANGED <<cs, files, logHandle>>
    /\ TurnOver
    /\ UNCHANGED <<roster, cancelled, billed, lost, faults>>

\* The bot has no name, now or from before.
BotUnnamed ==
    /\ pc = "screen"
    /\ turn.who # NoOne
    /\ ~cs.known
    /\ EndWithDecision
    /\ UNCHANGED <<cs, roster, cancelled, billed, lost, faults>>

PlayerLeft ==
    /\ pc = "screen"
    /\ turn.who # NoOne
    /\ roster' = roster \ {turn.who}
    /\ EndWithDecision
    /\ UNCHANGED <<cs, cancelled, billed, lost, faults>>

\* The moderation hold, the hours, the blocklist, a reply to someone else, the
\* gate's own rules, a cap that would be exceeded.
ScreenedOut ==
    /\ pc = "screen"
    /\ turn.who # NoOne
    /\ roster' = roster \cup {turn.who}
    /\ EndWithDecision
    /\ UNCHANGED <<cs, cancelled, billed, lost, faults>>

PassedOn ==
    /\ pc = "screen"
    /\ turn.who # NoOne
    /\ "moderation" \notin cs.held
    /\ ClassifierAllowed(cs.meter)
    /\ roster' = roster \cup {turn.who}
    /\ turn' = [turn EXCEPT !.started = day]
    /\ Then("classify")
    /\ UNCHANGED <<cs, cancelled, billed, lost, faults, files, logHandle>>

Screen == \/ \E moderated \in BOOLEAN : NobodyTurnsUp(moderated)
          \/ BotUnnamed \/ PlayerLeft \/ ScreenedOut \/ PassedOn

-----------------------------------------------------------------------------
(* The classifier.                                                             *)

\* A model that is not found keeps the composer off for an hour.
ClassifierFails(cost) ==
    /\ pc = "classify"
    /\ send_one_fails(cost)
    /\ \E h \in SUBSET {"model404"} : cs' = [cs EXCEPT !.held = @ \cup h]
    /\ EndWithDecision
    /\ UNCHANGED <<roster, cancelled>>

\* The cost is recorded before the answer is read; a call-out in it becomes a
\* pending lesson whether or not the bot is to respond.
ClassifierAnswers(cost, callout, respond) ==
    /\ pc = "classify"
    /\ Metered(RecordClassifier(cs.meter, day, turn.started, cost))
    /\ billed' = billed + cost
    /\ LET decided == Logged(files, About(turn.who))
       IN  files' = IF callout THEN WithLesson(decided, turn.who) ELSE decided
    /\ logHandle' = LogOpened
    /\ IF respond THEN Then("admit") /\ turn' = turn ELSE TurnOver
    /\ UNCHANGED <<roster, cancelled, lost, faults>>

ComposerOpen(m) == cs.held \cap {"model404", "throttle"} = {} /\ ComposerAllowed(m)

NotAdmitted ==
    /\ pc = "admit"
    /\ ~ComposerOpen(cs.meter)
    /\ EndWithDecision
    /\ UNCHANGED <<cs, roster, cancelled, billed, lost, faults>>

Admitted ==
    /\ pc = "admit"
    /\ ComposerOpen(cs.meter)
    /\ Then("resolve")
    /\ UNCHANGED <<turn, cs, roster, cancelled, billed, lost, faults, files, logHandle>>

Classify == \/ \E cost \in Costs \cup {0} : ClassifierFails(cost)
            \/ \E cost \in Costs, callout, respond \in BOOLEAN :
                   ClassifierAnswers(cost, callout, respond)
            \/ NotAdmitted \/ Admitted

-----------------------------------------------------------------------------
(* The sender's account, then the composer's run.                              *)

Composing(found) ==
    [turn EXCEPT !.started = day, !.resolved = found, !.before = cs.meter.notes]

\* A reply needs the sender's account; the token is looked at after it.
SenderUnresolved ==
    /\ pc = "resolve"
    /\ turn.mode # "proactive"
    /\ EndWithDecision
    /\ UNCHANGED <<cs, roster, cancelled, billed, lost, faults>>

SenderResolved ==
    /\ pc = "resolve"
    /\ files' = WithPlayerFile(files, turn.who)
    /\ IF cancelled THEN TurnOver ELSE Then("compose") /\ turn' = Composing(TRUE)
    /\ UNCHANGED <<cs, roster, cancelled, billed, lost, faults, logHandle>>

\* A turn of the bot's own goes on under an account that is nobody's.
PartnerUnresolved ==
    /\ pc = "resolve"
    /\ turn.mode = "proactive"
    /\ IF cancelled THEN TurnOver ELSE Then("compose") /\ turn' = Composing(FALSE)
    /\ UNCHANGED <<cs, roster, cancelled, billed, lost, faults, files, logHandle>>

Resolve == SenderUnresolved \/ SenderResolved \/ PartnerUnresolved

\* record_composer and the daily count of notes, with the decision; only a
\* reply to a player goes through the reasoning filter.
RunOver(cost, reply) ==
    /\ LET m == RecordComposer(cs.meter, day, turn.started, cost)
       IN  Metered([m EXCEPT !.notes = @ + turn.notes])
    /\ Decide(files, About(turn.who))
    /\ IF ~reply THEN TurnOver
       ELSE /\ Then(IF turn.mode = "proactive" THEN "shape" ELSE "filter")
            /\ turn' = [NoTurn EXCEPT !.who = turn.who, !.mode = turn.mode,
                                      !.started = turn.started]

\* The token is looked at before each call and nowhere else in the run.
ComposerCancelled ==
    /\ pc = "compose"
    /\ cancelled
    /\ RunOver(turn.cost, FALSE)
    /\ UNCHANGED <<roster, cancelled, billed, lost, faults>>

\* Whatever the run has used and counted so far is dropped with the error.
ComposerFails(cost) ==
    /\ pc = "compose"
    /\ ~cancelled
    /\ send_one_fails(cost)
    /\ \E h \in {{}, {"model404"}, {"throttle"}} : cs' = [cs EXCEPT !.held = @ \cup h]
    /\ EndWithDecision
    /\ UNCHANGED <<roster, cancelled>>

Called(cost) ==
    /\ pc = "compose"
    /\ ~cancelled
    /\ billed' = billed + cost
    /\ UNCHANGED <<roster, cancelled, lost, faults>>

ComposerSpeaks(cost) == Called(cost) /\ RunOver(turn.cost + cost, TRUE)

\* No text and no tool: once, the model is asked again, and the limit on
\* iterations is not looked at.
ComposerNudged(cost) ==
    /\ Called(cost)
    /\ ~turn.nudged
    /\ turn' = [turn EXCEPT !.iter = @ + 1, !.cost = @ + cost, !.nudged = TRUE]
    /\ Decide(files, {})
    /\ UNCHANGED <<pc, cs>>

ComposerSilent(cost) == Called(cost) /\ turn.nudged /\ RunOver(turn.cost + cost, FALSE)

\* It asks for tools in its last iteration, with or without a text.
ComposerOutOfTurns(cost, reply) ==
    Called(cost) /\ turn.iter + 1 >= MaxIterations /\ RunOver(turn.cost + cost, reply)

ComposerAsksTools(cost) ==
    /\ Called(cost)
    /\ turn.iter + 1 < MaxIterations
    /\ turn' = [turn EXCEPT !.iter = @ + 1, !.cost = @ + cost]
    /\ Then("tools")
    /\ UNCHANGED <<cs, files, logHandle>>

\* update_player_memory, the tool whose daily limit is followed here: only the
\* sender's own file, only while the limit is not reached.
NoteTaken ==
    /\ pc = "tools"
    /\ turn.resolved
    /\ NoteAllowed(turn.before, turn.notes)
    /\ files' = WithNote(files, turn.who)
    /\ turn' = [turn EXCEPT !.notes = @ + 1]
    /\ UNCHANGED <<pc, cs, roster, cancelled, billed, lost, faults, logHandle>>

NoteRefused ==
    /\ pc = "tools"
    /\ ~NoteAllowed(turn.before, turn.notes)
    /\ Decide(files, {})
    /\ Then("compose")
    /\ UNCHANGED <<turn, cs, roster, cancelled, billed, lost, faults>>

ToolsDone ==
    /\ pc = "tools"
    /\ Then("compose")
    /\ UNCHANGED <<turn, cs, roster, cancelled, billed, lost, faults, files, logHandle>>

Compose == \/ ComposerCancelled
           \/ \E cost \in Costs \cup {0} : ComposerFails(cost)
           \/ \E cost \in Costs : \/ ComposerSpeaks(cost) \/ ComposerNudged(cost)
                                  \/ ComposerSilent(cost) \/ ComposerAsksTools(cost)
                                  \/ \E reply \in BOOLEAN : ComposerOutOfTurns(cost, reply)
           \/ NoteTaken \/ NoteRefused \/ ToolsDone

-----------------------------------------------------------------------------
(* The filter on what the composer wrote.                                      *)

\* A cap, the limiter or an error: the line goes on as it is.
Unfiltered ==
    /\ pc \in {"filter", "shorten"}
    /\ Decide(files, About(turn.who))
    /\ Then("shape")
    /\ turn' = [turn EXCEPT !.tries = 0]
    /\ UNCHANGED <<cs, roster, cancelled>>

FilterSkipped     == Unfiltered /\ UNCHANGED <<billed, lost, faults>>
FilterFails(cost) == Unfiltered /\ send_one_fails(cost)

FilterCalled(cost) ==
    /\ ClassifierAllowed(cs.meter)
    /\ Metered(RecordClassifier(cs.meter, day, turn.started, cost))
    /\ billed' = billed + cost
    /\ Decide(files, About(turn.who))
    /\ UNCHANGED <<roster, cancelled, lost, faults>>

FilterRejects(cost) == pc \in {"filter", "shorten"} /\ FilterCalled(cost) /\ TurnOver

FilterPasses(cost) ==
    /\ pc \in {"filter", "shorten"}
    /\ FilterCalled(cost)
    /\ Then("shape")
    /\ turn' = [turn EXCEPT !.tries = 0]

\* What the filter put in its place is too long: up to MaxShorten more calls,
\* after which the line goes on at whatever length it has.
FilterTooLong(cost) ==
    /\ pc \in {"filter", "shorten"}
    /\ FilterCalled(cost)
    /\ LET tries == IF pc = "filter" THEN 0 ELSE turn.tries + 1
           again == tries < MaxShorten
       IN  /\ Then(IF again THEN "shorten" ELSE "shape")
           /\ turn' = [turn EXCEPT !.tries = IF again THEN tries ELSE 0]

Filter == \/ FilterSkipped
          \/ \E cost \in Costs \cup {0} : FilterFails(cost)
          \/ \E cost \in Costs : \/ FilterRejects(cost) \/ FilterPasses(cost)
                                 \/ FilterTooLong(cost)

-----------------------------------------------------------------------------
(* Shaping, the typing delay, the sending.                                     *)

\* Nothing is left of the line, or it would be a command.
ReplyBlocked ==
    /\ pc = "shape"
    /\ EndWithDecision
    /\ UNCHANGED <<cs, roster, cancelled, billed, lost, faults>>

ReplyShaped ==
    /\ pc = "shape"
    /\ Then("typing")
    /\ UNCHANGED <<turn, cs, roster, cancelled, billed, lost, faults, files, logHandle>>

\* Cancelled while typing, no name, the recheck, a dry run, the bot's channel
\* closed.
ReplyDropped ==
    /\ pc = "typing"
    /\ EndWithDecision
    /\ UNCHANGED <<cs, roster, cancelled, billed, lost, faults>>

\* The delay may run out in the instant the token is fired.
ReplyHandedOver ==
    /\ pc = "typing"
    /\ ~cs.dry
    /\ Then("send")
    /\ UNCHANGED <<turn, cs, roster, cancelled, billed, lost, faults, files, logHandle>>

\* The bot writes what it says into the history, or fails to say it.
ReplyAnswered(spoken) ==
    /\ pc = "send"
    /\ inbox' = IF spoken THEN Enqueued(About(turn.who)) ELSE inbox
    /\ EndWithDecision
    /\ UNCHANGED <<cs, roster, cancelled, billed, lost, faults>>

Reply == ReplyBlocked \/ ReplyShaped \/ ReplyDropped \/ ReplyHandedOver

-----------------------------------------------------------------------------
TurnStep ==
    \/ /\ Screen \/ Call \/ Classify \/ Resolve \/ Compose \/ Filter \/ Reply
       /\ UNCHANGED <<day, inbox, acked, handle, asked>>
    \/ /\ \E spoken \in BOOLEAN : ReplyAnswered(spoken)
       /\ UNCHANGED <<day, acked, handle, asked>>

\* The awaits of a turn, at which a command may be taken from the channel.
Awaits == {"screen", "classify", "resolve", "compose", "tools", "filter", "shorten",
           "typing", "send"}
=============================================================================
