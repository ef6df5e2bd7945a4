------------------------------ MODULE BotLink ------------------------------
(***************************************************************************)
(* The bot's task: one loop that either looks at the connection (tick) or  *)
(* takes an instruction, never both; the connection it keeps to the        *)
(* server, whose events arrive on their own; and the store and the chat    *)
(* that send it instructions through one bounded channel.                  *)
(*                                                                         *)
(* The task that holds a connection is aborted before another is started,  *)
(* and an abort takes its time.  What the bot does with an instruction     *)
(* other than Restart and Shutdown is one step here (OrderExecution,       *)
(* ShulkerOps).                                                            *)
(***************************************************************************)
EXTENDS Naturals, Sequences, FiniteSets, SequencesExt

CONSTANTS Tasks,     \* client tasks that can be about at once
          MaxQueue   \* the channel's bound: 128 in the code

ASSUME LinkAssumption == Tasks # {} /\ "none" \notin Tasks /\ MaxQueue \in Nat \ {0}

NoTask == "none"
Kinds  == {"work", "chat", "restart", "shutdown"}
(* awaited: the store still waits for the answer. *)
Instruction == [kind : Kinds, awaited : BOOLEAN]
Nothing == [kind |-> "none", awaited |-> FALSE]

VARIABLES
  up,                  \* the server accepts the bot
  task,                \* of each client task: what it is doing
  client,              \* Bot.client: the session in use
  client_task,         \* Bot.client_task: the handle
  connecting, shutdown,\* the two flags
  was_connected,       \* at the last tick
  pc, now,             \* the loop, and the instruction in hand
  queue,               \* bot_tx .. bot_rx
  store, unsent        \* what the store waits for; what it has yet to send

link == <<task, client, client_task, connecting, shutdown>>
loop == <<was_connected, pc, now>>
user == <<queue, store, unsent>>
vars == <<up, link, loop, user>>

TypeOK ==
  /\ up \in BOOLEAN
  /\ task \in [Tasks -> {"none", "starting", "running", "aborted"}]
  /\ client \in Tasks \union {NoTask} /\ client_task \in Tasks \union {NoTask}
  /\ connecting \in BOOLEAN /\ shutdown \in BOOLEAN /\ was_connected \in BOOLEAN
  /\ pc \in {"first", "select", "init", "work", "close", "abort", "connect", "answer",
             "last", "ended"}
  /\ now \in Instruction \union {Nothing}
  /\ queue \in Seq(Instruction) /\ Len(queue) <= MaxQueue
  /\ store \in {"idle", "work", "restart", "shutdown", "gone"}
  /\ unsent \in Kinds \union {"none"}

(* Without an account the task ends at once. *)
Init ==
  /\ up \in BOOLEAN
  /\ task = [t \in Tasks |-> "none"] /\ client = NoTask /\ client_task = NoTask
  /\ connecting = FALSE /\ shutdown = FALSE /\ was_connected = FALSE
  /\ pc \in {"first", "ended"} /\ now = Nothing
  /\ queue = <<>> /\ store = "idle" /\ unsent = "none"

Goto(p) == pc' = p

---------------------------------------------------------------------------
(* The server and the client tasks: handle_event. *)

ServerChanges == up' = ~up /\ UNCHANGED <<link, loop, user>>

(* Event::Init *)
Joined(t) ==
  /\ up /\ task[t] = "starting"
  /\ task' = [task EXCEPT ![t] = "running"]
  /\ client' = t /\ connecting' = FALSE
  /\ UNCHANGED <<up, client_task, shutdown, loop, user>>

(* Event::Disconnect: whichever session it is of, the client is cleared.   *)
(* The library may join again on its own. *)
Dropped(t) ==
  /\ task[t] = "running" /\ (~up \/ client # t)
  /\ task' = [task EXCEPT ![t] = "starting"]
  /\ client' = NoTask /\ connecting' = FALSE
  /\ UNCHANGED <<up, client_task, shutdown, loop, user>>

(* Mutant: only the events let go of the latch. *)
TaskEndsLatched(t) ==
  /\ ~up /\ task[t] = "starting"
  /\ task' = [task EXCEPT ![t] = "none"]
  /\ UNCHANGED <<up, client, client_task, connecting, shutdown, loop, user>>

(* start() returns, with or without an event before. *)
TaskEnds(t) ==
  /\ ~up /\ task[t] = "starting"
  /\ task' = [task EXCEPT ![t] = "none"] /\ connecting' = FALSE
  /\ UNCHANGED <<up, client, client_task, shutdown, loop, user>>

Settled(t) ==
  /\ task[t] = "aborted"
  /\ task' = [task EXCEPT ![t] = "none"]
  /\ UNCHANGED <<up, client, client_task, connecting, shutdown, loop, user>>

---------------------------------------------------------------------------
(* connect *)

Status(t)  == IF t = NoTask THEN "none" ELSE task[t]
Alive(t)   == Status(t) \in {"starting", "running"}
Abort(t)   == task' = [u \in Tasks |-> IF u = t /\ Alive(u) THEN "aborted" ELSE task[u]]
Free(t)    == t \in Tasks /\ task[t] = "none"

(* It goes on at `next' when a task was started or is starting, and at     *)
(* `failed' when none was. *)
Busy(next) ==
  /\ connecting
  /\ Goto(next) /\ UNCHANGED link

(* The old task is gone; a new one is started, and reads the flag again.   *)
Start(next) ==
  /\ ~connecting
  /\ Status(client_task) = "none"
  /\ \E t \in Tasks :
       /\ Free(t)
       /\ task' = [task EXCEPT ![t] = "starting"]
       /\ client_task' = t
  /\ connecting' = TRUE /\ client' = NoTask
  /\ Goto(next) /\ UNCHANGED shutdown

(* The old task is told to end, which it does in time ... *)
AbortOld ==
  /\ ~connecting /\ Alive(client_task)
  /\ Abort(client_task)
  /\ UNCHANGED <<client, client_task, connecting, shutdown, pc>>

(* ... or not: no other is started, and it is let go. *)
TooSlow(failed) ==
  /\ ~connecting
  /\ Status(client_task) = "aborted"
  /\ client_task' = NoTask
  /\ Goto(failed)
  /\ UNCHANGED <<task, client, connecting, shutdown>>

(* Its refusal after a shutdown never comes about: each caller sees to the  *)
(* flag before. *)
connect(next, failed) ==
  Busy(next) \/ Start(next) \/ AbortOld \/ TooSlow(failed)

FirstConnect ==
  /\ pc = "first" /\ connect("select", "select")
  /\ UNCHANGED <<up, was_connected, now, user>>

Reconnect ==
  /\ pc = "connect" /\ connect("init", "select")
  /\ UNCHANGED <<up, was_connected, now, user>>

RestartConnect ==
  /\ pc = "answer" /\ now.kind = "restart"
  /\ connect("select", "select")
  /\ now' = IF pc' = "select" THEN Nothing ELSE now
  /\ UNCHANGED <<up, was_connected, user>>

---------------------------------------------------------------------------
(* The loop. *)

Tick ==
  /\ pc = "select"
  /\ was_connected' = (client # NoTask)
  /\ \/ client = NoTask /\ ~shutdown /\ Goto("connect")
     \/ client # NoTask /\ ~shutdown /\ Goto("select")
     \/ shutdown /\ Goto("last")
  /\ UNCHANGED <<up, link, now, user>>

(* Mutant: the poll for Init has no bound. *)
InitPollOnly ==
  /\ pc = "init" /\ client # NoTask
  /\ Goto("select")
  /\ UNCHANGED <<up, link, was_connected, now, user>>

(* Until Init or for 20 s. *)
InitPoll ==
  /\ pc = "init"
  /\ Goto("select")
  /\ UNCHANGED <<up, link, was_connected, now, user>>

Receive ==
  /\ pc = "select" /\ queue # <<>>
  /\ now' = Head(queue) /\ queue' = Tail(queue)
  /\ IF Head(queue).kind \in {"restart", "shutdown"}
     THEN /\ Goto("close")
          /\ shutdown' = (Head(queue).kind = "shutdown")
          /\ connecting' = FALSE
     ELSE Goto("work") /\ UNCHANGED <<shutdown, connecting>>
  /\ UNCHANGED <<up, task, client, client_task, was_connected, store, unsent>>

(* The answer finds the store waiting for it, or is dropped. *)
Answered == IF now.awaited THEN store' = "idle" ELSE UNCHANGED store

Work ==
  /\ pc = "work"
  /\ Answered
  /\ now' = Nothing /\ Goto("select")
  /\ UNCHANGED <<up, link, was_connected, queue, unsent>>

(* disconnect: the packet; a bounded wait for the event; the abort. *)
SendDisconnect ==
  /\ pc = "close" /\ Goto("abort")
  /\ IF Status(client) = "running"
     THEN \/ task' = [task EXCEPT ![client] = "none"] /\ client' = NoTask
          \/ UNCHANGED <<task, client>>
     ELSE UNCHANGED <<task, client>>
  /\ UNCHANGED <<up, client_task, connecting, shutdown, was_connected, now, user>>

AbortTask ==
  /\ pc = "abort" /\ Goto("answer")
  /\ Abort(client_task)
  /\ client_task' = NoTask /\ client' = NoTask
  /\ UNCHANGED <<up, connecting, shutdown, was_connected, now, user>>

(* The store is told, and the loop left. *)
ShutdownAnswer ==
  /\ pc = "answer" /\ now.kind = "shutdown"
  /\ store' = IF now.awaited THEN "gone" ELSE store
  /\ now' = Nothing /\ Goto("last")
  /\ UNCHANGED <<up, link, was_connected, queue, unsent>>

(* disconnect(true) once more; what is still queued goes unanswered.       *)
End ==
  /\ pc = "last" /\ Goto("ended")
  /\ shutdown' = TRUE /\ connecting' = FALSE
  /\ Abort(client_task) /\ client_task' = NoTask /\ client' = NoTask
  /\ queue' = <<>>
  /\ UNCHANGED <<up, was_connected, now, store, unsent>>

---------------------------------------------------------------------------
(* The store and the chat. *)

(* The store begins something that needs the bot; a Shutdown of the CLI is *)
(* the last thing it does. *)
StoreWants(k) ==
  /\ store = "idle" /\ unsent = "none"
  /\ store' = k /\ unsent' = k
  /\ UNCHANGED <<up, link, loop, queue>>

Sent == queue' = Append(queue, [kind |-> unsent, awaited |-> unsent # "restart"])

(* send().await: it waits for room, and fails when the bot is gone. *)
StoreSends ==
  /\ unsent # "none" /\ unsent' = "none"
  /\ \/ pc # "ended" /\ Len(queue) < MaxQueue /\ Sent
        /\ store' = IF unsent = "restart" THEN "idle" ELSE store
     \/ pc = "ended" /\ UNCHANGED queue
        /\ store' = IF unsent = "shutdown" THEN "gone" ELSE "idle"
  /\ UNCHANGED <<up, link, loop>>

(* The timeout on work; the instruction is still carried out. *)
StoreGivesUp ==
  /\ store = "work" /\ unsent = "none" /\ store' = "idle"
  /\ queue' = [i \in DOMAIN queue |-> [queue[i] EXCEPT !.awaited = FALSE]]
  /\ now' = [now EXCEPT !.awaited = FALSE]
  /\ UNCHANGED <<up, link, was_connected, pc, unsent>>

ChatSends ==
  /\ pc # "ended" /\ Len(queue) < MaxQueue
  /\ queue' = Append(queue, [kind |-> "chat", awaited |-> FALSE])
  /\ UNCHANGED <<up, link, loop, store, unsent>>

BotSteps ==
  \/ FirstConnect \/ Reconnect \/ RestartConnect \/ Tick \/ InitPoll \/ Receive \/ Work
  \/ SendDisconnect \/ AbortTask \/ ShutdownAnswer \/ End

LinkSteps ==
  \/ ServerChanges \/ \E t \in Tasks : Joined(t) \/ Dropped(t) \/ TaskEnds(t) \/ Settled(t)
  \/ BotSteps
  \/ StoreSends \/ StoreGivesUp \/ ChatSends

(* The runtime runs every task that can run; select! picks at random, so   *)
(* neither its tick nor its channel is passed over for ever; the channel   *)
(* serves senders in turn. *)
Fairness ==
  /\ WF_vars(FirstConnect \/ Reconnect \/ RestartConnect \/ InitPoll \/ Work
             \/ SendDisconnect \/ AbortTask \/ ShutdownAnswer \/ End)
  /\ SF_vars(Tick) /\ SF_vars(Receive)
  /\ SF_vars(StoreSends)
  /\ \A t \in Tasks : WF_vars(Joined(t)) /\ WF_vars(Dropped(t)) /\ WF_vars(TaskEnds(t))
                      /\ WF_vars(Settled(t))

---------------------------------------------------------------------------
(* A server that stays up has the bot back, as long as the bot is not told *)
(* to restart over and over: no flag or lost task keeps it out. *)
Left == {"restart", "shutdown"} \intersect
          ({now.kind, unsent} \union {queue[i].kind : i \in DOMAIN queue})
ComesBack == <>[](up /\ Left = {}) => []<>(client # NoTask \/ pc = "ended")
=============================================================================
