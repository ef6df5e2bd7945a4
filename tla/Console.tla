------------------------------ MODULE Console ------------------------------
(***************************************************************************)
(* The operator's console, its own blocking thread: it offers a menu,      *)
(* asks to be sure, sends the store or the chat one request at a time and  *)
(* waits for the answer with no timeout of its own.  It is composed with   *)
(* the store as BotLink has it and with the chat as it is seen from here:  *)
(* there, if slow to answer, or gone.                                      *)
(***************************************************************************)
EXTENDS BotLink

CONSTANT MaxNodes   \* nodes an operator's discovery can find in the world

ASSUME ConsoleAssumption == MaxNodes \in Nat \ {0}

VARIABLES
  at,      \* where the console waits
  kind,    \* what its request asks of the store or the chat
  more,    \* questions of this command not yet answered
  chat     \* the chat task

desk == <<at, kind, more>>
all  == <<vars, desk, chat>>

DeskTypeOK ==
  /\ TypeOK
  /\ at \in {"menu", "posted", "served", "asking", "ended"}
  /\ kind \in {"none", "plain", "job", "restart", "shutdown", "chat", "exit"}
  /\ more \in 0..MaxNodes + 1
  /\ chat \in {"there", "ended"}

(* A chat that is not enabled ends at once, and its entries are not offered. *)
InitConsole ==
  /\ Init
  /\ at = "menu" /\ kind = "none" /\ more = 0
  /\ chat \in {"there", "ended"}

Waiting(where, k, questions) == at' = where /\ kind' = k /\ more' = questions
Menu == Waiting("menu", "none", 0)

---------------------------------------------------------------------------
(* The menu.  What an entry asks its operator comes before anything is     *)
(* sent, a prompt that cannot be read is put again, and an entry that is   *)
(* not confirmed has done nothing: so an action is an entry that was.      *)
(* blocking_send fails only to a task that has ended, which the store has  *)
(* not as long as the console is there. *)

AskStore(k, questions) ==
  /\ at = "menu" /\ Waiting("posted", k, questions)
  /\ UNCHANGED <<chat, vars>>

AskChat(k, questions) ==
  /\ at = "menu" /\ chat # "ended" /\ Waiting("asking", k, questions)
  /\ UNCHANGED <<chat, vars>>

get_balances  == AskStore("plain", 1)
get_pairs     == AskStore("plain", 2)   \* the fee, then the pairs
set_operator  == AskStore("plain", 1)
add_node      == AskStore("plain", 1)
remove_node   == AskStore("plain", 1)
add_pair      == AskStore("plain", 1)
remove_pair   == AskStore("plain", 1)
view_storage  == AskStore("plain", 1)
view_trades   == AskStore("plain", 1)
clear_stuck_order == AskStore("plain", 1)
audit_state       == AskStore("plain", 1)
restart_bot       == AskStore("restart", 1)
add_node_with_validation == AskStore("job", 1)
discover_storage         == \E n \in 1..MaxNodes + 1 : AskStore("job", n)

chat_status             == AskChat("chat", 1)
chat_show_token_spend   == AskChat("chat", 1)
chat_show_decision_log  == AskChat("chat", 1)
chat_replay_event       == AskChat("chat", 1)
chat_reset_player_memory == AskChat("chat", 1)
chat_dump_player_memory  == AskChat("chat", 1)
chat_set_operator_trust  == AskChat("chat", 1)
chat_regenerate_persona  == AskChat("chat", 1)
chat_forget_player       == AskChat("chat", 1)  \* the name is typed twice
chat_set_paused          == AskChat("chat", 1)
chat_toggle_dry_run      == \E n \in 1..2 : AskChat("chat", n)  \* the status, then the flag unless pinned
chat_clear_moderation    == AskChat("chat", 1)
chat_run_reflection      == AskChat("chat", 1)
chat_run_sweep           == AskChat("chat", 1)

(* Exit: the chat is shut down first, if it is there; then the store.      *)
Exit == AskChat("exit", 1) \/ (chat = "ended" /\ AskStore("shutdown", 1))

Chosen ==
  \/ get_balances \/ get_pairs \/ set_operator \/ add_node \/ remove_node
  \/ add_pair \/ remove_pair \/ view_storage \/ view_trades
  \/ clear_stuck_order \/ audit_state \/ restart_bot
  \/ add_node_with_validation \/ discover_storage
  \/ chat_status \/ chat_show_token_spend \/ chat_show_decision_log
  \/ chat_replay_event \/ chat_reset_player_memory \/ chat_dump_player_memory
  \/ chat_set_operator_trust \/ chat_regenerate_persona \/ chat_forget_player
  \/ chat_set_paused \/ chat_toggle_dry_run \/ chat_clear_moderation
  \/ chat_run_reflection \/ chat_run_sweep \/ Exit

---------------------------------------------------------------------------
(* The answer, or the end of the channel it should have come through.      *)
(* The second question of a command is put even when the first was not     *)
(* answered (get_pairs has a fee to fall back on), or is not. *)
ChatReturns ==
  \/ kind = "chat" /\ more > 1 /\ Waiting("asking", kind, more - 1)
  \/ kind = "chat" /\ Menu
  \/ kind = "exit" /\ Waiting("posted", "shutdown", 1)

StoreReturns ==
  \/ kind = "plain" /\ more > 1 /\ Waiting("posted", kind, more - 1)
  \/ kind = "plain" /\ more = 1 /\ Menu
  \/ kind \in {"job", "restart"} /\ Menu
  \/ kind = "shutdown" /\ Waiting("ended", "none", 0)

(* The store takes the message between two orders; most need nobody else.  *)
StoreServes ==
  /\ at = "posted" /\ store = "idle" /\ unsent = "none"
  /\ IF kind = "plain"
     THEN StoreReturns /\ UNCHANGED vars
     ELSE Waiting("served", kind, more) /\ StoreWants(IF kind = "job" THEN "work" ELSE kind)
  /\ UNCHANGED chat

(* A node found: the bot is sent on to the next place. *)
NextPlace ==
  /\ at = "served" /\ kind = "job" /\ more > 1
  /\ StoreWants("work")
  /\ Waiting("served", kind, more - 1)
  /\ UNCHANGED chat

(* A discovery ends with the first place that is not a node, that the bot  *)
(* does not answer for, or that it cannot be sent to. *)
StoreReplies ==
  /\ at = "served" /\ store \in {"idle", "gone"} /\ unsent = "none"
  /\ StoreReturns
  /\ UNCHANGED <<chat, vars>>

---------------------------------------------------------------------------
(* The chat task. *)

(* A command is answered between two events, or after the turn that took   *)
(* it in; Shutdown is the last. *)
ChatAnswers ==
  /\ at = "asking" /\ chat = "there"
  /\ ChatReturns
  /\ chat' = IF kind = "exit" THEN "ended" ELSE "there"
  /\ UNCHANGED vars

(* A command taken in during a turn may be dropped with its answer. *)
ChatDrops ==
  /\ at = "asking" /\ chat = "there"
  /\ ChatReturns
  /\ UNCHANGED <<chat, vars>>

(* A panic ends the chat only, with whatever it was asked; a second        *)
(* question then finds nobody. *)
ChatPanics ==
  /\ chat = "there" /\ chat' = "ended"
  /\ IF at = "asking" THEN ChatReturns /\ at' # "asking" ELSE UNCHANGED desk
  /\ UNCHANGED vars

(* Its last senders are gone: the console's and the bot's. *)
ChatClosed ==
  /\ at = "ended" /\ pc = "ended" /\ chat = "there" /\ chat' = "ended"
  /\ UNCHANGED <<vars, desk>>

---------------------------------------------------------------------------
(* main joins the store, the bot and the console. *)
Down == at = "ended" /\ pc = "ended" /\ store = "gone"

Joins == Down /\ UNCHANGED all

(* An order's work, or its whispers; the store does one thing at a time. *)
Orders == at # "served" /\ StoreWants("work")

NextConsole ==
  \/ (LinkSteps \/ Orders) /\ UNCHANGED <<desk, chat>>
  \/ Chosen
  \/ StoreServes \/ NextPlace \/ StoreReplies
  \/ ChatAnswers \/ ChatDrops \/ ChatPanics \/ ChatClosed
  \/ Joins

(* The store drains its channel, in turn, between two orders; the chat's   *)
(* select! picks at random.  Nothing makes the operator choose. *)
FairConsole ==
  /\ Fairness
  /\ WF_all(StoreReplies) /\ SF_all(StoreServes) /\ WF_all(ChatAnswers)

SpecConsole == InitConsole /\ [][NextConsole]_all /\ FairConsole

---------------------------------------------------------------------------
(* Whatever the operator asked, the console comes back to its menu, or has *)
(* gone with the bot and the store: with the chat deep in a turn, dropping *)
(* the command or dead; with orders still coming in; with the bot between  *)
(* two connections, late, or gone.  Nobody waits for each other for ever.  *)
ConsoleReturns ==
  at \in {"posted", "served", "asking"} ~> (at = "menu" \/ Down)
=============================================================================
