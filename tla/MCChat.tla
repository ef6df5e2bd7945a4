-------------------------------- MODULE MCChat --------------------------------
(* Small instances of Chat. *)
EXTENDS Chat, TLC

CONSTANTS ann, bob

MCPlayers == Permutations(Players)

Nothing == [events |-> 0, commands |-> 0, ticks |-> 0, days |-> 0, restarts |-> 1,
            nameless |-> 0, offers |-> {}]

\* Forgetting a player while others talk to a chat that is paused: the files.
ForgetInPause == [left |-> [Nothing EXCEPT !.events = 2, !.commands = 1,
                                           !.offers = {"forget"}],
                  faults |-> 1, paused |-> TRUE]

\* Forgetting a player across midnight, beside a turn with him or another.
ForgetAtMidnight == [left |-> [Nothing EXCEPT !.events = 1, !.commands = 1, !.days = 1,
                                              !.offers = {"forget"}],
                     faults |-> 0, paused |-> FALSE]

\* Two lines and a midnight: what is spent.
Spending == [left |-> [Nothing EXCEPT !.events = 2, !.days = 1],
             faults |-> 0, paused |-> FALSE]

\* A crash between a line and another.
CrashAndSpend == [left |-> [Nothing EXCEPT !.events = 2, !.restarts = 2],
                  faults |-> 0, paused |-> FALSE]

\* Commands in the slot and in the channel, beside a line.
SniffedCommands == [left |-> [Nothing EXCEPT !.events = 1, !.commands = 2,
                        !.offers = {"shutdown", "closed", "disconnected", "pause"}],
                    faults |-> 0, paused |-> FALSE]

\* The operator's other commands, beside a line.
OtherCommands == [left |-> [Nothing EXCEPT !.events = 1, !.commands = 1,
                 !.offers = {"shutdown", "closed", "status", "pause", "dry", "clear", "sweep",
                             "reflect", "disconnected", "reset", "trust", "regenerate"}],
               faults |-> 1, paused |-> FALSE]

\* A line with something failing, the bot without its name.
FailingTurn == [left |-> [Nothing EXCEPT !.events = 1, !.nameless = 1, !.days = 1],
                faults |-> 2, paused |-> FALSE]

\* A turn of the bot's own after a line.
OwnTurn == [left |-> [Nothing EXCEPT !.events = 1, !.ticks = 2, !.days = 1],
            faults |-> 1, paused |-> FALSE]

\* Lines that arrive faster than they are handled.
Chatter == [left |-> [Nothing EXCEPT !.events = 3], faults |-> 0, paused |-> FALSE]

MCPlans == {ForgetInPause, ForgetAtMidnight, Spending, CrashAndSpend, SniffedCommands,
            OtherCommands, FailingTurn, OwnTurn, Chatter}
=============================================================================
