------------------------------ MODULE PlayerDesk ------------------------------
(***************************************************************************)
(* The front of the store (handlers/player.rs, handlers/info.rs): a        *)
(* whispered command passes a gate under the sender's name, has the name   *)
(* resolved, passes a second gate under the account, and is carried out.   *)
(* The store handles one command at a time; while it waits for the         *)
(* resolver time passes and the chat's task resolves names of its own from *)
(* the same table.                                                         *)
(*                                                                         *)
(* "history" is not in the code: what each key has done and was told, kept *)
(* for ever and whatever the table of the gate forgets.                    *)
(***************************************************************************)
EXTENDS Mojang, RateLimiter

CONSTANTS Commands,  \* the commands players may whisper: [by, what, to, amount]
          ChatNames, \* the names the chat resolves
          Deposit,   \* the balance each account starts with
          Operators, \* the accounts with the operator flag
          MaxCommands, \* bound: the commands whispered, an operator's counted twice
          MaxChatCalls \* bound: the chat's calls

\* Those that name a player, those for operators, the others.
OperatorKinds == {"addcurrency", "removecurrency"}
Kinds == {"pay", "balance", "other"} \cup OperatorKinds

ASSUME DeskAssumption ==
  /\ {"store", "chat"} \subseteq Callers
  /\ Keys = ({"n"} \X Names) \union ({"u"} \X Accounts)
  /\ Commands \subseteq [by : Names, what : Kinds, to : Names, amount : Nat]
  /\ Commands # {}
  /\ ChatNames \subseteq Names
  /\ Deposit \in [Accounts -> Nat]
  /\ Operators \subseteq Accounts
  /\ \A a \in Accounts : \E n \in Names : FirstOwner[n] = a
  /\ MaxCommands \in Nat /\ MaxChatCalls \in Nat

VARIABLES stage,   \* where handle_player_command is
          command, \* the command it carries out, of no meaning when it is idle
          sender,  \* the account its sender was resolved to, of none before it is
          users,   \* Store::users: the name and the balance of each account seen
          reserve, \* the currency_stock of a pair
          history, \* see above
          calls    \* how many commands and calls of the chat there have been

deskVars == <<stage, command, sender, users, reserve>>
vars == <<mojangVars, limiterVars, deskVars, history, calls>>

NameKey(n) == <<"n", n>>
UuidKey(a) == <<"u", a>>

History == [message : 0 .. StaleAfter, \* since the last message accepted
            attempt : 0 .. StaleAfter, \* since the last attempt counted
            strikes : Violations,      \* too early attempts not yet forgiven
            promise : -1 .. MaxCooldown, \* what is left of the wait announced; -1: none was,
                                         \* or the window of forgiveness has passed
            told    : [1 .. 3 -> 0 .. StaleAfter]] \* since the last three notices

TypeOK ==
  /\ MojangTypeOK
  /\ LimiterTypeOK
  /\ stage \in {"idle", "sender", "target"}
  /\ command \in Commands
  /\ sender \in Accounts \union {Nobody}
  /\ DOMAIN users \subseteq Accounts
  /\ \A a \in DOMAIN users : users[a] \in [name : Names, balance : Nat]
  /\ reserve \in Nat
  /\ history \in [Keys -> History]
  /\ calls \in [store : 0 .. MaxCommands, chat : 0 .. MaxChatCalls]

(***************************************************************************)
(* What is remembered of a key, by the rule the gate states                *)
(***************************************************************************)
Strikes(k) == IF history[k].attempt >= ResetAfter THEN 0 ELSE history[k].strikes

IsOnTime(k) == history[k].message >= calculate_cooldown(Strikes(k))

Remembered(k, verdict) ==
  LET told == IF verdict.notice
              THEN [i \in 1 .. 3 |-> IF i = 1 THEN 0 ELSE history[k].told[i - 1]]
              ELSE history[k].told
  IN  [message |-> IF verdict.ok THEN 0 ELSE history[k].message,
       attempt |-> 0,
       strikes |-> IF verdict.ok THEN Strikes(k) ELSE Min2(Strikes(k) + 1, Saturation + 1),
       promise |-> verdict.wait,
       told    |-> told]

\* A refusal because the table is full is not the key's doing.
Remember(k) ==
  history' = IF Refused(k) THEN history
             ELSE [history EXCEPT ![k] = Remembered(k, Verdict(k))]

(***************************************************************************)
(* Users                                                                   *)
(***************************************************************************)
\* ensure_user_exists: a new account starts empty, a known one takes the name.
Registered(table, a, n) ==
  Put(table, a, [name |-> n, balance |-> IF a \in DOMAIN table THEN table[a].balance ELSE 0])

(***************************************************************************)
(* A command                                                               *)
(***************************************************************************)
IsOrder(m) == m.what \in OperatorKinds

Weight(m) == IF IsOrder(m) THEN 2 ELSE 1

NoCommand == CHOOSE m \in Commands : TRUE

\* The command is over.
Done ==
  /\ stage' = "idle"
  /\ command' = NoCommand
  /\ sender' = Nobody
  /\ Return("store")

\* The first gate, before any request for the name; a name out of shape is dropped
\* before it.
ReadCommand(m) ==
  /\ stage = "idle"
  /\ calls.store + Weight(m) <= MaxCommands
  /\ calls' = [calls EXCEPT !.store = @ + Weight(m)]
  /\ check(NameKey(m.by))
  /\ Remember(NameKey(m.by))
  /\ IF Verdict(NameKey(m.by)).ok
     THEN /\ stage' = "sender"
          /\ command' = m
          /\ resolve_user_uuid("store", m.by)
     ELSE UNCHANGED <<stage, command, mojangVars>>
  /\ UNCHANGED <<sender, users, reserve>>

\* The name has no account, or the service failed: the player is told, and that is all.
SenderUnknown ==
  /\ stage = "sender"
  /\ At("store", "done") /\ call["store"].answer \in Errors
  /\ Done
  /\ UNCHANGED <<cache, in_flight, owner, disowned, limiterVars, users, reserve, history,
                 calls>>

NamesPlayer(m) == m.what = "balance" \/ (m.what = "pay" /\ m.amount > 0)

ensure_operator(a) == a \in Operators

\* A command that names a player has that name resolved, and one for operators has its
\* sender's name resolved a second time.
NeedsTarget(m, a) == NamesPlayer(m) \/ (IsOrder(m) /\ ensure_operator(a))

\* The account is recorded, passes the second gate, and the command is dispatched.
SenderKnown ==
  LET a == call["store"].answer
      goes == Verdict(UuidKey(a)).ok /\ NeedsTarget(command, a)
  IN  /\ stage = "sender"
      /\ At("store", "done") /\ a \in Accounts
      /\ users' = Registered(users, a, command.by)
      /\ check(UuidKey(a))
      /\ Remember(UuidKey(a))
      /\ IF goes
         THEN stage' = "target" /\ sender' = a /\ Return("store") /\ UNCHANGED command
         ELSE Done
      /\ UNCHANGED <<cache, in_flight, owner, disowned, reserve, calls>>

\* The second lookup of a command that names a player.
ResolveTarget ==
  /\ stage = "target"
  /\ Idle("store")
  /\ resolve_user_uuid("store", command.to)
  /\ UNCHANGED <<limiterVars, deskVars, history, calls>>

\* pay_async: the amount moves from the sender to an account that is not the sender's,
\* which is recorded when it is new, and never more than the sender has.
Paid(a) ==
  LET with == IF a \in DOMAIN users THEN users ELSE Registered(users, a, command.to)
      rich == users[sender].balance >= command.amount
  IN  IF a = sender THEN users
      ELSE IF ~rich THEN with
      ELSE [with EXCEPT ![sender].balance = @ - command.amount,
                        ![sender].name    = command.by,
                        ![a].balance      = @ + command.amount]

PayOrBalance(a) ==
  /\ users' = IF command.what = "pay" /\ a \in Accounts THEN Paid(a) ELSE users
  /\ UNCHANGED reserve

\* The reserve of the pair changes by an amount that is positive and, taken out, is there;
\* a request that is refused records nobody.
handle_add_currency(a) ==
  IF command.amount > 0
  THEN reserve' = reserve + command.amount /\ users' = Registered(users, a, command.by)
  ELSE UNCHANGED <<reserve, users>>

handle_remove_currency(a) ==
  IF command.amount > 0 /\ reserve >= command.amount
  THEN reserve' = reserve - command.amount /\ users' = Registered(users, a, command.by)
  ELSE UNCHANGED <<reserve, users>>

\* The operator's name has no account any more, or the service failed.
resolve_operator_uuid(a) ==
  IF a \notin Accounts THEN UNCHANGED <<reserve, users>>
  ELSE IF command.what = "addcurrency" THEN handle_add_currency(a)
                                       ELSE handle_remove_currency(a)

TargetResolved ==
  LET a == call["store"].answer
  IN  /\ stage = "target"
      /\ At("store", "done")
      /\ IF IsOrder(command) THEN resolve_operator_uuid(a)
                                           ELSE PayOrBalance(a)
      /\ Done
      /\ UNCHANGED <<cache, in_flight, owner, disowned, limiterVars, history, calls>>

(***************************************************************************)
(* The rest of the process, and time                                       *)
(***************************************************************************)
\* Store::run sweeps both tables between two messages.
Cleanup ==
  /\ stage = "idle"
  /\ cleanup_stale
  /\ cleanup_uuid_cache
  /\ UNCHANGED <<deskVars, history, calls>>

\* The chat resolves the sender of an event, and goes on.
ChatAsks ==
  /\ calls.chat < MaxChatCalls
  /\ calls' = [calls EXCEPT !.chat = @ + 1]
  /\ \E n \in ChatNames : resolve_user_uuid("chat", n)
  /\ UNCHANGED <<limiterVars, deskVars, history>>

ChatGoesOn ==
  /\ Return("chat")
  /\ UNCHANGED <<cache, in_flight, owner, disowned, limiterVars, deskVars, history, calls>>

Resolver ==
  /\ \E c \in Callers : Resolving(c)
  /\ UNCHANGED <<limiterVars, deskVars, history, calls>>

\* A name changes hands.
Renaming ==
  /\ \E change \in Renames : Rename(change[1], change[2])
  /\ UNCHANGED <<limiterVars, deskVars, history, calls>>

Later(h) ==
  [message |-> Aged(h.message),
   attempt |-> Aged(h.attempt),
   strikes |-> h.strikes,
   promise |-> IF h.attempt + 1 >= ResetAfter THEN -1
               ELSE IF h.promise > 0 THEN h.promise - 1 ELSE h.promise,
   told    |-> [i \in 1 .. 3 |-> Aged(h.told[i])]]

Tick ==
  /\ stage = "target" => ~Idle("store")
  /\ MojangTick
  /\ LimiterTick
  /\ history' = [k \in Keys |-> Later(history[k])]
  /\ UNCHANGED <<deskVars, calls>>

\* Every account has been seen, under the name it bears.
FirstName(a) == CHOOSE n \in Names : FirstOwner[n] = a

Init ==
  /\ MojangInit
  /\ LimiterInit
  /\ stage = "idle"
  /\ command = NoCommand
  /\ sender = Nobody
  /\ calls = [store |-> 0, chat |-> 0]
  /\ reserve = 1
  /\ users = [a \in Accounts |-> [name |-> FirstName(a), balance |-> Deposit[a]]]
  /\ history = [k \in Keys |-> [message |-> StaleAfter, attempt |-> StaleAfter, strikes |-> 0,
                                promise |-> -1, told |-> [i \in 1 .. 3 |-> StaleAfter]]]

Next ==
  \/ \E m \in Commands : ReadCommand(m)
  \/ SenderUnknown
  \/ SenderKnown
  \/ ResolveTarget
  \/ TargetResolved
  \/ Cleanup
  \/ ChatAsks
  \/ ChatGoesOn
  \/ Resolver
  \/ Renaming
  \/ Tick

Spec == Init /\ [][Next]_vars

(***************************************************************************)
(* Properties                                                              *)
(***************************************************************************)
\* Forgetting an entry, because it is stale or because the table is full, never changes
\* what the gate says: a key has violations to serve, or a cooldown to wait, exactly when
\* its history says so (cleanup_stale, the inline sweep, the new entry).
PenaltyKept ==
  \A k \in Keys :
    LET entry == IF k \in DOMAIN limits THEN limits[k] ELSE NewEntry
    IN  /\ Passes(entry) <=> IsOnTime(k)
        /\ ~Passes(entry) => Struck(entry) = Min2(Strikes(k) + 1, Saturation + 1)

\* Who is told to wait, and does, passes at the next attempt, however full the table
\* (the wait is counted from the cooldown the rejection itself raised).
HonestWait ==
  \A k \in Keys :
    history[k].promise = 0 => k \in DOMAIN limits /\ Passes(limits[k])

\* However fast a player sends, no key is answered with a third notice in a window.
NoticesBounded == \A k \in Keys : history[k].told[3] >= ResetAfter

\* The account a name is resolved to bears it, or bore it less than a time to live ago:
\* serving an entry does not prolong it.
AnswerIsRecent ==
  \A c \in Callers :
    At(c, "done") /\ call[c].answer \in Accounts => Bears(call[c].name, call[c].answer)
=============================================================================
