------------------------------- MODULE Mojang -------------------------------
(***************************************************************************)
(* The resolver of user names (mojang.rs, types/user.rs): a table of       *)
(* answers with a time to live, shared by the store's task and the chat's  *)
(* task, and one lookup in flight per name.  The first caller to miss the  *)
(* table leads and asks the service; the others follow, wait for the       *)
(* leader's notification and read the table again.                         *)
(*                                                                         *)
(* Time passes in ticks; an age stops at the length of the longest life,   *)
(* beyond which nothing depends on it.  Names are compared in lower case,  *)
(* so a name stands for every spelling of it.                              *)
(***************************************************************************)
EXTENDS Integers, FiniteSets, Functions

CONSTANTS Callers,        \* the tasks that resolve names
          Names,
          Accounts,       \* the UUIDs the service may answer with
          Nobody,         \* no account bears the name
          TimeToLive,     \* ticks an account found is served from the table
          NegTimeToLive,  \* ticks the absence of an account is
          MaxRetryAfter,  \* ticks the service may have a refused name wait at most
          MaxCache,       \* MAX_UUID_CACHE_ENTRIES
          MaxLookup,      \* ticks a lookup takes at most: two requests with timeouts
          StaleLookup,    \* ticks after which a lookup counts as dead
          FirstOwner,     \* who bears each name at the start
          Renames         \* the changes of a name's owner that may happen

Errors == {"not_found", "rate_limited", "transport"}

ASSUME MojangAssumption ==
  /\ Nobody \notin Accounts /\ Errors \intersect Accounts = {}
  /\ TimeToLive \in Nat \ {0}
  /\ NegTimeToLive \in 1 .. TimeToLive
  /\ MaxRetryAfter \in Nat /\ TimeToLive <= MaxRetryAfter
  /\ MaxCache \in Nat \ {0}
  /\ MaxLookup \in Nat
  /\ StaleLookup \in Nat /\ MaxLookup < StaleLookup
  /\ FirstOwner \in [Names -> Accounts \union {Nobody}]
  /\ Renames \subseteq Names \X (Accounts \union {Nobody})

VARIABLES cache,     \* UUID_CACHE: the entry of each name that has one
          in_flight, \* IN_FLIGHT: the age of the lookup of each name that has one
          call,      \* where each caller is inside resolve_user_uuid
          owner,     \* the account that bears each name, at the service
          disowned   \* how long ago each account last bore each name

mojangVars == <<cache, in_flight, call, owner, disowned>>

(***************************************************************************)
(* Entries and callers                                                     *)
(***************************************************************************)
Least(a, b) == IF a <= b THEN a ELSE b
Older(age, most) == Least(age + 1, most)

Found(account) == [kind |-> "found", account |-> account, left |-> TimeToLive, idle |-> 0]
NotFound       == [kind |-> "not_found", account |-> Nobody, left |-> NegTimeToLive, idle |-> 0]
RateLimited(hint) == [kind |-> "rate_limited", account |-> Nobody, left |-> hint, idle |-> 0]

Entry == [kind : {"found", "not_found", "rate_limited"}, account : Accounts \union {Nobody},
          left : 0 .. MaxRetryAfter, idle : 0 .. MaxRetryAfter]

is_fresh(entry) == entry.left > 0

Answers == Accounts \union Errors

AnswerOf(entry) == IF entry.kind = "found" THEN entry.account ELSE entry.kind

\* "follow" holds the notifier of the lookup it found and has not registered with it;
\* "parked" is registered.  "known" is TRUE while that notifier is the one in the map.
Stages == {"idle", "missed", "follow", "parked", "woken", "asking", "again",
           "direct", "direct_again", "storing", "done"}

Call == [at : Stages, name : Names, known : BOOLEAN, again : BOOLEAN, answer : Answers]

NoCall == [at |-> "idle", name |-> CHOOSE n \in Names : TRUE, known |-> FALSE, again |-> FALSE,
           answer |-> "transport"]

Idle(c) == call[c].at = "idle"

MojangTypeOK ==
  /\ DOMAIN cache \subseteq Names /\ \A n \in DOMAIN cache : cache[n] \in Entry
  /\ DOMAIN in_flight \subseteq Names
  /\ \A n \in DOMAIN in_flight : in_flight[n] \in 0 .. StaleLookup
  /\ call \in [Callers -> Call]
  /\ owner \in [Names -> Accounts \union {Nobody}]
  /\ disowned \in [Names -> [Accounts -> 0 .. TimeToLive]]

(***************************************************************************)
(* The table                                                               *)
(***************************************************************************)
\* The entry that serves a lookup, touched when it is an account found: only those
\* rise in the order of eviction.
Hit(n) == n \in DOMAIN cache /\ is_fresh(cache[n])

(* Mutant: an entry that serves starts a new life. *)
TouchedRenews(n) ==
  IF cache[n].kind = "found" THEN [cache EXCEPT ![n].idle = 0, ![n].left = TimeToLive] ELSE cache

Touched(n) ==
  IF cache[n].kind = "found" THEN [cache EXCEPT ![n].idle = 0] ELSE cache

Sweep(table) == Restrict(table, {n \in DOMAIN table : is_fresh(table[n])})

\* The least recently used of the negative entries, or of all when there are none.
Victims(table) ==
  LET negative == {n \in DOMAIN table : table[n].kind # "found"}
      pool     == IF negative = {} THEN DOMAIN table ELSE negative
  IN  {n \in pool : \A m \in pool : table[n].idle >= table[m].idle}

IsFull(table) == Cardinality(DOMAIN table) >= MaxCache

\* evict_cache_if_needed: the tables it may leave.
Evicted(table) ==
  IF ~IsFull(table) THEN {table}
  ELSE LET swept == Sweep(table)
       IN  IF ~IsFull(swept) THEN {swept}
           ELSE {Restrict(swept, DOMAIN swept \ {n}) : n \in Victims(swept)}

Put(table, n, entry) == [m \in DOMAIN table \union {n} |-> IF m = n THEN entry ELSE table[m]]

insert(n, entry) == \E table \in Evicted(cache) : cache' = Put(table, n, entry)

\* cleanup_uuid_cache, and the sweep of lookups that have lasted too long: their
\* followers are woken.
cleanup_uuid_cache ==
  LET dead == {n \in DOMAIN in_flight : in_flight[n] >= StaleLookup}
  IN  /\ cache' = Sweep(cache)
      /\ in_flight' = Restrict(in_flight, DOMAIN in_flight \ dead)
      /\ call' = [c \in Callers |->
                    IF call[c].at = "parked" /\ call[c].known /\ call[c].name \in dead
                    THEN [call[c] EXCEPT !.at = "woken"]
                    ELSE IF call[c].at = "follow" /\ call[c].name \in dead
                    THEN [call[c] EXCEPT !.known = FALSE]
                    ELSE call[c]]
      /\ UNCHANGED <<owner, disowned>>

(***************************************************************************)
(* resolve_user_uuid                                                       *)
(***************************************************************************)
Answered(c, answer) == call' = [call EXCEPT ![c].at = "done", ![c].answer = answer]

At(c, stage) == call[c].at = stage

MovesTo(c, stage) == call' = [call EXCEPT ![c].at = stage]

\* check_cache: a hit ends the call, a miss sends it to the next stage.
check_cache(c, n, base, miss) ==
  IF Hit(n)
  THEN /\ call' = [call EXCEPT ![c] = [base EXCEPT !.at = "done", !.known = FALSE, !.answer = AnswerOf(cache[n])]]
       /\ cache' = Touched(n)
  ELSE /\ call' = [call EXCEPT ![c] = [base EXCEPT !.at = miss]]
       /\ UNCHANGED cache

resolve_user_uuid(c, n) ==
  /\ Idle(c)
  /\ check_cache(c, n, [NoCall EXCEPT !.name = n], "missed")
  /\ UNCHANGED <<in_flight, owner, disowned>>

\* Under the lock of IN_FLIGHT: lead when nobody does, else take the notifier.
TakeRole(c) ==
  LET n == call[c].name
  IN  /\ At(c, "missed")
      /\ IF n \in DOMAIN in_flight
         THEN /\ call' = [call EXCEPT ![c].at = "follow", ![c].known = TRUE]
              /\ UNCHANGED in_flight
         ELSE /\ MovesTo(c, "asking")
              /\ in_flight' = Put(in_flight, n, 0)
      /\ UNCHANGED <<cache, owner, disowned>>

\* The follower registers with the notifier, reads the table once more and waits.
Register(c) ==
  /\ At(c, "follow")
  /\ check_cache(c, call[c].name, call[c], "parked")
  /\ UNCHANGED <<in_flight, owner, disowned>>

\* The reply of the service.  A network error is asked again once.
Reply(c, hint) ==
  LET n        == call[c].name
      leads    == call[c].at \in {"asking", "again"}
      settles  == IF leads THEN "storing" ELSE "done"
      retry    == IF leads THEN "again" ELSE "direct_again"
      says     == IF owner[n] = Nobody THEN "not_found" ELSE owner[n]
      Ends(answer, stored) ==
        /\ call' = [call EXCEPT ![c].at = settles, ![c].answer = answer]
        /\ IF leads /\ answer # "transport" THEN insert(n, stored) ELSE UNCHANGED cache
  IN  /\ call[c].at \in {"asking", "again", "direct", "direct_again"}
      /\ \/ Ends(says, IF says = "not_found" THEN NotFound ELSE Found(owner[n]))
         \/ Ends("rate_limited", RateLimited(hint))
         \/ Ends("transport", NotFound)
         \/ /\ call[c].at \in {"asking", "direct"}
            /\ MovesTo(c, retry)
            /\ UNCHANGED cache
      /\ UNCHANGED <<in_flight, owner, disowned>>

\* The leader takes its lookup out of the map and wakes those registered with it.
Notify(c) ==
  LET n == call[c].name
      Follower(d) == call[d].name = n /\ call[d].known /\ d # c
  IN  /\ At(c, "storing")
      /\ in_flight' = Restrict(in_flight, DOMAIN in_flight \ {n})
      /\ call' = [d \in Callers |->
                    IF d = c THEN [call[d] EXCEPT !.at = "done", !.known = FALSE]
                    ELSE IF Follower(d) /\ At(d, "parked") THEN [call[d] EXCEPT !.at = "woken", !.known = FALSE]
                    ELSE IF Follower(d) /\ At(d, "follow") THEN [call[d] EXCEPT !.known = FALSE]
                    ELSE call[d]]
      /\ UNCHANGED <<cache, owner, disowned>>

\* A follower woken with nothing in the table starts over once, then asks by itself.
Woken(c) ==
  /\ At(c, "woken")
  /\ IF Hit(call[c].name) \/ call[c].again
     THEN check_cache(c, call[c].name, call[c], "direct")
     ELSE /\ call' = [call EXCEPT ![c].at = "missed", ![c].again = TRUE]
          /\ UNCHANGED cache
  /\ UNCHANGED <<in_flight, owner, disowned>>

\* The caller goes on with the answer.
Return(c) ==
  /\ At(c, "done")
  /\ call' = [call EXCEPT ![c] = NoCall]

Resolving(c) ==
  \/ TakeRole(c)
  \/ Register(c)
  \/ Notify(c)
  \/ Woken(c)
  \/ \E hint \in 0 .. MaxRetryAfter : Reply(c, hint)

(***************************************************************************)
(* The service and the clock                                               *)
(***************************************************************************)
\* A name passes to another account, or to none.
Rename(n, account) ==
  /\ owner[n] # account
  /\ owner' = [owner EXCEPT ![n] = account]
  /\ disowned' = [m \in Names |-> [a \in Accounts |->
                    IF m = n /\ a = owner[n] THEN 0 ELSE disowned[m][a]]]
  /\ UNCHANGED <<cache, in_flight, call>>

\* Steps between two locks take no time; requests and waits do.
Waiting == {"idle", "parked", "asking", "again", "direct", "direct_again"}

MojangTick ==
  /\ \A c \in Callers : call[c].at \in Waiting
  /\ \A n \in DOMAIN in_flight : in_flight[n] < MaxLookup
  /\ cache' = [n \in DOMAIN cache |->
                 [cache[n] EXCEPT !.left = IF @ = 0 THEN 0 ELSE @ - 1, !.idle = Older(@, MaxRetryAfter)]]
  /\ in_flight' = [n \in DOMAIN in_flight |-> in_flight[n] + 1]
  /\ disowned' = [n \in Names |-> [a \in Accounts |->
                    IF owner[n] = a THEN disowned[n][a] ELSE Older(disowned[n][a], TimeToLive)]]
  /\ UNCHANGED <<call, owner>>

MojangInit ==
  /\ cache = [n \in {} |-> NotFound]
  /\ in_flight = [n \in {} |-> 0]
  /\ call = [c \in Callers |-> NoCall]
  /\ owner = FirstOwner
  /\ disowned = [n \in Names |-> [a \in Accounts |-> TimeToLive]]

(***************************************************************************)
(* What the resolver promises                                              *)
(***************************************************************************)
\* An account bears a name, or bore it less than a time to live ago.
Bears(n, account) == owner[n] = account \/ disowned[n][account] < TimeToLive

\* A caller that waits for a lookup waits for one that is still in the map: the
\* registration cannot miss the leader's notification.
FollowersAreWoken ==
  \A c \in Callers : At(c, "parked") => call[c].known
=============================================================================
