----------------------------- MODULE RateLimiter -----------------------------
(***************************************************************************)
(* The anti-spam gate (store/rate_limit.rs): one entry per key, with a     *)
(* cooldown that doubles at each violation and is forgiven after a window  *)
(* of silence, in a table of bounded size.                                 *)
(*                                                                         *)
(* Instants are kept as ages in ticks, which stop at StaleAfter, the       *)
(* longest window anything compares them with; a notice never given is as  *)
(* old as that.                                                            *)
(***************************************************************************)
EXTENDS Integers, FiniteSets, Functions

CONSTANTS Keys,         \* the names and accounts that are gated
          BaseCooldown, \* RATE_LIMIT_BASE_COOLDOWN_MS
          MaxCooldown,  \* RATE_LIMIT_MAX_COOLDOWN_MS
          ResetAfter,   \* RATE_LIMIT_RESET_AFTER_MS
          StaleAfter,   \* RATE_LIMIT_STALE_AFTER_SECS
          Saturation,   \* SATURATION_THRESHOLD
          MaxEntries    \* MAX_RATE_LIMIT_ENTRIES

ASSUME LimiterAssumption ==
  /\ BaseCooldown \in Nat \ {0}
  /\ MaxCooldown \in Nat /\ BaseCooldown <= MaxCooldown
  /\ ResetAfter \in Nat /\ MaxCooldown <= ResetAfter
  /\ StaleAfter \in Nat /\ ResetAfter <= StaleAfter
  /\ Saturation \in 1 .. 10 /\ BaseCooldown * 2 ^ Saturation >= MaxCooldown
  /\ MaxEntries \in Nat \ {0}

VARIABLES limits,                   \* the entry of each key that has one
          cap_refusal_last_whisper, \* since the last notice of a full table
          last_inline_sweep         \* since the last sweep a full table caused

limiterVars == <<limits, cap_refusal_last_whisper, last_inline_sweep>>

\* Beyond Saturation a violation changes nothing: the count stops one later.
Violations == 0 .. Saturation + 1

UserRateLimit == [message    : 0 .. StaleAfter, \* since the last message accepted
                  attempt    : 0 .. StaleAfter, \* since the last one, accepted or not
                  violations : Violations,
                  whisper    : 0 .. StaleAfter] \* since the last notice

Min2(a, b) == IF a <= b THEN a ELSE b
Aged(age)  == Min2(age + 1, StaleAfter)

calculate_cooldown(violations) ==
  Min2(BaseCooldown * 2 ^ Min2(violations, 10), MaxCooldown)

(***************************************************************************)
(* One entry                                                               *)
(***************************************************************************)
\* A first message always passes: the last one is set before any cooldown.
NewEntry == [message    |-> Min2(MaxCooldown + 1, StaleAfter), attempt |-> 0,
             violations |-> 0,                                 whisper |-> StaleAfter]

\* After a window without attempts the violations and the notice are forgotten.
Forgiven(entry) ==
  IF entry.attempt >= ResetAfter
  THEN [entry EXCEPT !.violations = 0, !.whisper = StaleAfter]
  ELSE entry

Passes(entry) == entry.message >= calculate_cooldown(Forgiven(entry).violations)

Struck(entry) == Min2(Forgiven(entry).violations + 1, Saturation + 1)

\* A rejection is announced when none was in the window, and when the cooldown
\* reaches its top.
Announced(entry) ==
  \/ Forgiven(entry).whisper >= ResetAfter
  \/ Forgiven(entry).violations + 1 = Saturation

(* Mutant: the wait of the cooldown before the rejection raised it. *)
RemainingBefore(entry) ==
  LET left == calculate_cooldown(Forgiven(entry).violations) - entry.message
  IN  IF left > 0 THEN left ELSE 0

\* The wait announced, from the cooldown the rejection itself has raised.
Remaining(entry) ==
  LET left == calculate_cooldown(Struck(entry)) - entry.message
  IN  IF left > 0 THEN left ELSE 0

(* Mutant: a notice leaves no trace. *)
AttemptedUnstamped(entry) ==
  IF Passes(entry)
  THEN [Forgiven(entry) EXCEPT !.attempt = 0, !.message = 0]
  ELSE [Forgiven(entry) EXCEPT !.attempt = 0, !.violations = Struck(entry)]

Attempted(entry) ==
  IF Passes(entry)
  THEN [Forgiven(entry) EXCEPT !.attempt = 0, !.message = 0]
  ELSE [Forgiven(entry) EXCEPT !.attempt = 0, !.violations = Struck(entry),
                               !.whisper = IF Announced(entry) THEN 0 ELSE @]

(***************************************************************************)
(* The table                                                               *)
(***************************************************************************)
Full(table) == Cardinality(DOMAIN table) >= MaxEntries

\* cleanup_stale: the threshold is raised to the window of forgiveness.
clamp_stale_threshold(threshold) == IF threshold >= ResetAfter THEN threshold ELSE ResetAfter

(* Mutant: idleness counted from the last accepted message. *)
KeptByMessage(table, threshold) ==
  Restrict(table, {k \in DOMAIN table : table[k].message < clamp_stale_threshold(threshold)})

Kept(table, threshold) ==
  Restrict(table, {k \in DOMAIN table : table[k].attempt < clamp_stale_threshold(threshold)})

cleanup_stale ==
  /\ limits' = Kept(limits, StaleAfter)
  /\ cap_refusal_last_whisper' = IF limits' # limits THEN StaleAfter ELSE cap_refusal_last_whisper
  /\ UNCHANGED last_inline_sweep

Crowded(k) == k \notin DOMAIN limits /\ Full(limits)

SweepDue(k) == Crowded(k) /\ last_inline_sweep >= BaseCooldown

Table(k) == IF SweepDue(k) THEN Kept(limits, ResetAfter) ELSE limits

\* A new key finds the table full of entries that are still needed.
Refused(k) == Crowded(k) /\ Full(Table(k))

EntryOf(k) == IF k \in DOMAIN Table(k) THEN Table(k)[k] ELSE NewEntry

\* What the caller is told: whether the message passes, the wait of the key's own
\* cooldown (-1 when there is none), and whether to announce it.
Verdict(k) ==
  IF Refused(k)
  THEN [ok |-> FALSE, wait |-> -1, notice |-> cap_refusal_last_whisper >= ResetAfter]
  ELSE IF Passes(EntryOf(k))
  THEN [ok |-> TRUE, wait |-> -1, notice |-> FALSE]
  ELSE [ok |-> FALSE, wait |-> Remaining(EntryOf(k)), notice |-> Announced(EntryOf(k))]

check(k) ==
  /\ limits' = IF Refused(k) THEN limits
               ELSE [j \in DOMAIN Table(k) \union {k} |->
                       IF j = k THEN Attempted(EntryOf(k)) ELSE Table(k)[j]]
  /\ last_inline_sweep' = IF SweepDue(k) THEN 0 ELSE last_inline_sweep
  /\ cap_refusal_last_whisper' =
       IF Refused(k) /\ Verdict(k).notice THEN 0
       ELSE IF Table(k) # limits THEN StaleAfter
       ELSE cap_refusal_last_whisper

LimiterInit ==
  /\ limits = [k \in {} |-> NewEntry]
  /\ cap_refusal_last_whisper = StaleAfter
  /\ last_inline_sweep = StaleAfter

LimiterTick ==
  /\ limits' = [k \in DOMAIN limits |->
                  [limits[k] EXCEPT !.message = Aged(@), !.attempt = Aged(@), !.whisper = Aged(@)]]
  /\ cap_refusal_last_whisper' = Aged(cap_refusal_last_whisper)
  /\ last_inline_sweep' = Aged(last_inline_sweep)

LimiterTypeOK ==
  /\ DOMAIN limits \subseteq Keys
  /\ \A k \in DOMAIN limits : limits[k] \in UserRateLimit
  /\ cap_refusal_last_whisper \in 0 .. StaleAfter
  /\ last_inline_sweep \in 0 .. StaleAfter
=============================================================================
