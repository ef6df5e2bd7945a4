------------------------------ MODULE ChatMeter ------------------------------
(* The part of data/chat/state.json that is counted by the UTC day: what the   *)
(* chat has spent and how many notes about players it has written.            *)
(* Money is counted in small units; composer and classifier calls keep their  *)
(* own counts, and the dollar cap is on their sum.                             *)
EXTENDS Integers

CONSTANTS
    UsdCap,         \* config.daily_dollar_cap_usd
    ComposerCap,    \* config.daily_input_token_cap and its output twin
    ClassifierCap,  \* config.daily_classifier_token_cap
    Estimate,       \* what a call is expected to cost when the caps are checked
    MaxNotes        \* config.update_player_memory_max_per_day

ASSUME MeterAssumption ==
    /\ UsdCap \in Nat /\ ComposerCap \in Nat /\ ClassifierCap \in Nat
    /\ Estimate \in Nat /\ MaxNotes \in Nat

(* ChatState::default, the counted part, for the day d *)
FreshMeter(d) == [day |-> d, composer |-> 0, classifier |-> 0, notes |-> 0]

Usd(m) == m.composer + m.classifier

(* Mutant: any other day resets the counters, an earlier one too. *)
RollToAnyDay(m, d) == IF d # m.day THEN FreshMeter(d) ELSE m

(* roll_to_day: only ever forward *)
RollToDay(m, d) == IF d > m.day THEN FreshMeter(d) ELSE m

(* record_composer / record_classifier: today first, then the day on which the *)
(* call was started, then the addition.                                        *)
Rolled(m, today, started) == RollToDay(RollToDay(m, today), started)

RecordComposer(m, today, started, cost) ==
    LET r == Rolled(m, today, started) IN [r EXCEPT !.composer = @ + cost]

RecordClassifier(m, today, started, cost) ==
    LET r == Rolled(m, today, started) IN [r EXCEPT !.classifier = @ + cost]

(* would_exceed_caps_composer / would_exceed_caps_classifier: the callers roll *)
(* the meter, these do not.                                                    *)
ComposerAllowed(m) ==
    /\ Usd(m) + Estimate <= UsdCap
    /\ m.composer + Estimate <= ComposerCap

ClassifierAllowed(m) ==
    /\ Usd(m) + Estimate <= UsdCap
    /\ m.classifier + Estimate <= ClassifierCap

(* The cap on notes inside one composer run: the count of the day, read when   *)
(* the run was started, and the notes of the run itself.                       *)
NoteAllowed(before, inRun) == before + inRun < MaxNotes
=============================================================================
