------------------------------ MODULE ChatFiles ------------------------------
(* What the chat keeps about players under data/chat: the day files of the     *)
(* history, written by a task of their own from a bounded channel; the day     *)
(* files of the decision log, written by the chat task; the pending lessons    *)
(* and their rotated archives; the player's file and its entry in the index.   *)
(*                                                                             *)
(* A file is the set of marks found in it.  A mark is a player and the number  *)
(* of times the operator had asked for that player to be forgotten when the    *)
(* line was recorded.  Both day files are appended to through a handle that    *)
(* is kept open: a rewrite by rename, or a deletion, leaves such a handle on a *)
(* file that no longer has a name, and what is appended to it is lost.         *)
EXTENDS Integers, Sequences, FiniteSets

CONSTANTS Players, FirstDay, MaxDay, RetainDays, InboxCap

ASSUME FilesAssumption ==
    /\ FirstDay \in Nat
    /\ MaxDay \in Nat
    /\ FirstDay <= MaxDay
    /\ RetainDays \in Nat \ {0}
    /\ InboxCap \in Nat \ {0}

VARIABLES
    day,        \* today, UTC
    inbox,      \* the channel to the history writer
    acked,      \* the writer has answered the last DropCacheAndAck
    handle,     \* the writer's open day file
    logHandle,  \* DAY_FILE_CACHE of the decision log
    files,      \* file |-> the marks in it
    asked       \* player |-> times the operator asked to forget him

fileVars == <<day, inbox, acked, handle, logHandle, files, asked>>

Days == 0..MaxDay
Marks == Players \X (0..1)

History(d) == <<"history", d>>
Decisions(d) == <<"decisions", d>>
Archive(d) == <<"archive", d>>
Pending == <<"pending", 0>>
PlayerFile == <<"player", 0>>
Index == <<"index", 0>>

FileNames == ({"history", "decisions", "archive"} \X Days)
                 \cup {Pending, PlayerFile, Index}

NoHandle == [day |-> 0 - 1, live |-> TRUE]
Handles == {NoHandle} \cup [day : Days, live : BOOLEAN]

DropCacheAndAck == [kind |-> "drop", day |-> 0, about |-> {}]
Line(d, marks) == [kind |-> "line", day |-> d, about |-> marks]
Items == {DropCacheAndAck} \cup [kind : {"line"}, day : Days, about : SUBSET Marks]

FilesTypeOK ==
    /\ day \in Days
    /\ inbox \in Seq(Items)
    /\ Len(inbox) <= InboxCap
    /\ acked \in BOOLEAN
    /\ handle \in Handles
    /\ logHandle \in Handles
    /\ files \in [FileNames -> SUBSET Marks]
    /\ asked \in [Players -> 0..1]

Mark(p) == <<p, asked[p]>>
About(p) == IF p \in Players THEN {Mark(p)} ELSE {}
MarksOf(p) == {m \in Marks : m[1] = p}
Put(fs, f, marks) == [fs EXCEPT ![f] = @ \cup marks]

-----------------------------------------------------------------------------
(* The history: anyone may put a line into the channel, one task writes them.  *)

(* enqueue_bot_output and the publisher's try_send: a full channel drops the   *)
(* line.                                                                       *)
Enqueued(marks) ==
    IF Len(inbox) < InboxCap THEN Append(inbox, Line(day, marks)) ELSE inbox

(* The writer keeps a handle of the line's own day; another one is closed      *)
(* first and the day's file is opened by its path.                             *)
Opened(d) == IF handle.day = d THEN handle ELSE [day |-> d, live |-> TRUE]

WriteLine ==
    /\ inbox # <<>>
    /\ Head(inbox).kind = "line"
    /\ LET item == Head(inbox)
           h == Opened(item.day)
       IN  /\ handle' = h
           /\ files' = IF h.live THEN Put(files, History(item.day), item.about) ELSE files
    /\ inbox' = Tail(inbox)
    /\ UNCHANGED <<day, acked, logHandle, asked>>

(* Opening the file or appending to it fails: the line is dropped and the      *)
(* handle is let go of.                                                        *)
LineLost ==
    /\ inbox # <<>>
    /\ Head(inbox).kind = "line"
    /\ inbox' = Tail(inbox)
    /\ handle' = NoHandle
    /\ UNCHANGED <<day, acked, logHandle, files, asked>>

AnswerDrop ==
    /\ inbox # <<>>
    /\ Head(inbox) = DropCacheAndAck
    /\ inbox' = Tail(inbox)
    /\ handle' = NoHandle
    /\ acked' = TRUE
    /\ UNCHANGED <<day, logHandle, files, asked>>

(* drop_cache_and_ack, its first half: the send waits for room.                *)
SendDrop ==
    /\ Len(inbox) < InboxCap
    /\ inbox' = Append(inbox, DropCacheAndAck)
    /\ acked' = FALSE

(* A rename onto a day file, or its deletion, leaves the open handle behind.   *)
Orphaned(h, ds) == IF h.day \in ds THEN [h EXCEPT !.live = FALSE] ELSE h

-----------------------------------------------------------------------------
(* The decision log: the chat task is its only writer.                         *)

LogOpened == IF logHandle.day = day THEN logHandle ELSE [day |-> day, live |-> TRUE]

(* decisions::write into the files fs, a record with the sender of marks       *)
Logged(fs, marks) == IF LogOpened.live THEN Put(fs, Decisions(day), marks) ELSE fs

Decide(fs, marks) ==
    /\ files' = Logged(fs, marks)
    /\ logHandle' = LogOpened

-----------------------------------------------------------------------------
(* The player's file, the index, the lessons.                                  *)

(* ensure_player_file: a file that exists is left alone; a new one is entered  *)
(* into the index, which is read, or rebuilt, and written back whole.          *)
WithPlayerFile(fs, p) ==
    IF fs[PlayerFile] \cap MarksOf(p) # {} THEN fs
    ELSE Put(Put(fs, PlayerFile, {Mark(p)}), Index, {Mark(p)})

(* update_player_memory: the file is made if need be, then gains a bullet.     *)
WithNote(fs, p) == Put(WithPlayerFile(fs, p), PlayerFile, {Mark(p)})

(* write_pending_adjustment *)
WithLesson(fs, p) == Put(fs, Pending, {Mark(p)})

(* rotate_pending: the live file becomes an archive stamped with today.        *)
Rotated(fs) == Put([fs EXCEPT ![Pending] = {}], Archive(day), fs[Pending])

PendingSenders == {m[1] : m \in files[Pending]}

-----------------------------------------------------------------------------
(* Retention: days_between(file, today) > retain_days.                         *)
Expired(d) == day - d > RetainDays

DatedDays(kind, fs) == {d \in Days : fs[<<kind, d>>] # {}}

(* sweep_history_paired, sweep_dated_jsonl and sweep_rotated_pending           *)
Swept(fs) ==
    [f \in FileNames |->
        IF f[1] \in {"history", "decisions", "archive"} /\ Expired(f[2])
        THEN {} ELSE fs[f]]

ExpiredDays == {d \in Days : Expired(d)}

(* run_sweep, a deletion that fails left out                                   *)
Sweep ==
    /\ files' = Swept(files)
    /\ handle' = Orphaned(handle, ExpiredDays)
    /\ logHandle' = Orphaned(logHandle, ExpiredDays)
=============================================================================
