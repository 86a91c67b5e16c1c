------------------------------ MODULE IdleClock ------------------------------
(* How long a session has been idle: the part of superviseOnePeer            *)
(* (lifecycle/index.ts) that decides whether a live session is reaped, and   *)
(* what it reads: the newest transcript of the peer's folder and in it the   *)
(* last entry with a timestamp (launch/adapters/transcriptTail.ts, claude.ts,*)
(* codex.ts), the transcripts of its subagents, the last confirmed delivery  *)
(* and the time of the wake.  The runtime appends to the transcript while it *)
(* is read, re-saves it without an entry, writes records without a time, and *)
(* a record may be larger than the window the reader starts with.            *)
EXTENDS Integers, Sequences

CONSTANTS
    Idle,       \* idleSecs
    Quiet,      \* ephemeralQuietSecs: an armed worker's quiet window
    Unarmed,    \* ephemeralUnarmedIdleSecs
    Ephemeral,  \* is the peer an ephemeral worker?
    Shared,     \* does another session use the same folder?
    Window,     \* the first window of the reader
    Big,        \* the size of a large record
    MaxRec,     \* bound: records of a transcript
    MaxTime     \* bound: the clock

IdleClockAssumption ==
    /\ Idle \in Nat /\ Quiet \in Nat /\ Unarmed \in Nat /\ MaxRec \in Nat /\ MaxTime \in Nat
    /\ Window \in Nat \ {0} /\ Big \in Nat \ {0}
    /\ Ephemeral \in BOOLEAN /\ Shared \in BOOLEAN

VARIABLES
    clock,
    ses,        \* [up, wokeAt, turn, armed]: the session
    own,        \* its transcript: the complete records [size, ts]
    partial,    \* bytes of a record whose line is not complete yet
    ownMt,      \* when the transcript file was last written
    other,      \* [mt, ts]: the newest other transcript of the folder
    child,      \* when a subagent's transcript was last written
    delivered,  \* the last confirmed delivery
    worked,     \* when the session was last seen to work (history)
    rendered,   \* when a turn last drew on the terminal (history)
    reaped      \* the last reap: [as, worked, rendered, turn, at] (history)

vars == <<clock, ses, own, partial, ownMt, other, child, delivered, worked, rendered, reaped>>

NoTime == -1
Time == NoTime..MaxTime
Later(a, b) == IF a >= b THEN a ELSE b
NotReaped == [as |-> "no", worked |-> NoTime, rendered |-> NoTime, turn |-> FALSE, at |-> 0]

---------------------------------------------------------------------------
(* lastTimestampedEntryMs *)

Ends[n \in 0..Len(own)] == IF n = 0 THEN 0 ELSE Ends[n - 1] + own[n].size
Start(i) == Ends[i - 1]
Size == Ends[Len(own)] + partial

(* A window shows the records after its first line break, all of them once   *)
(* it begins at the first byte.                                              *)
Shown(w) == {i \in DOMAIN own : w >= Size \/ Start(i) > Size - w}
Stamped(w) == {i \in Shown(w) : own[i].ts # NoTime}
LastOf(S) == CHOOSE i \in S : \A j \in S : j <= i

(* Mutant of LastStamp: the window does not grow. *)
LastStampFixed ==
    IF Stamped(Window) # {} THEN own[LastOf(Stamped(Window))].ts ELSE NoTime

(* The window doubles until it shows an entry with a time or the whole file. *)
LastStamp ==
    LET Look[w \in Nat] ==
            IF Stamped(w) # {} THEN own[LastOf(Stamped(w))].ts
            ELSE IF w >= Size THEN NoTime ELSE Look[2 * w]
    IN IF Size = 0 THEN NoTime ELSE Look[Window]

(* Of the transcripts of the folder the one written last is read ... *)
NewestIsOwn == ownMt >= other.mt

(* ... for its last entry (lastTurnMtime). *)
LastTurn == IF NewestIsOwn THEN LastStamp ELSE other.ts

(* Mutant of Seen: a subagent's work does not count. *)
SeenAlone == Later(LastTurn, Later(ses.wokeAt, delivered))

(* What the supervisor takes for the last activity. *)
Seen == Later(Later(LastTurn, ses.wokeAt), Later(child, delivered))
Age == clock - Seen

---------------------------------------------------------------------------
Init ==
    /\ clock = 0
    /\ ses = [up |-> FALSE, wokeAt |-> 0, turn |-> FALSE, armed |-> FALSE]
    /\ own = <<>> /\ partial = 0 /\ ownMt = NoTime
    /\ other = [mt |-> NoTime, ts |-> NoTime]
    /\ child = NoTime /\ delivered = NoTime
    /\ worked = NoTime /\ rendered = NoTime
    /\ reaped = NotReaped

(* A fresh session: the transcript there was is now an older one. *)
Wake ==
    /\ ~ses.up
    /\ ses' = [up |-> TRUE, wokeAt |-> clock, turn |-> TRUE, armed |-> FALSE]
    /\ other' = IF ownMt > other.mt THEN [mt |-> ownMt, ts |-> LastStamp] ELSE other
    /\ own' = <<>> /\ partial' = 0 /\ ownMt' = NoTime
    /\ worked' = clock /\ rendered' = clock
    /\ UNCHANGED <<clock, child, delivered, reaped>>

(* A delivery was confirmed; the runtime's entry for it may come later. *)
Deliver ==
    /\ ses.up
    /\ ses' = [ses EXCEPT !.turn = TRUE]
    /\ delivered' = clock /\ worked' = clock
    /\ UNCHANGED <<clock, own, partial, ownMt, other, child, rendered, reaped>>

(* The runtime begins a line of the transcript ... *)
BeginLine ==
    /\ ses.up /\ partial = 0 /\ Len(own) < MaxRec
    /\ partial' = 1 /\ ownMt' = clock
    /\ UNCHANGED <<clock, ses, own, other, child, delivered, worked, rendered, reaped>>

(* ... and completes it: an entry of the turn, or metadata without a time. *)
CompleteLine(size, isEntry) ==
    /\ ses.up /\ partial > 0 /\ (isEntry => ses.turn)
    /\ own' = Append(own, [size |-> size, ts |-> IF isEntry THEN clock ELSE NoTime])
    /\ partial' = 0 /\ ownMt' = clock
    /\ worked' = IF isEntry THEN clock ELSE worked
    /\ rendered' = IF isEntry THEN clock ELSE rendered
    /\ UNCHANGED <<clock, ses, other, child, delivered, reaped>>

(* The file is saved again without a new entry. *)
Resave ==
    /\ ses.up /\ own # <<>>
    /\ ownMt' = clock
    /\ UNCHANGED <<clock, ses, own, partial, other, child, delivered, worked, rendered, reaped>>

(* Another session of the folder saves its transcript. *)
OtherSaves ==
    /\ Shared
    /\ other' = [other EXCEPT !.mt = clock]
    /\ UNCHANGED <<clock, ses, own, partial, ownMt, child, delivered, worked, rendered, reaped>>

ChildWrites ==
    /\ ses.up /\ ses.turn
    /\ child' = clock /\ worked' = clock
    /\ UNCHANGED <<clock, ses, own, partial, ownMt, other, delivered, rendered, reaped>>

(* A tool runs: the turn draws on the terminal and writes no entry. *)
ToolRuns ==
    /\ ses.up /\ ses.turn
    /\ rendered' = clock
    /\ UNCHANGED <<clock, ses, own, partial, ownMt, other, child, delivered, worked, reaped>>

(* The daemon routed the worker's reply; the turn may go on. *)
Arm ==
    /\ Ephemeral /\ ses.up /\ ses.turn
    /\ ses' = [ses EXCEPT !.armed = TRUE]
    /\ UNCHANGED <<clock, own, partial, ownMt, other, child, delivered, worked, rendered, reaped>>

EndTurn ==
    /\ ses.turn
    /\ ses' = [ses EXCEPT !.turn = FALSE]
    /\ UNCHANGED <<clock, own, partial, ownMt, other, child, delivered, worked, rendered, reaped>>

(* The bound that applies, in the order of the branches. *)
Bound == IF Ephemeral /\ ses.armed THEN Quiet ELSE IF Ephemeral THEN Unarmed ELSE Idle

(* The supervise pass reaps the session. *)
Reap ==
    /\ ses.up /\ Age > Bound
    /\ ses' = [ses EXCEPT !.up = FALSE, !.turn = FALSE, !.armed = FALSE]
    /\ reaped' = [as |-> IF ~Ephemeral THEN "idle" ELSE IF ses.armed THEN "armed" ELSE "unarmed",
                  worked |-> worked, rendered |-> rendered, turn |-> ses.turn, at |-> clock]
    /\ UNCHANGED <<clock, own, partial, ownMt, other, child, delivered, worked, rendered>>

Tick ==
    /\ clock < MaxTime
    /\ clock' = clock + 1
    /\ UNCHANGED <<ses, own, partial, ownMt, other, child, delivered, worked, rendered, reaped>>

Next ==
    \/ Wake \/ Deliver \/ BeginLine \/ Resave \/ OtherSaves \/ ChildWrites \/ ToolRuns
    \/ \E size \in {1, Big}, isEntry \in BOOLEAN : CompleteLine(size, isEntry)
    \/ Arm \/ EndTurn \/ Reap \/ Tick

Spec == Init /\ [][Next]_vars

---------------------------------------------------------------------------
(* Times are times, a transcript is a sequence of records. *)
TypeOK ==
    /\ clock \in 0..MaxTime
    /\ ses \in [up : BOOLEAN, wokeAt : 0..MaxTime, turn : BOOLEAN, armed : BOOLEAN]
    /\ own \in Seq([size : {1, Big}, ts : Time]) /\ partial \in {0, 1}
    /\ {ownMt, other.mt, other.ts, child, delivered, worked, rendered} \subseteq Time
    /\ reaped.as \in {"no", "idle", "armed", "unarmed"}

BoundOf(as) == IF as = "armed" THEN Quiet ELSE IF as = "unarmed" THEN Unarmed ELSE Idle

(* No session is reaped that was seen to work within the bound: an entry of  *)
(* its transcript however large, a subagent's, a delivery or the wake.  (In  *)
(* a folder of its own: in a shared one the file saved last may be another's.)*)
RecentWorkKeeps ==
    reaped.as # "no" => reaped.at - reaped.worked > BoundOf(reaped.as)

(* lifecycle/index.ts:1662-1664 and :1691-1694: a worker whose turn still    *)
(* draws on the terminal is not reaped, because the pane log is folded in.   *)
(* It is not folded in any more, and such a worker is reaped in its turn.    *)
DrawingWorkerKept ==
    reaped.as \in {"armed", "unarmed"} /\ reaped.turn
        => reaped.at - reaped.rendered > BoundOf(reaped.as)
=============================================================================
