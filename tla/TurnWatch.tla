------------------------------ MODULE TurnWatch ------------------------------
(***************************************************************************)
(* What the daemon believes of a peer's turn (daemon/turnwatch.ts): every  *)
(* sweep reads the tails of the transcripts that changed, takes the last   *)
(* line of each that says something of the peer's own turn, and folds it   *)
(* into a board kept in memory.  The transcript is written by the runtime, *)
(* which the model drives through the lines it really writes: a turn in    *)
(* progress, its end, an interrupt, and the lines that look like turns and *)
(* are none (a compaction summary, a sub-agent's chain, an injected line). *)
(***************************************************************************)
EXTENDS Naturals, Sequences, SequencesExt

CONSTANTS MaxSession,   \* sessions the peer runs, one transcript each
          MaxTime,      \* the clock stops here; every line takes a tick
          Stale,        \* TURN_STALE_MS
          Overlap,      \* SCAN_OVERLAP_MS
          MaxRestart    \* restarts of the daemon

VARIABLES runtime,      \* "claude" or "codex"
          now,
          log,          \* session -> the lines of its transcript
          session,      \* the session that is running, 0 before the first
          turn,         \* what the running session is really doing
          board,        \* ActivityBoard: the state held for the peer
          since,        \* where the next sweep's window starts
          truth,        \* what the last line of a turn said when last swept
          restarts

vars == <<runtime, now, log, session, turn, board, since, truth, restarts>>

TurnWatchAssumption == /\ {MaxSession, MaxTime, Stale, Overlap, MaxRestart} \subseteq Nat
                       /\ MaxSession > 0

Session == 1 .. MaxSession
States == {"working", "idle"}
Nothing == [state |-> "none", at |-> 0]

\* The lines that begin or continue a turn, that end one, and that say
\* nothing of it although they have the shape of one that does.
Starts == IF runtime = "claude" THEN {"prompt"} ELSE {"task_started"}
Goes == IF runtime = "claude" THEN {"tool_use", "tool_result"} ELSE {}
Ends == IF runtime = "claude" THEN {"end_turn", "interrupt_marker"}
        ELSE {"task_complete", "turn_aborted"}
Noise == IF runtime = "claude" THEN {"compact_summary", "sidechain", "meta"} ELSE {"token_count"}

Claims == {"prompt", "tool_use", "tool_result", "task_started"}
Closes == {"end_turn", "interrupt_marker", "task_complete", "turn_aborted"}

\* Mutant of TurnOf: a compaction summary counts as the user asking something.
TurnOfSummary(kind) == CASE kind \in Claims \cup {"compact_summary"} -> "working"
                         [] kind \in Closes -> "idle"
                         [] OTHER -> "none"

\* What a line says of the turn; an unknown line never invents work.
TurnOf(kind) == CASE kind \in Claims -> "working"
                  [] kind \in Closes -> "idle"
                  [] OTHER -> "none"

\* The last line of a transcript that says something.
Speaks(lines) == {i \in DOMAIN lines : TurnOf(lines[i].kind) # "none"}
Parse(lines) ==
    IF Speaks(lines) = {} THEN Nothing
    ELSE LET l == lines[Max(Speaks(lines))] IN [state |-> TurnOf(l.kind), at |-> l.at]

\* A transcript is read when it was modified inside the window.
Changed(s) == log[s] # <<>> /\ Last(log[s]).at + Overlap >= since

-----------------------------------------------------------------------------
Init ==
    /\ runtime \in {"claude", "codex"}
    /\ now = 0
    /\ log = [s \in Session |-> <<>>]
    /\ session = 0
    /\ turn = "idle"
    /\ board = Nothing
    /\ since = 0
    /\ truth = "none"
    /\ restarts = 0

Write(kind) ==
    /\ session > 0
    /\ now < MaxTime
    /\ now' = now + 1
    /\ log' = [log EXCEPT ![session] = Append(@, [kind |-> kind, at |-> now + 1])]
    /\ UNCHANGED <<runtime, session, board, since, truth, restarts>>

\* A session starts: the first, or one after the death of another, whose
\* transcript stays where it is and may end in the middle of a turn.
NewSession ==
    /\ session < MaxSession
    /\ session' = session + 1
    /\ turn' = "idle"
    /\ UNCHANGED <<runtime, now, log, board, since, truth, restarts>>

Begin == turn = "idle" /\ turn' = "working" /\ \E k \in Starts : Write(k)
Continue == turn = "working" /\ UNCHANGED turn /\ \E k \in Goes : Write(k)
End == turn = "working" /\ turn' = "idle" /\ \E k \in Ends : Write(k)
Mutter == UNCHANGED turn /\ \E k \in Noise : Write(k)

Tick == /\ now < MaxTime
        /\ now' = now + 1
        /\ UNCHANGED <<runtime, log, session, turn, board, since, truth, restarts>>

\* Mutant of Set: the board takes whatever the directory listing yields last.
SetBlind(b, next) == IF next.state = "none" THEN b ELSE next

\* ActivityBoard.set: an older observation never overwrites a newer one.
Set(b, next) == IF next.state = "none" \/ (b.state # "none" /\ next.at < b.at) THEN b ELSE next

\* What the last line of a turn says, whoever wrote it.
Truth ==
    LET own == {l \in UNION {Range(log[s]) : s \in Session} : l.kind \in Starts \cup Goes \cup Ends}
    IN IF own = {} THEN "none"
       ELSE IF (CHOOSE l \in own : \A m \in own : m.at <= l.at).kind \in Ends THEN "idle"
       ELSE "working"

\* turnWatchTick: the board after the transcripts in this order.
Fold(order) ==
    LET after[i \in 0 .. Len(order)] ==
            IF i = 0 THEN board ELSE Set(after[i - 1], Parse(log[order[i]]))
    IN after[Len(order)]

\* A sweep reads the changed transcripts in the order the directory yields them.
Sweep ==
    /\ \E order \in SetToSeqs({s \in Session : Changed(s)}) : board' = Fold(order)
    /\ since' = now
    /\ truth' = Truth
    /\ UNCHANGED <<runtime, now, log, session, turn, restarts>>

\* The daemon starts anew with an empty board and looks back far enough to
\* see the transcripts the bounded clock allows (SEED_LOOKBACK_MS).
Restart ==
    /\ restarts < MaxRestart
    /\ restarts' = restarts + 1
    /\ board' = Nothing
    /\ since' = 0
    /\ truth' = "none"
    /\ UNCHANGED <<runtime, now, log, session, turn>>

Next == NewSession \/ Begin \/ Continue \/ End \/ Mutter \/ Tick \/ Sweep \/ Restart

\* setInterval runs the sweep for as long as the daemon does.
Spec == Init /\ [][Next]_vars /\ WF_vars(Sweep)

-----------------------------------------------------------------------------
\* Mutant of Activity: a claim of work stands for ever.
ActivityForever == board.state

\* ActivityBoard.get: idle never decays, a claim of work does.
Activity == IF board.state = "working" /\ now - board.at > Stale THEN "unknown" ELSE board.state

TypeOK ==
    /\ runtime \in {"claude", "codex"}
    /\ now \in 0 .. MaxTime
    /\ \A s \in Session : Len(log[s]) <= MaxTime
    /\ session \in 0 .. MaxSession
    /\ turn \in States
    /\ board.state \in States \cup {"none"}
    /\ since \in 0 .. MaxTime
    /\ truth \in States \cup {"none"}
    /\ restarts \in 0 .. MaxRestart

\* Whatever the transcripts of dead sessions, sub-agents and compactions put
\* beside the peer's own lines, and in whatever order the directory lists
\* them, the activity shown after a sweep is the one the peer's own last line
\* stood for, and a claim of work never outlives the stale bound
\* (parseClaudeTurn, parseCodexTurn, ActivityBoard).
ActivityHonest ==
    /\ Activity = "working" => truth = "working" /\ now - board.at <= Stale
    /\ Activity = "idle" => truth = "idle"

\* The running session has a turn behind it and none in progress.
Ended == IF session = 0 THEN FALSE
         ELSE turn = "idle" /\ \E i \in DOMAIN log[session] : log[session][i].kind \in Ends

\* A turn that ended, in a session that stays idle, is shown as idle in the
\* end: no sweep window loses its last line.
EndIsShown == [](Ended => <>(Activity = "idle" \/ ~Ended))
=============================================================================
