------------------------------ MODULE MuteWatch ------------------------------
(***************************************************************************)
(* How the daemon learns that a peer's turn died on a refused API call     *)
(* (daemon/mutewatch.ts), and the notices it keeps of it                   *)
(* (daemon/notices.ts).  The sweep re-reads an overlapping window of the   *)
(* session files, so the same line is met again and again; a codex turn    *)
(* does not say it was refused, the sweep infers it from the last rate     *)
(* snapshot and an empty final message; the reset time may come from       *)
(* another session of the same account; notices live in memory, a parked   *)
(* limit on the disk.                                                      *)
(***************************************************************************)
EXTENDS Naturals, Sequences, FiniteSets, SequencesExt

CONSTANTS File,         \* the session files of one peer
          MaxTime,      \* the clock stops here; every line takes a tick
          Overlap,      \* SCAN_OVERLAP_MS
          Horizon,      \* CATCH_UP_HORIZON_MS
          Window,       \* how long after a snapshot an exhausted window resets
          Ttl,          \* how long a notice lives
          MaxRestart    \* restarts of the daemon

VARIABLES runtime,      \* "claude", "codex" or "opencode"
          now,
          log,          \* file -> its lines
          call,         \* file -> how the turn's last API call went
          board,        \* NoticeBoard: error type -> notice, count 0 when none
          since,        \* where the next sweep's window starts
          catchUp,      \* the first sweep of this daemon is still to come
          heard,        \* deaths handed to the failover detector
          parked,       \* deaths handed to the limit park, a file on disk
          deaths,       \* history: the turns that really died, and when
          restarts

vars == <<runtime, now, log, call, board, since, catchUp, heard, parked, deaths, restarts>>
writerVars == <<log, call, deaths>>
daemonVars == <<board, since, catchUp, heard, parked, restarts>>

MuteWatchAssumption ==
    {MaxTime, Overlap, Horizon, Window, Ttl, MaxRestart} \subseteq Nat /\ IsFiniteSet(File)

Types == {"rate_limit", "usage_limit_exceeded", "api-refusal", "native"}
NoNotice == [count |-> 0, expires |-> 0, event |-> 0]
Nothing == [at |-> 0, type |-> "none", reset |-> 0]
Resets(line) == line.at + Window

-----------------------------------------------------------------------------
(* Reading a file: the last death after the floor, as each parser finds it. *)

ErrorDeath(lines, floor) ==
    LET errors == {i \in DOMAIN lines : lines[i].k = "error" /\ lines[i].at > floor}
        last == lines[Max(errors)]
    IN IF errors = {} THEN Nothing
       ELSE [at |-> last.at, type |-> "rate_limit", reset |-> IF last.full THEN Resets(last) ELSE 0]

\* Mutant of Follow: a refused snapshot is carried into the next turn.
FollowAcross(m, l) ==
    IF l.k = "task_started" THEN m
    ELSE IF l.k = "snapshot"
    THEN [m EXCEPT !.refused = ~l.windows /\ ~l.used,
                   !.full = IF l.windows THEN (IF l.full THEN Resets(l) ELSE 0) ELSE @]
    ELSE IF l.k # "task_complete" THEN m
    ELSE [m EXCEPT !.refused = FALSE,
                   !.death = IF l.typed \/ (m.refused /\ ~l.said)
                             THEN [at |-> l.at, reset |-> m.full,
                                   type |-> IF l.typed THEN "native"
                                            ELSE IF m.full > 0 THEN "usage_limit_exceeded"
                                            ELSE "api-refusal"]
                             ELSE @]

\* One line of a codex rollout: whether a refused snapshot is pending, what
\* the last snapshot with windows said, and the death found so far.
Follow(m, l) ==
    IF l.k = "task_started" THEN [m EXCEPT !.refused = FALSE]
    ELSE IF l.k = "snapshot"
    THEN [m EXCEPT !.refused = ~l.windows /\ ~l.used,
                   !.full = IF l.windows THEN (IF l.full THEN Resets(l) ELSE 0) ELSE @]
    ELSE IF l.k # "task_complete" THEN m
    ELSE [m EXCEPT !.refused = FALSE,
                   !.death = IF l.typed \/ (m.refused /\ ~l.said)
                             THEN [at |-> l.at, reset |-> m.full,
                                   type |-> IF l.typed THEN "native"
                                            ELSE IF m.full > 0 THEN "usage_limit_exceeded"
                                            ELSE "api-refusal"]
                             ELSE @]

\* A rollout read from its first line to its last.
Rollout(lines) ==
    LET read[i \in 0 .. Len(lines)] ==
            IF i = 0 THEN [refused |-> FALSE, full |-> 0, death |-> Nothing]
            ELSE Follow(read[i - 1], lines[i])
    IN read[Len(lines)]

RolloutDeath(lines, floor) ==
    IF Rollout(lines).death.at > floor THEN Rollout(lines).death ELSE Nothing

\* The latest exhausted window any session of the account had seen by then.
AccountReset(at) ==
    LET seen == {l \in UNION {Range(log[f]) : f \in File} :
                    l.k = "snapshot" /\ l.full /\ l.at <= at /\ Resets(l) > at}
    IN IF seen = {} THEN 0 ELSE Resets(CHOOSE l \in seen : \A m \in seen : l.at >= m.at)

Resolve(d) ==
    IF runtime # "codex" \/ d.at = 0 \/ d.reset > 0 \/ AccountReset(d.at) = 0 THEN d
    ELSE [d EXCEPT !.reset = AccountReset(d.at),
                   !.type = IF @ = "api-refusal" THEN "usage_limit_exceeded" ELSE @]

Minus(a, b) == IF a > b THEN a - b ELSE 0

\* scanMuteEvents: one detection at most for each file changed in the window.
Detections(from) ==
    LET floor == Minus(from, Overlap)
        Death(f) == Resolve(IF runtime = "codex" THEN RolloutDeath(log[f], floor)
                            ELSE ErrorDeath(log[f], floor))
    IN {Death(f) : f \in File} \ {Nothing}

-----------------------------------------------------------------------------
\* Mutant of Raise: every reading of the line is an occurrence.
RaiseAgain(b, d) ==
    LET n == b[d.type]
    IN [b EXCEPT ![d.type] =
           IF n.count = 0 \/ n.expires <= now
           THEN [count |-> 1, expires |-> now + Ttl, event |-> d.at]
           ELSE [n EXCEPT !.count = n.count + 1, !.event = d.at]]

\* NoticeBoard.raise: a notice that lives is counted up by a newer event only.
Raise(b, d) ==
    LET n == b[d.type]
    IN [b EXCEPT ![d.type] =
           IF n.count = 0 \/ n.expires <= now
           THEN [count |-> 1, expires |-> now + Ttl, event |-> d.at]
           ELSE IF d.at > n.event THEN [n EXCEPT !.count = n.count + 1, !.event = d.at]
           ELSE n]

\* Mutant of CaughtUp: the first sweep looks at its own window only.
CaughtUpNothing == {}

\* The first sweep of a daemon parks the limits its predecessor had seen or
\* missed, and raises no notice for them.
CaughtUp == IF catchUp
            THEN {d \in Detections(Minus(now, Horizon)) : d.reset > now}
            ELSE {}

\* The board after the detections in this order.
RaiseAll(order) ==
    LET after[i \in 0 .. Len(order)] == IF i = 0 THEN board ELSE Raise(after[i - 1], order[i])
    IN after[Len(order)]

Sweep ==
    \E order \in SetToSeqs(Detections(since)) :
       /\ board' = RaiseAll(order)
       /\ heard' = heard \cup {d.at : d \in Range(order) \cup CaughtUp}
       /\ parked' = parked \cup {d.at : d \in {e \in Range(order) : e.reset > 0} \cup CaughtUp}
       /\ since' = now
       /\ catchUp' = FALSE
       /\ UNCHANGED <<runtime, now, log, call, deaths, restarts>>

Restart ==
    /\ restarts < MaxRestart
    /\ restarts' = restarts + 1
    /\ board' = [t \in Types |-> NoNotice]
    /\ since' = now
    /\ catchUp' = TRUE
    /\ UNCHANGED <<runtime, now, log, call, deaths, heard, parked>>

-----------------------------------------------------------------------------
(* The runtimes, as their files show them. *)

Line(k) == [k |-> k, at |-> now + 1, windows |-> FALSE, used |-> TRUE, full |-> FALSE,
            typed |-> FALSE, said |-> TRUE]

Write(f, line) ==
    /\ now < MaxTime
    /\ now' = now + 1
    /\ log' = [log EXCEPT ![f] = Append(@, line)]
    /\ UNCHANGED <<runtime, daemonVars>>

\* claude and opencode say it themselves; an interrupt is not a failure.
SaysError(f) ==
    /\ runtime # "codex"
    /\ \E full \in BOOLEAN : Write(f, [Line("error") EXCEPT !.full = full])
    /\ deaths' = deaths \cup {now + 1}
    /\ UNCHANGED call

Interrupted(f) ==
    /\ runtime # "codex"
    /\ Write(f, Line("aborted"))
    /\ UNCHANGED <<call, deaths>>

Starts(f) ==
    /\ runtime = "codex"
    /\ Write(f, Line("task_started"))
    /\ call' = [call EXCEPT ![f] = "none"]
    /\ UNCHANGED deaths

\* A call that is served spends tokens; one that is refused leaves a snapshot
\* with neither windows nor usage.
Served(f) ==
    /\ runtime = "codex" /\ call[f] # "off"
    /\ \E full \in BOOLEAN : Write(f, [Line("snapshot") EXCEPT !.windows = TRUE, !.full = full])
    /\ call' = [call EXCEPT ![f] = "served"]
    /\ UNCHANGED deaths

RefusedCall(f) ==
    /\ runtime = "codex" /\ call[f] # "off"
    /\ Write(f, [Line("snapshot") EXCEPT !.used = FALSE])
    /\ call' = [call EXCEPT ![f] = "refused"]
    /\ UNCHANGED deaths

Completes(f) ==
    /\ runtime = "codex" /\ call[f] # "off"
    /\ \E typed, said \in BOOLEAN :
          /\ call[f] = "refused" => ~said
          /\ typed => call[f] = "refused"
          /\ Write(f, [Line("task_complete") EXCEPT !.typed = typed, !.said = said])
    /\ deaths' = deaths \cup {t \in {now + 1} : call[f] = "refused"}
    /\ call' = [call EXCEPT ![f] = "off"]

\* A turn given up in the middle leaves no line this sweep reads.
Aborts(f) ==
    /\ runtime = "codex" /\ call[f] # "off"
    /\ call' = [call EXCEPT ![f] = "off"]
    /\ UNCHANGED <<runtime, now, log, deaths, daemonVars>>

Tick == now < MaxTime /\ now' = now + 1 /\ UNCHANGED <<runtime, writerVars, daemonVars>>

Init ==
    /\ runtime \in {"claude", "codex", "opencode"}
    /\ now = 0
    /\ log = [f \in File |-> <<>>]
    /\ call = [f \in File |-> "off"]
    /\ board = [t \in Types |-> NoNotice]
    /\ since = 0
    /\ catchUp = TRUE
    /\ heard = {} /\ parked = {} /\ deaths = {}
    /\ restarts = 0

Next == \/ Sweep \/ Restart \/ Tick
        \/ \E f \in File : \/ SaysError(f) \/ Interrupted(f) \/ Starts(f) \/ Served(f)
                           \/ RefusedCall(f) \/ Completes(f) \/ Aborts(f)

Spec == Init /\ [][Next]_vars /\ WF_vars(Sweep)

-----------------------------------------------------------------------------
TypeOK ==
    /\ now \in 0 .. MaxTime
    /\ call \in [File -> {"off", "none", "served", "refused"}]
    /\ \A t \in Types : board[t].count \in 0 .. MaxTime
    /\ since \in 0 .. MaxTime
    /\ catchUp \in BOOLEAN
    /\ UNION {heard, parked, deaths} \subseteq 1 .. MaxTime
    /\ restarts \in 0 .. MaxRestart

\* A notice, a failover hint or a parked limit stands for a turn that really
\* died on a refusal, however the snapshots of neighbouring turns and of other
\* sessions lie around it; and a line read by many sweeps counts as one
\* occurrence (parseCodexRollout, NoticeBoard.raise).
MuteIsReal ==
    /\ heard \cup parked \subseteq deaths
    /\ \A t \in Types : board[t].count <= Cardinality(deaths)

\* The last death of a file, whose reset the file itself tells, is parked
\* before that reset, or the reset passes first: a daemon that starts between
\* the refusal and the sweep catches up (startMuteWatch).
Owed == {d \in {Resolve(IF runtime = "codex" THEN RolloutDeath(log[f], Minus(now, Horizon))
                        ELSE ErrorDeath(log[f], Minus(now, Horizon))) : f \in File} :
            d.reset > now /\ d.at \notin parked}

LimitIsParked == []<>(Owed = {})
=============================================================================
