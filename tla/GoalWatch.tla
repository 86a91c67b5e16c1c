------------------------------ MODULE GoalWatch ------------------------------
(***************************************************************************)
(* The goal watch (daemon/goalwatch.ts).  codex pins an objective to a     *)
(* thread and works it by itself; when the objective stalls, only a row of *)
(* codex's goals database says so, and the peer goes on looking healthy.   *)
(* The daemon sweeps that row, attributes its thread to a peer through a   *)
(* second database, and raises a notice to the owner.  The three reads of  *)
(* a sweep are three steps: codex writes in between.                       *)
(***************************************************************************)
EXTENDS Naturals, FiniteSets, SequencesExt

CONSTANTS Thread,    \* codex threads
          CwdOf,     \* the folder of a thread
          PeerCwd,   \* the folders that are a peer's
          Stall,     \* statuses that end the automatic continuation
          MaxTime, Overlap, Ttl,
          MaxFault   \* bound: failed reads and daemon restarts

Cwd == {CwdOf[t] : t \in Thread}

GoalWatchAssumption == /\ IsFiniteSet(Thread) /\ PeerCwd \subseteq Cwd /\ "active" \notin Stall
                       /\ MaxTime \in Nat \ {0} /\ Overlap \in Nat \ {0} /\ MaxFault \in Nat
                       /\ Ttl \in Nat /\ Ttl > Overlap

VARIABLES now,
          row,      \* goals database: per thread the goal's status and when it was set
          latest,   \* state database: the thread last used in each folder, or none
          since,    \* start of the last sweep
          sweep,    \* the sweep under way: how far, when it began, what it has read
          board,    \* live notice of each status: count, expiry, newest event
          stalls,   \* every stall there was: <<thread, when>>
          heard,    \* the stalls a notice was raised for
          excused,  \* stalls that were behind another thread, or there when a read
                    \* failed or the daemon restarted
          faults

db == <<row, latest, stalls>>
vars == <<now, row, latest, since, sweep, board, stalls, heard, excused, faults>>

Rows == [status : Stall \cup {"active"}, at : 0 .. MaxTime]
NoSweep == [step |-> "idle", began |-> 0, found |-> {}, known |-> {}]
NoNotice == [count |-> 0, expires |-> 0, event |-> 0]

TypeOK ==
  /\ now \in 1 .. MaxTime /\ row \in [Thread -> Rows]
  /\ latest \in [Cwd -> SUBSET Thread]
  /\ since \in 1 .. MaxTime
  /\ sweep.step \in {"idle", "cwds", "current"} /\ sweep.began \in 0 .. MaxTime
  /\ sweep.found \subseteq {[thread |-> t, status |-> s, at |-> a] :
                              t \in Thread, s \in Stall, a \in 0 .. MaxTime}
  /\ sweep.known \subseteq sweep.found
  /\ board \in [Stall -> [count : Nat, expires : Nat, event : 0 .. MaxTime]]
  /\ heard \subseteq stalls /\ excused \subseteq stalls
  /\ stalls \subseteq Thread \X (1 .. MaxTime)
  /\ faults \in 0 .. MaxFault

Init == /\ now = 1
        /\ row = [t \in Thread |-> [status |-> "active", at |-> 0]]
        /\ latest = [c \in Cwd |-> {}]
        /\ since = 1 /\ sweep = NoSweep
        /\ board = [s \in Stall |-> NoNotice]
        /\ stalls = {} /\ heard = {} /\ excused = {} /\ faults = 0

(***************************************************************************)
(* codex                                                                   *)
(***************************************************************************)
\* A turn on a thread makes it the latest of its folder.
Use(t) == /\ t \notin latest[CwdOf[t]]
          /\ latest' = [latest EXCEPT ![CwdOf[t]] = {t}]
          /\ excused' = excused \cup {s \in stalls : s[1] # t /\ CwdOf[s[1]] = CwdOf[t]}
          /\ UNCHANGED <<now, row, since, sweep, board, stalls, heard, faults>>

StallGoal(t) == \E s \in Stall :
  /\ t \in latest[CwdOf[t]] /\ row[t].status = "active" /\ row[t].at < now
  /\ row' = [row EXCEPT ![t] = [status |-> s, at |-> now]]
  /\ stalls' = stalls \cup {<<t, now>>}
  /\ UNCHANGED <<now, latest, since, sweep, board, heard, excused, faults>>

\* The goal is resumed by hand.
Resume(t) == /\ row[t].status \in Stall /\ row[t].at < now
             /\ row' = [row EXCEPT ![t] = [status |-> "active", at |-> now]]
             /\ UNCHANGED <<now, latest, since, sweep, board, stalls, heard, excused, faults>>

Clock == /\ now < MaxTime /\ now' = now + 1
         /\ UNCHANGED <<row, latest, since, sweep, board, stalls, heard, excused, faults>>

(***************************************************************************)
(* goalWatchTick                                                           *)
(***************************************************************************)
Floor == IF since > Overlap THEN since - Overlap ELSE 0

\* readGoalRows: the stalled rows that changed inside the window.
Stalled == {[thread |-> t, status |-> row[t].status, at |-> row[t].at] :
              t \in {u \in Thread : row[u].status \in Stall /\ row[u].at > Floor}}

\* Mutant of NextSince: the window of the next sweep begins where this one ended.
NextSinceDone(began) == now

\* The next window begins where this sweep began.
NextSince(began) == began

Finish(began) == /\ since' = NextSince(began)
                 /\ sweep' = NoSweep

ReadGoals == /\ sweep.step = "idle"
             /\ IF Stalled = {} THEN Finish(now)
                ELSE /\ sweep' = [step |-> "cwds", began |-> now, found |-> Stalled, known |-> {}]
                     /\ UNCHANGED since
             /\ UNCHANGED <<now, board, heard, excused, faults>> /\ UNCHANGED db

\* readThreadCwds: the candidates in a peer's folder.
ReadCwds == /\ sweep.step = "cwds"
            /\ sweep' = [sweep EXCEPT !.step = "current",
                                      !.known = {g \in sweep.found : CwdOf[g.thread] \in PeerCwd}]
            /\ UNCHANGED <<now, since, board, heard, excused, faults>> /\ UNCHANGED db

\* Only the thread last used in the folder is the one the peer is on.
Current(g) == g.thread \in latest[CwdOf[g.thread]]

\* NoticeBoard.raise: a live notice is counted up by a newer event only.
Raise(b, s, at) ==
  LET n == b[s] IN
  [b EXCEPT ![s] = IF n.count = 0 \/ n.expires <= now
                   THEN [count |-> 1, expires |-> now + Ttl, event |-> at]
                   ELSE IF at > n.event THEN [count |-> n.count + 1, expires |-> n.expires, event |-> at]
                   ELSE n]

\* The board after these were raised, one after the other.
Raised(order) ==
  LET after[i \in 0 .. Len(order)] ==
        IF i = 0 THEN board ELSE Raise(after[i - 1], order[i].status, order[i].at)
  IN after[Len(order)]

ReadCurrent ==
  /\ sweep.step = "current"
  /\ LET chosen == {g \in sweep.known : Current(g)}
     IN /\ \E order \in SetToSeqs(chosen) : board' = Raised(order)
        /\ heard' = heard \cup {<<g.thread, g.at>> : g \in chosen}
  /\ Finish(sweep.began)
  /\ UNCHANGED <<now, excused, faults>> /\ UNCHANGED db

\* A database that cannot be read gives no rows: the sweep finds nothing, and
\* its window is over all the same.
ReadFails == /\ faults < MaxFault /\ faults' = faults + 1
             /\ Finish(IF sweep.step = "idle" THEN now ELSE sweep.began)
             /\ excused' = stalls
             /\ UNCHANGED <<now, board, heard>> /\ UNCHANGED db

\* Nothing of the watch is kept: what stalled before is not looked for.
RestartDaemon == /\ faults < MaxFault /\ faults' = faults + 1
                 /\ since' = now /\ sweep' = NoSweep
                 /\ board' = [s \in Stall |-> NoNotice]
                 /\ excused' = stalls
                 /\ UNCHANGED <<now, heard>> /\ UNCHANGED db

Sweep == ReadGoals \/ ReadCwds \/ ReadCurrent
Next == \/ \E t \in Thread : Use(t) \/ StallGoal(t) \/ Resume(t)
        \/ Clock \/ Sweep \/ ReadFails \/ RestartDaemon

Spec == Init /\ [][Next]_vars
\* The sweep's timer comes round, and a sweep ends.
FairSpec == Spec /\ WF_vars(Sweep)

-----------------------------------------------------------------------------
(***************************************************************************)
(* Properties                                                              *)
(***************************************************************************)
\* A stall older than the last complete sweep, of the thread its peer is
\* been on since, has been told to the owner; only a failed read or a restart
\* of the daemon can lose one, however long the sweep took and whatever codex
\* wrote while it read.
NoStallMissed ==
  \A t \in Thread :
    \/ row[t].status = "active" \/ row[t].at >= since
    \/ CwdOf[t] \notin PeerCwd
    \/ <<t, row[t].at>> \in heard \cup excused
    \/ t \notin latest[CwdOf[t]]
===============================================================================
