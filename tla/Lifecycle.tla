----------------------------- MODULE Lifecycle -----------------------------
(***************************************************************************)
(* The life of ONE endpoint (a <runtime>-<personality> identity) of an     *)
(* iapeer host: how its session is woken, supervised, parked, stopped and  *)
(* replaced by threads of control that share nothing but marker files, a   *)
(* wake lock and the pty host itself.                                      *)
(*                                                                         *)
(* Threads.  Every element of Proc runs one wakeOrSpawn at a time: a       *)
(* router request inside the daemon, a CLI process, or a tick of the       *)
(* daemon's supervise timer, which may wake too.  The operator verbs that  *)
(* are not wakes (stop, self-fresh, ...) run in a process of their own,    *)
(* op.  A step is a run of code between two points where another thread    *)
(* can act: an await, or the gap between two files of another process.     *)
(*                                                                         *)
(* Simplifications.                                                        *)
(*  - One endpoint: markers, lock and host are all keyed by identity.      *)
(*  - Clocks are Booleans: a record is old once idleSecs have passed since *)
(*    its wokeAt (which also exceeds the never-ready bound), the session   *)
(*    is quiet once its last turn, child activity and delivery are older   *)
(*    than idleSecs, the deaths window empties at once.                    *)
(*  - A topic match is a free choice; the ephemeral policy, the limit hold *)
(*    and capability reload are separate components.                       *)
(***************************************************************************)
EXTENDS Naturals, FiniteSets

CONSTANTS
  Proc,          \* threads of control that run wakeOrSpawn
  Timers,        \* those that are supervise ticks: setInterval lets ticks overlap
  NoProc,        \* the lock is free
  Verbs,         \* operator verbs that are exercised
  Boots,         \* how a bring-up may end
  MayDie,        \* threads whose process may be killed half way
  Human,         \* TRUE: isHumanConversational; FALSE: an executor
  CrashLoopMax,  \* cfg.crashLoopMax: deaths in the window that close the gate
  Ring           \* capacity of the .deaths ring (16 in the code)

WakeVerbs == {"attach", "folder", "new"}
OpVerbs == {"stop", "start", "refresh", "selfFresh", "failover"}
BootEnds == {"ready", "unprocessed", "hang"}

ASSUME LifecycleAssumption ==
  /\ Timers \subseteq Proc /\ NoProc \notin Proc
  /\ Verbs \subseteq WakeVerbs \cup OpVerbs
  /\ Boots \subseteq BootEnds
  /\ MayDie \subseteq Proc
  /\ Human \in BOOLEAN
  /\ CrashLoopMax \in Nat \ {0} /\ Ring \in Nat /\ CrashLoopMax <= Ring

VARIABLES
  host,     \* the pty supervisor: "none", "booting" (alive, no ready marker), "ready"
  term,     \* a SIGTERM is pending: the host still reads alive
  overdue,  \* the host process is older than the never-ready bound
  marks,    \* the identity's marker files
  old,      \* the .session record's wokeAt is older than idleSecs
  quiet,    \* last turn, child activity and delivery are older than idleSecs
  deaths,   \* entries of the .deaths ring inside the window
  lock,     \* holder of <identity>.wake.lock
  pc,       \* pc[p]: where thread p is
  how,      \* how[p]: what p runs
  recOld,   \* recOld[p]: age of the .session record p read in its sweep
  mode,     \* mode[p]: resume or fresh, as resolveWakeMode decided
  spent,    \* spent[p]: markers to consume once the session is up
  op,       \* where the operator's verb is
  ran,      \* a transcript exists: resolveResume finds one
  crashed,  \* history: the last established session died on its own, unparked
  owesFresh \* history: self-fresh was asked for, no fresh session came up since

hostVars == <<host, term, overdue>>
fileVars == <<marks, old, deaths>>
wakeVars == <<how, recOld, mode, spent>>
pastVars == <<quiet, ran, crashed, owesFresh>>
vars == <<hostVars, fileVars, wakeVars, pastVars, lock, pc, op>>

Marks == {"session", "stopped", "idleReaped", "newEager", "freshNext", "failoverFresh"}
Hows == {"message", "tick", "eager", "orphan"} \cup WakeVerbs
InLock == {"check", "teardown", "decide", "boot", "deliver", "failed", "record"}
Places == {"rest", "sweep", "reap", "gate", "wait", "eager", "orphan"} \cup InLock
OpPlaces == {"idle", "stopKill", "kill"}

TypeOK ==
  /\ host \in {"none", "booting", "ready"}
  /\ term \in BOOLEAN /\ overdue \in BOOLEAN
  /\ marks \subseteq Marks
  /\ old \in BOOLEAN /\ quiet \in BOOLEAN
  /\ deaths \in 0 .. Ring
  /\ lock \in Proc \cup {NoProc}
  /\ pc \in [Proc -> Places]
  /\ how \in [Proc -> Hows]
  /\ recOld \in [Proc -> BOOLEAN]
  /\ mode \in [Proc -> {"fresh", "resume"}]
  /\ spent \in [Proc -> SUBSET Marks]
  /\ op \in OpPlaces
  /\ ran \in BOOLEAN /\ crashed \in BOOLEAN /\ owesFresh \in BOOLEAN

Init ==
  /\ host = "none" /\ term = FALSE /\ overdue = FALSE
  /\ marks = {} /\ old = FALSE /\ quiet = TRUE /\ deaths = 0
  /\ lock = NoProc
  /\ pc = [p \in Proc |-> "rest"]
  /\ how = [p \in Proc |-> "message"]
  /\ recOld = [p \in Proc |-> FALSE]
  /\ mode = [p \in Proc |-> "fresh"]
  /\ spent = [p \in Proc |-> {}]
  /\ op = "idle" /\ ran = FALSE /\ crashed = FALSE /\ owesFresh = FALSE

----------------------------------------------------------------------------
(* Host and file primitives.                                               *)

Alive == host # "none"

\* killPtyHost: SIGTERM the supervisor; its teardown is asynchronous.
SigTerm == term' = Alive

\* Mutant of RecordDeath: the ring is not cut to its capacity.
RecordDeathUncut == deaths' = deaths + 1

\* recordDeath: append to the ring, which keeps the last Ring entries.
RecordDeath == deaths' = IF deaths < Ring THEN deaths + 1 ELSE deaths

Goto(p, place) == pc' = [pc EXCEPT ![p] = place]

\* What thread p does when its wake returns; the tick goes on to its next stage.
After(p) == IF how[p] = "eager" THEN "orphan" ELSE "rest"

\* withWakeLock's finally: the lock is released on every path out.
Return(p) ==
  /\ Goto(p, After(p))
  /\ lock' = IF lock = p THEN NoProc ELSE lock
  /\ mode' = [mode EXCEPT ![p] = "fresh"]
  /\ spent' = [spent EXCEPT ![p] = {}]
  /\ recOld' = [recOld EXCEPT ![p] = FALSE]
  /\ UNCHANGED how

\* writeSessionState: a record whose wokeAt is now.
Enrol(m) == marks' = m \cup {"session"} /\ old' = FALSE

----------------------------------------------------------------------------
(* The supervise pass: the timer's, and the prelude of every wake.         *)

AfterSweep(p) == IF how[p] = "tick" THEN "orphan" ELSE "gate"

\* Mutant of SweepUnrecorded: the run-dir is not walked.
SweepRecordsOnly(p) ==
  /\ "session" \notin marks
  /\ Goto(p, AfterSweep(p))
  /\ UNCHANGED <<term, deaths, recOld>>

\* readSessionStates.  Without a .session the pass walks the run-dir: an overdue
\* host that never reached its ready surface is killed as a fault.
SweepUnrecorded(p) ==
  /\ "session" \notin marks
  /\ IF host = "booting" /\ overdue
     THEN SigTerm /\ RecordDeath
     ELSE UNCHANGED <<term, deaths>>
  /\ Goto(p, AfterSweep(p))
  /\ UNCHANGED recOld

SweepRecorded(p) ==
  /\ "session" \in marks
  /\ recOld' = [recOld EXCEPT ![p] = old]
  /\ Goto(p, "reap")
  /\ UNCHANGED <<term, deaths>>

Sweep(p) ==
  /\ pc[p] = "sweep"
  /\ SweepUnrecorded(p) \/ SweepRecorded(p)
  /\ UNCHANGED <<host, overdue, marks, old, how, mode, spent, pastVars, lock, op>>

\* Mutant of StopEnforced: the endpoint is parked but the live host is left alone.
StopParkedOnly ==
  /\ "stopped" \in marks
  /\ marks' = (marks \ {"session"}) \cup {"idleReaped"}
  /\ crashed' = FALSE
  /\ UNCHANGED <<term, deaths>>

\* superviseOnePeer, on the record read before: the first branch that applies.
\* A stopped endpoint, live or dead, is parked clean; if it is live it is killed.
StopEnforced ==
  /\ "stopped" \in marks
  /\ SigTerm
  /\ marks' = (marks \ {"session"}) \cup {"idleReaped"}
  /\ crashed' = FALSE
  /\ UNCHANGED deaths

\* A dead session: the one pass that claims the .session (rename) counts it.
ClaimDead ==
  /\ "stopped" \notin marks /\ ~Alive
  /\ marks' = marks \ {"session"}
  /\ IF "session" \in marks THEN RecordDeath ELSE UNCHANGED deaths
  /\ UNCHANGED <<term, crashed>>

NeverReadyReap(p) ==
  /\ "stopped" \notin marks /\ host = "booting" /\ recOld[p]
  /\ SigTerm /\ RecordDeath
  /\ marks' = marks \ {"session"}
  /\ UNCHANGED crashed

IdleReap(p) ==
  /\ "stopped" \notin marks /\ host = "ready" /\ recOld[p] /\ quiet
  /\ SigTerm
  /\ marks' = (marks \ {"session"}) \cup {"idleReaped"}
  /\ crashed' = FALSE
  /\ UNCHANGED deaths

StaysAlive(p) ==
  /\ "stopped" \notin marks /\ Alive
  /\ ~(recOld[p] /\ (host = "booting" \/ quiet))
  /\ UNCHANGED <<term, marks, deaths, crashed>>

\* The claimed death of a session that carried the eager mark: the timer's pass
\* relaunches it; a wake's prelude discards its outcomes.
ClaimsEager(p) ==
  how[p] = "tick" /\ ~Alive /\ {"session", "newEager"} \subseteq marks /\ "stopped" \notin marks

Reap(p) ==
  /\ pc[p] = "reap"
  /\ StopEnforced \/ ClaimDead \/ NeverReadyReap(p) \/ IdleReap(p) \/ StaysAlive(p)
  /\ recOld' = [recOld EXCEPT ![p] = FALSE]
  /\ Goto(p, IF ClaimsEager(p) THEN "eager" ELSE AfterSweep(p))
  /\ UNCHANGED <<host, overdue, old, how, mode, spent, quiet, ran, owesFresh, lock, op>>

----------------------------------------------------------------------------
(* The daemon's tick.                                                      *)

Tick(p) ==
  /\ pc[p] = "rest"
  /\ Goto(p, "sweep")
  /\ how' = [how EXCEPT ![p] = "tick"]
  /\ UNCHANGED <<hostVars, fileVars, recOld, mode, spent, pastVars, lock, op>>

\* processEagerRelaunches: the mark is consumed before the wake it asks for.
EagerRelaunch(p) ==
  /\ pc[p] = "eager"
  /\ marks' = marks \ {"newEager"}
  /\ how' = [how EXCEPT ![p] = "eager"]
  /\ Goto(p, "sweep")
  /\ UNCHANGED <<hostVars, old, deaths, recOld, mode, spent, pastVars, lock, op>>

\* Mutant of OrphanEager: no scan, so only the .session walk sees the mark.
OrphanEagerIgnored(p) ==
  /\ pc[p] = "orphan"
  /\ Goto(p, "rest")
  /\ UNCHANGED <<hostVars, fileVars, how, recOld, mode, spent, pastVars, lock, op>>

\* processOrphanEagerMarks: a mark whose session died with no .session on disk.
OrphanEager(p) ==
  /\ pc[p] = "orphan"
  /\ IF "newEager" \in marks /\ "session" \notin marks /\ ~Alive
     THEN /\ marks' = marks \ {"newEager"}
          /\ how' = [how EXCEPT ![p] = "orphan"]
          /\ Goto(p, "sweep")
     ELSE /\ Goto(p, "rest")
          /\ UNCHANGED <<marks, how>>
  /\ UNCHANGED <<hostVars, old, deaths, recOld, mode, spent, pastVars, lock, op>>

----------------------------------------------------------------------------
(* wakeOrSpawn.                                                            *)

\* newPeer lifts the stop and drops the stale markers before it wakes.
CleanSlate == marks \ {"stopped", "idleReaped", "newEager"}

\* A message that found no ready session, or one of the verbs that are wakes (an
\* attach to a live host needs none).
WakeBegin(p, h) ==
  /\ pc[p] = "rest"
  /\ h = "message" \/ h \in Verbs \cap WakeVerbs
  /\ h = "message" => host # "ready"
  /\ h = "attach" => ~Alive
  /\ marks' = IF h = "new" THEN CleanSlate ELSE marks
  /\ how' = [how EXCEPT ![p] = h]
  /\ Goto(p, "sweep")
  /\ UNCHANGED <<hostVars, old, deaths, recOld, mode, spent, pastVars, lock, op>>

\* The refusal of a stopped endpoint before the lock, and again under it.
Refused(p) == "stopped" \in marks /\ how[p] # "new"

Gate(p) ==
  /\ pc[p] = "gate"
  /\ IF Refused(p)
     THEN Return(p)
     ELSE /\ Goto(p, "wait")
          /\ UNCHANGED <<wakeVars, lock>>
  /\ UNCHANGED <<hostVars, fileVars, pastVars, op>>

\* Mutant of Acquire: the lock is taken whoever holds it.
AcquireShared(p) ==
  /\ pc[p] = "wait"
  /\ lock' = p
  /\ Goto(p, "check")
  /\ UNCHANGED <<hostVars, fileVars, wakeVars, pastVars, op>>

Acquire(p) ==
  /\ pc[p] = "wait" /\ lock = NoProc
  /\ lock' = p
  /\ Goto(p, "check")
  /\ UNCHANGED <<hostVars, fileVars, wakeVars, pastVars, op>>

\* ELOCKED: the retry budget is shorter than a boot; a retryable FAILED.
LockBusy(p) ==
  /\ pc[p] = "wait" /\ lock # NoProc
  /\ Return(p)
  /\ UNCHANGED <<hostVars, fileVars, pastVars, op>>

\* Mutant of StaleLock: the holder does not refresh the lock during a long boot.
StaleLockUnrefreshed ==
  /\ lock # NoProc
  /\ lock' = NoProc
  /\ UNCHANGED <<hostVars, fileVars, wakeVars, pastVars, pc, op>>

\* proper-lockfile's stale takeover: the holder's process is gone.
StaleLock ==
  /\ lock # NoProc /\ pc[lock] \notin InLock
  /\ lock' = NoProc
  /\ UNCHANGED <<hostVars, fileVars, wakeVars, pastVars, pc, op>>

\* Under the lock: restart retires the old host, a live never-ready host is
\* replaced, a live ready host wins (the idempotent fast path).
Restart(p) ==
  /\ how[p] = "new"
  /\ marks' = marks \ {"stopped", "idleReaped", "newEager", "session"}
  /\ host' = IF Alive THEN "booting" ELSE host
  /\ SigTerm
  /\ Goto(p, "teardown")
  /\ UNCHANGED <<lock, wakeVars, old, overdue>>

Replace(p) ==
  /\ how[p] # "new" /\ ~Refused(p) /\ host = "booting"
  /\ SigTerm
  /\ Goto(p, "teardown")
  /\ UNCHANGED <<lock, wakeVars, host, overdue, marks, old>>

FastPath(p) ==
  /\ how[p] # "new" /\ ~Refused(p) /\ host = "ready"
  /\ Enrol(marks)
  /\ Return(p)
  /\ UNCHANGED hostVars

Vacant(p) ==
  /\ how[p] # "new" /\ ~Refused(p) /\ ~Alive
  /\ Goto(p, "decide")
  /\ UNCHANGED <<lock, wakeVars, hostVars, marks, old>>

RefusedInLock(p) ==
  /\ Refused(p)
  /\ Return(p)
  /\ UNCHANGED <<hostVars, marks, old>>

Check(p) ==
  /\ pc[p] = "check"
  /\ RefusedInLock(p) \/ Restart(p) \/ Replace(p) \/ FastPath(p) \/ Vacant(p)
  /\ UNCHANGED <<deaths, pastVars, op>>

\* Mutant of Teardown: SIGTERM is taken for the end of the host.
TeardownUnwaited(p) ==
  /\ pc[p] = "teardown"
  /\ Goto(p, "decide")
  /\ UNCHANGED <<hostVars, fileVars, wakeVars, lock, pastVars, op>>

\* The bounded wait for the killed host: gone, or the wake fails.
Teardown(p) ==
  /\ pc[p] = "teardown"
  /\ \/ /\ ~Alive /\ Goto(p, "decide") /\ UNCHANGED <<lock, wakeVars>>
     \/ /\ Alive /\ Return(p)
  /\ UNCHANGED <<hostVars, fileVars, pastVars, op>>

----------------------------------------------------------------------------
(* resolveWakeMode and the bring-up.                                       *)

FreshHows == {"folder", "new", "eager", "orphan"}

Fresh(consumed) == [mode |-> "fresh", spent |-> consumed]
Resumed(consumed) == [mode |-> IF ran THEN "resume" ELSE "fresh", spent |-> consumed]

\* resolveWakeMode: the decisions open to p, the first matching branch wins.
\* Markers are listed for consumption, not consumed.  An executor resumes only
\* on a topic of its own, a free choice here.
WakeModes(p) ==
  IF "failoverFresh" \in marks THEN {Fresh({"failoverFresh", "idleReaped"})}
  ELSE IF how[p] \in FreshHows THEN {Fresh({"newEager"})}
  ELSE IF "newEager" \in marks THEN {Fresh({"newEager", "idleReaped"})}
  ELSE IF how[p] = "attach" THEN {Resumed({})}
  ELSE IF "freshNext" \in marks THEN {Fresh({"freshNext", "idleReaped"})}
  ELSE IF "idleReaped" \notin marks THEN {Fresh({})}
  ELSE IF Human THEN {Resumed({"idleReaped"})}
  ELSE {Fresh({"idleReaped"}), Resumed({"idleReaped"})}

\* The branch above that refuses: an attach with nothing to resume.
NothingToResume(p) ==
  /\ how[p] = "attach" /\ ~ran
  /\ marks \cap {"failoverFresh", "newEager"} = {}

\* The crash-loop guard, then the mode, then startPtyHost.
Refuse(p) ==
  /\ deaths >= CrashLoopMax \/ NothingToResume(p)
  /\ Return(p)
  /\ UNCHANGED hostVars

Spawn(p) ==
  /\ deaths < CrashLoopMax /\ ~NothingToResume(p)
  /\ \E m \in WakeModes(p) :
       /\ mode' = [mode EXCEPT ![p] = m.mode]
       /\ spent' = [spent EXCEPT ![p] = m.spent]
  /\ host' = "booting" /\ term' = FALSE /\ overdue' = FALSE
  /\ Goto(p, "boot")
  /\ UNCHANGED <<how, recOld, lock>>

Decide(p) ==
  /\ pc[p] = "decide"
  /\ Refuse(p) \/ Spawn(p)
  /\ UNCHANGED <<fileVars, pastVars, op>>

\* launch: the ready gate passes (the ready marker is written, the first message
\* is delivered), the host never becomes ready (it is sent a SIGTERM), or it is
\* found gone, by the gate or by markHostReady, which throws.
Boot(p) ==
  /\ pc[p] = "boot"
  /\ \/ /\ Alive /\ Boots \cap {"ready", "unprocessed"} # {}
        /\ host' = "ready" /\ ran' = TRUE /\ crashed' = FALSE
        /\ owesFresh' = (owesFresh /\ mode[p] = "resume")
        /\ Goto(p, "deliver")
        /\ UNCHANGED <<term, overdue, wakeVars, lock>>
     \/ /\ Alive /\ "hang" \in Boots
        /\ SigTerm
        /\ Goto(p, "failed")
        /\ UNCHANGED <<host, overdue, ran, crashed, owesFresh, wakeVars, lock>>
     \/ /\ ~Alive
        /\ \/ Goto(p, "failed") /\ UNCHANGED <<wakeVars, lock>>
           \/ Return(p)
        /\ UNCHANGED <<hostVars, ran, crashed, owesFresh>>
  /\ UNCHANGED <<fileVars, quiet, op>>

\* The first message and the activity gate: processed, not processed, or gone.
Deliver(p) ==
  /\ pc[p] = "deliver"
  /\ \/ /\ Alive /\ "ready" \in Boots
        /\ quiet' = FALSE
        /\ Goto(p, "record")
     \/ /\ ~Alive \/ "unprocessed" \in Boots
        /\ Goto(p, "failed")
        /\ UNCHANGED quiet
  /\ UNCHANGED <<hostVars, fileVars, wakeVars, ran, crashed, owesFresh, lock, op>>

\* Mutant of Failed: markers are consumed with the decision, whatever came of it.
FailedConsumes(p) ==
  /\ pc[p] = "failed"
  /\ IF Alive
     THEN Enrol(marks \ spent[p]) /\ UNCHANGED deaths
     ELSE RecordDeath /\ marks' = marks \ spent[p] /\ UNCHANGED old
  /\ Return(p)
  /\ UNCHANGED <<hostVars, pastVars, op>>

\* Mutant of Failed: a live remnant is not enrolled.
FailedForgets(p) ==
  /\ pc[p] = "failed"
  /\ IF Alive
     THEN marks' = marks \ spent[p] /\ UNCHANGED <<old, deaths>>
     ELSE RecordDeath /\ UNCHANGED <<marks, old>>
  /\ Return(p)
  /\ UNCHANGED <<hostVars, pastVars, op>>

\* launch returned FAILED: a live remnant is enrolled and its markers are spent;
\* otherwise the boot crash is counted (B14).
Failed(p) ==
  /\ pc[p] = "failed"
  /\ IF Alive
     THEN Enrol(marks \ spent[p]) /\ UNCHANGED deaths
     ELSE RecordDeath /\ UNCHANGED <<marks, old>>
  /\ Return(p)
  /\ UNCHANGED <<hostVars, pastVars, op>>

\* Mutant of Record: the consumption of the markers is forgotten.
RecordUnspent(p) ==
  /\ pc[p] = "record"
  /\ Enrol(marks)
  /\ Return(p)
  /\ UNCHANGED <<hostVars, deaths, pastVars, op>>

\* READY: markers are consumed, the session is enrolled, the ring is trimmed to
\* its window.
Record(p) ==
  /\ pc[p] = "record"
  /\ Enrol(marks \ spent[p])
  /\ Return(p)
  /\ UNCHANGED <<hostVars, deaths, pastVars, op>>

----------------------------------------------------------------------------
(* Operator verbs that are not wakes.                                      *)

\* stopPeer: the park marks first, then the kill and the removal of the record.
Stop ==
  /\ op = "idle" /\ "stop" \in Verbs
  /\ marks' = marks \cup {"stopped", "idleReaped"}
  /\ crashed' = FALSE
  /\ op' = "stopKill"
  /\ UNCHANGED <<term, quiet, owesFresh>>

StopKill ==
  /\ op = "stopKill"
  /\ SigTerm
  /\ marks' = marks \ {"session"}
  /\ op' = "idle"
  /\ UNCHANGED <<quiet, crashed, owesFresh>>

\* startPeer: the endpoint may be woken again.
Start ==
  /\ op = "idle" /\ "start" \in Verbs /\ "stopped" \in marks
  /\ marks' = marks \ {"stopped"}
  /\ UNCHANGED <<term, quiet, crashed, owesFresh, op>>

\* refreshPeer: the next natural wake is fresh.
Refresh ==
  /\ op = "idle" /\ "refresh" \in Verbs
  /\ marks' = marks \cup {"freshNext"}
  /\ UNCHANGED <<term, quiet, crashed, owesFresh, op>>

\* self-fresh, run by the live agent in a turn of its own: mark first, kill second.
SelfFresh ==
  /\ op = "idle" /\ "selfFresh" \in Verbs /\ host = "ready" /\ ~term
  /\ marks' = marks \cup {"newEager"}
  /\ quiet' = FALSE
  /\ owesFresh' = TRUE
  /\ op' = "kill"
  /\ UNCHANGED <<term, crashed>>

\* processFailovers on this endpoint: the next session is fresh; the old hosting,
\* when it is the one that failed (its token), goes after the mark.
Failover ==
  /\ op = "idle" /\ "failover" \in Verbs
  /\ marks' = marks \cup {"failoverFresh"}
  /\ op' = "idle" \/ op' = "kill"
  /\ UNCHANGED <<term, quiet, crashed, owesFresh>>

Kill ==
  /\ op = "kill"
  /\ SigTerm
  /\ op' = "idle"
  /\ UNCHANGED <<marks, quiet, crashed, owesFresh>>

OpStep == StopKill \/ Kill

Operator ==
  /\ Stop \/ Start \/ Refresh \/ SelfFresh \/ Failover \/ OpStep
  /\ UNCHANGED <<host, overdue, old, deaths, wakeVars, ran, lock, pc>>

----------------------------------------------------------------------------
(* The environment.                                                        *)

\* The supervisor's shutdown completes: the pid file is gone.
HostGone ==
  /\ Alive /\ term
  /\ host' = "none" /\ term' = FALSE /\ overdue' = FALSE
  /\ UNCHANGED <<fileVars, wakeVars, pastVars, lock, pc, op>>

BeingBroughtUp == \E p \in Proc : pc[p] \in {"boot", "deliver", "failed", "record"}

\* The hosted process dies on its own.  A death during its bring-up is a failed
\* bring-up, not the end of an established session.
HostCrash ==
  /\ Alive /\ ~term
  /\ host' = "none" /\ overdue' = FALSE
  /\ crashed' = (crashed \/ (host = "ready" /\ ~BeingBroughtUp /\ op # "stopKill"))
  /\ UNCHANGED <<term, fileVars, wakeVars, quiet, ran, owesFresh, lock, pc, op>>

AtRest == \A p \in Proc : pc[p] = "rest"

\* More than idleSecs pass.  A wake is far shorter, so none is in progress.
LongTime ==
  /\ AtRest
  /\ op = "idle" /\ ~term
  /\ overdue' = Alive /\ old' = ("session" \in marks) /\ deaths' = 0
  /\ quiet' \in {quiet, TRUE}
  /\ UNCHANGED <<host, term, marks, wakeVars, ran, crashed, owesFresh, lock, pc, op>>

\* A turn, a child's activity or a confirmed live delivery.
Activity ==
  /\ host = "ready" /\ ~term /\ quiet
  /\ quiet' = FALSE
  /\ UNCHANGED <<hostVars, fileVars, wakeVars, ran, crashed, owesFresh, lock, pc, op>>

\* The process of thread p is killed; its wake lock stays behind.
Die(p) ==
  /\ p \in MayDie /\ pc[p] # "rest"
  /\ Goto(p, "rest")
  /\ mode' = [mode EXCEPT ![p] = "fresh"]
  /\ spent' = [spent EXCEPT ![p] = {}]
  /\ recOld' = [recOld EXCEPT ![p] = FALSE]
  /\ UNCHANGED <<hostVars, fileVars, how, pastVars, lock, op>>

----------------------------------------------------------------------------

Step(p) ==
  \/ Sweep(p) \/ Reap(p) \/ EagerRelaunch(p) \/ OrphanEager(p)
  \/ Gate(p) \/ Acquire(p) \/ LockBusy(p) \/ Check(p) \/ Teardown(p)
  \/ Decide(p) \/ Boot(p) \/ Deliver(p) \/ Failed(p) \/ Record(p)

Next ==
  \/ \E p \in Proc : Step(p)
  \/ \E p \in Proc \ Timers : \E h \in Hows : WakeBegin(p, h)
  \/ \E p \in Timers : Tick(p)
  \/ StaleLock \/ Operator
  \/ HostGone \/ HostCrash \/ LongTime \/ Activity
  \/ \E p \in Proc : Die(p)

Spec == Init /\ [][Next]_vars

----------------------------------------------------------------------------
(* Fairness: a thread that can run does; the interval timer fires; a SIGTERM   *)
(* is obeyed (the host's shutdown is bounded); a verb finishes; a stale lock   *)
(* is taken over; and, wakes being short against idleSecs, time passes.       *)

Fairness ==
  /\ \A p \in Proc : WF_vars(Step(p))
  /\ \A p \in Timers : WF_vars(Tick(p))
  /\ WF_vars(Operator /\ OpStep) /\ WF_vars(StaleLock) /\ WF_vars(HostGone)
  /\ SF_vars(LongTime)

FairSpec == Spec /\ Fairness

----------------------------------------------------------------------------
(* Safety.                                                                  *)

\* Between acquiring and releasing it, a wake is the recorded holder of the wake
\* lock (withWakeLock): no takeover or refused waiter frees it under a live holder.
LockHeld == \A p \in Proc : pc[p] \in InLock => lock = p

\* "Concurrent = one spawn": when a wake is about to start a host, no host of the
\* identity is alive, whatever other wakes, stops, reaps and crashed launchers did.
LaunchIntoVacancy == \A p \in Proc : pc[p] = "decide" => host = "none"

\* The moment a bring-up of thread p reaches its ready surface.
ComesUp(p) == pc[p] = "boot" /\ pc'[p] = "deliver"

\* Branch 3a of resolveWakeMode: a message never resumes the context of a session
\* that died on its own and that neither the daemon nor an operator parked since.
CrashIsNotResumed ==
  [][\A p \in Proc : ComesUp(p) /\ how[p] = "message" /\ mode[p] = "resume" => ~crashed]_vars

\* Branch 1.5 of resolveWakeMode: once an agent asked to come up fresh, the next
\* session of the endpoint is fresh, however many wakes race for it.
SelfFreshIsHonoured ==
  [][\A p \in Proc : ComesUp(p) /\ mode[p] = "resume" => ~owesFresh]_vars

\* OC14-1: a wake decision's marker is consumed only when the session is up, so a
\* failed bring-up leaves the next decision as it was.
MarkersOutliveFailedBoot ==
  [][\A p \in Proc : pc[p] = "failed" /\ pc'[p] # "failed" /\ ~(marks \cap spent[p] \subseteq marks')
       => host = "ready"]_vars

----------------------------------------------------------------------------
(* Liveness.                                                                *)

\* The idle reap is the universal bound: a session that reached its ready surface
\* gets a .session record, or it goes.
HostSupervised == host = "ready" ~> ("session" \in marks \/ host # "ready")

\* V17: a stop that raced a wake is enforced in the end.
StopIsEnforced == ("stopped" \in marks /\ Alive) ~> ("stopped" \notin marks \/ ~Alive)

\* A host that never reaches its ready surface does not linger, also when its
\* launcher is gone and no record of it exists, on an endpoint that is now and
\* again at rest.
NeverReadyIsReaped == []<>AtRest => (host = "booting" ~> host # "booting")

\* A self-fresh mark is never stranded: the endpoint does not lie down for good
\* with the mark on disk, whether or not the dead session had a .session.
EagerIsTaken == []<>("newEager" \notin marks \/ Alive)

============================================================================
