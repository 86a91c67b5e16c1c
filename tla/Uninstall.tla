------------------------------- MODULE Uninstall -------------------------------
(***************************************************************************)
(* `iapeer uninstall` (uninstall/index.ts): a plan is made of what there   *)
(* is, and its items are carried out in order, one failing without the     *)
(* next: the launchd jobs, the live sessions, the binary, the tree         *)
(* ~/.iapeer, the shell's lines.  The rest of the system runs meanwhile.   *)
(*                                                                         *)
(* No peer is created while it runs.                                       *)
(***************************************************************************)
EXTENDS Naturals, FiniteSets

CONSTANTS Job, Session,   \* the foundation's launchd jobs, the daemon's among them; sessions
          Daemon, MaxFault, MaxWake, MaxRun

UninstallAssumption == /\ IsFiniteSet(Job) /\ IsFiniteSet(Session) /\ Daemon \in Job
                       /\ {MaxFault, MaxWake, MaxRun} \subseteq Nat

VARIABLES loaded,    \* the jobs that launchd has
          plists,    \* the jobs that have a plist
          foreign,   \* somebody else's peers are there
          live,      \* the sessions
          binary, tree, lines,
          pc, todo,  \* the run's item; the jobs of its plan still to unload
          planned,   \* its plan has sessions to stop
          term,      \* the sessions that it has told to end
          stuckJob,  \* a job outlived its bootout
          faults, wakes, runs

left == <<loaded, plists, live, binary, tree, lines>>
run == <<pc, todo, planned, term, stuckJob>>
vars == <<left, foreign, run, faults, wakes, runs>>

TypeOK == /\ loaded \subseteq Job /\ plists \subseteq Job /\ live \subseteq Session
          /\ {foreign, binary, tree, lines, planned, stuckJob} \subseteq BOOLEAN
          /\ pc \in {"none", "jobs", "sessions", "wait", "binary", "tree", "lines"}
          /\ todo \subseteq Job /\ term \subseteq Session
          /\ faults \in 0 .. MaxFault /\ wakes \in 0 .. MaxWake /\ runs \in 0 .. MaxRun

Init == /\ loaded \in {js \in SUBSET Job : Daemon \in js} /\ plists = Job /\ foreign \in BOOLEAN
        /\ live \in SUBSET Session /\ binary = TRUE /\ tree = TRUE /\ lines = TRUE
        /\ pc = "none" /\ todo = {} /\ planned = FALSE /\ term = {} /\ stuckJob = FALSE
        /\ faults = 0 /\ wakes = 0 /\ runs = 0

Fault == faults < MaxFault /\ faults' = faults + 1

-----------------------------------------------------------------------------
\* The daemon wakes a peer for a message; a session ends.
Wake(s) == /\ Daemon \in loaded /\ tree /\ binary /\ s \notin live /\ wakes < MaxWake /\ wakes' = wakes + 1
           /\ live' = live \cup {s}
           /\ UNCHANGED <<loaded, plists, binary, tree, lines, foreign, run, faults, runs>>

SessionEnds(s) == /\ s \in live /\ live' = live \ {s} /\ term' = term \ {s}
                  /\ UNCHANGED <<loaded, plists, binary, tree, lines, foreign, pc, todo, planned, stuckJob, faults, wakes, runs>>

-----------------------------------------------------------------------------
\* planUninstall: refused beside somebody else's peers; what is there now is the plan.
Begin == /\ pc = "none" /\ runs < MaxRun /\ runs' = runs + 1 /\ binary
         /\ IF foreign THEN UNCHANGED run
            ELSE /\ todo' = plists /\ planned' = (live # {}) /\ term' = {} /\ stuckJob' = FALSE /\ pc' = "jobs"
         /\ UNCHANGED <<left, foreign, faults, wakes>>

\* bootout and the wait for the job to be gone; a job that stays keeps its plist.
Unload(j) == /\ pc = "jobs" /\ j \in todo /\ todo' = todo \ {j}
             /\ \/ loaded' = loaded \ {j} /\ plists' = plists \ {j} /\ UNCHANGED <<stuckJob, faults>>
                \/ j \in loaded /\ Fault /\ stuckJob' = TRUE /\ UNCHANGED <<loaded, plists>>
             /\ UNCHANGED <<live, binary, tree, lines, foreign, pc, planned, term, wakes, runs>>

JobsDone == /\ pc = "jobs" /\ todo = {} /\ pc' = IF planned THEN "sessions" ELSE "binary"
            /\ UNCHANGED <<left, foreign, todo, planned, term, stuckJob, faults, wakes, runs>>

\* stopHostedSessions: those there are now are told to end ...
StopSessions == /\ pc = "sessions" /\ term' = live /\ pc' = "wait"
                /\ UNCHANGED <<left, foreign, todo, planned, stuckJob, faults, wakes, runs>>

\* ... and are waited for, some time.
SessionsDone == /\ pc = "wait" /\ pc' = "binary"
                /\ \/ term \cap live = {} /\ UNCHANGED faults
                   \/ term \cap live # {} /\ Fault
                /\ UNCHANGED <<left, foreign, todo, planned, term, stuckJob, wakes, runs>>

RemoveBinary == /\ pc = "binary" /\ binary' = FALSE /\ pc' = "tree"
                /\ UNCHANGED <<loaded, plists, live, tree, lines, foreign, todo, planned, term, stuckJob, faults, wakes, runs>>

\* Mutant of MayRemoveTree: what failed before does not matter.
MayRemoveTreeAlways == TRUE

\* A job that stays keeps the tree.
MayRemoveTree == ~stuckJob

RemoveTree == /\ pc = "tree" /\ tree' = (tree /\ ~MayRemoveTree) /\ pc' = "lines"
              /\ UNCHANGED <<loaded, plists, live, binary, lines, foreign, todo, planned, term, stuckJob, faults, wakes, runs>>

StripLines == /\ pc = "lines" /\ lines' = FALSE /\ pc' = "none"
              /\ UNCHANGED <<loaded, plists, live, binary, tree, foreign, todo, planned, term, stuckJob, faults, wakes, runs>>

\* A person installs the binary anew to be able to run it again.
Reinstall == /\ pc = "none" /\ ~binary /\ tree /\ binary' = TRUE
             /\ UNCHANGED <<loaded, plists, live, tree, lines, foreign, run, faults, wakes, runs>>

-----------------------------------------------------------------------------
Execute == \/ JobsDone \/ StopSessions \/ SessionsDone \/ RemoveBinary \/ RemoveTree \/ StripLines
           \/ \E j \in Job : Unload(j)
Next == Begin \/ Execute \/ Reinstall \/ \E s \in Session : Wake(s) \/ SessionEnds(s)

Spec == Init /\ [][Next]_vars

-----------------------------------------------------------------------------
(***************************************************************************)
(* Properties                                                              *)
(***************************************************************************)
\* The tree is never deleted from under a job that launchd would start again in
\* it, over runs that failed half way and were run again.
TreeOutlivesJobs == ~tree => loaded = {}

\* Nor from under a live session.  The code does not keep it: the wait for the
\* sessions has an end, and the daemon may wake one after the plan is made.
TreeOutlivesSessions == ~tree => live = {}

\* A run that left the tree in place can be run again.  The code does not keep
\* it: the binary goes even when a job stays and keeps the tree.
CanBeRunAgain == pc = "none" /\ tree => binary
===============================================================================
