------------------------------- MODULE AlwaysOn -------------------------------
(***************************************************************************)
(* An always-on channel (launch/launchd.ts, launch/launchdRun.ts, and the  *)
(* stop and start verbs of cli/index.ts): a launchd job that keeps a       *)
(* watcher alive, and the session the watcher brings up and watches.       *)
(*                                                                         *)
(* Operators, sweeps and updates are processes of their own: each verb is  *)
(* a sequence of launchctl calls that others' calls come between.  launchd *)
(* is external: its job is out, up, or undead (told to go, still listed);  *)
(* it starts the watcher of a job that is up whenever there is none, sends *)
(* it a SIGTERM on bootout, and refuses to load a disabled label.          *)
(***************************************************************************)
EXTENDS Naturals, FiniteSets

CONSTANTS Proc,      \* processes that run a verb
          MaxVerb,   \* verbs run in all
          MaxFault   \* deaths of the session, and calls of launchctl that fail

AlwaysOnAssumption == MaxVerb \in Nat /\ MaxFault \in Nat /\ IsFiniteSet(Proc)

VARIABLES plist,     \* a plist of ours is at the channel's path
          job,       \* the label in launchd's domain
          disabled,  \* launchd's override of the label
          stopped,   \* the operator's stop flag
          watcher,   \* the job's process
          host,      \* the session: none, starting (no pid file yet), up
          pc,        \* where each process is
          told,      \* the verb's last answer
          off,       \* the operator's last word is a stop
          verbs, faults

launchd == <<plist, job, disabled>>
vars == <<plist, job, disabled, stopped, watcher, host, pc, told, off, verbs, faults>>

Step == {"idle", "stop.disable", "stop.bootout", "stop.kill", "start.enable", "start.gone", "start.load",
         "bring.look", "bring.gone", "bring.load", "cycle.out", "cycle.gone", "cycle.load"}

TypeOK == /\ plist \in BOOLEAN /\ disabled \in BOOLEAN /\ stopped \in BOOLEAN
          /\ job \in {"out", "up", "undead"}
          /\ watcher \in {"none", "look", "launch", "recheck", "watch", "stopping"}
          /\ host \in {"none", "starting", "up"}
          /\ pc \in [Proc -> Step]
          /\ told \in [Proc -> {"nothing", "ok", "failed", "refused"}]
          /\ off \in BOOLEAN /\ verbs \in 0 .. MaxVerb /\ faults \in 0 .. MaxFault

Init == /\ plist = FALSE /\ job = "out" /\ disabled = FALSE /\ stopped = FALSE
        /\ watcher = "none" /\ host = "none" /\ off = FALSE /\ verbs = 0 /\ faults = 0
        /\ pc = [p \in Proc |-> "idle"] /\ told = [p \in Proc |-> "nothing"]

-----------------------------------------------------------------------------
(***************************************************************************)
(* launchd                                                                 *)
(***************************************************************************)
Listed == job # "out"
Go(p, s) == pc' = [pc EXCEPT ![p] = s] /\ UNCHANGED told
Answer(p, a) == pc' = [pc EXCEPT ![p] = "idle"] /\ told' = [told EXCEPT ![p] = a]
Begin(p) == pc[p] = "idle" /\ verbs < MaxVerb /\ verbs' = verbs + 1
Run(p, s) == pc[p] = s /\ UNCHANGED verbs

\* A bootout: the watcher gets a SIGTERM.  It tears the session down if it is
\* watching it; before that it has no handler, and is gone at once.
Bootout == /\ job' = IF job = "up" THEN "undead" ELSE job
           /\ watcher' = IF job = "up" /\ watcher # "none"
                         THEN IF watcher \in {"watch", "stopping"} THEN "stopping" ELSE "none"
                         ELSE watcher

\* The dismantled job leaves the list once its process has gone.
Dismantle == /\ job = "undead" /\ watcher = "none" /\ job' = "out"
             /\ UNCHANGED <<plist, disabled, stopped, watcher, host, pc, told, off, verbs, faults>>

KeepAlive == /\ job = "up" /\ watcher = "none" /\ watcher' = "look"
             /\ UNCHANGED <<plist, job, disabled, stopped, host, pc, told, off, verbs, faults>>

-----------------------------------------------------------------------------
(***************************************************************************)
(* The watcher: runAlwaysOn                                                *)
(***************************************************************************)
WatcherOnly == UNCHANGED <<plist, job, disabled, stopped, pc, told, off, verbs>>

IsAlive == host = "up"

Look == /\ watcher = "look" /\ watcher' = IF IsAlive THEN "watch" ELSE "launch"
        /\ UNCHANGED <<host, faults>> /\ WatcherOnly

\* launch: the session's host is a process of its own from here on.
Launch == /\ watcher = "launch" /\ host = "none" /\ host' = "starting" /\ watcher' = "recheck"
          /\ UNCHANGED faults /\ WatcherOnly

\* Another host of that name is on its way: the launch fails, or finds it.
LaunchFails == /\ watcher = "launch" /\ host # "none" /\ watcher' = "none"
               /\ UNCHANGED <<host, faults>> /\ WatcherOnly

HostUp == /\ host = "starting" /\ host' = "up"
          /\ UNCHANGED <<watcher, faults>> /\ WatcherOnly

\* After a beat, a session that died at once ends the run with a failure.
Recheck == /\ watcher = "recheck" /\ host # "starting"
           /\ watcher' = IF IsAlive THEN "watch" ELSE "none"
           /\ UNCHANGED <<host, faults>> /\ WatcherOnly

\* Mutant of WatchEnds: the loop waits for a signal alone.
WatchEndsOnSignal == FALSE

\* The watch loop ends when the session has died.
WatchEnds == ~IsAlive

NaturalDeath == /\ watcher = "watch" /\ WatchEnds /\ watcher' = "none"
                /\ UNCHANGED <<host, faults>> /\ WatcherOnly

\* Told to stop, the watcher kills the session and goes.
StopSignal == /\ watcher = "stopping" /\ watcher' = "none"
              /\ host' = IF host = "up" THEN "none" ELSE host
              /\ UNCHANGED faults /\ WatcherOnly

SessionDies == /\ host # "none" /\ faults < MaxFault /\ faults' = faults + 1 /\ host' = "none"
               /\ UNCHANGED watcher /\ WatcherOnly

-----------------------------------------------------------------------------
(***************************************************************************)
(* bootstrapJobCore, shared by every verb that loads the job               *)
(***************************************************************************)
\* The job is listed: wait for it to go, up to a deadline.  One that is still
\* there then is taken for a live one.
WaitForGone(p, from, to, listedStill) ==
  /\ Run(p, from)
  /\ \/ ~Listed /\ Go(p, to)
     \/ job = "up" /\ Answer(p, listedStill)
  /\ UNCHANGED <<stopped, off, watcher, host, faults>> /\ UNCHANGED launchd

\* The load and its retries: one that found the label listed ends well, a
\* disabled label is refused every time.
Load(p, at) ==
  /\ Run(p, at)
  /\ \/ ~disabled /\ job = "out" /\ job' = "up" /\ Answer(p, "ok") /\ UNCHANGED faults
     \/ Listed /\ Answer(p, "ok") /\ UNCHANGED <<job, faults>>
     \/ disabled /\ Answer(p, "failed") /\ UNCHANGED <<job, faults>>
     \/ faults < MaxFault /\ faults' = faults + 1 /\ Answer(p, "failed") /\ UNCHANGED job
  /\ UNCHANGED <<plist, disabled, stopped, off, watcher, host>>

-----------------------------------------------------------------------------
(***************************************************************************)
(* The verbs                                                               *)
(***************************************************************************)
\* initPeer of an always-on runtime: the plist is written, the stop flag asked,
\* then the override; an operator's stop holds it off.
InitChannel(p) ==
  /\ Begin(p) /\ plist' = TRUE
  /\ IF stopped THEN Answer(p, "refused") ELSE Go(p, "bring.look")
  /\ UNCHANGED <<job, disabled, stopped, off, watcher, host, faults>>

BringLook(p) == /\ Run(p, "bring.look")
                /\ IF disabled THEN Answer(p, "refused") ELSE Go(p, "bring.gone")
                /\ UNCHANGED <<stopped, off, watcher, host, faults>> /\ UNCHANGED launchd

BringGone(p) == WaitForGone(p, "bring.gone", "bring.load", "ok")
BringLoad(p) == Load(p, "bring.load")

\* startPeer: the stop flag first, then the override, then the load.
StartPeer(p) == /\ Begin(p) /\ stopped' = FALSE
                /\ IF plist THEN Go(p, "start.enable") ELSE Answer(p, "failed")
                /\ UNCHANGED <<off, watcher, host, faults>> /\ UNCHANGED launchd

StartEnable(p) == /\ Run(p, "start.enable") /\ disabled' = FALSE /\ off' = FALSE /\ Go(p, "start.gone")
                  /\ UNCHANGED <<plist, job, stopped, watcher, host, faults>>

StartGone(p) == WaitForGone(p, "start.gone", "start.load", "ok")
StartLoad(p) == Load(p, "start.load")

\* stopPeer: the flag, the override, the bootout, the session.
StopPeer(p) == /\ Begin(p) /\ stopped' = TRUE /\ off' = TRUE /\ Go(p, "stop.disable")
               /\ UNCHANGED <<watcher, host, faults>> /\ UNCHANGED launchd

\* Mutant of StopDisable: a stop that is a bootout alone.
StopBootoutOnly(p) == /\ Run(p, "stop.disable") /\ Bootout /\ Go(p, "stop.kill")
                      /\ UNCHANGED <<plist, disabled, stopped, off, host, faults>>

StopDisable(p) == /\ Run(p, "stop.disable") /\ disabled' = TRUE /\ Go(p, "stop.bootout")
                  /\ UNCHANGED <<plist, job, stopped, off, watcher, host, faults>>

StopBootout(p) == /\ Run(p, "stop.bootout") /\ Bootout /\ Go(p, "stop.kill")
                  /\ UNCHANGED <<plist, disabled, stopped, off, host, faults>>

StopKill(p) == /\ Run(p, "stop.kill") /\ host' = IF host = "up" THEN "none" ELSE host
               /\ Answer(p, "ok")
               /\ UNCHANGED <<stopped, off, watcher, faults>> /\ UNCHANGED launchd

\* cycleLaunchdJob, for every channel after an update: only a loaded job.
Cycle(p) == /\ Begin(p) /\ plist
            /\ IF Listed THEN Go(p, "cycle.out") ELSE Answer(p, "refused")
            /\ UNCHANGED <<stopped, off, watcher, host, faults>> /\ UNCHANGED launchd

CycleOut(p) == /\ Run(p, "cycle.out")
               /\ IF Listed THEN Bootout /\ Go(p, "cycle.gone")
                  ELSE Answer(p, "failed") /\ UNCHANGED <<job, watcher>>
               /\ UNCHANGED <<plist, disabled, stopped, off, host, faults>>

\* A job that never left the list has not been cycled.
CycleGone(p) == WaitForGone(p, "cycle.gone", "cycle.load", "failed")
CycleLoad(p) == Load(p, "cycle.load")

-----------------------------------------------------------------------------
Watcher == Look \/ Launch \/ LaunchFails \/ Recheck \/ NaturalDeath \/ StopSignal
Verb(p) == \/ InitChannel(p) \/ BringLook(p) \/ BringGone(p) \/ BringLoad(p)
           \/ StartPeer(p) \/ StartEnable(p) \/ StartGone(p) \/ StartLoad(p)
           \/ StopPeer(p) \/ StopDisable(p) \/ StopBootout(p) \/ StopKill(p)
           \/ Cycle(p) \/ CycleOut(p) \/ CycleGone(p) \/ CycleLoad(p)
Next == Dismantle \/ KeepAlive \/ Watcher \/ HostUp \/ SessionDies \/ \E p \in Proc : Verb(p)

Spec == Init /\ [][Next]_vars
\* launchd goes on, and so do the watcher and a host on its way.
FairSpec == Spec /\ WF_vars(Dismantle) /\ WF_vars(KeepAlive) /\ WF_vars(Watcher) /\ WF_vars(HostUp)

-----------------------------------------------------------------------------
(***************************************************************************)
(* Properties                                                              *)
(***************************************************************************)
Stopping(p) == pc[p] \in {"stop.disable", "stop.bootout", "stop.kill"}

\* An operator's stop that nobody lifted holds whatever sweep, update or
\* enrolment comes between its calls: once it has answered, the job is not
\* loaded again (cli/index.ts: the disable comes before the bootout).
OffStaysOff == off /\ (\A p \in Proc : ~Stopping(p)) => job # "up"

\* A loaded job's session comes back whenever it dies, or the job is stopped.
Up == job # "up" \/ host = "up"
KeptUp == []<>Up

\* The session does not outlive the bootout of its job (launchdRun.ts: the
\* detached child does not outlive bootout holding stale in-memory state).  The
\* code does not keep it: a watcher told to go while its host starts leaves it.
HostGoesWithJob == job = "out" /\ (\A p \in Proc : pc[p] = "idle") /\ watcher = "none"
                   => host = "none"
===============================================================================
