-------------------------------- MODULE Reload --------------------------------
(***************************************************************************)
(* Capability reload: a change of the configuration a session was started  *)
(* with is owed to the running session, and paid at a turn boundary by     *)
(* replacing its host (capability/reload.ts, reloadStore.ts, surfaces.ts,  *)
(* the reload half of lifecycle/index.ts wakeOrSpawn, and the input fence  *)
(* of supervisor/daemon.ts).  The requests are files; the daemon's tick, a *)
(* command line and ordinary wakes work on them at the same time, each can *)
(* die at any step, and the operator may type, stop or remove meanwhile.   *)
(***************************************************************************)
EXTENDS Naturals, FiniteSets

CONSTANTS Req,          \* reload requests
          Applier,      \* processes that apply: the daemon's tick, a CLI
          Retire,       \* the requests of kind "retire" (remove-runtime)
          MaxSurf,      \* changes of the configuration
          MaxInput,     \* prompts typed at the session
          MaxFault      \* deaths of a process, launches that fail, stops

VARIABLES surf,         \* the version of the configuration on disk
          req,          \* request -> [st, ver, ref] as its file says
          applied,      \* requests with an .applied marker
          base,         \* the surface baseline
          host,         \* "none", "booting" or "ready"
          runs,         \* the version the host was started with
          turn,         \* the session is in a turn (or a terminal is attached)
          inputs,
          fence,        \* the host's input fence
          stopped,
          registered,   \* the runtime is in the peers index
          lock,         \* the holder of the endpoint's wake lock
          job,          \* process -> where it is and what it holds
          faults

vars == <<surf, req, applied, base, host, runs, turn, inputs, fence, stopped, registered,
          lock, job, faults>>
sessionVars == <<turn, inputs, fence>>
operatorVars == <<surf, stopped, registered, inputs, faults>>

ReloadAssumption == /\ Retire \subseteq Req
                    /\ {"wake", "none"} \cap Applier = {}
                    /\ {MaxSurf, MaxInput, MaxFault} \subseteq Nat

Proc == Applier \cup {"wake"}
Idle == [pc |-> "idle", reqs |-> {}, resume |-> FALSE, snap |-> {}, fp |-> 0]
NoFence == [owner |-> "none", phase |-> "free", expired |-> FALSE]
Absent == [st |-> "absent", ver |-> 0, ref |-> FALSE]

Pending == {r \in Req : req[r].st # "absent" /\ r \notin applied}

Goto(p, pc) == job' = [job EXCEPT ![p].pc = pc]
Done(p) == job' = [job EXCEPT ![p] = Idle]

\* applyReloads' update: an applied request keeps its mark.
Marked(rs, st, ref) ==
    [r \in Req |-> IF r \in rs \cap Pending
                   THEN [req[r] EXCEPT !.st = st, !.ref = @ \/ ref] ELSE req[r]]
Updated(p, st, ref) == Marked(job[p].reqs, st, ref)

-----------------------------------------------------------------------------
Init ==
    /\ surf = 0
    /\ req = [r \in Req |-> Absent]
    /\ applied = {}
    /\ base = 0
    /\ host = "ready" /\ runs = 0
    /\ turn = FALSE /\ inputs = 0
    /\ fence = NoFence
    /\ stopped = FALSE /\ registered = TRUE
    /\ lock = "none"
    /\ job = [p \in Proc |-> Idle]
    /\ faults = 0

\* The configuration changes; the capability verbs owe a reload themselves,
\* another editor of the files leaves it to the watch.
Ask(r) ==
    /\ registered /\ r \notin Retire /\ req[r].st = "absent"
    /\ surf < MaxSurf /\ surf' = surf + 1
    /\ req' = [req EXCEPT ![r] = [st |-> "pending", ver |-> surf + 1, ref |-> FALSE]]
    /\ UNCHANGED <<applied, base, host, runs, sessionVars, stopped, registered, lock, job, faults>>

Edit == /\ surf < MaxSurf /\ surf' = surf + 1
        /\ UNCHANGED <<req, applied, base, host, runs, sessionVars, stopped, registered, lock,
                       job, faults>>

AskRetire(r) ==
    /\ registered /\ r \in Retire /\ req[r].st = "absent" /\ host # "none"
    /\ req' = [req EXCEPT ![r] = [st |-> "pending", ver |-> 0, ref |-> FALSE]]
    /\ UNCHANGED <<surf, applied, base, host, runs, sessionVars, stopped, registered, lock, job,
                   faults>>

\* watchSurfaces: a hosted endpoint whose files differ from its baseline and
\* that owes nothing yet.  Its request names no version of its own.
Watch(r) ==
    /\ registered /\ host # "none" /\ base # surf /\ Pending = {}
    /\ r \notin Retire /\ (req[r].st = "absent" \/ r \in applied)
    /\ req' = [req EXCEPT ![r] = [st |-> "pending", ver |-> surf, ref |-> FALSE]]
    /\ applied' = applied \ {r}
    /\ UNCHANGED <<surf, base, host, runs, sessionVars, stopped, registered, lock, job, faults>>

-----------------------------------------------------------------------------
(* applyReloads, up to the wake lock *)

Recovery(rs) == \E r \in rs : req[r].ref

\* An endpoint with no host to replace and no dialogue owed waits for its next
\* ordinary launch; a removal needs no host.
Apply(p) ==
    /\ p \in Applier /\ job[p].pc = "idle" /\ Pending # {}
    /\ IF ~registered THEN Done(p) /\ req' = Marked(Pending, "failed", FALSE)
       ELSE IF Pending \cap Retire # {}
       THEN /\ job' = [job EXCEPT ![p] = [Idle EXCEPT !.pc = IF host = "none" THEN "remove" ELSE "lock",
                                                      !.reqs = Pending]]
            /\ UNCHANGED req
       ELSE IF stopped \/ (host = "none" /\ ~Recovery(Pending))
       THEN Done(p) /\ req' = Marked(Pending, "pending", FALSE)
       ELSE /\ job' = [job EXCEPT ![p] = [Idle EXCEPT !.pc = "lock", !.reqs = Pending,
                                                      !.resume = (host = "none")]]
            /\ UNCHANGED req
    /\ UNCHANGED <<surf, applied, base, host, runs, sessionVars, stopped, registered, lock,
                   faults>>

\* An ordinary wake of an endpoint that is down.
WakeBegins ==
    /\ job["wake"].pc = "idle" /\ host = "none" /\ ~stopped /\ registered
    /\ job' = [job EXCEPT !["wake"].pc = "lock"]
    /\ UNCHANGED <<surf, req, applied, base, host, runs, sessionVars, stopped, registered, lock,
                   faults>>

\* In the lock everything is asked again: are the requests still owed, is the
\* endpoint stopped, is there a host to replace (for a
\* recovery or a wake: is there still none).
Enter(p) ==
    /\ job[p].pc = "lock" /\ lock = "none"
    /\ LET owed == p = "wake" \/ job[p].reqs \cap Pending # {}
           replaces == p \in Applier /\ ~job[p].resume
           asWanted == IF replaces THEN host = "none" ELSE host # "none"
       IN IF ~owed \/ (asWanted /\ ~stopped)
          THEN Done(p) /\ UNCHANGED <<req, lock>>
          ELSE IF stopped \/ (replaces /\ host = "booting")
          THEN Done(p) /\ req' = Updated(p, "pending", FALSE) /\ UNCHANGED lock
          ELSE Goto(p, IF replaces THEN "fence" ELSE "launch") /\ lock' = p /\ UNCHANGED req
    /\ UNCHANGED <<surf, applied, base, host, runs, sessionVars, stopped, registered, faults>>

-----------------------------------------------------------------------------
(* The fence in the host, and the turn boundary *)

\* acquire: one fence at a time; it is granted only where the runtime's own
\* record says that the turn is over and every input consumed.
AcquireFence(p) ==
    /\ job[p].pc = "fence"
    /\ IF host # "ready" \/ fence.phase # "free" \/ turn
       THEN /\ Done(p)
            /\ req' = Updated(p, "pending", FALSE)
            /\ lock' = "none"
            /\ UNCHANGED fence
       ELSE /\ fence' = [owner |-> p, phase |-> "ready", expired |-> FALSE]
            /\ Goto(p, "owed")
            /\ UNCHANGED <<req, lock>>
    /\ UNCHANGED <<surf, applied, base, host, runs, turn, inputs, stopped, registered, faults>>

\* The dialogue to come back to is written down before the host is given up.
Owe(p) ==
    /\ job[p].pc = "owed"
    /\ IF stopped
       THEN /\ Done(p) /\ lock' = "none" /\ fence' = NoFence
            /\ req' = Updated(p, "pending", FALSE)
       ELSE /\ req' = IF job[p].reqs \cap Retire = {} THEN Updated(p, "replacing", TRUE) ELSE req
            /\ Goto(p, "retire")
            /\ UNCHANGED <<lock, fence>>
    /\ UNCHANGED <<surf, applied, base, host, runs, turn, inputs, stopped, registered, faults>>

\* Mutant of Holds: the host retires on the word of whoever asks.
HoldsAnyway(p) == host = "ready"

\* The lease still holds: its owner, its answer, its four seconds.
Holds(p) == host = "ready" /\ fence.owner = p /\ ~fence.expired

RetireHost(p) ==
    /\ job[p].pc = "retire"
    /\ IF Holds(p)
       THEN /\ host' = "none" /\ turn' = FALSE /\ fence' = NoFence
            /\ Goto(p, IF job[p].reqs \cap Retire # {} THEN "remove" ELSE "launch")
            /\ UNCHANGED <<req, lock>>
       ELSE /\ Done(p) /\ lock' = "none"
            /\ fence' = IF fence.owner = p THEN NoFence ELSE fence
            /\ req' = Updated(p, "failed", FALSE)
            /\ UNCHANGED <<host, turn>>
    /\ UNCHANGED <<surf, applied, base, runs, inputs, stopped, registered, faults>>

\* completeRemoveRuntime: the runtime leaves the index, its requests go.
Remove(p) ==
    /\ job[p].pc = "remove"
    /\ registered' = FALSE
    /\ req' = [r \in Req |-> Absent]
    /\ applied' = {}
    /\ Done(p)
    /\ lock' = IF lock = p THEN "none" ELSE lock
    /\ UNCHANGED <<surf, base, host, runs, sessionVars, stopped, faults>>

-----------------------------------------------------------------------------
(* The launch, of a reload and of an ordinary wake alike *)

\* Mutant of Covers: whatever is owed when the session is up counts as paid.
CoversLate(p) == Pending

\* The requests a launch pays: those on file before it reads the configuration.
Covers(p) == job[p].snap

\* Mutant of Fingerprint: the baseline is taken when the session is up.
FingerprintLate(p) == surf

\* The baseline a launch leaves: the files as they were before it read them.
Fingerprint(p) == job[p].fp

Prepare(p) ==
    /\ job[p].pc = "launch"
    /\ IF stopped
       THEN Done(p) /\ lock' = "none" /\ req' = Updated(p, "pending", FALSE)
       ELSE /\ job' = [job EXCEPT ![p].pc = "spawn", ![p].snap = Pending, ![p].fp = surf]
            /\ UNCHANGED <<req, lock>>
    /\ UNCHANGED <<surf, applied, base, host, runs, sessionVars, stopped, registered, faults>>

Spawn(p) ==
    /\ job[p].pc = "spawn"
    /\ host' = "booting" /\ runs' = surf
    /\ Goto(p, "boot")
    /\ UNCHANGED <<surf, req, applied, base, sessionVars, stopped, registered, lock, faults>>

\* The launch fails; what it started may be left alive.
BootFails(p) ==
    /\ job[p].pc = "boot" /\ faults < MaxFault
    /\ faults' = faults + 1
    /\ host' \in {"none", "ready"} /\ (host = "none" => host' = "none")
    /\ req' = Updated(p, "failed", FALSE)
    /\ Done(p) /\ lock' = "none"
    /\ UNCHANGED <<surf, applied, base, runs, sessionVars, stopped, registered>>

\* A stop that came during a reload's boot is enforced by the reload itself.
Up(p) ==
    /\ job[p].pc = "boot" /\ host = "booting"
    /\ IF stopped /\ p # "wake"
       THEN /\ host' = "none"
            /\ req' = Updated(p, "pending", FALSE)
            /\ UNCHANGED <<applied, base>>
       ELSE /\ host' = "ready"
            /\ applied' = applied \cup Covers(p)
            /\ base' = Fingerprint(p)
            /\ UNCHANGED req
    /\ Done(p) /\ lock' = "none"
    /\ UNCHANGED <<surf, runs, sessionVars, stopped, registered, faults>>

\* The stop verb killed the host under a boot.
Lost(p) ==
    /\ job[p].pc = "boot" /\ host = "none"
    /\ req' = Updated(p, "failed", FALSE)
    /\ Done(p) /\ lock' = "none"
    /\ UNCHANGED <<surf, applied, base, host, runs, sessionVars, stopped, registered, faults>>

-----------------------------------------------------------------------------
(* The session and the operator *)

\* A frame of input meets the fence: a lease past its time is given up first.
Type ==
    /\ host = "ready" /\ inputs < MaxInput
    /\ fence.phase = "free" \/ fence.expired
    /\ fence' = NoFence
    /\ turn' = TRUE /\ inputs' = inputs + 1
    /\ UNCHANGED <<surf, req, applied, base, host, runs, stopped, registered, lock, job, faults>>

EndTurn == /\ turn /\ turn' = FALSE
           /\ UNCHANGED <<surf, req, applied, base, host, runs, inputs, fence, stopped, registered,
                          lock, job, faults>>

Expire == /\ fence.phase = "ready" /\ ~fence.expired /\ faults < MaxFault
          /\ fence' = [fence EXCEPT !.expired = TRUE]
          /\ faults' = faults + 1
          /\ UNCHANGED <<surf, req, applied, base, host, runs, turn, inputs, stopped, registered,
                         lock, job>>

Stop == /\ ~stopped /\ faults < MaxFault
        /\ stopped' = TRUE /\ faults' = faults + 1
        /\ host' = "none" /\ turn' = FALSE /\ fence' = NoFence
        /\ UNCHANGED <<surf, req, applied, base, runs, inputs, registered, lock, job>>

Start == /\ stopped /\ stopped' = FALSE
         /\ UNCHANGED <<surf, req, applied, base, host, runs, sessionVars, registered, lock, job,
                        faults>>

\* The daemon or the command line dies: its socket closes and gives up a fence
\* that was not committed, its lock goes stale, a host it spawned lives on.
Die(p) ==
    /\ job[p].pc # "idle" /\ faults < MaxFault
    /\ faults' = faults + 1
    /\ Done(p)
    /\ lock' = IF lock = p THEN "none" ELSE lock
    /\ fence' = IF fence.owner = p THEN NoFence ELSE fence
    /\ host' = IF job[p].pc = "boot" /\ host = "booting" THEN "ready" ELSE host
    /\ UNCHANGED <<surf, req, applied, base, runs, turn, inputs, stopped, registered>>

Work(p) == Enter(p) \/ AcquireFence(p) \/ Owe(p) \/ RetireHost(p) \/ Remove(p)
           \/ Prepare(p) \/ Spawn(p) \/ Up(p) \/ Lost(p)

Next == \/ Edit \/ Type \/ EndTurn \/ Expire \/ Stop \/ Start \/ WakeBegins
        \/ \E r \in Req : Ask(r) \/ AskRetire(r) \/ Watch(r)
        \/ \E p \in Proc : Apply(p) \/ Enter(p) \/ AcquireFence(p) \/ Owe(p) \/ RetireHost(p)
                           \/ Remove(p) \/ Prepare(p) \/ Spawn(p) \/ BootFails(p) \/ Up(p)
                           \/ Lost(p) \/ Die(p)

\* The tick applies again and again and looks at the surfaces; a process that
\* has begun goes on; turns end.
Fairness == /\ \A p \in Proc : SF_vars(Work(p))
            /\ \A p \in Applier : SF_vars(Apply(p))
            /\ SF_vars(\E r \in Req : Watch(r))
            /\ WF_vars(EndTurn)

Spec == Init /\ [][Next]_vars /\ Fairness

-----------------------------------------------------------------------------
TypeOK ==
    /\ surf \in 0 .. MaxSurf /\ base \in 0 .. MaxSurf /\ runs \in 0 .. MaxSurf
    /\ \A r \in Req : /\ req[r].st \in {"absent", "pending", "replacing", "failed"}
                      /\ req[r].ver \in 0 .. MaxSurf /\ req[r].ref \in BOOLEAN
    /\ applied \subseteq Req
    /\ host \in {"none", "booting", "ready"}
    /\ {turn, stopped, registered} \subseteq BOOLEAN
    /\ inputs \in 0 .. MaxInput /\ faults \in 0 .. MaxFault
    /\ fence.owner \in Proc \cup {"none"} /\ fence.phase \in {"free", "ready"}
    /\ lock \in Proc \cup {"none"}
    /\ \A p \in Proc : job[p].reqs \subseteq Req /\ job[p].snap \subseteq Req

\* A request that says "applied" was met by a launch that read the
\* configuration the request was made for, although requests keep arriving
\* while launches are under way (completeReloads on the snapshot taken before
\* the configuration is read, lifecycle/index.ts).
AppliedIsCurrent == \A r \in applied : runs >= req[r].ver

\* A reload never cuts a turn: the host is retired only while its session is
\* idle, whatever was typed between the proof of idleness and the retirement.
RetiredIdle == [][\A p \in Proc : job[p].pc = "retire" /\ host = "ready" /\ host' = "none"
                                    /\ ~stopped' => ~turn]_vars

\* A configuration that no longer changes reaches the running session: always
\* again there is no session, it is stopped, or it runs the current version.
SurfacesReach == []<>(host = "none" \/ stopped \/ ~registered \/ runs = surf)
=============================================================================
