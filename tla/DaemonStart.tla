------------------------------ MODULE DaemonStart ------------------------------
(***************************************************************************)
(* The daemon's own life (daemon/index.ts: startDaemon; daemon/main.ts:    *)
(* startConfiguredDaemon; cli/index.ts: `iapeer daemon`): a start takes    *)
(* the unix socket, then the TCP port, then publishes both in a discovery  *)
(* file; an orderly end answers what is queued and takes the files away;   *)
(* any other end leaves them to the next start.  launchd keeps one daemon; *)
(* a person may run others in the foreground.                              *)
(***************************************************************************)
EXTENDS Naturals, FiniteSets

CONSTANTS Proc, Job,     \* the processes; the one that launchd keeps
          None,          \* no process
          MaxStart, MaxFault, MaxQueued

DaemonAssumption == /\ IsFiniteSet(Proc) /\ Job \in Proc /\ None \notin Proc
                    /\ {MaxStart, MaxFault, MaxQueued} \subseteq Nat

VARIABLES pc,        \* each process: gone, probe, unlink, listen, port, publish, up, ending
          sock,      \* whose socket file it is (its listener may be dead)
          bound,     \* the processes whose unix listener is open
          port,      \* who has the port
          disc,      \* whose discovery file it is
          queue,     \* accepted as queued, in memory
          lost,      \* senders that were never told
          starts, faults, queued

vars == <<pc, sock, bound, port, disc, queue, lost, starts, faults, queued>>

PCs == {"gone", "probe", "unlink", "listen", "port", "publish", "up", "ending"}
TypeOK == /\ pc \in [Proc -> PCs] /\ {sock, port, disc} \subseteq Proc \cup {None} /\ bound \subseteq Proc
          /\ queue \in [Proc -> 0 .. MaxQueued] /\ lost \in BOOLEAN
          /\ starts \in 0 .. MaxStart /\ faults \in 0 .. MaxFault /\ queued \in 0 .. MaxQueued
          /\ \A p \in Proc : pc[p] = "up" => p \in bound

Init == /\ pc = [p \in Proc |-> "gone"] /\ sock = None /\ bound = {} /\ port = None /\ disc = None
        /\ queue = [p \in Proc |-> 0] /\ lost = FALSE /\ starts = 0 /\ faults = 0 /\ queued = 0

Goto(p, s) == pc' = [pc EXCEPT ![p] = s]
Up == {p \in Proc : pc[p] = "up"}

\* What a process holds is the kernel's again; its files stay.
Exit(p) == /\ Goto(p, "gone") /\ bound' = bound \ {p} /\ port' = IF port = p THEN None ELSE port
           /\ queue' = [queue EXCEPT ![p] = 0]
Calm == UNCHANGED <<lost, faults, queued>>

-----------------------------------------------------------------------------
\* The job is kept alive; a foreground start is bounded.
Start(p) == /\ pc[p] = "gone" /\ Goto(p, "probe")
            /\ IF p = Job THEN UNCHANGED starts ELSE starts < MaxStart /\ starts' = starts + 1
            /\ UNCHANGED <<sock, bound, port, disc, queue>> /\ Calm

\* socketIsLive: somebody accepts a connection at the socket file.
Live == sock \in bound

\* Mutant of MayTake: a socket file that is there is a daemon's.
MayTakeNever == FALSE

\* A socket file is taken for a dead daemon's when nobody answers on it.
MayTake == ~Live

Refused(p) == /\ pc[p] = "probe" /\ sock # None /\ ~MayTake /\ Exit(p)
              /\ UNCHANGED <<sock, disc, starts>> /\ Calm

Probe(p) == /\ pc[p] = "probe"
            /\ \/ sock = None /\ Goto(p, "listen") /\ UNCHANGED faults
               \/ sock # None /\ MayTake /\ Goto(p, "unlink") /\ UNCHANGED faults
               \* the connection errs, or is not answered within half a second
               \/ Live /\ faults < MaxFault /\ faults' = faults + 1 /\ Goto(p, "unlink")
            /\ UNCHANGED <<sock, bound, port, disc, queue, lost, starts, queued>>

\* The file may have become another's since; one that is gone is an error.
Unlink(p) == /\ pc[p] = "unlink"
             /\ IF sock = None THEN Exit(p) /\ UNCHANGED sock
                ELSE sock' = None /\ Goto(p, "listen") /\ UNCHANGED <<bound, port, queue>>
             /\ UNCHANGED <<disc, starts>> /\ Calm

Listen(p) == /\ pc[p] = "listen"
             /\ IF sock # None THEN Exit(p) /\ UNCHANGED sock
                ELSE sock' = p /\ bound' = bound \cup {p} /\ Goto(p, "port") /\ UNCHANGED <<port, queue>>
             /\ UNCHANGED <<disc, starts>> /\ Calm

\* Mutant of TakePort: a port that is taken is done without.
TakePortAnyway(p) == /\ IF port # None THEN UNCHANGED <<port, bound, queue>> ELSE port' = p /\ UNCHANGED <<bound, queue>>
                     /\ Goto(p, "publish")

\* A start that cannot have the port ends, and leaves its socket file.
TakePort(p) == IF port # None THEN Exit(p)
               ELSE port' = p /\ Goto(p, "publish") /\ UNCHANGED <<bound, queue>>

Bind(p) == pc[p] = "port" /\ TakePort(p) /\ UNCHANGED <<sock, disc, starts>> /\ Calm

Publish(p) == /\ pc[p] = "publish" /\ disc' = p /\ Goto(p, "up")
              /\ UNCHANGED <<sock, bound, port, queue, starts>> /\ Calm

-----------------------------------------------------------------------------
\* A message for a peer whose human is typing.
Queue(p) == /\ pc[p] = "up" /\ queued < MaxQueued /\ queued' = queued + 1
            /\ queue' = [queue EXCEPT ![p] = @ + 1]
            /\ UNCHANGED <<pc, sock, bound, port, disc, lost, starts, faults>>

Drained(p) == /\ pc[p] = "up" /\ queue[p] > 0 /\ queue' = [queue EXCEPT ![p] = @ - 1]
              /\ UNCHANGED <<pc, sock, bound, port, disc, starts>> /\ Calm

\* close(), on SIGTERM: queued senders are told, the listeners are closed ...
Terminate(p) == /\ pc[p] = "up" /\ faults < MaxFault /\ faults' = faults + 1
                /\ queue' = [queue EXCEPT ![p] = 0] /\ UNCHANGED lost
                /\ Goto(p, "ending") /\ bound' = bound \ {p} /\ port' = IF port = p THEN None ELSE port
                /\ UNCHANGED <<sock, disc, starts, queued>>

\* ... and then the files go, whose ever they are by now.
Ended(p) == /\ pc[p] = "ending" /\ sock' = None /\ disc' = None /\ Goto(p, "gone")
            /\ UNCHANGED <<bound, port, queue, starts>> /\ Calm

\* It is killed, or an error that nobody catches ends it.
Dies(p) == /\ pc[p] # "gone" /\ faults < MaxFault /\ faults' = faults + 1 /\ Exit(p)
           /\ UNCHANGED <<sock, disc, lost, starts, queued>>

\* An error that nobody catches, in the daemon that launchd runs: `iapeer daemon`
\* has no handler for it (the one of daemon/main.ts is in its own entry point).
Throws(p) == /\ pc[p] = "up" /\ faults < MaxFault /\ faults' = faults + 1
             /\ lost' = (lost \/ queue[p] > 0) /\ Exit(p)
             /\ UNCHANGED <<sock, disc, starts, queued>>

-----------------------------------------------------------------------------
Starting(p) == Start(p) \/ Refused(p) \/ Probe(p) \/ Unlink(p) \/ Listen(p) \/ Bind(p) \/ Publish(p)
Ending(p) == Terminate(p) \/ Ended(p) \/ Dies(p) \/ Throws(p)
Next == \E p \in Proc : Starting(p) \/ Queue(p) \/ Drained(p) \/ Ending(p)

Spec == Init /\ [][Next]_vars

\* launchd starts its job over and over; a process that runs goes on.
FairSpec == /\ Spec /\ \A p \in Proc : /\ SF_vars(Starting(p) /\ (p = Job \/ pc[p] # "gone"))
                                       /\ WF_vars(Ended(p))

-----------------------------------------------------------------------------
(***************************************************************************)
(* Properties                                                              *)
(***************************************************************************)
\* Two daemons never serve, not even when their starts overlap: the socket's
\* probe does not see to it, the port does.
OneServes == Cardinality(Up) <= 1

\* Whatever ended the daemons before, and whatever files they left, in the end
\* one serves, with the discovery file in its name or another's.
OneComesUp == <>[](Up # {})

\* A daemon that serves is at the address that its clients read, its socket's
\* file being its own.  The code does not keep it: one that loses the port has
\* taken the socket file before, and one that ends removes the files of another.
Reachable == \A p \in Up : sock = p /\ disc = p

\* What main.ts says of an error nobody catches: it closes the daemon, so the
\* queued senders are told.  `iapeer daemon`, which launchd runs, does not.
CrashTellsSenders == ~lost
===============================================================================
