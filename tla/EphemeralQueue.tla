-------------------------- MODULE EphemeralQueue ---------------------------
(***************************************************************************)
(* The durable serial queue of one ephemeral worker (a personality) and the *)
(* drain that feeds it one task per fresh session.                          *)
(*                                                                         *)
(* Every endpoint of the worker has a queue directory, one numbered file    *)
(* per task.  A sender is the daemon or a CLI process, so the steps of an    *)
(* enqueue interleave with those of another and with a drain.  Drains are    *)
(* kicks after an enqueue and the scans of the supervise tick; one           *)
(* personality lock serialises them.  A wake is what Lifecycle shows it to    *)
(* be: it ends with a session that received the task (READY, or FAILED at    *)
(* the activity gate), with somebody else's live session, or with nothing.   *)
(*                                                                         *)
(* Left out: corrupt slots, core notices, limit parks, and the order keys a   *)
(* failover carries over; a failed-over task is queued like a new one.        *)
(***************************************************************************)
EXTENDS Naturals, FiniteSets, FiniteSetsExt

CONSTANTS
  Task,      \* one per enqueue; its sender is a thread of its own
  Endpoint,  \* the worker's <runtime>-<personality> identities
  Home,      \* Home[t]: the endpoint whose queue takes t
  Pinned,    \* tasks that only their own endpoint may work on
  Drain,     \* threads that drain
  None,      \* no task, no holder
  Visitor,   \* a live session that holds no task of the queue
  Mischief   \* bound: kills of a process, operator visits and stops in a run

ASSUME QueueAssumption ==
  /\ IsFiniteSet(Task)
  /\ Home \in [Task -> Endpoint] /\ Pinned \subseteq Task
  /\ None \notin Task \cup Drain \cup {Visitor} /\ Visitor \notin Task
  /\ Mischief \in Nat

VARIABLES
  stage,     \* stage[t]: how far the enqueue of t has come
  birth,     \* birth[t]: creation order of its file, 0 before
  name,      \* name[t]: the sequence number it claims
  queued,    \* tasks whose numbered file is in the queue of their endpoint
  hwm,       \* hwm[e]: the .hwm file, highest number recorded as issued
  lock,      \* holder of the <personality>.queue-drain lock
  pc,        \* pc[d]: where drain d is
  job,       \* job[d]: the task and the endpoint it is sent to
  live,      \* live[e]: the session of e: None, Visitor or the task it holds
  stopped,   \* endpoints with the .stopped flag
  spare,     \* what is left of the Mischief bound
  delivered, \* history: tasks some session received
  before     \* history: <<a, b>>: a was queued when b's file was created

queueVars == <<stage, birth, name, queued, hwm>>
drainVars == <<lock, pc, job>>
sessionVars == <<live, stopped>>
pastVars == <<delivered, before>>
vars == <<queueVars, drainVars, sessionVars, pastVars, spare>>

Names == 1 .. Cardinality(Task)
Stages == {"new", "temp", "named", "linked", "bumping", "done", "lost"}
NoJob == [task |-> None, to |-> None]

TypeOK ==
  /\ stage \in [Task -> Stages]
  /\ birth \in [Task -> {0} \cup Names] /\ name \in [Task -> {0} \cup Names]
  /\ queued \subseteq Task
  /\ hwm \in [Endpoint -> {0} \cup Names]
  /\ lock \in Drain \cup {None}
  /\ pc \in [Drain -> {"idle", "locked", "waking", "booting", "ready", "failed"}]
  /\ job \in [Drain -> {NoJob} \cup [task : Task, to : Endpoint]]
  /\ live \in [Endpoint -> Task \cup {None, Visitor}]
  /\ stopped \subseteq Endpoint
  /\ spare \in 0 .. Mischief
  /\ delivered \subseteq Task /\ before \subseteq Task \X Task

Init ==
  /\ stage = [t \in Task |-> "new"]
  /\ birth = [t \in Task |-> 0] /\ name = [t \in Task |-> 0]
  /\ queued = {}
  /\ hwm = [e \in Endpoint |-> 0]
  /\ lock = None
  /\ pc = [d \in Drain |-> "idle"] /\ job = [d \in Drain |-> NoJob]
  /\ live = [e \in Endpoint |-> None] /\ stopped = {}
  /\ spare = Mischief
  /\ delivered = {} /\ before = {}

----------------------------------------------------------------------------
(* enqueueEphemeralTask.                                                    *)

\* The numbers in use in e's directory, and the task in the file t's number names.
Used(e) == {name[u] : u \in {v \in queued : Home[v] = e}}
AtName(t) == {u \in queued : Home[u] = Home[t] /\ name[u] = name[t]}
Accepted == {t \in Task : stage[t] \in {"linked", "bumping", "done"}}

To(t, s) == stage' = [stage EXCEPT ![t] = s]

\* The temp file is written; its birth time is what the link will carry.
Write(t) ==
  /\ stage[t] = "new"
  /\ To(t, "temp")
  /\ birth' = [birth EXCEPT ![t] = 1 + Cardinality({u \in Task : birth[u] > 0})]
  /\ before' = before \cup (Accepted \X {t})
  /\ UNCHANGED <<name, queued, hwm, drainVars, sessionVars, delivered, spare>>

\* Next number: above the existing names and the high-water mark.
Name(t) ==
  /\ stage[t] = "temp"
  /\ name' = [name EXCEPT ![t] = 1 + Max(Used(Home[t]) \cup {hwm[Home[t]]})]
  /\ To(t, "named")
  /\ UNCHANGED <<birth, queued, hwm, drainVars, sessionVars, pastVars, spare>>

\* Mutant of Link: a rename, which replaces the file of that name.
LinkReplaces(t) ==
  /\ stage[t] = "named"
  /\ queued' = (queued \ AtName(t)) \cup {t}
  /\ To(t, "linked")
  /\ UNCHANGED <<birth, name, hwm, drainVars, sessionVars, pastVars, spare>>

\* linkSync is an exclusive create: on EEXIST the next number is tried.
Link(t) ==
  /\ stage[t] = "named"
  /\ IF AtName(t) = {}
     THEN /\ queued' = queued \cup {t}
          /\ To(t, "linked")
          /\ UNCHANGED name
     ELSE /\ name' = [name EXCEPT ![t] = @ + 1]
          /\ UNCHANGED <<queued, stage>>
  /\ UNCHANGED <<birth, hwm, drainVars, sessionVars, pastVars, spare>>

\* bumpHwm reads the mark ...
ReadHwm(t) ==
  /\ stage[t] = "linked"
  /\ To(t, IF name[t] > hwm[Home[t]] THEN "bumping" ELSE "done")
  /\ UNCHANGED <<birth, name, queued, hwm, drainVars, sessionVars, pastVars, spare>>

\* Mutant of WriteHwm: the mark is set to the next number instead of this one.
WriteHwmNext(t) ==
  /\ stage[t] = "bumping"
  /\ hwm' = [hwm EXCEPT ![Home[t]] = name[t] + 1]
  /\ To(t, "done")
  /\ UNCHANGED <<birth, name, queued, drainVars, sessionVars, pastVars, spare>>

\* ... and then writes it, over whatever another sender wrote in between.
WriteHwm(t) ==
  /\ stage[t] = "bumping"
  /\ hwm' = [hwm EXCEPT ![Home[t]] = name[t]]
  /\ To(t, "done")
  /\ UNCHANGED <<birth, name, queued, drainVars, sessionVars, pastVars, spare>>

\* The sending process is killed: before the link nothing was queued.
SenderDies(t) ==
  /\ spare > 0 /\ spare' = spare - 1
  /\ \/ stage[t] \in {"temp", "named"} /\ To(t, "lost")
     \/ stage[t] \in {"linked", "bumping"} /\ To(t, "done")
  /\ UNCHANGED <<birth, name, queued, hwm, drainVars, sessionVars, pastVars>>

Enqueue(t) == Write(t) \/ Name(t) \/ Link(t) \/ ReadHwm(t) \/ WriteHwm(t)

----------------------------------------------------------------------------
(* drainEphemeralQueue.                                                     *)

Goto(d, place) == pc' = [pc EXCEPT ![d] = place]

Release(d) ==
  /\ Goto(d, "idle")
  /\ lock' = IF lock = d THEN None ELSE lock
  /\ job' = [job EXCEPT ![d] = NoJob]

Lock(d) ==
  /\ pc[d] = "idle" /\ lock = None /\ queued # {}
  /\ lock' = d
  /\ Goto(d, "locked")
  /\ UNCHANGED <<queueVars, job, sessionVars, pastVars, spare>>

\* Mutant of Heads: the oldest number is taken for the oldest task.
HeadsByName ==
  {t \in queued : \A u \in queued : name[t] <= name[u]}

\* peekPersonalityTask: of all the worker's queues, the task created first.
Heads == {t \in queued : \A u \in queued : birth[t] <= birth[u]}

\* Where the head may run: a pinned task on its own endpoint (a stop there holds
\* back everything behind it), any other where the selection allows.
Targets(t) == IF t \in Pinned THEN {Home[t]} \ stopped ELSE Endpoint \ stopped

\* One synchronous stretch: a live session of the worker, whichever endpoint,
\* owns the worker; otherwise the head is sent to a target, if there is one.
FeedNothing(d) ==
  /\ \/ \E e \in Endpoint : live[e] # None
     \/ queued = {}
     \/ \E t \in Heads : Targets(t) = {} \/ t \notin Pinned
  /\ Release(d)

\* Mutant of FeedHead: only the endpoint the head is sent to is checked.
FeedHeadTargetOnly(d) ==
  /\ \E t \in Heads : \E e \in Targets(t) :
       /\ live[e] = None
       /\ job' = [job EXCEPT ![d] = [task |-> t, to |-> e]]
  /\ Goto(d, "waking")
  /\ UNCHANGED lock

FeedHead(d) ==
  /\ \A e \in Endpoint : live[e] = None
  /\ \E t \in Heads : \E e \in Targets(t) :
       job' = [job EXCEPT ![d] = [task |-> t, to |-> e]]
  /\ Goto(d, "waking")
  /\ UNCHANGED lock

Feed(d) ==
  /\ pc[d] = "locked"
  /\ FeedNothing(d) \/ FeedHead(d)
  /\ UNCHANGED <<queueVars, sessionVars, pastVars, spare>>

\* wakeOrSpawn, up to the spawn: a stopped endpoint refuses, a live session wins
\* the fast path (READY, but this task was not delivered), or a host boots.
Wake(d) ==
  /\ pc[d] = "waking"
  /\ \/ /\ job[d].to \notin stopped /\ live[job[d].to] = None
        /\ live' = [live EXCEPT ![job[d].to] = Visitor]
        /\ Goto(d, "booting")
     \/ /\ Goto(d, "failed") /\ UNCHANGED live
  /\ UNCHANGED <<queueVars, lock, job, stopped, pastVars, spare>>

\* The boot's first message is the task; the wake is READY, or FAILED if no
\* activity was seen in time.
Arrive(d) ==
  /\ pc[d] = "booting" /\ live[job[d].to] = Visitor
  /\ live' = [live EXCEPT ![job[d].to] = job[d].task]
  /\ delivered' = delivered \cup {job[d].task}
  /\ Goto(d, "ready") \/ Goto(d, "failed")
  /\ UNCHANGED <<queueVars, lock, job, stopped, before, spare>>

\* The host never became ready, or died: nothing was delivered.
BootFails(d) ==
  /\ pc[d] = "booting"
  /\ live' = [live EXCEPT ![job[d].to] = None]
  /\ Goto(d, "failed")
  /\ UNCHANGED <<queueVars, lock, job, stopped, pastVars, spare>>

\* Mutant of Finish: any READY or FAILED end of the wake consumes the task.
FinishConsumes(d) ==
  /\ pc[d] \in {"ready", "failed"}
  /\ queued' = queued \ AtName(job[d].task)
  /\ Release(d)
  /\ UNCHANGED <<stage, birth, name, hwm, sessionVars, pastVars, spare>>

\* Only a wake that delivered this task consumes it, by its file name.
Finish(d) ==
  /\ pc[d] \in {"ready", "failed"}
  /\ queued' = IF pc[d] = "ready" THEN queued \ AtName(job[d].task) ELSE queued
  /\ Release(d)
  /\ UNCHANGED <<stage, birth, name, hwm, sessionVars, pastVars, spare>>

DrainDies(d) ==
  /\ spare > 0 /\ spare' = spare - 1
  /\ pc[d] # "idle"
  /\ Goto(d, "idle")
  /\ job' = [job EXCEPT ![d] = NoJob]
  /\ UNCHANGED <<queueVars, lock, sessionVars, pastVars>>

\* The lock of a dead drain goes stale and is taken over.
StaleLock ==
  /\ lock # None /\ pc[lock] = "idle"
  /\ lock' = None
  /\ UNCHANGED <<queueVars, pc, job, sessionVars, pastVars, spare>>

DrainStep(d) ==
  Lock(d) \/ Feed(d) \/ Wake(d) \/ Arrive(d) \/ BootFails(d) \/ Finish(d)

----------------------------------------------------------------------------
(* Sessions and the operator.                                               *)

\* The wake lock keeps other wakes of the endpoint out while a drain boots it.
BootingAt(e) == \E d \in Drain : pc[d] = "booting" /\ job[d].to = e

\* The worker replied and went quiet, said it was done, was idle past the unarmed
\* bound, or died.
SessionEnds(e) ==
  /\ live[e] # None
  /\ live' = [live EXCEPT ![e] = None]
  /\ UNCHANGED <<queueVars, drainVars, stopped, pastVars, spare>>

\* The operator attaches to an endpoint, or stops or starts it.
OperatorWakes(e) ==
  /\ spare > 0 /\ spare' = spare - 1
  /\ live[e] = None /\ e \notin stopped /\ ~BootingAt(e)
  /\ live' = [live EXCEPT ![e] = Visitor]
  /\ UNCHANGED <<queueVars, drainVars, stopped, pastVars>>

OperatorStops(e) ==
  /\ spare > 0 /\ spare' = spare - 1
  /\ stopped' = stopped \cup {e}
  /\ live' = [live EXCEPT ![e] = None]
  /\ UNCHANGED <<queueVars, drainVars, pastVars>>

OperatorStarts(e) ==
  /\ e \in stopped
  /\ stopped' = stopped \ {e}
  /\ UNCHANGED <<queueVars, drainVars, live, pastVars, spare>>

----------------------------------------------------------------------------

Next ==
  \/ \E t \in Task : Enqueue(t) \/ SenderDies(t)
  \/ \E d \in Drain : DrainStep(d) \/ DrainDies(d)
  \/ StaleLock
  \/ \E e \in Endpoint :
       SessionEnds(e) \/ OperatorWakes(e) \/ OperatorStops(e) \/ OperatorStarts(e)

Spec == Init /\ [][Next]_vars

\* Senders and drains run; the tick scans every queue again and again; a boot is
\* not always unlucky, nor is the choice of a runtime always empty; every session
\* ends (the idle bounds); what an operator stopped is started again.
Fairness ==
  /\ \A t \in Task : WF_vars(Enqueue(t))
  /\ \A d \in Drain : WF_vars(DrainStep(d)) /\ SF_vars(Feed(d) /\ FeedHead(d))
       /\ SF_vars(Wake(d) /\ Goto(d, "booting")) /\ SF_vars(Arrive(d) /\ Goto(d, "ready"))
  /\ WF_vars(StaleLock)
  /\ \A e \in Endpoint : WF_vars(SessionEnds(e)) /\ WF_vars(OperatorStarts(e))

FairSpec == Spec /\ Fairness

----------------------------------------------------------------------------
(* Properties.                                                              *)

\* No silent loss: a queued task stays on disk until some session received it,
\* whichever senders, drains, kills and fast paths race.
NoLoss == Accepted \subseteq queued \cup delivered

\* The queue is a serial, order-respecting work queue: the drain lock, the merge of
\* the endpoint queues by birth and the liveness check of every endpoint together
\* give one task at a time, none overtaken by a task submitted after it was queued.
Work == INSTANCE WorkQueue
  WITH submitted <- {t \in Task : birth[t] > 0},
       accepted <- Accepted,
       working <- {live[e] : e \in Endpoint} \ {None, Visitor}

IsWorkQueue == Work!Spec

\* Every queued task reaches a worker, although drains die, wakes fail and the
\* operator comes and goes.
Served == \A t \in Task : t \in Accepted ~> t \in delivered

============================================================================
