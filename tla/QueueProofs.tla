---------------------------- MODULE QueueProofs ----------------------------
(* What holds of EphemeralQueue for any number of tasks, endpoints, drains and *)
(* kills: its types, that no queued task is lost, and that the files implement *)
(* WorkQueue, one task at a time and none ahead of a task queued before it was *)
(* submitted.                                                                  *)
EXTENDS EphemeralQueue, FiniteSetTheorems, WellFoundedInduction, TLAPS

USE DEF queueVars, drainVars, sessionVars, pastVars, Stages

----------------------------------------------------------------------------
(* The inductive invariant of the files, the drain lock and the task in hand. *)

Working == {"waking", "booting", "ready", "failed"}
Job == [task : Task, to : Endpoint]

\* The types the proofs need: TypeOK without its bounds on the numbers.
Typed ==
  /\ stage \in [Task -> Stages]
  /\ name = [t \in Task |-> name[t]]
  /\ queued \subseteq Task
  /\ lock \in Drain \cup {None}
  /\ pc \in [Drain -> {"idle", "locked"} \cup Working]
  /\ job \in [Drain -> {NoJob} \cup Job]
  /\ live \in [Endpoint -> Task \cup {None, Visitor}]
  /\ delivered \subseteq Task

\* A task has its file only once it was accepted, under a number of its own.
FilesAccepted == queued \subseteq Accepted
NumbersApart == \A t, u \in queued : Home[t] = Home[u] /\ name[t] = name[u] => t = u

\* A drain that is not idle holds the lock ...
LockOwned == \A d \in Drain : pc[d] # "idle" => lock = d

\* ... and what it works on stays in the queue until it is done.
JobQueued == \A d \in Drain : pc[d] \in Working => job[d] \in Job /\ job[d].task \in queued
ReadyDelivered == \A d \in Drain : pc[d] = "ready" => job[d].task \in delivered

FileInv ==
  /\ Typed /\ FilesAccepted /\ NumbersApart /\ LockOwned /\ JobQueued
  /\ ReadyDelivered /\ NoLoss

LEMMA InitFileInv == Init => FileInv
  BY QueueAssumption
  DEF Init, FileInv, Typed, FilesAccepted, NumbersApart, LockOwned, JobQueued,
      ReadyDelivered, NoLoss, Accepted, Working, NoJob

\* Steps after which the same tasks are accepted and the same files are there, and
\* the drains and sessions have not moved.
LEMMA SenderAside ==
  ASSUME FileInv, UNCHANGED <<queued, delivered, lock, pc, job, live>>,
         stage' \in [Task -> Stages], Accepted' = Accepted,
         name' = [u \in Task |-> name'[u]], \A u \in queued : name'[u] = name[u]
  PROVE  FileInv'
<1>1. Typed' /\ FilesAccepted'
  BY DEF FileInv, Typed, FilesAccepted
<1>2. NumbersApart' /\ LockOwned' /\ JobQueued' /\ ReadyDelivered' /\ NoLoss'
  BY DEF FileInv, NumbersApart, LockOwned, JobQueued, ReadyDelivered, NoLoss
<1> QED
  BY <1>1, <1>2 DEF FileInv

\* The file is linked: its task is accepted, under a number nobody has.
LEMMA LinkFileInv ==
  ASSUME FileInv, NEW t \in Task, Link(t), AtName(t) = {}
  PROVE  FileInv'
<1>1. /\ queued' = queued \cup {t} /\ Accepted' = Accepted \cup {t}
      /\ stage' \in [Task -> Stages]
  BY DEF FileInv, Typed, Link, To, Accepted
<1>2. name' = name /\ UNCHANGED <<delivered, lock, pc, job, live>>
  BY DEF Link
<1>3. Typed' /\ FilesAccepted'
  BY <1>1, <1>2 DEF FileInv, Typed, FilesAccepted
<1>4. NumbersApart'
  <2>1. \A u \in queued : ~(Home[u] = Home[t] /\ name[u] = name[t])
    BY DEF AtName
  <2> QED
    BY <1>1, <1>2, <2>1 DEF FileInv, NumbersApart
<1>5. LockOwned' /\ JobQueued' /\ ReadyDelivered' /\ NoLoss'
  BY <1>1, <1>2 DEF FileInv, LockOwned, JobQueued, ReadyDelivered, NoLoss
<1> QED
  BY <1>3, <1>4, <1>5 DEF FileInv

LEMMA EnqueueFileInv ==
  ASSUME FileInv, NEW t \in Task, Enqueue(t) \/ SenderDies(t)
  PROVE  FileInv'
<1>1. stage \in [Task -> Stages] /\ name = [u \in Task |-> name[u]]
  BY DEF FileInv, Typed
<1>2. t \in queued => stage[t] \in {"linked", "bumping", "done"}
  BY DEF FileInv, FilesAccepted, Accepted
<1>3. CASE Link(t) /\ AtName(t) = {}
  BY <1>3, LinkFileInv
<1>4. CASE ~(Link(t) /\ AtName(t) = {})
  <2>1. UNCHANGED <<queued, delivered, lock, pc, job, live>>
    BY <1>4 DEF Enqueue, SenderDies, Write, Name, Link, ReadHwm, WriteHwm
  <2>2. stage' \in [Task -> Stages] /\ Accepted' = Accepted
    BY <1>1, <1>4 DEF Enqueue, SenderDies, Write, Name, Link, ReadHwm, WriteHwm, To,
       Accepted
  <2>3. name' = name \/ (t \notin queued /\ \E n : name' = [name EXCEPT ![t] = n])
    BY <1>2, <1>4 DEF Enqueue, SenderDies, Write, Name, Link, ReadHwm, WriteHwm
  <2>4. name' = [u \in Task |-> name'[u]] /\ \A u \in queued : name'[u] = name[u]
    BY <1>1, <2>3 DEF FileInv, Typed
  <2> QED
    BY <2>1, <2>2, <2>4, SenderAside
<1> QED
  BY <1>3, <1>4

----------------------------------------------------------------------------
(* The drains and the sessions.                                             *)

\* Steps that leave the files alone and take no new task in hand.
LEMMA DrainAside ==
  ASSUME FileInv, UNCHANGED <<stage, name, queued>>, delivered' = delivered,
         lock' \in Drain \cup {None}, pc' \in [Drain -> {"idle", "locked"} \cup Working],
         job' \in [Drain -> {NoJob} \cup Job],
         live' \in [Endpoint -> Task \cup {None, Visitor}],
         \A c \in Drain :
           /\ pc'[c] # "idle" => lock' = c
           /\ pc'[c] \in Working => pc[c] \in Working /\ job'[c] = job[c]
           /\ pc'[c] = "ready" => pc[c] = "ready"
  PROVE  FileInv'
<1>1. Typed' /\ FilesAccepted' /\ NumbersApart' /\ NoLoss'
  BY DEF FileInv, Typed, FilesAccepted, NumbersApart, NoLoss, Accepted
<1>2. LockOwned' /\ JobQueued'
  BY DEF FileInv, LockOwned, JobQueued
<1>3. ReadyDelivered'
  BY DEF FileInv, ReadyDelivered, Working
<1> QED
  BY <1>1, <1>2, <1>3 DEF FileInv

\* What is known of a drain that takes a step, in place of FileInv.
LEMMA DrainKnows ==
  ASSUME FileInv, NEW d \in Drain
  PROVE  /\ pc \in [Drain -> {"idle", "locked"} \cup Working] /\ lock \in Drain \cup {None}
         /\ job \in [Drain -> {NoJob} \cup Job]
         /\ live \in [Endpoint -> Task \cup {None, Visitor}]
         /\ pc[d] # "idle" => lock = d /\ \A c \in Drain \ {d} : pc[c] = "idle"
         /\ lock = None => \A c \in Drain : pc[c] = "idle"
         /\ pc[d] \in Working =>
              job[d] \in Job /\ job[d].task \in queued /\ job[d].task \in Task
<1>1. lock = None => \A c \in Drain : pc[c] = "idle"
  BY QueueAssumption DEF FileInv, LockOwned
<1> QED
  BY <1>1 DEF FileInv, Typed, LockOwned, JobQueued

LEMMA FeedFileInv ==
  ASSUME FileInv, NEW d \in Drain, Feed(d)
  PROVE  FileInv'
<1> USE DrainKnows DEF Working
<1>1. pc[d] = "locked" /\ UNCHANGED <<stage, name, queued, live, delivered>>
  BY DEF Feed
<1>2. CASE FeedNothing(d)
  BY <1>1, <1>2, DrainAside DEF FeedNothing, Release, Goto
<1>3. CASE FeedHead(d)
  <2>1. PICK t \in queued, e \in Endpoint :
          job' = [job EXCEPT ![d] = [task |-> t, to |-> e]]
    <3>1. Heads \subseteq queued
      BY DEF Heads
    <3>2. \A t \in queued : Targets(t) \subseteq Endpoint
      BY QueueAssumption DEF Targets, FileInv, Typed
    <3> QED
      BY <1>3, <3>1, <3>2 DEF FeedHead
  <2>2. /\ job' \in [Drain -> {NoJob} \cup Job] /\ job'[d] \in Job
        /\ job'[d].task \in queued
    BY <2>1 DEF Job, FileInv, Typed
  <2>3. /\ pc' \in [Drain -> {"idle", "locked"} \cup Working] /\ pc'[d] = "waking"
        /\ lock' = d /\ \A c \in Drain \ {d} : pc'[c] = "idle"
    BY <1>1, <1>3 DEF FeedHead, Goto
  <2>4. Typed' /\ FilesAccepted' /\ NumbersApart' /\ NoLoss'
    BY <1>1, <2>2, <2>3 DEF FileInv, Typed, FilesAccepted, NumbersApart, NoLoss, Accepted
  <2>5. LockOwned' /\ JobQueued' /\ ReadyDelivered'
    BY <1>1, <2>2, <2>3 DEF LockOwned, JobQueued, ReadyDelivered
  <2> QED
    BY <2>4, <2>5 DEF FileInv
<1> QED
  BY <1>2, <1>3 DEF Feed

LEMMA ArriveFileInv ==
  ASSUME FileInv, NEW d \in Drain, Arrive(d)
  PROVE  FileInv'
<1> USE DrainKnows DEF Working
<1>1. /\ pc[d] = "booting" /\ delivered' = delivered \cup {job[d].task}
      /\ UNCHANGED <<stage, name, queued, lock, job>>
  BY DEF Arrive
<1>2. /\ pc' \in [Drain -> {"idle", "locked"} \cup Working] /\ pc'[d] \in Working
      /\ \A c \in Drain \ {d} : pc'[c] = "idle"
  BY <1>1 DEF Arrive, Goto
<1>3. live' \in [Endpoint -> Task \cup {None, Visitor}]
  BY <1>1 DEF Arrive
<1>4. Typed'
  BY <1>1, <1>2, <1>3 DEF FileInv, Typed
<1>5. FilesAccepted' /\ NumbersApart' /\ NoLoss'
  BY <1>1 DEF FileInv, FilesAccepted, NumbersApart, NoLoss, Accepted
<1>6. LockOwned' /\ JobQueued' /\ ReadyDelivered'
  BY <1>1, <1>2 DEF LockOwned, JobQueued, ReadyDelivered
<1> QED
  BY <1>4, <1>5, <1>6 DEF FileInv

\* The file under the number of a delivered task is that task's own.
LEMMA FinishFileInv ==
  ASSUME FileInv, NEW d \in Drain, Finish(d)
  PROVE  FileInv'
<1> USE DrainKnows DEF Working
<1>1. /\ pc[d] \in {"ready", "failed"} /\ Release(d)
      /\ UNCHANGED <<stage, name, live, delivered>>
  BY DEF Finish
<1>2. /\ pc' \in [Drain -> {"idle", "locked"} \cup Working]
      /\ \A c \in Drain : pc'[c] = "idle"
  BY <1>1 DEF Release, Goto
<1>3. lock' \in Drain \cup {None} /\ job' \in [Drain -> {NoJob} \cup Job]
  BY <1>1 DEF Release
<1>4. CASE pc[d] = "ready"
  <2>1. AtName(job[d].task) = {job[d].task}
    <3>1. job[d].task \in queued
      BY <1>4
    <3> QED
      BY <3>1 DEF AtName, FileInv, NumbersApart
  <2>2. queued' = queued \ {job[d].task} /\ job[d].task \in delivered
    BY <1>4, <2>1 DEF Finish, FileInv, ReadyDelivered
  <2>3. Typed' /\ FilesAccepted' /\ NumbersApart' /\ NoLoss'
    BY <1>1, <1>2, <1>3, <2>2
    DEF FileInv, Typed, FilesAccepted, NumbersApart, NoLoss, Accepted
  <2>4. LockOwned' /\ JobQueued' /\ ReadyDelivered'
    BY <1>2 DEF LockOwned, JobQueued, ReadyDelivered
  <2> QED
    BY <2>3, <2>4 DEF FileInv
<1>5. CASE pc[d] = "failed"
  <2>1. queued' = queued
    BY <1>5 DEF Finish
  <2> QED
    BY <1>1, <1>2, <1>3, <2>1, DrainAside DEF FileInv, Typed
<1> QED
  BY <1>1, <1>4, <1>5

\* A step of a drain takes at most its own task's file away, and only delivered.
LEMMA DrainFileInv ==
  ASSUME FileInv, NEW d \in Drain, DrainStep(d) \/ DrainDies(d)
  PROVE  FileInv'
<1> USE DrainKnows DEF Working, Goto
<1>1. CASE Lock(d)
  BY <1>1, DrainAside DEF Lock
<1>2. CASE Wake(d)
  <2>1. live' \in [Endpoint -> Task \cup {None, Visitor}]
    BY <1>2 DEF Wake
  <2>2. /\ pc[d] = "waking" /\ pc' \in [Drain -> {"idle", "locked"} \cup Working]
        /\ pc'[d] \in {"booting", "failed"} /\ \A c \in Drain \ {d} : pc'[c] = "idle"
    BY <1>2 DEF Wake
  <2>3. UNCHANGED <<stage, name, queued, delivered, lock, job>>
    BY <1>2 DEF Wake
  <2> QED
    BY <2>1, <2>2, <2>3, DrainAside
<1>3. CASE BootFails(d)
  <2>1. live' \in [Endpoint -> Task \cup {None, Visitor}]
    BY <1>3 DEF BootFails
  <2>2. /\ pc[d] = "booting" /\ pc' \in [Drain -> {"idle", "locked"} \cup Working]
        /\ pc'[d] = "failed" /\ \A c \in Drain \ {d} : pc'[c] = "idle"
    BY <1>3 DEF BootFails
  <2>3. UNCHANGED <<stage, name, queued, delivered, lock, job>>
    BY <1>3 DEF BootFails
  <2> QED
    BY <2>1, <2>2, <2>3, DrainAside
<1>4. CASE DrainDies(d)
  <2>1. /\ pc' \in [Drain -> {"idle", "locked"} \cup Working]
        /\ \A c \in Drain : pc'[c] = "idle"
    BY <1>4 DEF DrainDies
  <2>2. job' \in [Drain -> {NoJob} \cup Job]
    BY <1>4 DEF DrainDies
  <2>3. UNCHANGED <<stage, name, queued, delivered, lock, live>>
    BY <1>4 DEF DrainDies
  <2> QED
    BY <2>1, <2>2, <2>3, DrainAside
<1> QED
  BY <1>1, <1>2, <1>3, <1>4, FeedFileInv, ArriveFileInv, FinishFileInv DEF DrainStep

\* Stale locks, sessions and the operator touch no file and no task in hand.
LEMMA OtherFileInv ==
  ASSUME FileInv,
         \/ StaleLock \/ UNCHANGED vars
         \/ \E e \in Endpoint :
              SessionEnds(e) \/ OperatorWakes(e) \/ OperatorStops(e) \/ OperatorStarts(e)
  PROVE  FileInv'
<1>1. /\ lock \in Drain \cup {None}
      /\ pc \in [Drain -> {"idle", "locked"} \cup Working]
      /\ job \in [Drain -> {NoJob} \cup Job]
      /\ live \in [Endpoint -> Task \cup {None, Visitor}]
      /\ \A c \in Drain : pc[c] # "idle" => lock = c
  BY DEF FileInv, Typed, LockOwned
<1>2. CASE StaleLock
  BY <1>1, <1>2, DrainAside DEF StaleLock
<1>3. CASE UNCHANGED vars
  BY <1>1, <1>3, DrainAside DEF vars
<1>4. ASSUME NEW e \in Endpoint,
             SessionEnds(e) \/ OperatorWakes(e) \/ OperatorStops(e) \/ OperatorStarts(e)
      PROVE  FileInv'
  <2>1. UNCHANGED <<stage, name, queued, delivered, lock, pc, job>>
    BY <1>4 DEF SessionEnds, OperatorWakes, OperatorStops, OperatorStarts
  <2>2. live' \in [Endpoint -> Task \cup {None, Visitor}]
    BY <1>1, <1>4 DEF SessionEnds, OperatorWakes, OperatorStops, OperatorStarts
  <2> QED
    BY <1>1, <2>1, <2>2, DrainAside
<1> QED
  BY <1>2, <1>3, <1>4

LEMMA FileInvInductive == Spec => []FileInv
<1>1. FileInv /\ [Next]_vars => FileInv'
  BY EnqueueFileInv, DrainFileInv, OtherFileInv DEF Next
<1> QED
  BY InitFileInv, <1>1, PTL DEF Spec

\* A task that was queued stays on disk until some session received it, whatever
\* senders race for numbers and drains or senders die on the way.
THEOREM QueueLosesNothing == Spec => []NoLoss
<1>1. FileInv => NoLoss
  BY DEF FileInv
<1> QED
  BY <1>1, FileInvInductive, PTL

----------------------------------------------------------------------------
(* The inductive invariant: births follow the order of submission, the task on *)
(* its way to a worker is the first of what is left, and the worker is free.   *)

Born == {t \in Task : birth[t] > 0}
Underway == {"waking", "booting"}
Holding == {live[e] : e \in Endpoint} \ {None, Visitor}

BirthTyped ==
  /\ birth \in [Task -> Nat]
  /\ \A t \in Task : birth[t] = 0 <=> stage[t] = "new"
  /\ before \subseteq Task \X Task

\* A birth is the number of files there were, so the next one is larger than all.
BirthCount == \A t \in Task : birth[t] <= Cardinality(Born)
BeforeBorn ==
  \A a, b \in Task : <<a, b>> \in before => a \in Accepted /\ birth[a] < birth[b]

HeadServed ==
  \A d \in Drain : pc[d] \in Underway =>
    \A a \in Task : <<a, job[d].task>> \in before => a \in delivered
WorkerFree == \A d \in Drain : pc[d] \in Underway => \A e \in Endpoint : live[e] \notin Task
OneHolder == \A e, f \in Endpoint : live[e] \in Task /\ live[f] \in Task => e = f

OrderInv ==
  BirthTyped /\ BirthCount /\ BeforeBorn /\ HeadServed /\ WorkerFree /\ OneHolder

LEMMA BornFinite == IsFiniteSet(Born) /\ Cardinality(Born) \in Nat
  BY QueueAssumption, FS_Subset, FS_CardinalityType DEF Born

LEMMA InitOrderInv == Init => OrderInv
<1> SUFFICES ASSUME Init PROVE OrderInv
  OBVIOUS
<1>1. BirthTyped /\ BeforeBorn /\ HeadServed /\ WorkerFree /\ OneHolder
  BY QueueAssumption
  DEF Init, BirthTyped, BeforeBorn, HeadServed, WorkerFree, OneHolder, Underway
<1>2. BirthCount
  BY BornFinite DEF Init, BirthCount
<1> QED
  BY <1>1, <1>2 DEF OrderInv

\* The file of t is born after every file there is.
LEMMA WriteBirths ==
  ASSUME FileInv, OrderInv, NEW t \in Task, Write(t)
  PROVE  /\ Born' = Born \cup {t} /\ t \notin Born
         /\ birth' \in [Task -> Nat] /\ birth'[t] = 1 + Cardinality(Born)
         /\ \A u \in Task \ {t} : birth'[u] = birth[u]
         /\ Cardinality(Born') = 1 + Cardinality(Born)
<1>1. birth \in [Task -> Nat] /\ birth[t] = 0
  BY DEF OrderInv, BirthTyped, Write
<1>2. birth' = [birth EXCEPT ![t] = 1 + Cardinality(Born)]
  BY DEF Write, Born
<1>3. birth' \in [Task -> Nat] /\ birth'[t] = 1 + Cardinality(Born)
  BY <1>1, <1>2, BornFinite
<1>4. \A u \in Task \ {t} : birth'[u] = birth[u]
  BY <1>1, <1>2
<1>5. Born' = Born \cup {t} /\ t \notin Born
  BY <1>1, <1>3, <1>4, BornFinite DEF Born
<1>6. Cardinality(Born') = 1 + Cardinality(Born)
  BY <1>5, BornFinite, FS_AddElement
<1> QED
  BY <1>3, <1>4, <1>5, <1>6

LEMMA WriteOrderInv ==
  ASSUME FileInv, OrderInv, NEW t \in Task, Write(t)
  PROVE  OrderInv'
<1> USE WriteBirths, BornFinite
<1>1. /\ stage \in [Task -> Stages] /\ stage' = [stage EXCEPT ![t] = "temp"]
      /\ stage[t] = "new" /\ Accepted' = Accepted /\ t \notin Accepted
  BY DEF FileInv, Typed, Write, To, Accepted
<1>2. BirthTyped'
  <2>1. \A u \in Task : birth'[u] = 0 <=> stage'[u] = "new"
    BY <1>1 DEF OrderInv, BirthTyped
  <2>2. before' \subseteq Task \X Task
    BY DEF OrderInv, BirthTyped, Write, Accepted
  <2> QED
    BY <2>1, <2>2 DEF BirthTyped
<1>3. BirthCount'
  <2> SUFFICES ASSUME NEW u \in Task PROVE birth'[u] <= Cardinality(Born')
    BY DEF BirthCount
  <2>1. birth[u] <= Cardinality(Born) /\ birth[u] \in Nat
    BY DEF OrderInv, BirthCount, BirthTyped
  <2> QED
    BY <2>1
<1>4. BeforeBorn'
  <2> SUFFICES ASSUME NEW a \in Task, NEW b \in Task, <<a, b>> \in before'
               PROVE  a \in Accepted' /\ birth'[a] < birth'[b]
    BY DEF BeforeBorn
  <2>1. CASE <<a, b>> \in before
    <3>1. a \in Accepted /\ birth[a] < birth[b] /\ birth[a] \in Nat /\ birth[t] = 0
      BY <2>1, <1>1 DEF OrderInv, BeforeBorn, BirthTyped
    <3> QED
      BY <3>1, <1>1
  <2>2. CASE <<a, b>> \in Accepted \X {t}
    <3>1. birth[a] <= Cardinality(Born) /\ birth[a] \in Nat
      BY DEF OrderInv, BirthCount, BirthTyped
    <3> QED
      BY <2>2, <3>1, <1>1
  <2> QED
    BY <2>1, <2>2 DEF Write
<1>5. HeadServed'
  <2> SUFFICES ASSUME NEW d \in Drain, pc'[d] \in Underway, NEW a \in Task,
                      <<a, job'[d].task>> \in before'
               PROVE  a \in delivered'
    BY DEF HeadServed
  <2>1. pc[d] \in Underway /\ job[d].task \in Accepted
    BY DEF Write, FileInv, JobQueued, FilesAccepted, Underway, Working
  <2>2. <<a, job[d].task>> \in before
    BY <2>1, <1>1 DEF Write
  <2> QED
    BY <2>1, <2>2 DEF Write, OrderInv, HeadServed
<1>6. WorkerFree' /\ OneHolder'
  BY DEF Write, OrderInv, WorkerFree, OneHolder
<1> QED
  BY <1>2, <1>3, <1>4, <1>5, <1>6 DEF OrderInv

\* The other steps of an enqueue leave the births, the drains and the sessions alone.
LEMMA EnqueueOrderInv ==
  ASSUME FileInv, OrderInv, NEW t \in Task, Enqueue(t) \/ SenderDies(t), ~Write(t)
  PROVE  OrderInv'
<1>1. UNCHANGED <<birth, before, delivered, pc, job, live>>
  BY DEF Enqueue, SenderDies, Name, Link, ReadHwm, WriteHwm
<1>2. \/ stage' = stage
      \/ \E s \in Stages \ {"new", "temp"} :
           stage[t] # "new" /\ To(t, s)
  BY DEF Enqueue, SenderDies, Name, Link, ReadHwm, WriteHwm, Stages, To
<1>3. Accepted \subseteq Accepted'
  BY DEF Enqueue, SenderDies, Name, Link, ReadHwm, WriteHwm, Accepted, To,
         FileInv, Typed
<1>4. \A u \in Task : stage'[u] = "new" <=> stage[u] = "new"
  BY <1>2 DEF FileInv, Typed, To
<1>5. BirthTyped'
  BY <1>1, <1>4 DEF OrderInv, BirthTyped
<1>6. BirthCount' /\ HeadServed' /\ WorkerFree' /\ OneHolder'
  BY <1>1 DEF OrderInv, BirthCount, HeadServed, WorkerFree, OneHolder, Born
<1>7. BeforeBorn'
  BY <1>1, <1>3 DEF OrderInv, BeforeBorn
<1> QED
  BY <1>5, <1>6, <1>7 DEF OrderInv

----------------------------------------------------------------------------
(* What does not write a file leaves the births alone.                       *)

LEMMA BirthsKept ==
  ASSUME OrderInv, UNCHANGED <<stage, birth, before>>
  PROVE  BirthTyped' /\ BirthCount' /\ BeforeBorn'
BY DEF OrderInv, BirthTyped, BirthCount, BeforeBorn, Born, Accepted

\* Nor is the order disturbed when no task sets out and no session takes a task.
LEMMA NothingSetsOut ==
  ASSUME OrderInv, UNCHANGED <<stage, birth, before>>, delivered' = delivered,
         \A d \in Drain : pc'[d] \in Underway =>
           pc[d] \in Underway /\ job'[d].task = job[d].task,
         \A e \in Endpoint : live'[e] \in Task => live'[e] = live[e]
  PROVE  OrderInv'
<1>1. BirthTyped' /\ BirthCount' /\ BeforeBorn'
  BY BirthsKept
<1>2. HeadServed' /\ WorkerFree' /\ OneHolder'
  BY DEF OrderInv, HeadServed, WorkerFree, OneHolder
<1> QED
  BY <1>1, <1>2 DEF OrderInv

\* The head of the queues has nothing before it that no session received.
LEMMA HeadIsFirst ==
  ASSUME FileInv, OrderInv, NEW t \in Heads, NEW a \in Task, <<a, t>> \in before
  PROVE  a \in delivered
<1>1. t \in Task /\ t \in queued
  BY DEF Heads, FileInv, Typed
<1>2. a \in Accepted /\ birth[a] < birth[t]
  BY <1>1 DEF OrderInv, BeforeBorn
<1>3. a \notin queued
  <2> SUFFICES ASSUME a \in queued PROVE FALSE
    OBVIOUS
  <2>1. birth[t] <= birth[a]
    BY DEF Heads
  <2>2. birth[t] \in Nat /\ birth[a] \in Nat
    BY <1>1 DEF OrderInv, BirthTyped
  <2> QED
    BY <1>2, <2>1, <2>2
<1> QED
  BY <1>2, <1>3 DEF FileInv, NoLoss

LEMMA FeedOrderInv ==
  ASSUME FileInv, OrderInv, NEW d \in Drain, Feed(d)
  PROVE  OrderInv'
<1>1. BirthTyped' /\ BirthCount' /\ BeforeBorn'
  BY BirthsKept DEF Feed
<1>2. OneHolder'
  BY DEF Feed, OrderInv, OneHolder
<1>3. \A c \in Drain : pc[c] \notin Underway
  BY DEF Feed, FileInv, LockOwned, Underway
<1>4. CASE FeedNothing(d)
  <2>1. \A c \in Drain : pc'[c] \notin Underway
    BY <1>3, <1>4 DEF FeedNothing, Release, Goto, FileInv, Typed, Underway
  <2> QED
    BY <2>1, NothingSetsOut DEF Feed
<1>5. CASE FeedHead(d)
  <2>1. PICK t \in Heads : \E e \in Targets(t) :
          job' = [job EXCEPT ![d] = [task |-> t, to |-> e]]
    BY <1>5 DEF FeedHead
  <2>2. job'[d].task = t /\ \A c \in Drain \ {d} : pc'[c] \notin Underway
    BY <1>3, <1>5, <2>1 DEF FeedHead, Goto, FileInv, Typed
  <2>3. HeadServed'
    <3>1. before' = before /\ delivered' = delivered
      BY DEF Feed
    <3> QED
      BY <2>2, <3>1, HeadIsFirst DEF HeadServed
  <2>4. WorkerFree'
    BY <1>5, QueueAssumption DEF FeedHead, Feed, WorkerFree
  <2> QED
    BY <1>1, <1>2, <2>3, <2>4 DEF OrderInv
<1> QED
  BY <1>4, <1>5 DEF Feed

\* Only one drain is underway, and the session it arrives at is the only one.
LEMMA ArriveOrderInv ==
  ASSUME FileInv, OrderInv, NEW d \in Drain, Arrive(d)
  PROVE  OrderInv'
<1>1. BirthTyped' /\ BirthCount' /\ BeforeBorn'
  BY BirthsKept DEF Arrive
<1>2. \A c \in Drain : pc'[c] \notin Underway
  BY DEF Arrive, Goto, FileInv, Typed, LockOwned, Underway
<1>3. \A e \in Endpoint : live[e] \notin Task
  BY DEF Arrive, OrderInv, WorkerFree, Underway
<1>4. OneHolder'
  BY <1>3 DEF Arrive, FileInv, Typed, OneHolder
<1> QED
  BY <1>1, <1>2, <1>4 DEF OrderInv, HeadServed, WorkerFree

LEMMA DrainOrderInv ==
  ASSUME FileInv, OrderInv, NEW d \in Drain, DrainStep(d) \/ DrainDies(d)
  PROVE  OrderInv'
<1> USE DEF Goto, Release, Underway
<1>1. pc \in [Drain -> {"idle", "locked"} \cup Working] /\ DOMAIN job = Drain
  BY DEF FileInv, Typed
<1>2. live \in [Endpoint -> Task \cup {None, Visitor}]
  BY DEF FileInv, Typed
<1>3. CASE Lock(d)
  BY <1>1, <1>3, NothingSetsOut DEF Lock
<1>4. CASE Wake(d)
  BY <1>1, <1>2, <1>4, QueueAssumption, NothingSetsOut DEF Wake
<1>5. CASE BootFails(d)
  BY <1>1, <1>2, <1>5, QueueAssumption, NothingSetsOut DEF BootFails
<1>6. CASE Finish(d)
  BY <1>1, <1>6, NothingSetsOut DEF Finish
<1>7. CASE DrainDies(d)
  BY <1>1, <1>7, NothingSetsOut DEF DrainDies
<1> QED
  BY <1>3, <1>4, <1>5, <1>6, <1>7, FeedOrderInv, ArriveOrderInv DEF DrainStep

LEMMA OtherOrderInv ==
  ASSUME FileInv, OrderInv,
         \/ StaleLock \/ UNCHANGED vars
         \/ \E e \in Endpoint :
              SessionEnds(e) \/ OperatorWakes(e) \/ OperatorStops(e) \/ OperatorStarts(e)
  PROVE  OrderInv'
<1>1. live \in [Endpoint -> Task \cup {None, Visitor}]
  BY DEF FileInv, Typed
<1>2. CASE StaleLock \/ UNCHANGED vars
  BY <1>2, NothingSetsOut DEF StaleLock, vars
<1>3. ASSUME NEW e \in Endpoint,
             SessionEnds(e) \/ OperatorWakes(e) \/ OperatorStops(e) \/ OperatorStarts(e)
      PROVE  OrderInv'
  <2>1. UNCHANGED <<stage, birth, before, delivered, pc, job>>
    BY <1>3 DEF SessionEnds, OperatorWakes, OperatorStops, OperatorStarts
  <2>2. \A f \in Endpoint : live'[f] \in Task => live'[f] = live[f]
    BY <1>1, <1>3, QueueAssumption
    DEF SessionEnds, OperatorWakes, OperatorStops, OperatorStarts
  <2> QED
    BY <2>1, <2>2, NothingSetsOut
<1> QED
  BY <1>2, <1>3

LEMMA OrderInvInductive == Spec => [](FileInv /\ OrderInv)
<1>1. FileInv /\ OrderInv /\ [Next]_vars => OrderInv'
  BY WriteOrderInv, EnqueueOrderInv, DrainOrderInv, OtherOrderInv DEF Next
<1>2. FileInv /\ OrderInv /\ [Next]_vars => FileInv'
  BY EnqueueFileInv, DrainFileInv, OtherFileInv DEF Next
<1> QED
  BY InitFileInv, InitOrderInv, <1>1, <1>2, PTL DEF Spec

----------------------------------------------------------------------------
(* The steps of WorkQueue that the steps of the queue are.                    *)

WorkVars == <<Born, Accepted, delivered, before, Holding>>

LEMMA HoldingIs ==
  ASSUME FileInv, OrderInv
  PROVE  /\ \A e \in Endpoint : live[e] \in Task => Holding = {live[e]}
         /\ (\A e \in Endpoint : live[e] \notin Task) => Holding = {}
BY QueueAssumption DEF FileInv, Typed, OrderInv, OneHolder, Holding

\* The sessions hold the same tasks when only other sessions come and go.
LEMMA HoldingKept ==
  ASSUME FileInv, FileInv',
         \A e \in Endpoint :
           live'[e] = live[e] \/ (live[e] \notin Task /\ live'[e] \notin Task)
  PROVE  Holding' = Holding
BY QueueAssumption DEF FileInv, Typed, Holding

LEMMA WriteSubmits ==
  ASSUME FileInv, OrderInv, NEW t \in Task, Write(t)
  PROVE  Work!Submit(t)
<1>1. Born' = Born \cup {t} /\ t \notin Born
  BY WriteBirths
<1>2. Accepted' = Accepted /\ before' = before \cup (Accepted \X {t})
  BY DEF Write, To, Accepted, FileInv, Typed
<1>3. delivered' = delivered /\ Holding' = Holding
  BY DEF Write, Holding
<1> QED
  BY <1>1, <1>2, <1>3 DEF Work!Submit, Born, Holding

\* The other steps of an enqueue: a link accepts the task, the rest stutter.
LEMMA EnqueueRefines ==
  ASSUME FileInv, OrderInv, NEW t \in Task, Enqueue(t) \/ SenderDies(t), ~Write(t)
  PROVE  Work!Accept(t) \/ UNCHANGED WorkVars
<1>1. Born' = Born /\ UNCHANGED <<delivered, before>> /\ Holding' = Holding
  BY DEF Enqueue, SenderDies, Name, Link, ReadHwm, WriteHwm, Born, Holding
<1>2. CASE Link(t) /\ AtName(t) = {}
  <2>1. t \in Born \ Accepted
    BY <1>2 DEF Link, OrderInv, BirthTyped, Born, Accepted
  <2>2. Accepted' = Accepted \cup {t}
    BY <1>2 DEF Link, To, Accepted, FileInv, Typed
  <2> QED
    BY <1>1, <2>1, <2>2 DEF Work!Accept, Born, Holding
<1>3. CASE ~(Link(t) /\ AtName(t) = {})
  <2>1. Accepted' = Accepted
    BY <1>3 DEF Enqueue, SenderDies, Name, Link, ReadHwm, WriteHwm, To, Accepted,
       FileInv, Typed
  <2> QED
    BY <1>1, <2>1 DEF WorkVars
<1> QED
  BY <1>2, <1>3

LEMMA ArriveDelivers ==
  ASSUME FileInv, OrderInv, FileInv', OrderInv', NEW d \in Drain, Arrive(d),
         NEW t \in Task, t = job[d].task
  PROVE  Work!Deliver(t)
<1> DEFINE e == job[d].to
<1>1. pc[d] = "booting" /\ t \in queued /\ e \in Endpoint
  BY DEF Arrive, FileInv, Typed, JobQueued, Working, Job
<1>2. t \in Accepted
  BY <1>1 DEF FileInv, FilesAccepted
<1>3. Holding = {}
  BY <1>1, HoldingIs DEF OrderInv, WorkerFree, Underway
<1>4. Holding' = {t}
  <2>1. live'[e] = t
    BY <1>1 DEF Arrive, FileInv, Typed
  <2> QED
    BY <1>1, <2>1, HoldingIs, QueueAssumption
    DEF FileInv, Typed, OrderInv, OneHolder, Holding
<1>5. \A a \in Accepted : <<a, t>> \in before => a \in delivered
  BY <1>1 DEF OrderInv, HeadServed, Underway, Accepted
<1>6. delivered' = delivered \cup {t} /\ Born' = Born /\ Accepted' = Accepted
      /\ before' = before
  BY DEF Arrive, Born, Accepted
<1> QED
  BY <1>2, <1>3, <1>4, <1>5, <1>6 DEF Work!Deliver, Born, Holding

LEMMA DrainRefines ==
  ASSUME FileInv, OrderInv, NEW d \in Drain, DrainStep(d) \/ DrainDies(d), ~Arrive(d)
  PROVE  UNCHANGED WorkVars
<1>1. Born' = Born /\ Accepted' = Accepted /\ UNCHANGED <<delivered, before>>
  BY DEF DrainStep, DrainDies, Lock, Feed, Wake, BootFails, Finish, Born, Accepted
<1>2. CASE Wake(d) \/ BootFails(d)
  <2>1. \A e \in Endpoint : live'[e] \notin Task /\ live[e] \notin Task
    BY <1>2, QueueAssumption DEF Wake, BootFails, OrderInv, WorkerFree, Underway,
       FileInv, Typed
  <2>2. FileInv'
    BY DrainFileInv
  <2> QED
    BY <1>1, <2>1, <2>2, HoldingKept DEF WorkVars
<1>3. CASE ~(Wake(d) \/ BootFails(d))
  <2>1. live' = live
    BY <1>3 DEF DrainStep, DrainDies, Lock, Feed, Finish
  <2> QED
    BY <1>1, <2>1 DEF WorkVars, Holding
<1> QED
  BY <1>2, <1>3

\* A session that held a task ends that task; any other comes and goes unseen.
LEMMA OtherRefines ==
  ASSUME FileInv, OrderInv,
         \/ StaleLock \/ UNCHANGED vars
         \/ \E e \in Endpoint :
              SessionEnds(e) \/ OperatorWakes(e) \/ OperatorStops(e) \/ OperatorStarts(e)
  PROVE  Work!End \/ UNCHANGED WorkVars
<1>1. Born' = Born /\ Accepted' = Accepted /\ UNCHANGED <<delivered, before>>
  BY DEF StaleLock, vars, SessionEnds, OperatorWakes, OperatorStops, OperatorStarts,
     Born, Accepted
<1>2. FileInv' /\ OrderInv'
  BY OtherFileInv, OtherOrderInv
<1>3. CASE live' = live
  BY <1>1, <1>3 DEF WorkVars, Holding
<1>4. ASSUME NEW e \in Endpoint,
             live' = [live EXCEPT ![e] = None]
             \/ (live[e] = None /\ live' = [live EXCEPT ![e] = Visitor])
      PROVE  Work!End \/ UNCHANGED WorkVars
  <2>1. live'[e] \notin Task /\ \A f \in Endpoint \ {e} : live'[f] = live[f]
    BY <1>4, QueueAssumption DEF FileInv, Typed
  <2>2. CASE live[e] \in Task
    <3>1. Holding = {live[e]}
      BY <2>2, HoldingIs
    <3>2. \A f \in Endpoint : live'[f] \notin Task
      BY <2>1, <2>2 DEF OrderInv, OneHolder
    <3>3. Holding' = {}
      BY <1>2, <3>2, QueueAssumption DEF FileInv, Typed, Holding
    <3> QED
      BY <1>1, <3>1, <3>3 DEF Work!End, Born, Holding
  <2>3. CASE live[e] \notin Task
    BY <1>1, <1>2, <2>1, <2>3, HoldingKept DEF WorkVars
  <2> QED
    BY <2>2, <2>3
<1> QED
  BY <1>3, <1>4 DEF StaleLock, vars, SessionEnds, OperatorWakes, OperatorStops,
     OperatorStarts

\* The drain lock, the merge of the endpoint queues by birth and the check of every
\* endpoint for a live session make the files of the endpoints one serial work
\* queue that respects the order of submission.
THEOREM QueueIsWorkQueue == Spec => IsWorkQueue
<1>1. Init => Work!Init
  BY QueueAssumption DEF Init, Work!Init, Accepted
<1>2. FileInv /\ OrderInv /\ [Next]_vars => [Work!Next]_(Work!vars)
  <2> SUFFICES ASSUME FileInv, OrderInv, [Next]_vars
               PROVE  Work!Next \/ UNCHANGED WorkVars
    BY DEF Work!vars, WorkVars, Born, Holding
  <2>1. ASSUME NEW t \in Task, Enqueue(t) \/ SenderDies(t)
        PROVE  Work!Next \/ UNCHANGED WorkVars
    BY <2>1, WriteSubmits, EnqueueRefines DEF Work!Next
  <2>2. ASSUME NEW d \in Drain, DrainStep(d) \/ DrainDies(d)
        PROVE  Work!Next \/ UNCHANGED WorkVars
    <3>1. CASE Arrive(d)
      <4>1. PICK t \in Task : t = job[d].task
        BY <3>1 DEF Arrive, FileInv, Typed, JobQueued, Working
      <4>2. Work!Deliver(t)
        BY <2>2, <3>1, <4>1, DrainFileInv, DrainOrderInv, ArriveDelivers
      <4> QED
        BY <4>1, <4>2 DEF Work!Next
    <3> QED
      BY <2>2, <3>1, DrainRefines
  <2>3. CASE \/ StaleLock \/ UNCHANGED vars
             \/ \E e \in Endpoint :
                  SessionEnds(e) \/ OperatorWakes(e) \/ OperatorStops(e) \/ OperatorStarts(e)
    BY <2>3, OtherRefines DEF Work!Next
  <2> QED
    BY <2>1, <2>2, <2>3 DEF Next
<1> QED
  BY <1>1, <1>2, OrderInvInductive, PTL DEF Spec, IsWorkQueue, Work!Spec

----------------------------------------------------------------------------
(* The types of the queue.  What takes an argument is the numbers: each is at  *)
(* most one above the count of the tasks accepted so far, because it is one    *)
(* above a number or a mark in use, and the mark is a number that was in use.  *)

\* A bounded set of naturals that is not empty has a greatest member.
LEMMA MaxOfBounded ==
  ASSUME NEW S \in SUBSET Nat, S # {}, NEW n \in Nat, \A y \in S : y <= n
  PROVE  Max(S) \in S
<1> DEFINE Bounds == {b \in Nat : \A y \in S : y <= b}
           Less == OpToRel(<, Nat)
<1>1. IsWellFoundedOn(Less, Nat)
  BY NatLessThanWellFounded
<1>2. Bounds \subseteq Nat /\ Bounds # {}
  OBVIOUS
<1>3. PICK b \in Bounds : \A c \in Bounds : <<c, b>> \notin Less
  <2> HIDE DEF Less, Bounds
  <2> QED BY <1>1, <1>2, WFMin
<1>4. \A c \in Bounds : ~(c < b)
  BY <1>3 DEF OpToRel
<1>5. b \in S
  <2> SUFFICES ASSUME b \notin S PROVE FALSE
    OBVIOUS
  <2>1. PICK y \in S : y \in Nat
    OBVIOUS
  <2>2. \A z \in S : z < b
    <3> SUFFICES ASSUME NEW z \in S PROVE z < b
      OBVIOUS
    <3> QED BY z \in Nat, z <= b, z # b, b \in Nat
  <2>3. b - 1 \in Nat
    BY <2>1, <2>2
  <2>4. \A z \in S : z <= b - 1
    <3> SUFFICES ASSUME NEW z \in S PROVE z <= b - 1
      OBVIOUS
    <3> QED BY <2>2, z \in Nat, b \in Nat
  <2> QED BY <1>4, <2>3, <2>4
<1>6. \A y \in S : b >= y
  BY <1>3
<1> QED
  BY <1>5, <1>6 DEF Max

\* A number or a mark is at most the count of accepted tasks; the number a sender
\* has chosen and not linked yet may be one above it.
AcceptedCount == Cardinality(Accepted)

Numbered ==
  /\ name \in [Task -> Nat] /\ hwm \in [Endpoint -> Nat]
  /\ \A t \in Task : name[t] <= AcceptedCount + 1
  /\ \A t \in Task : t \in Accepted => name[t] <= AcceptedCount
  /\ \A e \in Endpoint : hwm[e] <= AcceptedCount
  /\ stopped \subseteq Endpoint /\ spare \in 0 .. Mischief

LEMMA AcceptedFinite == IsFiniteSet(Accepted) /\ AcceptedCount \in Nat
  BY QueueAssumption, FS_Subset, FS_CardinalityType DEF Accepted, AcceptedCount

LEMMA InitNumbered == Init => Numbered
<1> SUFFICES ASSUME Init PROVE Numbered
  OBVIOUS
<1> QED
  BY AcceptedFinite, QueueAssumption DEF Init, Numbered

\* The number a sender chooses, or tries next after a clash.
LEMMA NameNumbered ==
  ASSUME FileInv, Numbered, NEW t \in Task, Name(t)
  PROVE  Numbered'
<1> DEFINE S == Used(Home[t]) \cup {hwm[Home[t]]}
<1>1. S \in SUBSET Nat /\ S # {} /\ \A y \in S : y <= AcceptedCount
  BY QueueAssumption, AcceptedFinite DEF Used, Numbered, FileInv, Typed, FilesAccepted, Accepted
<1>2. Max(S) \in Nat /\ Max(S) <= AcceptedCount
  BY <1>1, MaxOfBounded, AcceptedFinite
<1>3. t \notin Accepted /\ Accepted' = Accepted
  BY DEF Name, To, Accepted, FileInv, Typed
<1>4. AcceptedCount' = AcceptedCount
  BY <1>3 DEF AcceptedCount
<1>5. name' = [name EXCEPT ![t] = 1 + Max(S)]
  BY DEF Name
<1>6. name' \in [Task -> Nat] /\ name'[t] <= AcceptedCount + 1 /\ \A u \in Task \ {t} : name'[u] = name[u]
  <2> HIDE DEF S
  <2> QED BY <1>2, <1>5, AcceptedFinite DEF Numbered
<1>7. UNCHANGED <<hwm, stopped, spare>>
  BY DEF Name
<1> HIDE DEF S
<1> QED
  BY <1>3, <1>4, <1>6, <1>7 DEF Numbered

LEMMA LinkNumbered ==
  ASSUME FileInv, Numbered, NEW t \in Task, Link(t)
  PROVE  Numbered'
<1>1. t \notin Accepted /\ stage \in [Task -> Stages]
  BY DEF Link, Accepted, FileInv, Typed
<1>2. UNCHANGED <<hwm, stopped, spare>>
  BY DEF Link
<1>3. CASE AtName(t) = {}
  <2>1. Accepted' = Accepted \cup {t} /\ name' = name
    BY <1>1, <1>3 DEF Link, To, Accepted
  <2>2. AcceptedCount' = AcceptedCount + 1
    BY <1>1, <2>1, AcceptedFinite, FS_AddElement DEF AcceptedCount
  <2> QED
    BY <1>2, <2>1, <2>2, AcceptedFinite, QueueAssumption DEF Numbered
<1>4. CASE AtName(t) # {}
  <2>1. PICK u \in queued : name[u] = name[t]
    BY <1>4 DEF AtName
  <2>2. name[t] <= AcceptedCount
    BY <2>1 DEF FileInv, FilesAccepted, Typed, Numbered, Accepted
  <2>3. Accepted' = Accepted /\ name' = [name EXCEPT ![t] = @ + 1]
    BY <1>4 DEF Link, Accepted
  <2>4. AcceptedCount' = AcceptedCount
    BY <2>3 DEF AcceptedCount
  <2>5. /\ name' \in [Task -> Nat] /\ name'[t] <= AcceptedCount + 1
        /\ \A v \in Task \ {t} : name'[v] = name[v]
    BY <2>2, <2>3, AcceptedFinite DEF Numbered
  <2> QED
    BY <1>1, <1>2, <2>3, <2>4, <2>5 DEF Numbered
<1> QED
  BY <1>3, <1>4

\* The other steps of a sender: the mark takes a number that is in use.
LEMMA EnqueueNumbered ==
  ASSUME FileInv, Numbered, NEW t \in Task, Enqueue(t) \/ SenderDies(t)
  PROVE  Numbered'
<1>1. stage \in [Task -> Stages]
  BY DEF FileInv, Typed
<1>2. CASE Write(t) \/ ReadHwm(t) \/ SenderDies(t)
  <2>1. Accepted' = Accepted
    BY <1>1, <1>2 DEF Write, ReadHwm, SenderDies, To, Accepted
  <2>2. UNCHANGED <<name, hwm, stopped>> /\ spare' \in 0 .. Mischief
    BY <1>2, QueueAssumption DEF Write, ReadHwm, SenderDies, Numbered
  <2>3. AcceptedCount' = AcceptedCount
    BY <2>1 DEF AcceptedCount
  <2> QED
    BY <2>1, <2>2, <2>3 DEF Numbered
<1>3. CASE WriteHwm(t)
  <2>1. Accepted' = Accepted /\ t \in Accepted
    BY <1>1, <1>3 DEF WriteHwm, To, Accepted
  <2>2. UNCHANGED <<name, stopped, spare>> /\ hwm' = [hwm EXCEPT ![Home[t]] = name[t]]
    BY <1>3 DEF WriteHwm
  <2>3. AcceptedCount' = AcceptedCount
    BY <2>1 DEF AcceptedCount
  <2>4. hwm' \in [Endpoint -> Nat] /\ \A e \in Endpoint : hwm'[e] <= AcceptedCount
    BY <2>1, <2>2, QueueAssumption DEF Numbered
  <2> QED
    BY <2>1, <2>2, <2>3, <2>4 DEF Numbered
<1> QED
  BY <1>2, <1>3, NameNumbered, LinkNumbered DEF Enqueue

\* Drains, sessions and the operator issue no numbers.
LEMMA OtherNumbered ==
  ASSUME Numbered, UNCHANGED <<stage, name, hwm>>, stopped' \subseteq Endpoint, spare' \in 0 .. Mischief
  PROVE  Numbered'
<1>1. Accepted' = Accepted
  BY DEF Accepted
<1> QED
  BY <1>1 DEF Numbered, AcceptedCount

LEMMA StepNumbered ==
  ASSUME FileInv, Numbered, [Next]_vars
  PROVE  Numbered'
<1>1. ASSUME NEW t \in Task, Enqueue(t) \/ SenderDies(t) PROVE Numbered'
  BY <1>1, EnqueueNumbered
<1>2. ASSUME NEW d \in Drain, DrainStep(d) \/ DrainDies(d) PROVE Numbered'
  <2>1. UNCHANGED <<stage, name, hwm, stopped>> /\ spare' \in 0 .. Mischief
    BY <1>2, QueueAssumption
    DEF DrainStep, Lock, Feed, Wake, Arrive, BootFails, Finish, DrainDies, Numbered
  <2> QED
    BY <2>1, OtherNumbered DEF Numbered
<1>3. CASE StaleLock
  BY <1>3, OtherNumbered DEF StaleLock, Numbered
<1>4. ASSUME NEW e \in Endpoint,
             SessionEnds(e) \/ OperatorWakes(e) \/ OperatorStops(e) \/ OperatorStarts(e)
      PROVE  Numbered'
  <2>1. UNCHANGED <<stage, name, hwm>> /\ stopped' \subseteq Endpoint /\ spare' \in 0 .. Mischief
    BY <1>4, QueueAssumption
    DEF SessionEnds, OperatorWakes, OperatorStops, OperatorStarts, Numbered
  <2> QED
    BY <2>1, OtherNumbered
<1>5. CASE UNCHANGED vars
  BY <1>5, OtherNumbered DEF vars, Numbered
<1> QED
  BY <1>1, <1>2, <1>3, <1>4, <1>5 DEF Next

\* No number exceeds the number of tasks: a task not accepted yet leaves room for one more.
LEMMA NumbersBounded ==
  ASSUME FileInv, OrderInv, Numbered
  PROVE  TypeOK
<1>1. IsFiniteSet(Task) /\ Cardinality(Task) \in Nat
  BY QueueAssumption, FS_CardinalityType
<1>2. AcceptedCount <= Cardinality(Task)
  BY <1>1, FS_Subset DEF AcceptedCount, Accepted
<1>3. ASSUME NEW t \in Task, t \notin Accepted PROVE AcceptedCount + 1 <= Cardinality(Task)
  <2>1. Cardinality(Accepted \cup {t}) = AcceptedCount + 1
    BY <1>3, AcceptedFinite, FS_AddElement DEF AcceptedCount
  <2>2. Accepted \cup {t} \subseteq Task
    BY DEF Accepted
  <2> QED
    BY <1>1, <2>1, <2>2, FS_Subset
<1>4. name \in [Task -> {0} \cup Names]
  <2>1. ASSUME NEW t \in Task PROVE name[t] \in {0} \cup Names
    BY <1>1, <1>2, <1>3, AcceptedFinite DEF Numbered, Names
  <2> QED
    BY <2>1 DEF Numbered
<1>5. hwm \in [Endpoint -> {0} \cup Names]
  <2>1. ASSUME NEW e \in Endpoint PROVE hwm[e] \in {0} \cup Names
    BY <1>1, <1>2, AcceptedFinite DEF Numbered, Names
  <2> QED
    BY <2>1 DEF Numbered
<1>6. birth \in [Task -> {0} \cup Names]
  <2>1. Cardinality(Born) <= Cardinality(Task)
    BY <1>1, FS_Subset DEF Born
  <2>2. ASSUME NEW t \in Task PROVE birth[t] \in {0} \cup Names
    BY <1>1, <2>1, BornFinite DEF OrderInv, BirthTyped, BirthCount, Names
  <2> QED
    BY <2>2 DEF OrderInv, BirthTyped
<1> QED
  BY <1>4, <1>5, <1>6 DEF TypeOK, FileInv, Typed, OrderInv, BirthTyped, Numbered, Working, Job

\* Every state is well typed; in particular no file number and no high-water mark
\* is ever larger than the number of tasks, whatever clashes and overwrites there are.
THEOREM QueueTyped == Spec => []TypeOK
<1>1. FileInv /\ Numbered /\ [Next]_vars => Numbered'
  BY StepNumbered
<1>2. FileInv /\ OrderInv /\ Numbered => TypeOK
  BY NumbersBounded
<1> QED
  BY InitNumbered, <1>1, <1>2, OrderInvInductive, PTL DEF Spec
=============================================================================
