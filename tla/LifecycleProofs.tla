-------------------------- MODULE LifecycleProofs --------------------------
(* What holds of Lifecycle for every set of threads, every choice of verbs,  *)
(* boot outcomes and killable processes, and every ring capacity: its types,  *)
(* the mutual exclusion of the wake lock and "concurrent = one spawn".         *)
EXTENDS Lifecycle, TLAPS

USE DEF Marks, Hows, WakeVerbs, OpVerbs, InLock, Places, OpPlaces
USE DEF hostVars, fileVars, wakeVars, pastVars

----------------------------------------------------------------------------
(* Type correctness.                                                        *)

\* The two halves of TypeOK: the Boolean variables with the set of markers, which
\* Zenon proves, and the rest, which needs SMT.
Flags ==
  /\ term \in BOOLEAN /\ overdue \in BOOLEAN
  /\ marks \subseteq Marks
  /\ old \in BOOLEAN /\ quiet \in BOOLEAN
  /\ recOld \in [Proc -> BOOLEAN]
  /\ ran \in BOOLEAN /\ crashed \in BOOLEAN /\ owesFresh \in BOOLEAN

Data ==
  /\ host \in {"none", "booting", "ready"}
  /\ deaths \in 0 .. Ring
  /\ lock \in Proc \cup {NoProc}
  /\ pc \in [Proc -> Places]
  /\ how \in [Proc -> Hows]
  /\ mode \in [Proc -> {"fresh", "resume"}]
  /\ spent \in [Proc -> SUBSET Marks]
  /\ op \in OpPlaces

\* The initial state of the endpoint is well typed.
LEMMA InitTyped == Init => TypeOK
<1> SUFFICES ASSUME Init PROVE Flags /\ Data
  BY Zenon DEF TypeOK, Flags, Data
<1>1. Flags
  BY Zenon DEF Init, Flags
<1>2. Data
  BY LifecycleAssumption, SMT DEF Init, Data
<1> QED
  BY <1>1, <1>2

\* A decision of resolveWakeMode names a mode and a set of markers.
LEMMA WakeModesTyped ==
  ASSUME NEW p \in Proc
  PROVE  \A m \in WakeModes(p) : m.mode \in {"fresh", "resume"} /\ m.spent \subseteq Marks
  BY DEF WakeModes, Fresh, Resumed

\* Every step of every actor preserves the types.
LEMMA StepTyped ==
  ASSUME TypeOK, [Next]_vars
  PROVE  TypeOK'
<1> USE LifecycleAssumption DEF TypeOK
<1> SUFFICES Flags' /\ Data'
  BY Zenon DEF Flags, Data
<1>1. ASSUME NEW p \in Proc, Sweep(p)
     PROVE  Flags' /\ Data'
  <2>1. Flags'
    BY <1>1, SMT DEF Flags, Sweep, SweepUnrecorded, SweepRecorded, AfterSweep, SigTerm, RecordDeath,
           Alive, Goto
  <2>2. Data'
    BY <1>1, SMT DEF Data, Sweep, SweepUnrecorded, SweepRecorded, AfterSweep, SigTerm, RecordDeath,
           Alive, Goto
  <2> QED
    BY <2>1, <2>2
<1>2. ASSUME NEW p \in Proc, Reap(p)
     PROVE  Flags' /\ Data'
  <2>1. Flags'
    BY <1>2, Zenon DEF Flags, Reap, StopEnforced, ClaimDead, NeverReadyReap, IdleReap, StaysAlive,
           AfterSweep, SigTerm, RecordDeath, Alive, Goto
  <2>2. Data'
    BY <1>2, SMT DEF Data, Reap, StopEnforced, ClaimDead, NeverReadyReap, IdleReap, StaysAlive,
           AfterSweep, SigTerm, RecordDeath, Alive, Goto
  <2> QED
    BY <2>1, <2>2
<1>3. ASSUME NEW p \in Proc, EagerRelaunch(p)
     PROVE  Flags' /\ Data'
  <2>1. Flags'
    BY <1>3, Zenon DEF Flags, EagerRelaunch, Goto
  <2>2. Data'
    BY <1>3, SMT DEF Data, EagerRelaunch, Goto
  <2> QED
    BY <2>1, <2>2
<1>4. ASSUME NEW p \in Proc, OrphanEager(p)
     PROVE  Flags' /\ Data'
  <2>1. Flags'
    BY <1>4, Zenon DEF Flags, OrphanEager, Alive, Goto
  <2>2. Data'
    BY <1>4, SMT DEF Data, OrphanEager, Alive, Goto
  <2> QED
    BY <2>1, <2>2
<1>5. ASSUME NEW p \in Proc, Gate(p)
     PROVE  Flags' /\ Data'
  <2>1. Flags'
    BY <1>5, Zenon DEF Flags, Gate, Return, After, Goto
  <2>2. Data'
    BY <1>5, SMT DEF Data, Gate, Return, After, Goto
  <2> QED
    BY <2>1, <2>2
<1>6. ASSUME NEW p \in Proc, Acquire(p)
     PROVE  Flags' /\ Data'
  <2>1. Flags'
    BY <1>6, Zenon DEF Flags, Acquire, Goto
  <2>2. Data'
    BY <1>6, SMT DEF Data, Acquire, Goto
  <2> QED
    BY <2>1, <2>2
<1>7. ASSUME NEW p \in Proc, LockBusy(p)
     PROVE  Flags' /\ Data'
  <2>1. Flags'
    BY <1>7, Zenon DEF Flags, LockBusy, Return, After, Goto
  <2>2. Data'
    BY <1>7, SMT DEF Data, LockBusy, Return, After, Goto
  <2> QED
    BY <2>1, <2>2
<1>8. ASSUME NEW p \in Proc, Check(p)
     PROVE  Flags' /\ Data'
  <2>1. Flags'
    BY <1>8, ZenonT(60) DEF Flags, Check, RefusedInLock, Restart, Replace, FastPath, Vacant, Enrol,
           SigTerm, Alive, Return, After, Goto
  <2>2. Data'
    BY <1>8, SMT DEF Data, Check, RefusedInLock, Restart, Replace, FastPath, Vacant, Enrol,
           SigTerm, Alive, Return, After, Goto
  <2> QED
    BY <2>1, <2>2
<1>9. ASSUME NEW p \in Proc, Teardown(p)
     PROVE  Flags' /\ Data'
  <2>1. Flags'
    BY <1>9, Zenon DEF Flags, Teardown, Alive, Return, After, Goto
  <2>2. Data'
    BY <1>9, SMT DEF Data, Teardown, Alive, Return, After, Goto
  <2> QED
    BY <2>1, <2>2
<1>10. ASSUME NEW p \in Proc, Decide(p)
     PROVE  Flags' /\ Data'
  <2>1. CASE Refuse(p)
    <3>1. Flags'
      BY <1>10, <2>1, Zenon DEF Flags, Decide, Refuse, Return, After, Goto
    <3>2. Data'
      BY <1>10, <2>1, SMT DEF Data, Decide, Refuse, Return, After, Goto
    <3> QED
      BY <3>1, <3>2
  <2>2. CASE Spawn(p)
    <3>1. Flags'
      BY <1>10, <2>2, Zenon DEF Flags, Decide, Spawn, Goto
    <3>2. Data'
      BY <1>10, <2>2, WakeModesTyped, SMT DEF Data, Decide, Spawn, Goto
    <3> QED
      BY <3>1, <3>2
  <2> QED
    BY <1>10, <2>1, <2>2, Zenon DEF Decide
<1>11. ASSUME NEW p \in Proc, Boot(p)
     PROVE  Flags' /\ Data'
  <2>1. Flags'
    BY <1>11, Zenon DEF Flags, Boot, SigTerm, Alive, Return, After, Goto
  <2>2. Data'
    BY <1>11, SMT DEF Data, Boot, SigTerm, Alive, Return, After, Goto
  <2> QED
    BY <2>1, <2>2
<1>12. ASSUME NEW p \in Proc, Deliver(p)
     PROVE  Flags' /\ Data'
  <2>1. Flags'
    BY <1>12, Zenon DEF Flags, Deliver, Alive, Goto
  <2>2. Data'
    BY <1>12, SMT DEF Data, Deliver, Alive, Goto
  <2> QED
    BY <2>1, <2>2
<1>13. ASSUME NEW p \in Proc, Failed(p)
     PROVE  Flags' /\ Data'
  <2>1. Flags'
    BY <1>13, Zenon DEF Flags, Failed, Enrol, RecordDeath, Alive, Return, After, Goto
  <2>2. Data'
    BY <1>13, SMT DEF Data, Failed, Enrol, RecordDeath, Alive, Return, After, Goto
  <2> QED
    BY <2>1, <2>2
<1>14. ASSUME NEW p \in Proc, Record(p)
     PROVE  Flags' /\ Data'
  <2>1. Flags'
    BY <1>14, Zenon DEF Flags, Record, Enrol, Return, After, Goto
  <2>2. Data'
    BY <1>14, SMT DEF Data, Record, Enrol, Return, After, Goto
  <2> QED
    BY <2>1, <2>2
<1>15. ASSUME NEW p \in Proc, Tick(p)
     PROVE  Flags' /\ Data'
  <2>1. Flags'
    BY <1>15, Zenon DEF Flags, Tick, Goto
  <2>2. Data'
    BY <1>15, SMT DEF Data, Tick, Goto
  <2> QED
    BY <2>1, <2>2
<1>16. ASSUME NEW p \in Proc, Die(p)
     PROVE  Flags' /\ Data'
  <2>1. Flags'
    BY <1>16, Zenon DEF Flags, Die, Goto
  <2>2. Data'
    BY <1>16, SMT DEF Data, Die, Goto
  <2> QED
    BY <2>1, <2>2
<1>17. ASSUME NEW p \in Proc, NEW h \in Hows, WakeBegin(p, h)
     PROVE  Flags' /\ Data'
  <2>1. Flags'
    BY <1>17, Zenon DEF Flags, WakeBegin, CleanSlate, Goto
  <2>2. Data'
    BY <1>17, SMT DEF Data, WakeBegin, CleanSlate, Goto
  <2> QED
    BY <2>1, <2>2
<1>18. CASE Operator
  <2>1. Flags'
    BY <1>18, ZenonT(60) DEF Flags, Operator, OpStep, Stop, StopKill, Start, Refresh, SelfFresh, Failover,
           Kill, SigTerm, Alive
  <2>2. Data'
    BY <1>18, SMT DEF Data, Operator, OpStep, Stop, StopKill, Start, Refresh, SelfFresh, Failover,
           Kill, SigTerm, Alive
  <2> QED
    BY <2>1, <2>2
<1>19. CASE StaleLock
  <2>1. Flags'
    BY <1>19, Zenon DEF Flags, StaleLock
  <2>2. Data'
    BY <1>19, SMT DEF Data, StaleLock
  <2> QED
    BY <2>1, <2>2
<1>20. CASE HostGone
  <2>1. Flags'
    BY <1>20, Zenon DEF Flags, HostGone, Alive
  <2>2. Data'
    BY <1>20, SMT DEF Data, HostGone, Alive
  <2> QED
    BY <2>1, <2>2
<1>21. CASE HostCrash
  <2>1. Flags'
    BY <1>21, Zenon DEF Flags, HostCrash, Alive
  <2>2. Data'
    BY <1>21, SMT DEF Data, HostCrash, Alive
  <2> QED
    BY <2>1, <2>2
<1>22. CASE LongTime
  <2>1. (quiet \in BOOLEAN)'
    BY <1>22, Zenon DEF LongTime
  <2>2. Flags'
    BY <1>22, <2>1, SMT DEF Flags, LongTime, Alive
  <2>3. Data'
    BY <1>22, SMT DEF Data, LongTime, Alive
  <2> QED
    BY <2>2, <2>3
<1>23. CASE Activity
  <2>1. Flags'
    BY <1>23, Zenon DEF Flags, Activity
  <2>2. Data'
    BY <1>23, SMT DEF Data, Activity
  <2> QED
    BY <2>1, <2>2
<1>24. CASE UNCHANGED vars
  <2>1. Flags'
    BY <1>24, Zenon DEF Flags, vars
  <2>2. Data'
    BY <1>24, SMT DEF Data, vars
  <2> QED
    BY <2>1, <2>2
<1> QED
  BY <1>1, <1>2, <1>3, <1>4, <1>5, <1>6, <1>7, <1>8, <1>9, <1>10, <1>11, <1>12,
     <1>13, <1>14, <1>15, <1>16, <1>17, <1>18, <1>19, <1>20, <1>21, <1>22, <1>23,
     <1>24
  DEF Next, Step

\* In every behaviour the variables keep their types; in particular the .deaths ring
\* never outgrows its capacity and the lock file names a thread or nobody.
THEOREM LifecycleTyped == Spec => []TypeOK
<1>1. TypeOK /\ [Next]_vars => TypeOK'
  BY StepTyped
<1> QED
  BY InitTyped, <1>1, PTL DEF Spec

----------------------------------------------------------------------------
(* The wake lock, and what it protects.                                     *)

\* What one step of thread p does to the lock, to the other threads and to the host.
\* Only the holder changes a host into a live one, and it arrives at its launch
\* over a host that it saw gone.
LEMMA WakeStep ==
  ASSUME TypeOK, NEW p \in Proc, Step(p)
  PROVE  /\ \A q \in Proc \ {p} : pc'[q] = pc[q]
         /\ \/ lock' = lock /\ (pc'[p] \in InLock => pc[p] \in InLock)
            \/ lock = NoProc /\ lock' = p
            \/ lock = p /\ lock' = NoProc /\ pc'[p] \notin InLock
         /\ host' # host => pc[p] \in InLock
         /\ pc'[p] = "decide" => host' = "none"
<1> USE DEF TypeOK, Goto
<1>1. CASE Sweep(p)
  BY <1>1, SMT DEF Sweep, SweepUnrecorded, SweepRecorded, AfterSweep
<1>2. CASE Reap(p)
  BY <1>2, SMT DEF Reap, AfterSweep
<1>3. CASE EagerRelaunch(p)
  BY <1>3, SMT DEF EagerRelaunch
<1>4. CASE OrphanEager(p)
  BY <1>4, SMT DEF OrphanEager
<1>5. CASE Gate(p)
  BY <1>5, SMT DEF Gate, Return, After
<1>6. CASE Acquire(p)
  BY <1>6, SMT DEF Acquire
<1>7. CASE LockBusy(p)
  BY <1>7, SMT DEF LockBusy, Return, After
<1>8. CASE Check(p)
  BY <1>8, SMT DEF Check, RefusedInLock, Restart, Replace, FastPath, Vacant, Alive,
              Return, After
<1>9. CASE Teardown(p)
  BY <1>9, SMT DEF Teardown, Alive, Return, After
<1>10. CASE Decide(p)
  BY <1>10, SMT DEF Decide, Refuse, Spawn, Return, After
<1>11. CASE Boot(p)
  BY <1>11, SMT DEF Boot, Alive, Return, After
<1>12. CASE Deliver(p)
  BY <1>12, SMT DEF Deliver
<1>13. CASE Failed(p)
  BY <1>13, SMT DEF Failed, Return, After
<1>14. CASE Record(p)
  BY <1>14, SMT DEF Record, Return, After
<1> QED
  BY <1>1, <1>2, <1>3, <1>4, <1>5, <1>6, <1>7, <1>8, <1>9, <1>10, <1>11, <1>12,
     <1>13, <1>14, Zenon
  DEF Step

\* LockHeld is inductive relative to the types: a takeover needs a holder that is not
\* inside the lock, and a wake that returns frees only a lock of its own.
LEMMA StepLockHeld ==
  ASSUME TypeOK, LockHeld, [Next]_vars
  PROVE  LockHeld'
<1> USE LifecycleAssumption DEF LockHeld
<1>1. ASSUME NEW p \in Proc, Step(p)
      PROVE  LockHeld'
  BY <1>1, WakeStep, SMT
<1>2. ASSUME NEW p \in Proc, Tick(p) \/ Die(p) \/ \E h \in Hows : WakeBegin(p, h)
      PROVE  LockHeld'
  BY <1>2, SMT DEF TypeOK, Tick, Die, WakeBegin, CleanSlate, Goto
<1>3. CASE StaleLock
  BY <1>3, SMT DEF StaleLock
<1>4. CASE Operator \/ HostGone \/ HostCrash \/ LongTime \/ Activity \/ UNCHANGED vars
  <2>1. pc' = pc /\ lock' = lock
    BY <1>4, Zenon DEF Operator, HostGone, HostCrash, LongTime, Activity, vars
  <2> QED
    BY <2>1
<1> QED
  BY <1>1, <1>2, <1>3, <1>4, SMT DEF Next

\* The lock protects the launch: while the holder is about to spawn, nobody else can
\* bring a host to life.
LEMMA StepVacancy ==
  ASSUME TypeOK, LockHeld, LaunchIntoVacancy, [Next]_vars
  PROVE  LaunchIntoVacancy'
<1> USE LifecycleAssumption DEF LockHeld, LaunchIntoVacancy
<1>1. ASSUME NEW p \in Proc, Step(p)
      PROVE  LaunchIntoVacancy'
  <2> SUFFICES ASSUME NEW q \in Proc, pc'[q] = "decide"
               PROVE  host' = "none"
    OBVIOUS
  <2>1. CASE q = p
    BY <1>1, <2>1, WakeStep
  <2>2. CASE q # p
    <3>1. pc[q] = "decide"
      BY <1>1, <2>2, WakeStep
    <3>2. pc[p] \notin InLock
      BY <2>2, <3>1
    <3> QED
      BY <1>1, <3>1, <3>2, WakeStep
  <2> QED
    BY <2>1, <2>2
<1>2. ASSUME NEW p \in Proc, Tick(p) \/ Die(p) \/ \E h \in Hows : WakeBegin(p, h)
      PROVE  LaunchIntoVacancy'
  BY <1>2, SMT DEF TypeOK, Tick, Die, WakeBegin, CleanSlate, Goto
<1>3. CASE HostGone \/ HostCrash
  BY <1>3, SMT DEF HostGone, HostCrash
<1>4. CASE StaleLock \/ Operator \/ LongTime \/ Activity \/ UNCHANGED vars
  <2>1. pc' = pc /\ host' = host
    BY <1>4, Zenon DEF StaleLock, Operator, LongTime, Activity, vars
  <2> QED
    BY <2>1
<1> QED
  BY <1>1, <1>2, <1>3, <1>4, SMT DEF Next

\* The inductive invariant of the wake: exclusion needs the types, and the vacancy of
\* the launch needs exclusion.
WakeInv == TypeOK /\ LockHeld /\ LaunchIntoVacancy

LEMMA WakeInvInductive == Spec => []WakeInv
<1>1. Init => WakeInv
  BY InitTyped, SMT DEF Init, WakeInv, LockHeld, LaunchIntoVacancy
<1>2. WakeInv /\ [Next]_vars => WakeInv'
  BY StepTyped, StepLockHeld, StepVacancy DEF WakeInv
<1> QED
  BY <1>1, <1>2, PTL DEF Spec

\* Whoever runs between acquiring and releasing the wake lock is its recorded holder,
\* so at most one wake is inside, also when holders are killed and locks go stale.
THEOREM WakesExclude == Spec => []LockHeld
<1>1. WakeInv => LockHeld
  BY DEF WakeInv
<1> QED
  BY <1>1, WakeInvInductive, PTL

\* "Concurrent = one spawn": a wake that is about to start a host finds none alive.
THEOREM OneSpawn == Spec => []LaunchIntoVacancy
<1>1. WakeInv => LaunchIntoVacancy
  BY DEF WakeInv
<1> QED
  BY <1>1, WakeInvInductive, PTL

-----------------------------------------------------------------------------
(* What becomes of the marker files, for every set of threads and ticks.      *)
(*                                                                            *)
(* Two promises of resolveWakeMode fail in general (the runs HungBoot and      *)
(* StalePark of MCLifecycle show how).  Here is where they hold: a failed      *)
(* bring-up keeps its markers unless a host hangs, and a crash is never        *)
(* resumed where the only verbs are stop, start, refresh and failover and no   *)
(* launcher is killed half way.                                                *)

USE DEF Marks, Hows, WakeVerbs, OpVerbs, InLock, Places, OpPlaces
USE DEF hostVars, fileVars, wakeVars, pastVars

----------------------------------------------------------------------------
(* A failed bring-up, where no boot hangs.                                   *)

\* A bring-up that is past its ready gate has seen the host ready or gone.
GatePassed == \A p \in Proc : pc[p] \in {"deliver", "failed"} => host # "booting"

LEMMA StepGatePassed ==
  ASSUME "hang" \notin Boots, TypeOK, LockHeld, GatePassed, [Next]_vars
  PROVE  GatePassed'
<1> USE LifecycleAssumption DEF LockHeld, GatePassed
<1>1. ASSUME NEW p \in Proc, Step(p)
      PROVE  GatePassed'
  <2> SUFFICES ASSUME NEW q \in Proc, pc'[q] \in {"deliver", "failed"}
               PROVE  host' # "booting"
    OBVIOUS
  <2>1. CASE q # p
    <3>1. pc[q] \in {"deliver", "failed"}
      BY <1>1, <2>1, WakeStep
    <3>2. pc[p] \notin InLock
      BY <2>1, <3>1
    <3> QED
      BY <1>1, <3>1, <3>2, WakeStep
  <2>2. CASE q = p
    <3>1. CASE Boot(p)
      BY <2>2, <3>1, SMT DEF Boot, TypeOK, Alive, Return, After, Goto
    <3>2. CASE Deliver(p)
      BY <2>2, <3>2, SMT DEF Deliver, TypeOK
    <3>3. CASE ~(Boot(p) \/ Deliver(p))
      <4>1. CASE Sweep(p) \/ Reap(p) \/ EagerRelaunch(p) \/ OrphanEager(p) \/ Gate(p)
                   \/ Acquire(p) \/ LockBusy(p)
        BY <2>2, <4>1, SMT
        DEF TypeOK, Sweep, SweepUnrecorded, SweepRecorded, AfterSweep, Reap, EagerRelaunch,
            OrphanEager, Gate, Acquire, LockBusy, Return, After, Goto
      <4>2. CASE Check(p) \/ Teardown(p) \/ Decide(p) \/ Failed(p) \/ Record(p)
        BY <2>2, <4>2, SMT
        DEF TypeOK, Check, RefusedInLock, Restart, Replace, FastPath, Vacant, Teardown, Decide,
            Refuse, Spawn, Failed, Record, Return, After, Goto
      <4> QED
        BY <1>1, <3>3, <4>1, <4>2, Zenon DEF Step
    <3> QED
      BY <3>1, <3>2, <3>3, Zenon
  <2> QED
    BY <2>1, <2>2
<1>2. ASSUME NEW p \in Proc, Tick(p) \/ Die(p) \/ \E h \in Hows : WakeBegin(p, h)
      PROVE  GatePassed'
  BY <1>2, SMT DEF TypeOK, Tick, Die, WakeBegin, CleanSlate, Goto
<1>3. CASE HostGone \/ HostCrash
  BY <1>3, SMT DEF HostGone, HostCrash
<1>4. CASE StaleLock \/ Operator \/ LongTime \/ Activity \/ UNCHANGED vars
  <2>1. pc' = pc /\ host' = host
    BY <1>4, Zenon DEF StaleLock, Operator, LongTime, Activity, vars
  <2> QED
    BY <2>1
<1> QED
  BY <1>1, <1>2, <1>3, <1>4, SMT DEF Next

\* The only step that ends a failed bring-up and touches the markers is Failed, which
\* spends them on a live host alone.
LEMMA FailedKeeps ==
  ASSUME TypeOK, GatePassed, [Next]_vars,
         NEW p \in Proc, pc[p] = "failed", pc'[p] # "failed",
         ~(marks \cap spent[p] \subseteq marks')
  PROVE  host = "ready"
<1>1. CASE Failed(p)
  BY <1>1, SMT DEF Failed, Alive, TypeOK, GatePassed
<1>2. CASE Die(p)
  BY <1>2, Zenon DEF Die
<1>3. CASE \E q \in Proc : Step(q)
  <2>1. PICK q \in Proc : Step(q)
    BY <1>3
  <2>2. q = p
    BY <2>1, WakeStep
  <2>3. Failed(p)
    BY <2>1, <2>2, Zenon
    DEF Step, Sweep, Reap, EagerRelaunch, OrphanEager, Gate, Acquire, LockBusy, Check,
        Teardown, Decide, Boot, Deliver, Record
  <2> QED
    BY <1>1, <2>3
<1>4. CASE \E q \in Proc : Tick(q) \/ Die(q) \/ \E h \in Hows : WakeBegin(q, h)
  BY <1>2, <1>4, SMT DEF TypeOK, Tick, Die, WakeBegin, CleanSlate, Goto
<1>5. CASE StaleLock \/ Operator \/ HostGone \/ HostCrash \/ LongTime \/ Activity \/ UNCHANGED vars
  BY <1>5, Zenon DEF StaleLock, Operator, HostGone, HostCrash, LongTime, Activity, vars
<1> QED
  BY <1>3, <1>4, <1>5, LifecycleAssumption, SMT DEF Next

\* OC14-1: a wake decision's marker survives a failed bring-up, where a boot ends
\* ready, unprocessed or dead but never hangs.
THEOREM FailedBootKeepsMarkers ==
  ASSUME "hang" \notin Boots
  PROVE  Spec => MarkersOutliveFailedBoot
<1>1. Init => GatePassed
  BY SMT DEF Init, GatePassed
<1>2. TypeOK /\ LockHeld /\ GatePassed /\ [Next]_vars => GatePassed'
  BY StepGatePassed
<1>3. TypeOK /\ GatePassed /\ [Next]_vars
        => [\A p \in Proc : pc[p] = "failed" /\ pc'[p] # "failed"
              /\ ~(marks \cap spent[p] \subseteq marks') => host = "ready"]_vars
  BY FailedKeeps
<1> QED
  BY <1>1, <1>2, <1>3, LifecycleTyped, WakesExclude, PTL DEF Spec, MarkersOutliveFailedBoot

----------------------------------------------------------------------------
(* A crash, where endpoints are only stopped, started, refreshed and failed     *)
(* over, and launchers finish.                                               *)

Calm == Verbs \subseteq {"stop", "start", "refresh", "failover"} /\ MayDie = {}

\* No eager mark is ever made, so every wake is a message's.
NoEager ==
  /\ "newEager" \notin marks
  /\ \A p \in Proc : how[p] \in {"message", "tick"} /\ pc[p] # "eager"

\* An endpoint whose session crashed is not parked ...
CrashUnparked == crashed => "idleReaped" \notin marks

\* ... nor is one whose established session runs and has not been told to go ...
LiveUnparked ==
  host = "ready" /\ ~term /\ op # "stopKill" /\ ~BeingBroughtUp => "idleReaped" \notin marks

\* ... a bring-up that resumes does so after a park, not a crash ...
ResumeUncrashed == \A p \in Proc : pc[p] = "boot" /\ mode[p] = "resume" => ~crashed

\* ... and a park mark under a bring-up is one that bring-up will spend.
Bringing == {"boot", "deliver", "failed", "record"}
ParkSpent ==
  \A p \in Proc : pc[p] \in Bringing /\ host # "none" /\ ~term /\ op # "stopKill"
    /\ "idleReaped" \in marks => "idleReaped" \in spent[p]

ParkInv == NoEager /\ CrashUnparked /\ LiveUnparked /\ ResumeUncrashed /\ ParkSpent

\* The decision of a message: it resumes only a parked endpoint, and spends the park.
LEMMA MessageModes ==
  ASSUME NEW p \in Proc, "newEager" \notin marks, how[p] \in {"message", "tick"},
         NEW m \in WakeModes(p)
  PROVE  /\ m.mode = "resume" => "idleReaped" \in marks
         /\ "idleReaped" \in marks => "idleReaped" \in m.spent
  BY SMT DEF WakeModes, Fresh, Resumed, FreshHows

\* No step makes an eager mark.
LEMMA StepNoEager ==
  ASSUME Calm, TypeOK, NoEager, [Next]_vars
  PROVE  NoEager'
<1> USE LifecycleAssumption DEF NoEager, Calm
<1>1. ASSUME NEW p \in Proc, Step(p)
      PROVE  NoEager'
  <2>1. CASE Sweep(p) \/ Reap(p) \/ EagerRelaunch(p) \/ OrphanEager(p) \/ Gate(p)
               \/ Acquire(p) \/ LockBusy(p)
    BY <2>1, SMT
    DEF TypeOK, Sweep, SweepUnrecorded, SweepRecorded, AfterSweep, Reap, StopEnforced,
        ClaimDead, NeverReadyReap, IdleReap, StaysAlive, ClaimsEager, EagerRelaunch,
        OrphanEager, Gate, Acquire, LockBusy, Return, After, Goto
  <2>2. CASE Check(p) \/ Teardown(p) \/ Decide(p)
    BY <2>2, SMT
    DEF TypeOK, Check, RefusedInLock, Restart, Replace, FastPath, Vacant, Enrol, Teardown,
        Decide, Refuse, Spawn, Return, After, Goto
  <2>3. CASE Boot(p) \/ Deliver(p) \/ Failed(p) \/ Record(p)
    BY <2>3, SMT DEF TypeOK, Boot, Deliver, Failed, Record, Enrol, Return, After, Goto
  <2> QED
    BY <1>1, <2>1, <2>2, <2>3, Zenon DEF Step
<1>2. ASSUME NEW p \in Proc, Tick(p) \/ Die(p) \/ \E h \in Hows : WakeBegin(p, h)
      PROVE  NoEager'
  BY <1>2, SMT DEF TypeOK, Tick, Die, WakeBegin, CleanSlate, Goto
<1>3. CASE Operator
  BY <1>3, SMT
  DEF Operator, OpStep, Stop, StopKill, Start, Refresh, SelfFresh, Failover, Kill
<1>4. CASE StaleLock \/ HostGone \/ HostCrash \/ LongTime \/ Activity \/ UNCHANGED vars
  <2>1. UNCHANGED <<marks, how, pc>>
    BY <1>4, Zenon DEF StaleLock, HostGone, HostCrash, LongTime, Activity, vars
  <2> QED
    BY <2>1
<1> QED
  BY <1>1, <1>2, <1>3, <1>4, SMT DEF Next

\* A step that starts and ends no bring-up, crashes nothing and parks only what is
\* told to go or is gone.
Undisturbing ==
  /\ host' \in {host, "none"}
  /\ crashed' => crashed
  /\ "idleReaped" \in marks' =>
       \/ "idleReaped" \in marks
       \/ ~crashed' /\ (term' \/ host' = "none" \/ op' = "stopKill")
  /\ ~term' /\ host' # "none" /\ op' # "stopKill" => ~term /\ op # "stopKill"
  /\ \A q \in Proc :
       /\ pc'[q] \in Bringing <=> pc[q] \in Bringing
       /\ pc'[q] = "boot" => pc[q] = "boot"
       /\ pc[q] \in Bringing => mode'[q] = mode[q] /\ spent'[q] = spent[q]

LEMMA UndisturbedParkInv ==
  ASSUME ParkInv, NoEager', Undisturbing
  PROVE  ParkInv'
<1> USE DEF ParkInv, Undisturbing, Bringing
<1>1. CrashUnparked'
  BY Zenon DEF CrashUnparked
<1>2. LiveUnparked'
  BY SMT DEF LiveUnparked, BeingBroughtUp
<1>3. ResumeUncrashed'
  BY SMT DEF ResumeUncrashed
<1>4. ParkSpent'
  BY SMT DEF ParkSpent
<1> QED
  BY <1>1, <1>2, <1>3, <1>4

\* Outside its bring-up a thread disturbs nothing, and neither do the operator, the
\* end of a host that was told to go, and time.
LEMMA StepUndisturbing ==
  ASSUME Calm, TypeOK, NoEager, NEW p \in Proc,
         \/ Sweep(p) \/ Reap(p) \/ EagerRelaunch(p) \/ OrphanEager(p) \/ Gate(p)
         \/ Acquire(p) \/ LockBusy(p) \/ Check(p) \/ Teardown(p) \/ (Decide(p) /\ Refuse(p))
         \/ Deliver(p)
  PROVE  Undisturbing
<1> USE DEF TypeOK, Undisturbing, Bringing, Goto
<1>1. CASE Sweep(p)
  BY <1>1, SMT DEF Sweep, SweepUnrecorded, SweepRecorded, AfterSweep, SigTerm, Alive
<1>2. CASE Reap(p)
  <2>1. \A q \in Proc : pc'[q] \in Bringing <=> pc[q] \in Bringing
    BY <1>2, SMT DEF Reap, AfterSweep
  <2>2. \A q \in Proc : pc'[q] = "boot" => pc[q] = "boot"
    BY <1>2, SMT DEF Reap, AfterSweep
  <2>3. host' = host /\ mode' = mode /\ spent' = spent /\ op' = op
    BY <1>2, SMT DEF Reap
  <2>4. crashed' => crashed
    BY <1>2, Zenon DEF Reap, StopEnforced, ClaimDead, NeverReadyReap, IdleReap, StaysAlive
  <2>5. ~term' /\ host # "none" => ~term
    BY <1>2, Zenon
    DEF Reap, StopEnforced, ClaimDead, NeverReadyReap, IdleReap, StaysAlive, SigTerm, Alive
  <2>6. "idleReaped" \in marks' => "idleReaped" \in marks \/ (~crashed' /\ (term' \/ host = "none"))
    BY <1>2, Zenon
    DEF Reap, StopEnforced, ClaimDead, NeverReadyReap, IdleReap, StaysAlive, SigTerm, Alive
  <2> QED
    BY <2>1, <2>2, <2>3, <2>4, <2>5, <2>6, SMT
<1>3. CASE EagerRelaunch(p) \/ OrphanEager(p)
  BY <1>3, SMT DEF EagerRelaunch, OrphanEager
<1>4. CASE Gate(p) \/ Acquire(p) \/ LockBusy(p)
  BY <1>4, SMT DEF Gate, Acquire, LockBusy, Return, After
<1>5. CASE Check(p)
  BY <1>5, SMT
  DEF NoEager, Check, RefusedInLock, Restart, Replace, FastPath, Vacant, Enrol, SigTerm,
      Alive, Return, After
<1>6. CASE Teardown(p)
  BY <1>6, SMT DEF Teardown, Return, After
<1>7. CASE Decide(p) /\ Refuse(p)
  BY <1>7, SMT DEF Decide, Refuse, Return, After
<1>8. CASE Deliver(p)
  BY <1>8, SMT DEF Deliver
<1> QED
  BY <1>1, <1>2, <1>3, <1>4, <1>5, <1>6, <1>7, <1>8

LEMMA OthersUndisturbing ==
  ASSUME Calm, TypeOK,
         \/ \E p \in Proc : Tick(p) \/ Die(p) \/ \E h \in Hows : WakeBegin(p, h)
         \/ StaleLock \/ Operator \/ HostGone \/ LongTime \/ Activity \/ UNCHANGED vars
  PROVE  Undisturbing
<1> USE DEF TypeOK, Undisturbing, Bringing, Goto
<1>1. CASE \E p \in Proc : Tick(p) \/ Die(p) \/ \E h \in Hows : WakeBegin(p, h)
  BY <1>1, SMT DEF Calm, Tick, Die, WakeBegin, CleanSlate
<1>2. CASE Operator
  <2> USE DEF Operator, OpStep, Stop, StopKill, Start, Refresh, SelfFresh, Failover, Kill
  <2>1. UNCHANGED <<host, pc, mode, spent>>
    BY <1>2, Zenon
  <2>2. crashed' => crashed
    BY <1>2, Zenon
  <2>3. "idleReaped" \in marks' => "idleReaped" \in marks \/ (~crashed' /\ op' = "stopKill")
    <3>1. CASE Stop
      BY <3>1, Zenon
    <3>2. CASE StopKill \/ Start \/ Refresh \/ SelfFresh \/ Failover \/ Kill
      <4>1. "idleReaped" \in marks' => "idleReaped" \in marks
        BY <3>2, SMT
      <4> QED
        BY <4>1
    <3> QED
      BY <1>2, <3>1, <3>2, Zenon
  <2>4. ~term' /\ host' # "none" /\ op' # "stopKill" => ~term /\ op # "stopKill"
    BY <1>2, Zenon DEF SigTerm, Alive
  <2> QED
    BY <2>1, <2>2, <2>3, <2>4
<1>3. CASE HostGone
  BY <1>3, SMT DEF HostGone
<1>4. CASE StaleLock \/ LongTime \/ Activity \/ UNCHANGED vars
  <2>1. UNCHANGED <<host, term, marks, crashed, op, pc, mode, spent>>
    BY <1>4, Zenon DEF StaleLock, LongTime, Activity, vars
  <2> QED
    BY <2>1
<1> QED
  BY <1>1, <1>2, <1>3, <1>4

\* Inside the lock a thread is alone: no other bring-up is under way.
LEMMA Alone ==
  ASSUME LockHeld, NEW p \in Proc, pc[p] \in InLock
  PROVE  \A q \in Proc \ {p} : pc[q] \notin Bringing
  BY SMT DEF LockHeld, Bringing

\* The launch takes the decision of a message.
LEMMA SpawnParkInv ==
  ASSUME TypeOK, LockHeld, NoEager, ParkInv, NoEager', NEW p \in Proc, Decide(p), Spawn(p)
  PROVE  ParkInv'
<1> USE DEF ParkInv, Bringing
<1>1. PICK m \in WakeModes(p) : mode' = [mode EXCEPT ![p] = m.mode] /\ spent' = [spent EXCEPT ![p] = m.spent]
  BY Zenon DEF Spawn
<1>2. /\ m.mode = "resume" => "idleReaped" \in marks
      /\ "idleReaped" \in marks => "idleReaped" \in m.spent
  BY MessageModes, SMT DEF NoEager
<1>3. mode'[p] = m.mode /\ spent'[p] = m.spent
  BY <1>1, SMT DEF TypeOK
<1>4. \A q \in Proc \ {p} : pc'[q] \notin Bringing
  BY Alone, SMT DEF Decide, Spawn, Goto, TypeOK
<1>5. /\ host' = "booting" /\ marks' = marks
      /\ crashed' = crashed
  BY Zenon DEF Decide, Spawn
<1>6. CrashUnparked'
  BY <1>5, Zenon DEF CrashUnparked
<1>7. LiveUnparked'
  BY <1>5, SMT DEF LiveUnparked
<1>8. ResumeUncrashed'
  <2>1. mode'[p] = "resume" => ~crashed
    BY <1>2, <1>3, Zenon DEF CrashUnparked
  <2> QED
    BY <2>1, <1>4, <1>5, SMT DEF ResumeUncrashed
<1>9. ParkSpent'
  BY <1>2, <1>3, <1>4, <1>5, SMT DEF ParkSpent
<1> QED
  BY <1>6, <1>7, <1>8, <1>9

\* The bring-up itself leaves the markers alone.
LEMMA BootParkInv ==
  ASSUME TypeOK, LockHeld, ParkInv, NoEager', NEW p \in Proc, Boot(p)
  PROVE  ParkInv'
<1> USE DEF ParkInv, Bringing
<1>1. \A q \in Proc \ {p} : pc'[q] \notin Bringing
  BY Alone, SMT DEF Boot, Return, Goto, TypeOK
<1>2. marks' = marks /\ op' = op
  BY Zenon DEF Boot
<1>3. CrashUnparked'
  <2>1. crashed' => crashed
    BY Zenon DEF Boot
  <2> QED
    BY <1>2, <2>1, Zenon DEF CrashUnparked
<1>4. LiveUnparked'
  BY SMT DEF Boot, Return, After, Goto, Alive, TypeOK, LiveUnparked, BeingBroughtUp
<1>5. ResumeUncrashed'
  BY <1>1, SMT DEF Boot, Return, After, Goto, TypeOK, ResumeUncrashed
<1>6. ParkSpent'
  <2>1. pc'[p] \in Bringing => spent'[p] = spent[p]
    BY SMT DEF Boot, Return, After, Goto, TypeOK
  <2>2. ~term' /\ host' # "none" => ~term /\ host # "none"
    BY Zenon DEF Boot, SigTerm, Alive
  <2>3. pc[p] = "boot"
    BY Zenon DEF Boot
  <2> QED
    BY <1>1, <1>2, <2>1, <2>2, <2>3, SMT DEF ParkSpent
<1> QED
  BY <1>3, <1>4, <1>5, <1>6

\* Its end spends the park mark that was there when it began, on a live host.
LEMMA EndParkInv ==
  ASSUME TypeOK, LockHeld, ParkInv, NoEager', NEW p \in Proc, Failed(p) \/ Record(p)
  PROVE  ParkInv'
<1> USE DEF ParkInv, Bringing
<1>1. \A q \in Proc : pc'[q] \notin Bringing
  BY Alone, SMT DEF Failed, Record, Return, After, Goto, TypeOK
<1>2. UNCHANGED <<host, term, crashed, op>>
  BY Zenon DEF Failed, Record
<1>3. "idleReaped" \in marks' => "idleReaped" \in marks
  BY SMT DEF Failed, Record, Enrol
<1>4. host # "none" /\ "idleReaped" \in marks' => "idleReaped" \notin spent[p]
  BY SMT DEF Failed, Record, Enrol, Alive
<1>5. CrashUnparked'
  BY <1>2, <1>3, Zenon DEF CrashUnparked
<1>6. LiveUnparked'
  <2>1. pc[p] \in Bringing
    BY SMT DEF Failed, Record
  <2> QED
    BY <1>2, <1>3, <1>4, <2>1, SMT DEF LiveUnparked, ParkSpent
<1>7. ResumeUncrashed' /\ ParkSpent'
  BY <1>1, SMT DEF ResumeUncrashed, ParkSpent
<1> QED
  BY <1>5, <1>6, <1>7

\* An established session that dies on its own was not parked.
LEMMA CrashParkInv ==
  ASSUME ParkInv, NoEager', HostCrash
  PROVE  ParkInv'
<1> USE DEF ParkInv, Bringing, HostCrash
<1>1. CrashUnparked'
  BY Zenon DEF CrashUnparked, LiveUnparked
<1>2. LiveUnparked' /\ ParkSpent'
  BY SMT DEF LiveUnparked, ParkSpent
<1>3. ResumeUncrashed'
  <2> SUFFICES ASSUME NEW p \in Proc, pc'[p] = "boot", mode'[p] = "resume"
               PROVE  ~crashed'
    BY Zenon DEF ResumeUncrashed
  <2>1. pc[p] = "boot" /\ mode[p] = "resume"
    BY Zenon
  <2>2. BeingBroughtUp
    BY <2>1, SMT DEF BeingBroughtUp
  <2> QED
    BY <2>1, <2>2, Zenon DEF ResumeUncrashed
<1> QED
  BY <1>1, <1>2, <1>3

\* Every step preserves the account of parks and crashes.
LEMMA StepParkInv ==
  ASSUME Calm, TypeOK, LockHeld, ParkInv, [Next]_vars
  PROVE  ParkInv'
<1>1. NoEager /\ NoEager'
  BY StepNoEager DEF ParkInv
<1>2. ASSUME NEW p \in Proc, Step(p)
      PROVE  ParkInv'
  <2>1. CASE Decide(p) /\ Spawn(p)
    BY <1>1, <2>1, SpawnParkInv
  <2>2. CASE Boot(p)
    BY <1>1, <2>2, BootParkInv
  <2>3. CASE Failed(p) \/ Record(p)
    BY <1>1, <2>3, EndParkInv
  <2>4. CASE \/ Sweep(p) \/ Reap(p) \/ EagerRelaunch(p) \/ OrphanEager(p) \/ Gate(p)
             \/ Acquire(p) \/ LockBusy(p) \/ Check(p) \/ Teardown(p)
             \/ (Decide(p) /\ Refuse(p)) \/ Deliver(p)
    <3>1. Undisturbing
      BY <1>1, <2>4, StepUndisturbing, Zenon
    <3> QED
      BY <1>1, <3>1, UndisturbedParkInv
  <2>5. Decide(p) => Refuse(p) \/ Spawn(p)
    BY Zenon DEF Decide
  <2> QED
    BY <1>2, <2>1, <2>2, <2>3, <2>4, <2>5, Zenon DEF Step
<1>3. CASE HostCrash
  BY <1>1, <1>3, CrashParkInv
<1>4. CASE \/ \E p \in Proc : Tick(p) \/ Die(p) \/ \E h \in Hows : WakeBegin(p, h)
           \/ StaleLock \/ Operator \/ HostGone \/ LongTime \/ Activity \/ UNCHANGED vars
  BY <1>1, <1>4, OthersUndisturbing, UndisturbedParkInv
<1> QED
  BY <1>2, <1>3, <1>4, LifecycleAssumption, SMT DEF Next

\* Branch 3a of resolveWakeMode: a message never resumes the context of a session that
\* died on its own, where endpoints are only stopped, started, refreshed and failed
\* over and no launcher is killed half way.
THEOREM CrashWakesFresh ==
  ASSUME Calm
  PROVE  Spec => CrashIsNotResumed
<1>1. Init => ParkInv
  BY SMT DEF Init, ParkInv, NoEager, CrashUnparked, LiveUnparked, ResumeUncrashed, ParkSpent, Bringing
<1>2. TypeOK /\ LockHeld /\ ParkInv /\ [Next]_vars => ParkInv'
  BY StepParkInv
<1>3. ParkInv /\ [Next]_vars
        => [\A p \in Proc : ComesUp(p) /\ how[p] = "message" /\ mode[p] = "resume" => ~crashed]_vars
  BY Zenon DEF ParkInv, ResumeUncrashed, ComesUp
<1> QED
  BY <1>1, <1>2, <1>3, LifecycleTyped, WakesExclude, PTL DEF Spec, CrashIsNotResumed
=============================================================================
