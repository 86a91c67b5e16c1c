----------------------------- MODULE FilesProofs -----------------------------
(* Six components whose word is a file: the update, which says which daemon     *)
(* runs, the rotated event logs, the idle clock that reads the tail of a          *)
(* transcript, the two watches that read what the runtimes wrote: of a turn, and  *)
(* of its death; and the host's own config files.  They share no state; what is   *)
(* proved of each holds for every value of its constants.                         *)
EXTENDS Integers, Sequences, FiniteSets, SequencesExt, FunctionTheorems,
        FiniteSetTheorems, WellFoundedInduction, TLAPS

CONSTANTS MaxVersion, Good, Peer, MaxVerb, Writer, Cap, Keep, MaxLine,
          MaxFault, IdleLimit, Quiet, Unarmed, Ephemeral, Shared, TailWindow,
          Big, MaxRec, IdleTime, MaxSession, TurnTime, Stale, Overlap,
          MaxRestart, File, MaxTime, Horizon, Window, Ttl, Dir, Proc, None,
          ConfVerb, MaxEdit

VARIABLES npm, bin, prev, stamp, daemon, live, proven, pack, config, pc, cli,
          report, verbs, base, there, backup, lock, at, lines, offset, sized,
          seen, faults, clock, ses, own, partial, ownMt, other, child,
          delivered, worked, rendered, reaped, runtime, now, log, session,
          turn, board, since, truth, restarts, call, catchUp, heard, parked,
          deaths, toml, settings, hooks, mode, todo, snap, torn, killed, edits

Upd == INSTANCE Update
Ev == INSTANCE EventLog
Idle == INSTANCE IdleClock WITH Idle <- IdleLimit, MaxTime <- IdleTime, Window <- TailWindow
Turn == INSTANCE TurnWatch WITH MaxTime <- TurnTime
Mute == INSTANCE MuteWatch
Conf == INSTANCE HostConfig WITH MaxVerb <- ConfVerb

-----------------------------------------------------------------------------
(* Every nonempty set of naturals has a least element, and induction. *)
LEMMA LeastNat == ASSUME NEW T, T \subseteq Nat, T # {} PROVE \E x \in T : \A y \in T : x <= y
  <1> DEFINE R == {ss \in Nat \X Nat : ss[1] < ss[2]}
  <1>1. IsWellFoundedOn(R, Nat)
    BY NatLessThanWellFounded DEF OpToRel
  <1> HIDE DEF R
  <1>2. PICK x \in T : \A y \in T : ~ (<<y, x>> \in R)
    BY <1>1, WFMin
  <1>3. ASSUME NEW y \in T PROVE x <= y
    <2>1. ~ (<<y, x>> \in R) /\ x \in Nat /\ y \in Nat
      BY <1>2
    <2>2. y < x => <<y, x>> \in R
      BY <2>1 DEF R
    <2> QED BY <2>1, <2>2
  <1> QED BY <1>3

LEMMA AllNats == ASSUME NEW T, 0 \in T, \A n \in Nat : n \in T => n + 1 \in T PROVE \A n \in Nat : n \in T
  <1> SUFFICES ASSUME NEW m \in Nat, m \notin T PROVE FALSE
    OBVIOUS
  <1> DEFINE U == {n \in Nat : n \notin T}
  <1>1. PICK x \in U : \A y \in U : x <= y
    <2>1. U \subseteq Nat /\ U # {}
      OBVIOUS
    <2> HIDE DEF U
    <2> QED BY <2>1, LeastNat
  <1>2. x # 0 /\ x - 1 \in Nat /\ ~(x <= x - 1)
    OBVIOUS
  <1>3. x - 1 \in T
    BY <1>1, <1>2
  <1>4. (x - 1) + 1 = x
    BY <1>2
  <1> QED BY <1>2, <1>3, <1>4

IsFold(g, F, start, n) == g[0] = start /\ \A i \in 1 .. n : g[i] = F[<<g[i - 1], i>>]

(* A definition by recursion on 0 .. n has the function it defines. *)
LEMMA FoldExists ==
  ASSUME NEW V, NEW n \in Nat, NEW start \in V, NEW F \in [V \X (1 .. n) -> V]
  PROVE  \E g \in [0 .. n -> V] : IsFold(g, F, start, n)
  <1> DEFINE Def(g, k) == g = [i \in 0 .. k |-> IF i = 0 THEN start ELSE F[<<g[i - 1], i>>]]
             Has(k) == \E g \in [0 .. k -> V] : Def(g, k)
             T == {k \in Nat : k <= n => Has(k)}
  <1>1. 0 \in T
    <2> DEFINE g == [i \in 0 .. 0 |-> start]
    <2>1. g \in [0 .. 0 -> V] /\ Def(g, 0)
      OBVIOUS
    <2> QED BY <2>1
  <1>2. ASSUME NEW k \in Nat, k \in T PROVE k + 1 \in T
    <2> HIDE DEF Has
    <2> SUFFICES ASSUME k + 1 <= n PROVE Has(k + 1)
      OBVIOUS
    <2>1. PICK h \in [0 .. k -> V] : Def(h, k)
      BY <1>2 DEF Has
    <2> DEFINE new == F[<<h[k], k + 1>>]
               g == [i \in 0 .. k + 1 |-> IF i = k + 1 THEN new ELSE h[i]]
    <2>2. h[k] \in V /\ new \in V
      <3>1. k \in 0 .. k /\ k + 1 \in 1 .. n
        OBVIOUS
      <3>2. h[k] \in V
        BY <2>1, <3>1
      <3> QED BY <3>1, <3>2
    <2>3. g \in [0 .. k + 1 -> V]
      BY <2>2
    <2>4. DOMAIN g = 0 .. k + 1 /\ g[k + 1] = new /\ \A i \in 0 .. k : g[i] = h[i]
      OBVIOUS
    <2> HIDE DEF g
    <2>5. ASSUME NEW i \in 0 .. k + 1 PROVE g[i] = IF i = 0 THEN start ELSE F[<<g[i - 1], i>>]
      <3>1. CASE i = k + 1
        <4>1. i # 0 /\ i - 1 = k /\ k \in 0 .. k
          BY <3>1
        <4>2. g[i - 1] = h[k]
          BY <2>4, <4>1
        <4> QED BY <2>4, <3>1, <4>1, <4>2
      <3>2. CASE i = 0
        <4>1. 0 \in 0 .. k
          OBVIOUS
        <4> QED BY <2>1, <2>4, <3>2, <4>1
      <3>3. CASE i # k + 1 /\ i # 0
        <4>1. i \in 0 .. k /\ i - 1 \in 0 .. k
          BY <3>3
        <4>2. h[i] = F[<<h[i - 1], i>>]
          BY <2>1, <3>3, <4>1
        <4>3. g[i] = h[i] /\ g[i - 1] = h[i - 1]
          BY <2>4, <4>1
        <4> QED BY <3>3, <4>2, <4>3
      <3> QED BY <3>1, <3>2, <3>3
    <2>6. g = [i \in 0 .. k + 1 |-> g[i]]
      BY <2>3
    <2>7. Def(g, k + 1)
      BY <2>5, <2>6
    <2> QED BY <2>3, <2>7 DEF Has
  <1> HIDE DEF T
  <1>3. n \in T
    BY <1>1, <1>2, AllNats
  <1>4. PICK g \in [0 .. n -> V] : Def(g, n)
    BY <1>3 DEF T
  <1>5. 0 \in 0 .. n /\ \A i \in 1 .. n : i \in 0 .. n /\ i # 0
    OBVIOUS
  <1>6. IsFold(g, F, start, n)
    BY <1>4, <1>5 DEF IsFold
  <1> QED BY <1>6

(* The greatest of some positions. *)
LEMMA GreatestNat ==
  ASSUME NEW n \in Nat, NEW S, S \subseteq 1 .. n, S # {}
  PROVE  \E m \in S : \A j \in S : j <= m
  <1> DEFINE U == {n - i : i \in S}
  <1>1. U \subseteq Nat /\ U # {}
    <2>1. ASSUME NEW i \in S PROVE n - i \in Nat
      OBVIOUS
    <2> QED BY <2>1
  <1> HIDE DEF U
  <1>2. PICK x \in U : \A y \in U : x <= y
    BY <1>1, LeastNat
  <1>3. PICK i \in S : x = n - i
    BY <1>2 DEF U
  <1>4. ASSUME NEW j \in S PROVE j <= i
    <2>1. n - j \in U
      BY DEF U
    <2>2. n - i <= n - j
      BY <1>2, <1>3, <2>1
    <2> QED BY <2>2
  <1> QED BY <1>4

-----------------------------------------------------------------------------
(* What `update` says of the daemon, for any versions, good and bad, and any   *)
(* number of verbs.  A daemon that serves wrote the discovery file itself.    *)
(* The discovery file of a serving daemon names its version. *)
ServesItsFile == daemon \in Good => live = daemon

(* A verb that still restarts or provisions says nothing of the daemon yet. *)
AtWork == pc \in {"install", "cycle", "undone"} => report = "none"

UpdateInv == Upd!TypeOK /\ ServesItsFile /\ AtWork /\ Upd!StampIsProven /\ Upd!SaysWhatRuns

LEMMA UpdateInit == ASSUME Upd!UpdateAssumption, Upd!Init PROVE UpdateInv
  BY DEF Upd!UpdateAssumption, Upd!Init, UpdateInv, Upd!TypeOK, ServesItsFile, AtWork, Upd!StampIsProven, Upd!SaysWhatRuns,
         Upd!Version, Upd!Absent, Upd!Step, Upd!Report

(* launchd runs what is on disk; what served before leaves its file at most. *)
LEMMA LaunchServes ==
  ASSUME Upd!UpdateAssumption, UpdateInv, Upd!Launched(bin), UNCHANGED bin
  PROVE  /\ daemon' = bin /\ daemon' \in Upd!Version /\ live' \in Upd!Version \cup {Upd!Absent}
         /\ ServesItsFile'
  BY DEF Upd!UpdateAssumption, UpdateInv, Upd!TypeOK, Upd!Launched, ServesItsFile

LEMMA CycleServes ==
  ASSUME Upd!UpdateAssumption, UpdateInv, Upd!CycleFailed \/ Upd!NotLoaded
  PROVE  /\ daemon' \in Upd!Version \cup {Upd!Absent} /\ live' \in Upd!Version \cup {Upd!Absent}
         /\ ServesItsFile'
  BY DEF Upd!UpdateAssumption, UpdateInv, Upd!TypeOK, Upd!CycleFailed, Upd!NotLoaded, ServesItsFile, Upd!Absent, Upd!Version

LEMMA FoundationKeeps ==
  ASSUME Upd!UpdateAssumption, UpdateInv,
         \/ Upd!Relaunch \/ Upd!Publish \/ Upd!Install \/ Upd!CycleDaemon \/ Upd!BeginRollback \/ Upd!RollbackRestart
  PROVE  UpdateInv'
  <1>1. CASE Upd!Relaunch
    BY <1>1, LaunchServes DEF Upd!Relaunch, UpdateInv, Upd!TypeOK, AtWork, Upd!StampIsProven, Upd!SaysWhatRuns, Upd!runtime, Upd!verb
  <1>2. CASE Upd!Publish
    BY <1>2 DEF Upd!Publish, UpdateInv, Upd!UpdateAssumption, Upd!TypeOK, AtWork, Upd!StampIsProven, Upd!SaysWhatRuns,
                ServesItsFile, Upd!runtime, Upd!verb, Upd!Version
  <1>3. CASE Upd!Install
    BY <1>3 DEF Upd!Install, Upd!Swap, UpdateInv, Upd!UpdateAssumption, Upd!TypeOK, AtWork, Upd!StampIsProven, Upd!SaysWhatRuns,
                ServesItsFile, Upd!runtime, Upd!Version, Upd!Step, Upd!Absent
  <1>4. CASE Upd!CycleDaemon
    <2>1. daemon' \in Upd!Version \cup {Upd!Absent} /\ live' \in Upd!Version \cup {Upd!Absent} /\ ServesItsFile'
      BY <1>4, LaunchServes, CycleServes DEF Upd!CycleDaemon, Upd!Cycled
    <2>2. \/ stamp' = stamp /\ proven' = proven
          \/ stamp' = bin /\ proven' = proven \cup {bin}
      BY <1>4 DEF Upd!CycleDaemon, Upd!Settled, Upd!NotHealthy
    <2> QED BY <1>4, <2>1, <2>2 DEF Upd!CycleDaemon, Upd!Settled, Upd!NotHealthy, UpdateInv, Upd!TypeOK, AtWork,
                Upd!StampIsProven, Upd!SaysWhatRuns, Upd!runtime, Upd!Report, Upd!Step
  <1>5. CASE Upd!BeginRollback
    BY <1>5 DEF Upd!BeginRollback, UpdateInv, Upd!UpdateAssumption, Upd!TypeOK, AtWork, Upd!StampIsProven, Upd!SaysWhatRuns,
                ServesItsFile, Upd!runtime, Upd!Version, Upd!Step, Upd!Absent, Upd!Report
  <1>6. CASE Upd!RollbackRestart
    <2>1. daemon' \in Upd!Version \cup {Upd!Absent} /\ live' \in Upd!Version \cup {Upd!Absent} /\ ServesItsFile'
      BY <1>6, LaunchServes, CycleServes DEF Upd!RollbackRestart, Upd!Cycled
    <2>2. \/ stamp' = stamp /\ proven' = proven
          \/ stamp' = bin /\ proven' = proven \cup {bin}
      BY <1>6 DEF Upd!RollbackRestart
    <2> QED BY <1>6, <2>1, <2>2 DEF Upd!RollbackRestart, UpdateInv, Upd!TypeOK, AtWork,
                Upd!StampIsProven, Upd!SaysWhatRuns, Upd!runtime, Upd!Report, Upd!Step
  <1> QED BY <1>1, <1>2, <1>3, <1>4, <1>5, <1>6

(* "already-latest": the file is the serving daemon's own, or there is none. *)
LEMMA UpdateBegins == ASSUME Upd!UpdateAssumption, UpdateInv, NEW force \in BOOLEAN, Upd!BeginUpdate(force) PROVE UpdateInv'
  <1>1. Upd!TypeOK'
    BY DEF Upd!BeginUpdate, UpdateInv, Upd!TypeOK, Upd!UpdateAssumption, Upd!foundation, Upd!runtime, Upd!Step, Upd!Report
  <1>2. Upd!SaysWhatRuns'
    BY DEF Upd!BeginUpdate, Upd!Stale, UpdateInv, Upd!TypeOK, Upd!SaysWhatRuns, ServesItsFile, Upd!foundation, Upd!Absent
  <1> QED BY <1>1, <1>2 DEF Upd!BeginUpdate, UpdateInv, AtWork, Upd!StampIsProven, ServesItsFile, Upd!foundation

LEMMA OthersKeep ==
  ASSUME Upd!UpdateAssumption, UpdateInv,
         \/ Upd!PublishRuntime \/ Upd!Interrupt \/ Upd!InstallFails \/ Upd!RuntimeGate \/ Upd!Deploy \/ Upd!RestartPeers
         \/ UNCHANGED Upd!vars
  PROVE  UpdateInv'
  <1>1. UNCHANGED Upd!foundation /\ verbs' = verbs /\ cli' = cli
    BY DEF Upd!PublishRuntime, Upd!Interrupt, Upd!InstallFails, Upd!RuntimeGate, Upd!Deploy, Upd!RestartPeers, Upd!vars, Upd!verb, Upd!foundation
  <1>2. /\ pack' \in [latest : Upd!Version, manifest : Upd!Version] /\ config' \in [Peer -> Upd!Version]
        /\ pc' \in Upd!Step /\ report' \in Upd!Report
    BY DEF Upd!PublishRuntime, Upd!Interrupt, Upd!InstallFails, Upd!RuntimeGate, Upd!Deploy, Upd!RestartPeers, Upd!vars, Upd!verb, Upd!runtime,
           UpdateInv, Upd!UpdateAssumption, Upd!TypeOK, Upd!Step, Upd!Report, Upd!Version
  <1>3. Upd!TypeOK'
    BY <1>1, <1>2 DEF Upd!foundation, UpdateInv, Upd!TypeOK
  <1>4. AtWork' /\ Upd!SaysWhatRuns'
    BY <1>1 DEF Upd!PublishRuntime, Upd!Interrupt, Upd!InstallFails, Upd!RuntimeGate, Upd!Deploy, Upd!RestartPeers, Upd!vars, Upd!verb,
                Upd!foundation, UpdateInv, AtWork, Upd!SaysWhatRuns
  <1> QED BY <1>1, <1>3, <1>4 DEF Upd!foundation, UpdateInv, ServesItsFile, Upd!StampIsProven

LEMMA UpdateNext == ASSUME Upd!UpdateAssumption, UpdateInv, [Upd!Next]_Upd!vars PROVE UpdateInv'
  BY FoundationKeeps, UpdateBegins, OthersKeep DEF Upd!Next

LEMMA UpdateSafe == ASSUME UpdateInv PROVE Upd!SaysWhatRuns
  BY DEF UpdateInv

(* "already-latest" is said of a serving daemon only when it runs the          *)
(* installed binary, and the healthy stamp vouches only for a version that a   *)
(* health check passed.                                                       *)
THEOREM TellsTheTruth ==
  ASSUME Upd!UpdateAssumption PROVE Upd!Spec => [](Upd!SaysWhatRuns /\ Upd!StampIsProven /\ Upd!TypeOK)
  <1>1. Upd!Init => UpdateInv
    BY UpdateInit
  <1>2. UpdateInv /\ [Upd!Next]_Upd!vars => UpdateInv'
    BY UpdateNext
  <1>3. UpdateInv => Upd!SaysWhatRuns /\ Upd!StampIsProven /\ Upd!TypeOK
    BY DEF UpdateInv
  <1> QED BY <1>1, <1>2, <1>3, PTL DEF Upd!Spec

-----------------------------------------------------------------------------
(* The newest Keep * Cap lines are always in the log, for any writers, sizes and *)
(* number of backups: only a full file is rotated, so the first line of the k-th *)
(* backup is at least k full files behind the newest, and all from it on is kept.*)
First(k) == backup[k][1]

LogTyped ==
  /\ base \in Seq(Nat) /\ backup \in Seq(Seq(Nat)) /\ Len(backup) <= Keep
  /\ lines \in Nat /\ Len(base) <= lines
  /\ \A k \in 1 .. Len(backup) : backup[k] # <<>>

BaseIsNewest == \A j \in 1 .. Len(base) : base[j] = lines - Len(base) + j

FullBackups ==
  \A k \in 1 .. Len(backup) : First(k) + k * Cap + Len(base) <= lines + 1

AllSince ==
  \A k \in 1 .. Len(backup) : \A i \in 1 .. lines : i >= First(k) =>
    \/ i \in Ev!Range(base)
    \/ \E l \in 1 .. k : i \in Ev!Range(backup[l])

NothingCutYet == Len(backup) < Keep => \A i \in 1 .. lines : Ev!Kept(i)

LogInv == LogTyped /\ BaseIsNewest /\ FullBackups /\ AllSince /\ NothingCutYet

LEMMA LogInit == ASSUME Ev!EventLogAssumption, Ev!Init PROVE LogInv
  BY DEF Ev!Init, LogInv, LogTyped, BaseIsNewest, FullBackups, AllSince, NothingCutYet, Ev!EventLogAssumption

(* One line more at the end of the file. *)
LEMMA AppendKeepsLog ==
  ASSUME Ev!EventLogAssumption, LogInv, lines' = lines + 1, base' = Append(base, lines'), backup' = backup
  PROVE  LogInv'
  <1>1. /\ base' \in Seq(Nat) /\ lines' \in Nat /\ Len(base') = Len(base) + 1 /\ Len(base) \in Nat /\ lines \in Nat
        /\ DOMAIN base = 1 .. Len(base) /\ DOMAIN base' = 1 .. Len(base) + 1
        /\ \A j \in 1 .. Len(base) : base'[j] = base[j]
        /\ base'[Len(base) + 1] = lines + 1
    BY DEF LogInv, LogTyped
  <1>2. LogTyped'
    BY <1>1 DEF LogInv, LogTyped
  <1>3. BaseIsNewest'
    BY <1>1 DEF LogInv, LogTyped, BaseIsNewest
  <1>4. Ev!Range(base) \cup {lines'} \subseteq Ev!Range(base')
    <2>1. Len(base) + 1 \in DOMAIN base' /\ DOMAIN base \subseteq DOMAIN base'
      BY <1>1
    <2> QED BY <1>1, <2>1 DEF Ev!Range
  <1>5. \A i \in 1 .. lines' : i \in 1 .. lines \/ i = lines'
    BY <1>1
  <1>6. FullBackups'
    <2> SUFFICES ASSUME NEW k \in 1 .. Len(backup) PROVE First(k) + k * Cap + Len(base') <= lines' + 1
      BY DEF FullBackups, First
    <2>1. First(k) + k * Cap + Len(base) <= lines + 1
      BY DEF LogInv, FullBackups
    <2>2. First(k) \in Nat /\ k * Cap \in Nat
      BY DEF LogInv, LogTyped, First, Ev!EventLogAssumption
    <2> QED BY <1>1, <2>1, <2>2
  <1>7. AllSince'
    BY <1>4, <1>5 DEF LogInv, AllSince, First
  <1>8. NothingCutYet'
    BY <1>4, <1>5 DEF LogInv, NothingCutYet, Ev!Kept
  <1> QED BY <1>2, <1>3, <1>6, <1>7, <1>8 DEF LogInv

(* What the backups are after a rotation: the file, then those there were. *)
LEMMA BackupsAre ==
  ASSUME Ev!EventLogAssumption, LogTyped
  PROVE  LET n == IF Len(backup) < Keep THEN Len(backup) + 1 ELSE Keep IN
         /\ Ev!Backups \in Seq(Seq(Nat)) /\ Len(Ev!Backups) = n /\ n \in 1 .. Keep
         /\ Ev!Backups[1] = base
         /\ \A k \in 2 .. n : k - 1 \in 1 .. Len(backup) /\ Ev!Backups[k] = backup[k - 1]
  <1> DEFINE n == IF Len(backup) < Keep THEN Len(backup) + 1 ELSE Keep
             all == <<base>> \o backup
  <1>1. /\ Len(backup) \in Nat /\ n \in Nat /\ 1 <= n /\ n <= Len(backup) + 1 /\ n <= Keep /\ Keep \in Nat
    BY DEF LogTyped, Ev!EventLogAssumption
  <1>2. <<base>> \in Seq(Seq(Nat)) /\ backup \in Seq(Seq(Nat))
    BY DEF LogTyped
  <1>3. all \in Seq(Seq(Nat)) /\ Len(all) = Len(backup) + 1
    BY <1>2
  <1>4. all[1] = base /\ \A k \in 2 .. Len(backup) + 1 : all[k] = backup[k - 1]
    BY <1>1, <1>2, <1>3
  <1> HIDE DEF n, all
  <1>5. SubSeq(all, 1, n) \in Seq(Seq(Nat)) /\ Len(SubSeq(all, 1, n)) = n /\ \A k \in 1 .. n : SubSeq(all, 1, n)[k] = all[k]
    BY <1>1, <1>3
  <1>6. Ev!Backups = SubSeq(all, 1, n)
    BY DEF Ev!Backups, n, all
  <1>7. \A k \in 2 .. n : k - 1 \in 1 .. Len(backup) /\ k \in 2 .. Len(backup) + 1 /\ k \in 1 .. n
    BY <1>1
  <1>8. 1 \in 1 .. n
    BY <1>1
  <1>9. /\ Ev!Backups \in Seq(Seq(Nat)) /\ Len(Ev!Backups) = n /\ n \in 1 .. Keep
        /\ Ev!Backups[1] = base
        /\ \A k \in 2 .. n : k - 1 \in 1 .. Len(backup) /\ Ev!Backups[k] = backup[k - 1]
    BY <1>1, <1>4, <1>5, <1>6, <1>7, <1>8
  <1> QED BY <1>9 DEF n

LEMMA RotateKeepsLog ==
  ASSUME Ev!EventLogAssumption, LogInv, Ev!Due, backup' = Ev!Backups, base' = <<>>, lines' = lines
  PROVE  LogInv'
  <1> DEFINE n == IF Len(backup) < Keep THEN Len(backup) + 1 ELSE Keep
  <1>1. /\ backup' \in Seq(Seq(Nat)) /\ Len(backup') = n /\ n \in 1 .. Keep
        /\ backup'[1] = base
        /\ \A k \in 2 .. n : k - 1 \in 1 .. Len(backup) /\ backup'[k] = backup[k - 1]
    BY BackupsAre DEF LogInv
  <1>2. /\ Len(base) \in Nat /\ lines \in Nat /\ Cap \in Nat /\ Cap >= 1 /\ Len(base) >= Cap /\ Keep \in Nat
        /\ Len(backup) \in Nat /\ Len(base) <= lines /\ n \in Nat
        /\ Len(backup) < Keep => n = Len(backup) + 1
        /\ n < Keep => Len(backup) < Keep
    BY DEF LogInv, LogTyped, Ev!Due, Ev!Full, Ev!EventLogAssumption
  <1> HIDE DEF n
  <1>3. base # <<>> /\ base[1] = lines - Len(base) + 1 /\ base' = <<>> /\ Len(base') = 0
    BY <1>2 DEF LogInv, LogTyped, BaseIsNewest
  <1>4. LogTyped'
    <2>1. ASSUME NEW k \in 1 .. n PROVE backup'[k] # <<>>
      <3>1. k = 1 \/ (k \in 2 .. n)
        BY <1>1
      <3>2. backup'[1] # <<>>
        BY <1>1, <1>3
      <3>3. k \in 2 .. n => backup'[k] # <<>>
        BY <1>1 DEF LogInv, LogTyped
      <3> QED BY <3>1, <3>2, <3>3
    <2>2. base' \in Seq(Nat)
      BY <1>3
    <2> QED BY <1>1, <1>2, <1>3, <2>1, <2>2 DEF LogTyped
  <1>5. BaseIsNewest'
    BY <1>3 DEF BaseIsNewest
  <1>6. FullBackups'
    <2> SUFFICES ASSUME NEW k \in 1 .. n PROVE backup'[k][1] + k * Cap + Len(base') <= lines' + 1
      BY <1>1 DEF FullBackups, First
    <2>1. CASE k = 1
      BY <1>1, <1>2, <1>3, <2>1
    <2>2. CASE k # 1
      <3>1. k \in 2 .. n /\ k - 1 \in 1 .. Len(backup)
        BY <1>1, <2>2
      <3>2. backup[k - 1][1] + (k - 1) * Cap + Len(base) <= lines + 1
        BY <3>1 DEF LogInv, FullBackups, First
      <3>3. backup'[k][1] = backup[k - 1][1] /\ backup[k - 1][1] \in Nat
        <4>1. backup'[k] = backup[k - 1]
          BY <1>1, <3>1
        <4>2. backup[k - 1] \in Seq(Nat) /\ backup[k - 1] # <<>>
          BY <3>1 DEF LogInv, LogTyped
        <4> QED BY <4>1, <4>2
      <3>4. (k - 1) * Cap + Cap = k * Cap /\ (k - 1) * Cap \in Nat /\ k * Cap \in Nat
        BY <1>2, <3>1
      <3> QED BY <1>2, <1>3, <3>2, <3>3, <3>4
    <2> QED BY <2>1, <2>2
  <1>7. AllSince'
    <2> SUFFICES ASSUME NEW k \in 1 .. n, NEW i \in 1 .. lines, i >= backup'[k][1]
                 PROVE  \E l \in 1 .. k : i \in Ev!Range(backup'[l])
      BY <1>1 DEF AllSince, First
    <2>1. i \in Ev!Range(base) => \E l \in 1 .. k : i \in Ev!Range(backup'[l])
      BY <1>1
    <2>2. CASE k = 1
      <3>1. i - (lines - Len(base)) \in 1 .. Len(base)
        BY <1>1, <1>2, <1>3, <2>2
      <3>2. base[i - (lines - Len(base))] = i /\ DOMAIN base = 1 .. Len(base)
        <4>1. base[i - (lines - Len(base))] = lines - Len(base) + (i - (lines - Len(base)))
          BY <3>1 DEF LogInv, BaseIsNewest
        <4>2. DOMAIN base = 1 .. Len(base)
          BY DEF LogInv, LogTyped
        <4> QED BY <1>2, <4>1, <4>2
      <3>3. i \in Ev!Range(base)
        BY <3>1, <3>2 DEF Ev!Range
      <3> QED BY <2>1, <3>3
    <2>3. CASE k # 1
      <3>1. k \in 2 .. n /\ k - 1 \in 1 .. Len(backup) /\ backup'[k] = backup[k - 1]
        BY <1>1, <2>3
      <3>2. i \in Ev!Range(base) \/ \E l \in 1 .. k - 1 : i \in Ev!Range(backup[l])
        BY <3>1 DEF LogInv, AllSince, First
      <3>3. ASSUME NEW l \in 1 .. k - 1, i \in Ev!Range(backup[l])
            PROVE  \E m \in 1 .. k : i \in Ev!Range(backup'[m])
        <4>1. l + 1 \in 2 .. n /\ l + 1 \in 1 .. k /\ (l + 1) - 1 = l
          BY <1>1, <1>2, <3>1
        <4>2. backup'[l + 1] = backup[l]
          BY <1>1, <4>1
        <4> QED BY <3>3, <4>1, <4>2
      <3> QED BY <2>1, <3>2, <3>3
    <2> QED BY <2>2, <2>3
  <1>8. NothingCutYet'
    <2> SUFFICES ASSUME n < Keep, NEW i \in 1 .. lines PROVE \E k \in 1 .. n : i \in Ev!Range(backup'[k])
      BY <1>1 DEF NothingCutYet, Ev!Kept
    <2>1. Len(backup) < Keep /\ n = Len(backup) + 1
      BY <1>2
    <2>2. i \in Ev!Range(base) \/ \E k \in 1 .. Len(backup) : i \in Ev!Range(backup[k])
      BY <2>1 DEF LogInv, NothingCutYet, Ev!Kept
    <2>3. ASSUME NEW k \in 1 .. Len(backup) PROVE k + 1 \in 1 .. n /\ backup'[k + 1] = backup[k]
      <3>1. k + 1 \in 2 .. n /\ (k + 1) - 1 = k
        BY <1>2, <2>1
      <3> QED BY <1>1, <3>1
    <2> QED BY <1>1, <2>2, <2>3
  <1> QED BY <1>4, <1>5, <1>6, <1>7, <1>8 DEF LogInv

LEMMA FileStays == ASSUME LogInv, UNCHANGED <<base, backup, lines>> PROVE LogInv'
  BY DEF LogInv, LogTyped, BaseIsNewest, FullBackups, First, AllSince, NothingCutYet, Ev!Kept

LEMMA LogNext == ASSUME Ev!EventLogAssumption, LogInv, [Ev!Next]_Ev!vars PROVE LogInv'
  <1>1. CASE Ev!Tick \/ UNCHANGED Ev!vars
    BY <1>1, FileStays DEF Ev!Tick, Ev!TickStat, Ev!TickRead, Ev!TickFails, Ev!file, Ev!vars
  <1>2. ASSUME NEW w \in Writer, Ev!Look(w) \/ Ev!TakeLock(w) \/ Ev!DieRotating(w) PROVE LogInv'
    BY <1>2, FileStays DEF Ev!Look, Ev!TakeLock, Ev!DieRotating, Ev!file
  <1>3. ASSUME NEW w \in Writer, Ev!Append1(w) PROVE LogInv'
    BY <1>3, AppendKeepsLog DEF Ev!Append1
  <1>4. ASSUME NEW w \in Writer, Ev!Rotate(w) PROVE LogInv'
    BY <1>4, RotateKeepsLog, FileStays DEF Ev!Rotate, Ev!Rotated, Ev!file
  <1> QED BY <1>1, <1>2, <1>3, <1>4 DEF Ev!Next

(* The values of the variables: a line is promised before it is appended, so there  *)
(* are never more than the bound.                                                 *)
Busy == {v \in Writer : at[v] # "idle"}
EventLines ==
  /\ at \in [Writer -> {"idle", "lock", "rotate", "append"}]
  /\ lines \in Nat /\ lines + Cardinality(Busy) <= MaxLine
FilesTyped == base \in Seq(1 .. MaxLine) /\ backup \in Seq(Seq(1 .. MaxLine))
LockTyped ==
  /\ there \in BOOLEAN /\ lock \in Writer \cup {"free", "stale"} /\ faults \in 0 .. MaxFault
ReadTyped == offset \in 0 .. MaxLine /\ sized \in 0 .. Ev!NoSize /\ seen \in Seq(1 .. MaxLine)

LogTypes == EventLines /\ FilesTyped /\ LockTyped /\ ReadTyped

(* Finite and how many mean here what they mean in the module. *)
LEMMA EvCounts == ASSUME NEW S PROVE (Ev!IsFiniteSet(S) <=> IsFiniteSet(S)) /\ Ev!Cardinality(S) = Cardinality(S)
  BY DEF Ev!IsFiniteSet, IsFiniteSet, Ev!Cardinality, Cardinality

LEMMA LogIsTyped == ASSUME Ev!EventLogAssumption, LogInv, LogTypes PROVE Ev!TypeOK
  <1>1. Cardinality(Busy) \in Nat
    BY EvCounts, FS_Subset, FS_CardinalityType DEF Busy, Ev!EventLogAssumption
  <1>2. lines \in 0 .. MaxLine
    BY <1>1 DEF LogTypes, EventLines, Ev!EventLogAssumption
  <1> QED BY <1>2 DEF LogInv, LogTyped, LogTypes, EventLines, FilesTyped, LockTyped, ReadTyped, Ev!TypeOK

LEMMA LogTypeInit == ASSUME Ev!EventLogAssumption, Ev!Init PROVE LogTypes
  <1>1. Busy = {}
    BY DEF Ev!Init, Busy
  <1>2. EventLines
    BY EvCounts, <1>1, FS_EmptySet DEF Ev!Init, EventLines, Ev!EventLogAssumption
  <1>3. <<>> \in Seq(1 .. MaxLine) /\ <<>> \in Seq(Seq(1 .. MaxLine)) /\ 0 \in 0 .. MaxLine /\ Ev!NoSize \in 0 .. Ev!NoSize
        /\ 0 \in 0 .. MaxFault
    BY DEF Ev!EventLogAssumption, Ev!NoSize
  <1> QED BY <1>2, <1>3 DEF Ev!Init, LogTypes, FilesTyped, LockTyped, ReadTyped

(* A writer that begins, and one that is through. *)
LEMMA BusyCount ==
  ASSUME Ev!EventLogAssumption
  PROVE  /\ IsFiniteSet(Busy) /\ Cardinality(Busy) \in Nat
         /\ \A w \in Writer : /\ w \notin Busy => Cardinality(Busy \cup {w}) = Cardinality(Busy) + 1
                              /\ w \in Busy => Cardinality(Busy \ {w}) = Cardinality(Busy) - 1
  <1>1. IsFiniteSet(Busy)
    BY EvCounts, FS_Subset DEF Busy, Ev!EventLogAssumption
  <1> QED BY <1>1, FS_CardinalityType, FS_AddElement, FS_RemoveElement

LEMMA LineTypeNext ==
  ASSUME Ev!EventLogAssumption, LogTypes, [Ev!Next]_Ev!vars
  PROVE  EventLines'
  <1>0. EventLines
    BY DEF LogTypes
  <1>1. ASSUME UNCHANGED <<at, lines>> PROVE EventLines'
    BY <1>0, <1>1 DEF EventLines, Busy
  <1>2. ASSUME NEW w \in Writer, NEW x \in {"lock", "rotate", "append"}, at' = [at EXCEPT ![w] = x], UNCHANGED lines,
               at[w] # "idle" \/ lines + Cardinality(Busy) < MaxLine
        PROVE  EventLines'
    <2>1. Busy' = Busy \cup {w} /\ at' \in [Writer -> {"idle", "lock", "rotate", "append"}]
      BY <1>0, <1>2 DEF EventLines, Busy
    <2>2. CASE at[w] = "idle"
      <3>1. w \notin Busy
        BY <2>2 DEF Busy
      <3>2. Cardinality(Busy') = Cardinality(Busy) + 1 /\ Cardinality(Busy) \in Nat
        BY <1>2, <2>1, <3>1, BusyCount
      <3>3. lines \in Nat /\ lines + Cardinality(Busy) < MaxLine /\ lines' = lines /\ MaxLine \in Nat
        BY <1>0, <1>2, <2>2 DEF EventLines, Ev!EventLogAssumption
      <3> QED BY <2>1, <3>2, <3>3 DEF EventLines
    <2>3. CASE at[w] # "idle"
      <3>1. Busy' = Busy
        BY <2>1, <2>3 DEF Busy
      <3> QED BY <1>0, <1>2, <2>1, <3>1 DEF EventLines
    <2> QED BY <2>2, <2>3
  <1>3. ASSUME NEW w \in Writer, at[w] # "idle", at' = [at EXCEPT ![w] = "idle"], lines' \in {lines, lines + 1}
        PROVE  EventLines'
    <2>1. Busy' = Busy \ {w} /\ w \in Busy /\ at' \in [Writer -> {"idle", "lock", "rotate", "append"}]
      BY <1>0, <1>3 DEF EventLines, Busy
    <2> QED BY <1>0, <1>3, <2>1, BusyCount DEF EventLines, Ev!EventLogAssumption
  <1>4. CASE Ev!Tick \/ UNCHANGED Ev!vars
    BY <1>1, <1>4 DEF Ev!Tick, Ev!TickStat, Ev!TickRead, Ev!TickFails, Ev!vars
  <1>5. ASSUME NEW w \in Writer, Ev!Look(w) \/ Ev!TakeLock(w) \/ Ev!Rotate(w) PROVE EventLines'
    BY EvCounts, <1>2, <1>5 DEF Ev!Look, Ev!TakeLock, Ev!Rotate, Busy
  <1>6. ASSUME NEW w \in Writer, Ev!Append1(w) \/ Ev!DieRotating(w) PROVE EventLines'
    BY <1>3, <1>6 DEF Ev!Append1, Ev!DieRotating
  <1> QED BY <1>4, <1>5, <1>6 DEF Ev!Next

(* There is room for the line that is appended. *)
LEMMA Room ==
  ASSUME Ev!EventLogAssumption, LogTypes
  PROVE  lines \in 0 .. MaxLine /\ \A w \in Writer : Ev!Append1(w) => lines + 1 \in 1 .. MaxLine
  <1>1. Cardinality(Busy) \in Nat /\ lines \in Nat /\ lines + Cardinality(Busy) <= MaxLine
    BY BusyCount DEF LogTypes, EventLines
  <1>2. ASSUME NEW w \in Writer, Ev!Append1(w) PROVE lines + 1 \in 1 .. MaxLine
    <2>1. w \in Busy /\ IsFiniteSet(Busy)
      BY <1>2, BusyCount DEF Ev!Append1, Busy
    <2>2. Cardinality(Busy \ {w}) = Cardinality(Busy) - 1 /\ Cardinality(Busy \ {w}) \in Nat
      BY <2>1, BusyCount, FS_Subset, FS_CardinalityType
    <2> QED BY <1>1, <2>2 DEF Ev!EventLogAssumption
  <1> QED BY <1>1, <1>2 DEF Ev!EventLogAssumption

LEMMA PartOf ==
  ASSUME NEW S, NEW q \in Seq(S), NEW m \in Nat \ {0}, NEW n \in Nat, n <= Len(q)
  PROVE  SubSeq(q, m, n) \in Seq(S)
  <1>1. CASE m <= n
    BY <1>1
  <1>2. CASE m > n
    <2>1. SubSeq(q, m, n) = <<>>
      BY <1>2
    <2> QED BY <2>1
  <1> QED BY <1>1, <1>2

LEMMA FilesTypeNext == ASSUME Ev!EventLogAssumption, LogInv, LogTypes, [Ev!Next]_Ev!vars PROVE FilesTyped'
  <1>0. FilesTyped
    BY DEF LogTypes
  <1>1. CASE UNCHANGED <<base, backup>>
    BY <1>0, <1>1 DEF FilesTyped
  <1>2. ASSUME NEW w \in Writer, Ev!Append1(w) PROVE FilesTyped'
    <2>1. lines' \in 1 .. MaxLine /\ base' = Append(base, lines') /\ backup' = backup
      BY <1>2, Room DEF Ev!Append1
    <2> QED BY <1>0, <2>1 DEF FilesTyped
  <1>3. ASSUME NEW w \in Writer, Ev!Rotate(w) PROVE FilesTyped'
    <2>1. CASE Ev!Due
      <3>1. base' = <<>> /\ backup' = Ev!Backups
        BY <1>3, <2>1 DEF Ev!Rotate, Ev!Rotated
      <3>2. <<base>> \o backup \in Seq(Seq(1 .. MaxLine)) /\ Len(<<base>> \o backup) = Len(backup) + 1 /\ Len(backup) \in Nat
        BY <1>0 DEF FilesTyped
      <3>3. Ev!Backups \in Seq(Seq(1 .. MaxLine))
        <4> DEFINE n == IF Len(backup) < Keep THEN Len(backup) + 1 ELSE Keep
        <4>1. n \in Nat /\ n <= Len(backup) + 1
          BY <3>2 DEF Ev!EventLogAssumption
        <4> HIDE DEF n
        <4>2. SubSeq(<<base>> \o backup, 1, n) \in Seq(Seq(1 .. MaxLine))
          BY <3>2, <4>1, PartOf
        <4> QED BY <4>2 DEF Ev!Backups, n
      <3> QED BY <3>1, <3>3 DEF FilesTyped
    <2> QED BY <1>0, <1>1, <1>3, <2>1 DEF Ev!Rotate, Ev!Rotated, Ev!file
  <1> QED BY EvCounts, <1>1, <1>2, <1>3 DEF Ev!Next, Ev!Tick, Ev!TickStat, Ev!TickRead, Ev!TickFails, Ev!Look, Ev!TakeLock, Ev!DieRotating, Ev!vars, Ev!file

LEMMA LockTypeNext ==
  ASSUME Ev!EventLogAssumption, LogInv, LogTypes, [Ev!Next]_Ev!vars
  PROVE  LockTyped'
  <1>0. LockTyped /\ MaxFault \in Nat
    BY DEF LogTypes, Ev!EventLogAssumption
  <1>1. CASE Ev!TickStat \/ Ev!TickRead \/ Ev!TickFails
    BY <1>0, <1>1 DEF Ev!TickStat, Ev!TickRead, Ev!TickFails, Ev!file, LockTyped
  <1>2. ASSUME NEW w \in Writer, Ev!Look(w) PROVE LockTyped'
    BY EvCounts, <1>0, <1>2 DEF Ev!Look, Ev!file, LockTyped
  <1>3. ASSUME NEW w \in Writer, Ev!TakeLock(w) PROVE LockTyped'
    BY <1>0, <1>3 DEF Ev!TakeLock, Ev!file, LockTyped
  <1>4. ASSUME NEW w \in Writer, Ev!Rotate(w) PROVE LockTyped'
    BY <1>0, <1>4 DEF Ev!Rotate, Ev!Rotated, Ev!file, LockTyped
  <1>5. ASSUME NEW w \in Writer, Ev!Append1(w) PROVE LockTyped'
    BY <1>0, <1>5 DEF Ev!Append1, LockTyped
  <1>6. ASSUME NEW w \in Writer, Ev!DieRotating(w) PROVE LockTyped'
    BY <1>0, <1>6 DEF Ev!DieRotating, Ev!file, LockTyped
  <1>7. CASE UNCHANGED Ev!vars
    BY <1>0, <1>7 DEF Ev!vars, Ev!file, Ev!tail, LockTyped
  <1> QED BY <1>1, <1>2, <1>3, <1>4, <1>5, <1>6, <1>7 DEF Ev!Next, Ev!Tick

LEMMA ReadTypeNext == ASSUME Ev!EventLogAssumption, LogInv, LogTypes, [Ev!Next]_Ev!vars PROVE ReadTyped'
  <1>0. ReadTyped
    BY DEF LogTypes
  <1>1. CASE UNCHANGED <<offset, sized, seen>>
    BY <1>0, <1>1 DEF ReadTyped
  <1>2. /\ Len(base) \in 0 .. MaxLine /\ 0 \in 0 .. MaxLine /\ MaxLine \in Nat /\ Ev!NoSize = MaxLine + 1
        /\ base \in Seq(1 .. MaxLine)
    BY Room DEF LogInv, LogTyped, LogTypes, FilesTyped, Ev!EventLogAssumption, Ev!NoSize
  <1>3. CASE Ev!TickStat
    <2>1. offset' \in {0, offset} /\ sized' \in {sized, Ev!NoSize, Len(base)} /\ seen' = seen
      BY <1>3 DEF Ev!TickStat
    <2> QED BY <1>0, <1>2, <2>1 DEF ReadTyped
  <1>4. CASE Ev!TickRead
    <2> DEFINE n == IF sized < Len(base) THEN sized ELSE Len(base)
    <2>1. seen' = seen \o SubSeq(base, offset + 1, n) /\ offset' = sized /\ sized' = Ev!NoSize /\ sized # Ev!NoSize
      BY <1>4 DEF Ev!TickRead
    <2>2. n \in Nat /\ n <= Len(base) /\ offset + 1 \in Nat \ {0} /\ sized \in 0 .. MaxLine
      BY <1>0, <1>2, <2>1 DEF ReadTyped
    <2> HIDE DEF n
    <2>3. SubSeq(base, offset + 1, n) \in Seq(1 .. MaxLine)
      BY <1>2, <2>2, PartOf
    <2>4. seen' \in Seq(1 .. MaxLine)
      BY <1>0, <2>1, <2>3 DEF ReadTyped
    <2> QED BY <1>2, <2>1, <2>2, <2>4 DEF ReadTyped
  <1>5. CASE Ev!TickFails
    BY <1>0, <1>2, <1>5 DEF Ev!TickFails, ReadTyped
  <1> QED BY EvCounts, <1>1, <1>3, <1>4, <1>5 DEF Ev!Next, Ev!Tick, Ev!Look, Ev!TakeLock, Ev!Rotate, Ev!Append1, Ev!DieRotating, Ev!vars, Ev!tail

LEMMA LogTypeNext == ASSUME Ev!EventLogAssumption, LogInv, LogTypes, [Ev!Next]_Ev!vars PROVE LogTypes'
  BY LineTypeNext, FilesTypeNext, LockTypeNext, ReadTypeNext DEF LogTypes

LEMMA LogSafe == ASSUME Ev!EventLogAssumption, LogInv PROVE Ev!NewestKept
  <1> SUFFICES ASSUME NEW i \in 1 .. lines, i + Keep * Cap > lines PROVE Ev!Kept(i)
    BY DEF Ev!NewestKept
  <1>1. CASE Len(backup) < Keep
    BY <1>1 DEF LogInv, NothingCutYet
  <1>2. CASE ~(Len(backup) < Keep)
    <2>1. Len(backup) = Keep /\ Keep \in 1 .. Len(backup) /\ Keep * Cap \in Nat
      BY <1>2 DEF LogInv, LogTyped, Ev!EventLogAssumption
    <2>2. First(Keep) + Keep * Cap + Len(base) <= lines + 1 /\ First(Keep) \in Nat /\ Len(base) \in Nat /\ lines \in Nat
      BY <2>1 DEF LogInv, LogTyped, FullBackups, First
    <2>3. i >= First(Keep)
      BY <2>1, <2>2
    <2> QED BY <2>1, <2>3 DEF LogInv, AllSince, Ev!Kept
  <1> QED BY <1>1, <1>2

(* However many processes find the file full at once, the newest Keep * Cap lines *)
(* are always still in the log (storage/rotatelog.ts, the check under the lock).  *)
THEOREM NewestLinesKept == ASSUME Ev!EventLogAssumption PROVE Ev!Spec => []Ev!NewestKept
  <1>1. Ev!Init => LogInv
    BY LogInit
  <1>2. LogInv /\ [Ev!Next]_Ev!vars => LogInv'
    BY LogNext
  <1>3. LogInv => Ev!NewestKept
    BY LogSafe
  <1> QED BY <1>1, <1>2, <1>3, PTL DEF Ev!Spec

-----------------------------------------------------------------------------
(* No session is reaped within the bound of its last work, in a folder of its  *)
(* own: for any bounds, sizes of records, window and number of records the     *)
(* reader ends on the last entry with a time.  A later window shows all that a  *)
(* smaller one shows, and the doubling reaches the whole file; both by induction*)
(* over the data, from the least element of a set of naturals.                  *)
LEMMA Greatest ==
  ASSUME NEW n \in Nat, NEW S, S \subseteq 1 .. n, S # {}
  PROVE  Idle!LastOf(S) \in S /\ \A j \in S : j <= Idle!LastOf(S)
  BY GreatestNat DEF Idle!LastOf

Entry == [size : Nat \ {0}, ts : Int]

LEMMA RecordsAre ==
  ASSUME own \in Seq(Entry), NEW i \in 1 .. Len(own) PROVE own[i].size \in Nat \ {0} /\ own[i].ts \in Int
  <1>1. own[i] \in Entry
    OBVIOUS
  <1> QED BY <1>1 DEF Entry

LEMMA EndsExist ==
  ASSUME own \in Seq(Entry)
  PROVE  /\ Idle!Ends \in [0 .. Len(own) -> Nat] /\ Idle!Ends[0] = 0
         /\ \A n \in 1 .. Len(own) : Idle!Ends[n] = Idle!Ends[n - 1] + own[n].size
  <1> DEFINE k == Len(own)
             F == [p \in Nat \X (1 .. k) |-> p[1] + own[p[2]].size]
             Def(g) == g = [n \in 0 .. k |-> IF n = 0 THEN 0 ELSE g[n - 1] + own[n].size]
  <1>1. /\ k \in Nat /\ F \in [Nat \X (1 .. k) -> Nat]
        /\ \A v \in Nat, i \in 1 .. k : F[<<v, i>>] = v + own[i].size
    BY RecordsAre
  <1> HIDE DEF F, k
  <1>2. PICK h \in [0 .. k -> Nat] : IsFold(h, F, 0, k)
    BY <1>1, FoldExists
  <1>3. Def(h)
    <2>1. ASSUME NEW n \in 0 .. k PROVE h[n] = IF n = 0 THEN 0 ELSE h[n - 1] + own[n].size
      <3>1. n # 0 => n - 1 \in 0 .. k /\ n \in 1 .. k
        BY <1>1
      <3> QED BY <1>1, <1>2, <3>1 DEF IsFold
    <2> QED BY <1>2, <2>1
  <1>4. Def(Idle!Ends)
    BY <1>3 DEF Idle!Ends, k
  <1> DEFINE T == {n \in Nat : n <= k => Idle!Ends[n] \in Nat}
  <1>5. 0 \in T
    BY <1>1, <1>4
  <1>6. ASSUME NEW n \in Nat, n \in T PROVE n + 1 \in T
    <2> SUFFICES ASSUME n + 1 <= k PROVE Idle!Ends[n + 1] \in Nat
      OBVIOUS
    <2>1. n + 1 \in 1 .. k /\ (n + 1) - 1 = n /\ Idle!Ends[n] \in Nat
      BY <1>1, <1>6
    <2>2. Idle!Ends[n + 1] = Idle!Ends[n] + own[n + 1].size /\ own[n + 1].size \in Nat
      BY <1>4, <2>1, RecordsAre DEF k
    <2> QED BY <2>1, <2>2
  <1> HIDE DEF T
  <1>7. \A n \in Nat : n \in T
    BY <1>5, <1>6, AllNats
  <1>8. ASSUME NEW n \in 0 .. k PROVE Idle!Ends[n] \in Nat
    BY <1>7 DEF T
  <1>9. DOMAIN Idle!Ends = 0 .. k /\ Idle!Ends[0] = 0 /\ \A n \in 1 .. k : Idle!Ends[n] = Idle!Ends[n - 1] + own[n].size
    BY <1>1, <1>4
  <1> QED BY <1>4, <1>8, <1>9 DEF k

LEMMA EndsGrow ==
  ASSUME own \in Seq(Entry)
  PROVE  \A i, j \in 0 .. Len(own) : i < j => Idle!Ends[i] < Idle!Ends[j]
  <1> DEFINE T == {d \in Nat : \A i \in 0 .. Len(own) : i + d + 1 <= Len(own) => Idle!Ends[i] < Idle!Ends[i + d + 1]}
  <1>1. ASSUME NEW i \in 0 .. Len(own), i + 1 <= Len(own) PROVE Idle!Ends[i] < Idle!Ends[i + 1] /\ Idle!Ends[i] \in Nat /\ Idle!Ends[i + 1] \in Nat
    <2>1. i + 1 \in 1 .. Len(own) /\ (i + 1) - 1 = i /\ i + 1 \in 0 .. Len(own)
      BY <1>1
    <2>2. own[i + 1].size \in Nat \ {0}
      BY <2>1, RecordsAre
    <2>3. Idle!Ends[i + 1] = Idle!Ends[i] + own[i + 1].size /\ Idle!Ends[i] \in Nat
      BY <2>1, EndsExist
    <2> QED BY <2>2, <2>3
  <1>2. 0 \in T
    BY <1>1
  <1>3. ASSUME NEW d \in Nat, d \in T PROVE d + 1 \in T
    <2> SUFFICES ASSUME NEW i \in 0 .. Len(own), i + (d + 1) + 1 <= Len(own) PROVE Idle!Ends[i] < Idle!Ends[i + (d + 1) + 1]
      OBVIOUS
    <2>1. i + d + 1 \in 0 .. Len(own) /\ (i + d + 1) + 1 <= Len(own) /\ i + (d + 1) + 1 = (i + d + 1) + 1
      OBVIOUS
    <2>2. Idle!Ends[i] < Idle!Ends[i + d + 1]
      BY <1>3, <2>1
    <2>3. Idle!Ends[i + d + 1] < Idle!Ends[(i + d + 1) + 1] /\ Idle!Ends[i + d + 1] \in Nat /\ Idle!Ends[(i + d + 1) + 1] \in Nat
      BY <1>1, <2>1
    <2>4. Idle!Ends[i] \in Nat
      BY EndsExist
    <2> QED BY <2>1, <2>2, <2>3, <2>4
  <1> HIDE DEF T
  <1>4. \A d \in Nat : d \in T
    BY <1>2, <1>3, AllNats
  <1>5. ASSUME NEW i \in 0 .. Len(own), NEW j \in 0 .. Len(own), i < j PROVE Idle!Ends[i] < Idle!Ends[j]
    <2>1. j - i - 1 \in Nat /\ i + (j - i - 1) + 1 = j /\ j <= Len(own)
      BY <1>5
    <2>2. j - i - 1 \in T
      BY <1>4, <2>1
    <2> QED BY <2>1, <2>2 DEF T
  <1> QED BY <1>5

Entries == {i \in DOMAIN own : own[i].ts # Idle!NoTime}
Latest == IF Entries = {} THEN Idle!NoTime ELSE own[Idle!LastOf(Entries)].ts

(* What a window shows of the entries ends with the last of them. *)
LEMMA ShowsLatest ==
  ASSUME own \in Seq(Entry), partial \in Nat, NEW w \in Nat
  PROVE  /\ Idle!Size \in Nat
         /\ w >= Idle!Size => Idle!Stamped(w) = Entries
         /\ Idle!Stamped(w) # {} => Entries # {} /\ own[Idle!LastOf(Idle!Stamped(w))].ts = Latest
  <1>1. Len(own) \in Nat /\ DOMAIN own = 1 .. Len(own) /\ Idle!Size \in Nat
    BY EndsExist DEF Idle!Size
  <1>2. w >= Idle!Size => Idle!Stamped(w) = Entries
    BY DEF Idle!Stamped, Idle!Shown, Entries
  <1>3. Idle!Stamped(w) \subseteq Entries /\ Entries \subseteq 1 .. Len(own)
    BY <1>1 DEF Idle!Stamped, Idle!Shown, Entries
  <1>4. ASSUME Idle!Stamped(w) # {} PROVE Idle!LastOf(Idle!Stamped(w)) = Idle!LastOf(Entries)
    <2> DEFINE s == Idle!LastOf(Idle!Stamped(w))  e == Idle!LastOf(Entries)
    <2>1. s \in Idle!Stamped(w) /\ \A j \in Idle!Stamped(w) : j <= s
      BY <1>1, <1>3, <1>4, Greatest
    <2>2. e \in Entries /\ \A j \in Entries : j <= e
      BY <1>1, <1>3, <1>4, Greatest
    <2> HIDE DEF s, e
    <2>3. s \in 1 .. Len(own) /\ e \in 1 .. Len(own) /\ s <= e
      BY <1>3, <2>1, <2>2
    <2>4. e \in Idle!Shown(w)
      <3>1. CASE w >= Idle!Size
        BY <1>1, <2>3, <3>1 DEF Idle!Shown
      <3>2. CASE ~(w >= Idle!Size) /\ s = e
        BY <2>1, <3>2 DEF Idle!Stamped
      <3>3. CASE ~(w >= Idle!Size) /\ s < e
        <4>1. Idle!Start(s) > Idle!Size - w
          BY <2>1, <3>3 DEF Idle!Stamped, Idle!Shown
        <4>2. s - 1 \in 0 .. Len(own) /\ e - 1 \in 0 .. Len(own) /\ s - 1 < e - 1
          BY <1>1, <2>3, <3>3
        <4>3. Idle!Start(s) < Idle!Start(e) /\ Idle!Start(s) \in Nat /\ Idle!Start(e) \in Nat
          BY <4>2, EndsGrow, EndsExist DEF Idle!Start
        <4> QED BY <1>1, <2>3, <4>1, <4>3 DEF Idle!Shown
      <3> QED BY <2>3, <3>1, <3>2, <3>3
    <2>5. e \in Idle!Stamped(w)
      BY <2>2, <2>4 DEF Idle!Stamped, Entries
    <2>6. s = e
      BY <2>1, <2>3, <2>5
    <2> QED BY <2>6 DEF s, e
  <1> QED BY <1>1, <1>2, <1>3, <1>4 DEF Latest

(* The reader that doubles its window finds the last entry with a time. *)
LEMMA ReaderFindsLatest ==
  ASSUME Idle!IdleClockAssumption, own \in Seq(Entry), partial \in Nat
  PROVE  Idle!LastStamp = Latest
  <1> DEFINE Sees(w) == IF Idle!Stamped(w) # {} THEN own[Idle!LastOf(Idle!Stamped(w))].ts
                        ELSE IF w >= Idle!Size THEN Idle!NoTime ELSE Latest
             Def(g) == g = [w \in Nat |-> IF Idle!Stamped(w) # {} THEN own[Idle!LastOf(Idle!Stamped(w))].ts
                                          ELSE IF w >= Idle!Size THEN Idle!NoTime ELSE g[2 * w]]
             Look == CHOOSE g : Def(g)
  <1>1. ASSUME NEW w \in Nat PROVE Sees(w) = Latest
    BY ShowsLatest DEF Latest
  <1>2. Def([w \in Nat |-> Latest])
    <2> DEFINE g == [w \in Nat |-> Latest]
    <2>1. \A w \in Nat : g[2 * w] = Latest /\ g[w] = Sees(w)
      BY <1>1
    <2> QED BY <2>1
  <1>3. Def(Look)
    <2> HIDE DEF Def
    <2> QED BY <1>2
  <1> HIDE DEF Look
  <1>4. Idle!Size \in Nat /\ TailWindow \in Nat \ {0}
    BY ShowsLatest DEF Idle!IdleClockAssumption
  <1> DEFINE T == {d \in Nat : \A w \in Nat \ {0} : w + d >= Idle!Size => Look[w] = Latest}
  <1>5. 0 \in T
    <2> SUFFICES ASSUME NEW w \in Nat \ {0}, w >= Idle!Size PROVE Look[w] = Latest
      OBVIOUS
    <2>1. Look[w] = Sees(w)
      BY <1>3
    <2> QED BY <1>1, <2>1
  <1>6. ASSUME NEW d \in Nat, d \in T PROVE d + 1 \in T
    <2> SUFFICES ASSUME NEW w \in Nat \ {0}, w + (d + 1) >= Idle!Size PROVE Look[w] = Latest
      OBVIOUS
    <2>1. 2 * w \in Nat \ {0} /\ 2 * w + d >= Idle!Size
      BY <1>4
    <2>2. Look[2 * w] = Latest
      BY <1>6, <2>1
    <2>3. Look[w] = Sees(w)
      BY <1>3, <2>2
    <2> QED BY <1>1, <2>3
  <1> HIDE DEF T
  <1>7. Idle!Size \in T
    BY <1>4, <1>5, <1>6, AllNats
  <1>8. Look[TailWindow] = Latest
    BY <1>4, <1>7 DEF T
  <1>9. Idle!Size = 0 => Latest = Idle!NoTime
    <2> SUFFICES ASSUME Idle!Size = 0 PROVE Entries = {}
      BY DEF Latest
    <2>1. Idle!Ends[Len(own)] = 0
      BY EndsExist DEF Idle!Size
    <2>2. Len(own) = 0
      BY <2>1, EndsExist, EndsGrow
    <2> QED BY <2>2 DEF Entries
  <1>10. Idle!LastStamp = IF Idle!Size = 0 THEN Idle!NoTime ELSE Look[TailWindow]
    BY DEF Idle!LastStamp, Look
  <1> QED BY <1>8, <1>9, <1>10

ClockTyped ==
  /\ clock \in Nat
  /\ ses \in [up : BOOLEAN, wokeAt : Int, turn : BOOLEAN, armed : BOOLEAN]
  /\ own \in Seq(Entry) /\ partial \in Nat /\ ownMt \in Int
  /\ other \in [mt : Int, ts : Int] /\ child \in Int /\ delivered \in Int
  /\ worked \in Int /\ worked <= clock

(* The transcript of the session is the newest of the folder. *)
OwnIsNewest == other.mt <= clock /\ ownMt <= clock /\ (own # <<>> => other.mt <= ownMt)

(* The session's last work is on record where the supervisor looks. *)
WorkOnRecord ==
  ses.up => \/ worked <= ses.wokeAt \/ worked <= child \/ worked <= delivered
            \/ own # <<>> /\ worked <= Latest

ClockInv == ClockTyped /\ OwnIsNewest /\ WorkOnRecord /\ Idle!RecentWorkKeeps

LEMMA ClockInit == ASSUME Idle!Init PROVE ClockInv
  BY DEF Idle!Init, ClockInv, ClockTyped, OwnIsNewest, WorkOnRecord, Idle!RecentWorkKeeps, Idle!NoTime, Idle!NotReaped

LEMMA LatestTyped == ASSUME own \in Seq(Entry) PROVE Latest \in Int
  <1>1. Entries \subseteq 1 .. Len(own) /\ Len(own) \in Nat
    BY DEF Entries
  <1>2. Entries # {} => Idle!LastOf(Entries) \in 1 .. Len(own)
    BY <1>1, Greatest
  <1> QED BY <1>2, RecordsAre DEF Latest, Idle!NoTime

(* A line without a time changes nothing; an entry is the last one. *)
LEMMA LineOnRecord ==
  ASSUME ClockInv, NEW size \in Nat \ {0}, NEW t \in Nat \cup {Idle!NoTime}, own' = Append(own, [size |-> size, ts |-> t])
  PROVE  /\ own' \in Seq(Entry) /\ own' # <<>>
         /\ t \in Nat => Latest' = t
         /\ t = Idle!NoTime => Entries' = Entries /\ (Entries # {} => Latest' = Latest)
  <1> DEFINE n == Len(own)
  <1>1. own \in Seq(Entry) /\ n \in Nat /\ DOMAIN own = 1 .. n /\ t \in Int
    BY DEF ClockInv, ClockTyped, Idle!NoTime
  <1>2. [size |-> size, ts |-> t] \in Entry
    BY <1>1 DEF Entry
  <1>3. /\ own' \in Seq(Entry) /\ own' # <<>> /\ DOMAIN own' = 1 .. n + 1
        /\ \A i \in 1 .. n : own'[i] = own[i]
        /\ own'[n + 1] = [size |-> size, ts |-> t]
    BY <1>1, <1>2
  <1>4. Entries' = Entries \cup {i \in {n + 1} : t # Idle!NoTime}
    <2>1. \A i : i \in 1 .. n + 1 <=> (i \in 1 .. n \/ i = n + 1)
      BY <1>1
    <2>2. own'[n + 1].ts = t
      BY <1>3
    <2> HIDE DEF n
    <2> QED BY <1>1, <1>3, <2>1, <2>2 DEF Entries
  <1>5. Entries \subseteq 1 .. n
    BY <1>1 DEF Entries
  <1>6. CASE t \in Nat
    <2>1. n + 1 \in Entries' /\ Entries' \subseteq 1 .. n + 1
      <3>1. t # Idle!NoTime
        BY <1>6 DEF Idle!NoTime
      <3> HIDE DEF n
      <3>2. n + 1 \in Entries'
        BY <1>4, <3>1
      <3>3. Entries' \subseteq Entries \cup {n + 1}
        BY <1>4
      <3>4. 1 .. n \subseteq 1 .. n + 1 /\ n + 1 \in 1 .. n + 1
        BY <1>1
      <3> QED BY <1>5, <3>2, <3>3, <3>4
    <2>2. Idle!LastOf(Entries') \in Entries' /\ \A j \in Entries' : j <= Idle!LastOf(Entries')
      <3> DEFINE E == Entries'
      <3>1. n + 1 \in Nat /\ E \subseteq 1 .. n + 1 /\ E # {}
        BY <1>1, <2>1
      <3> HIDE DEF E
      <3>2. Idle!LastOf(E) \in E /\ \A j \in E : j <= Idle!LastOf(E)
        BY <3>1, Greatest
      <3> QED BY <3>2 DEF E
    <2>3. Idle!LastOf(Entries') = n + 1
      <3> HIDE DEF n
      <3>1. Idle!LastOf(Entries') \in 1 .. n + 1 /\ n + 1 <= Idle!LastOf(Entries')
        BY <2>1, <2>2
      <3> QED BY <1>1, <3>1
    <2>4. Latest' = own'[Idle!LastOf(Entries')].ts
      BY <2>1 DEF Latest, Idle!LastOf
    <2> QED BY <1>3, <1>6, <2>3, <2>4 DEF Idle!NoTime
  <1>7. CASE t = Idle!NoTime
    <2>1. Entries' = Entries
      BY <1>4, <1>7
    <2>2. ASSUME Entries # {} PROVE Latest' = Latest
      <3>1. Idle!LastOf(Entries) \in 1 .. n
        BY <1>1, <1>5, <2>2, Greatest
      <3>2. Idle!LastOf(Entries)' = Idle!LastOf(Entries)
        BY <2>1 DEF Idle!LastOf
      <3> QED BY <1>3, <2>1, <2>2, <3>1, <3>2 DEF Latest
    <2> QED BY <1>3, <1>7, <2>1, <2>2 DEF Idle!NoTime
  <1> QED BY <1>6, <1>7

LEMMA CompleteKeeps ==
  ASSUME Idle!IdleClockAssumption, ClockInv, NEW size \in {1, Big}, NEW isEntry \in BOOLEAN, Idle!CompleteLine(size, isEntry)
  PROVE  ClockInv'
  <1>1. size \in Nat \ {0} /\ clock \in Nat
    BY DEF Idle!IdleClockAssumption, ClockInv, ClockTyped
  <1>2. CASE isEntry
    <2>1. own' = Append(own, [size |-> size, ts |-> clock])
      BY <1>2 DEF Idle!CompleteLine
    <2>2. own' \in Seq(Entry) /\ own' # <<>> /\ Latest' = clock
      BY <1>1, <2>1, LineOnRecord
    <2> QED BY <1>1, <1>2, <2>2 DEF Idle!CompleteLine, ClockInv, ClockTyped, OwnIsNewest, WorkOnRecord, Idle!RecentWorkKeeps
  <1>3. CASE ~isEntry
    <2>1. own' = Append(own, [size |-> size, ts |-> Idle!NoTime])
      BY <1>3 DEF Idle!CompleteLine
    <2>2. own' \in Seq(Entry) /\ own' # <<>> /\ Entries' = Entries /\ (Entries # {} => Latest' = Latest)
      BY <1>1, <2>1, LineOnRecord
    <2>3. own' # <<>> /\ Latest' = Latest
      BY <2>2 DEF Latest
    <2> QED BY <1>1, <1>3, <2>2, <2>3 DEF Idle!CompleteLine, ClockInv, ClockTyped, OwnIsNewest, WorkOnRecord, Idle!RecentWorkKeeps
  <1> QED BY <1>2, <1>3

(* A session that worked within the bound is seen to have. *)
LEMMA ReapKeeps == ASSUME Idle!IdleClockAssumption, ClockInv, Idle!Reap PROVE ClockInv'
  <1>1. Idle!LastStamp = Latest /\ Latest \in Int
    BY ReaderFindsLatest, LatestTyped DEF ClockInv, ClockTyped
  <1>2. worked <= Idle!Seen /\ Idle!Seen \in Int
    BY <1>1 DEF Idle!Reap, Idle!Seen, Idle!LastTurn, Idle!NewestIsOwn, Idle!Later, ClockInv, ClockTyped, OwnIsNewest, WorkOnRecord
  <1>3. clock - worked > Idle!Bound /\ Idle!Bound \in Nat
    <2>1. Idle!Bound \in Nat
      BY DEF Idle!Bound, Idle!IdleClockAssumption
    <2>2. clock - Idle!Seen > Idle!Bound /\ clock \in Nat /\ worked \in Int
      BY DEF Idle!Reap, Idle!Age, ClockInv, ClockTyped
    <2> QED BY <1>2, <2>1, <2>2
  <1>4. Idle!RecentWorkKeeps'
    <2>1. Idle!BoundOf(reaped'.as) = Idle!Bound /\ reaped'.at = clock /\ reaped'.worked = worked
      BY DEF Idle!Reap, Idle!BoundOf, Idle!Bound, Idle!IdleClockAssumption
    <2>2. Idle!BoundOf(reaped'.as) = Idle!BoundOf(reaped.as)'
      BY DEF Idle!BoundOf
    <2> QED BY <1>3, <2>1, <2>2 DEF Idle!RecentWorkKeeps
  <1>5. ClockTyped' /\ OwnIsNewest' /\ WorkOnRecord'
    BY DEF Idle!Reap, ClockInv, ClockTyped, OwnIsNewest, WorkOnRecord
  <1> QED BY <1>4, <1>5 DEF ClockInv

LEMMA WakeKeeps == ASSUME Idle!IdleClockAssumption, ClockInv, Idle!Wake PROVE ClockInv'
  <1>1. Idle!LastStamp \in Int
    BY ReaderFindsLatest, LatestTyped DEF ClockInv, ClockTyped
  <1> QED BY <1>1 DEF Idle!Wake, ClockInv, ClockTyped, OwnIsNewest, WorkOnRecord, Idle!RecentWorkKeeps, Idle!NoTime

LEMMA ClockNext == ASSUME Idle!IdleClockAssumption, ~Shared, ClockInv, [Idle!Next]_Idle!vars PROVE ClockInv'
  <1>1. CASE UNCHANGED own /\ ~Idle!Wake /\ ~Idle!Reap
    <2>1. UNCHANGED Latest
      BY <1>1 DEF Latest, Entries, Idle!LastOf
    <2>2. CASE Idle!Deliver
      <3>1. ses' \in [up : BOOLEAN, wokeAt : Int, turn : BOOLEAN, armed : BOOLEAN]
        BY <2>2 DEF Idle!Deliver, ClockInv, ClockTyped
      <3>2. /\ delivered' = clock /\ worked' = clock
            /\ UNCHANGED <<clock, own, partial, ownMt, other, child, reaped>>
        BY <2>2 DEF Idle!Deliver
      <3>3. WorkOnRecord'
        BY <3>2 DEF ClockInv, ClockTyped, WorkOnRecord
      <3> QED BY <3>1, <3>2, <3>3 DEF ClockInv, ClockTyped, OwnIsNewest, Idle!RecentWorkKeeps
    <2>3. CASE Idle!BeginLine \/ Idle!Resave
      BY <2>3, <1>1, <2>1 DEF Idle!BeginLine, Idle!Resave, ClockInv, ClockTyped, OwnIsNewest, WorkOnRecord, Idle!RecentWorkKeeps
    <2>4. CASE Idle!ToolRuns \/ Idle!Arm \/ Idle!EndTurn \/ Idle!Tick
      <3>1. /\ ses' \in [up : BOOLEAN, wokeAt : Int, turn : BOOLEAN, armed : BOOLEAN]
            /\ ses'.up = ses.up /\ ses'.wokeAt = ses.wokeAt /\ clock' \in Nat /\ clock <= clock'
        <4>1. CASE Idle!ToolRuns \/ Idle!Tick
          BY <4>1 DEF Idle!ToolRuns, Idle!Tick, ClockInv, ClockTyped
        <4>2. CASE Idle!Arm
          <5>1. clock' = clock /\ ses' = [ses EXCEPT !.armed = TRUE]
            BY <4>2 DEF Idle!Arm
          <5>2. ses \in [up : BOOLEAN, wokeAt : Int, turn : BOOLEAN, armed : BOOLEAN] /\ clock \in Nat
            BY DEF ClockInv, ClockTyped
          <5>3. /\ ses' \in [up : BOOLEAN, wokeAt : Int, turn : BOOLEAN, armed : BOOLEAN]
                /\ ses'.up = ses.up /\ ses'.wokeAt = ses.wokeAt
            BY <5>1, <5>2
          <5> QED BY <5>1, <5>2, <5>3
        <4>3. CASE Idle!EndTurn
          <5>1. clock' = clock /\ ses' = [ses EXCEPT !.turn = FALSE]
            BY <4>3 DEF Idle!EndTurn
          <5>2. ses \in [up : BOOLEAN, wokeAt : Int, turn : BOOLEAN, armed : BOOLEAN] /\ clock \in Nat
            BY DEF ClockInv, ClockTyped
          <5>3. /\ ses' \in [up : BOOLEAN, wokeAt : Int, turn : BOOLEAN, armed : BOOLEAN]
                /\ ses'.up = ses.up /\ ses'.wokeAt = ses.wokeAt
            BY <5>1, <5>2
          <5> QED BY <5>1, <5>2, <5>3
        <4> QED BY <2>4, <4>1, <4>2, <4>3
      <3>2. UNCHANGED <<own, partial, ownMt, other, child, delivered, worked, reaped>>
        BY <2>4 DEF Idle!ToolRuns, Idle!Arm, Idle!EndTurn, Idle!Tick
      <3> QED BY <3>1, <3>2, <2>1 DEF ClockInv, ClockTyped, OwnIsNewest, WorkOnRecord, Idle!RecentWorkKeeps
    <2>7. CASE Idle!ChildWrites
      <3>1. /\ child' = clock /\ worked' = clock
            /\ UNCHANGED <<clock, ses, own, partial, ownMt, other, delivered, reaped>>
        BY <2>7 DEF Idle!ChildWrites
      <3> QED BY <3>1, <2>1 DEF ClockInv, ClockTyped, OwnIsNewest, WorkOnRecord, Idle!RecentWorkKeeps
    <2>5. CASE UNCHANGED Idle!vars
      BY <2>5, <2>1 DEF Idle!vars, ClockInv, ClockTyped, OwnIsNewest, WorkOnRecord, Idle!RecentWorkKeeps
    <2>6. ASSUME NEW size \in {1, Big}, NEW isEntry \in BOOLEAN, Idle!CompleteLine(size, isEntry) PROVE ClockInv'
      BY <2>6, CompleteKeeps
    <2> QED BY <1>1, <2>2, <2>3, <2>4, <2>5, <2>6, <2>7 DEF Idle!Next, Idle!OtherSaves
  <1>2. CASE Idle!Wake \/ Idle!Reap
    BY <1>2, WakeKeeps, ReapKeeps
  <1>3. CASE ~UNCHANGED own
    <2>1. \E size \in {1, Big}, isEntry \in BOOLEAN : Idle!CompleteLine(size, isEntry) \/ Idle!Wake
      BY <1>3 DEF Idle!Next, Idle!vars, Idle!Wake, Idle!Deliver, Idle!BeginLine, Idle!Resave, Idle!OtherSaves, Idle!ChildWrites, Idle!ToolRuns, Idle!Arm, Idle!EndTurn, Idle!Reap, Idle!Tick
    <2> QED BY <2>1, CompleteKeeps, WakeKeeps
  <1> QED BY <1>1, <1>2, <1>3

(* The values of the variables, in a shared folder too. *)
Line == [size : {1, Big}, ts : Idle!Time]
SessionTyped ==
  /\ ses \in [up : BOOLEAN, wokeAt : 0 .. IdleTime, turn : BOOLEAN, armed : BOOLEAN]
  /\ reaped.as \in {"no", "idle", "armed", "unarmed"} /\ partial \in {0, 1}
StampsTyped ==
  /\ clock \in 0 .. IdleTime /\ ownMt \in Idle!Time /\ child \in Idle!Time /\ delivered \in Idle!Time
  /\ worked \in Idle!Time /\ rendered \in Idle!Time
IdleTypes ==
  SessionTyped /\ StampsTyped /\ own \in Seq(Line) /\ other \in [mt : Idle!Time, ts : Idle!Time]

LEMMA IdleIsTyped == ASSUME IdleTypes PROVE Idle!TypeOK
  BY DEF IdleTypes, SessionTyped, StampsTyped, Line, Idle!TypeOK

LEMMA TimesAre == ASSUME Idle!IdleClockAssumption PROVE 0 .. IdleTime \subseteq Idle!Time /\ Idle!NoTime \in Idle!Time /\ 0 \in 0 .. IdleTime /\ Idle!Time \subseteq Int
  BY DEF Idle!IdleClockAssumption, Idle!Time, Idle!NoTime

LEMMA IdleTypeInit == ASSUME Idle!IdleClockAssumption, Idle!Init PROVE IdleTypes
  <1>1. <<>> \in Seq(Line)
    OBVIOUS
  <1>2. Idle!NoTime \in Idle!Time /\ 0 \in 0 .. IdleTime
    BY TimesAre
  <1> QED BY <1>1, <1>2 DEF Idle!Init, IdleTypes, SessionTyped, StampsTyped, Idle!NotReaped

(* What the reader ends on is a time of the transcript, or none. *)
LEMMA StampTyped == ASSUME Idle!IdleClockAssumption, IdleTypes PROVE Idle!LastStamp \in Idle!Time
  <1>1. Len(own) \in Nat /\ DOMAIN own = 1 .. Len(own) /\ \A i \in 1 .. Len(own) : own[i] \in Line
    BY DEF IdleTypes
  <1>2. \A i \in 1 .. Len(own) : own[i].ts \in Idle!Time /\ own[i] \in Entry
    BY <1>1, TimesAre DEF Line, Entry, Idle!IdleClockAssumption
  <1>3. own \in Seq(Entry) /\ partial \in Nat
    BY <1>1, <1>2 DEF IdleTypes, SessionTyped
  <1>4. Idle!LastStamp = Latest
    BY <1>3, ReaderFindsLatest
  <1>5. Entries \subseteq 1 .. Len(own)
    BY <1>1 DEF Entries
  <1>6. Entries # {} => Idle!LastOf(Entries) \in 1 .. Len(own)
    BY <1>1, <1>5, Greatest
  <1> QED BY <1>2, <1>4, <1>6, TimesAre DEF Latest

LEMMA SessionTypeNext ==
  ASSUME Idle!IdleClockAssumption, IdleTypes, [Idle!Next]_Idle!vars
  PROVE  SessionTyped'
  <1>0. SessionTyped /\ clock \in 0 .. IdleTime
    BY DEF IdleTypes, StampsTyped
  <1>1. CASE Idle!Wake
    BY <1>0, <1>1 DEF Idle!Wake, SessionTyped
  <1>2. CASE Idle!Deliver
    BY <1>0, <1>2 DEF Idle!Deliver, SessionTyped
  <1>3. CASE Idle!BeginLine \/ Idle!Resave \/ Idle!OtherSaves
    BY <1>0, <1>3 DEF Idle!BeginLine, Idle!Resave, Idle!OtherSaves, SessionTyped
  <1>4. CASE Idle!ChildWrites \/ Idle!ToolRuns \/ Idle!Arm \/ Idle!EndTurn
    BY <1>0, <1>4 DEF Idle!ChildWrites, Idle!ToolRuns, Idle!Arm, Idle!EndTurn, SessionTyped
  <1>5. ASSUME NEW size \in {1, Big}, NEW isEntry \in BOOLEAN, Idle!CompleteLine(size, isEntry) PROVE SessionTyped'
    BY <1>0, <1>5 DEF Idle!CompleteLine, SessionTyped
  <1>6. CASE Idle!Reap
    BY <1>0, <1>6 DEF Idle!Reap, Idle!NotReaped, SessionTyped
  <1>7. CASE Idle!Tick
    BY <1>0, <1>7 DEF Idle!Tick, SessionTyped
  <1>8. CASE UNCHANGED Idle!vars
    BY <1>0, <1>8 DEF Idle!vars, SessionTyped
  <1> QED BY <1>1, <1>2, <1>3, <1>4, <1>5, <1>6, <1>7, <1>8 DEF Idle!Next

LEMMA StampsTypeNext ==
  ASSUME Idle!IdleClockAssumption, IdleTypes, [Idle!Next]_Idle!vars
  PROVE  StampsTyped'
  <1>0. StampsTyped /\ Idle!NoTime \in Idle!Time /\ clock \in Idle!Time /\ (clock < IdleTime => clock + 1 \in 0 .. IdleTime)
    BY TimesAre DEF IdleTypes, StampsTyped, Idle!IdleClockAssumption
  <1>1. CASE Idle!Wake
    BY <1>0, <1>1 DEF Idle!Wake, StampsTyped
  <1>2. CASE Idle!Deliver
    BY <1>0, <1>2 DEF Idle!Deliver, StampsTyped
  <1>3. CASE Idle!BeginLine \/ Idle!Resave \/ Idle!OtherSaves
    BY <1>0, <1>3 DEF Idle!BeginLine, Idle!Resave, Idle!OtherSaves, StampsTyped
  <1>4. CASE Idle!ChildWrites \/ Idle!ToolRuns \/ Idle!Arm \/ Idle!EndTurn
    BY <1>0, <1>4 DEF Idle!ChildWrites, Idle!ToolRuns, Idle!Arm, Idle!EndTurn, StampsTyped
  <1>5. ASSUME NEW size \in {1, Big}, NEW isEntry \in BOOLEAN, Idle!CompleteLine(size, isEntry) PROVE StampsTyped'
    BY <1>0, <1>5 DEF Idle!CompleteLine, StampsTyped
  <1>6. CASE Idle!Reap
    BY <1>0, <1>6 DEF Idle!Reap, StampsTyped
  <1>7. CASE Idle!Tick
    BY <1>0, <1>7 DEF Idle!Tick, StampsTyped
  <1>8. CASE UNCHANGED Idle!vars
    BY <1>0, <1>8 DEF Idle!vars, StampsTyped
  <1> QED BY <1>1, <1>2, <1>3, <1>4, <1>5, <1>6, <1>7, <1>8 DEF Idle!Next

LEMMA TranscriptTypeNext ==
  ASSUME Idle!IdleClockAssumption, IdleTypes, [Idle!Next]_Idle!vars
  PROVE  own' \in Seq(Line) /\ other' \in [mt : Idle!Time, ts : Idle!Time]
  <1>0. /\ own \in Seq(Line) /\ other \in [mt : Idle!Time, ts : Idle!Time] /\ Idle!LastStamp \in Idle!Time /\ clock \in Idle!Time /\ ownMt \in Idle!Time
        /\ Idle!NoTime \in Idle!Time
    BY TimesAre, StampTyped DEF IdleTypes, StampsTyped
  <1>1. CASE UNCHANGED <<own, other>>
    BY <1>0, <1>1
  <1>2. CASE Idle!Wake
    <2>1. <<>> \in Seq(Line)
      OBVIOUS
    <2>2. [mt |-> ownMt, ts |-> Idle!LastStamp] \in [mt : Idle!Time, ts : Idle!Time]
      BY <1>0
    <2> QED BY <1>0, <1>2, <2>1, <2>2 DEF Idle!Wake
  <1>3. CASE Idle!OtherSaves
    BY <1>0, <1>3 DEF Idle!OtherSaves
  <1>4. ASSUME NEW size \in {1, Big}, NEW isEntry \in BOOLEAN, Idle!CompleteLine(size, isEntry)
        PROVE  own' \in Seq(Line) /\ UNCHANGED other
    <2>1. [size |-> size, ts |-> IF isEntry THEN clock ELSE Idle!NoTime] \in Line
      BY <1>0, <1>4 DEF Line
    <2> QED BY <1>0, <1>4, <2>1 DEF Idle!CompleteLine
  <1> QED BY <1>0, <1>1, <1>2, <1>3, <1>4 DEF Idle!Next, Idle!Deliver, Idle!BeginLine, Idle!Resave, Idle!ChildWrites, Idle!ToolRuns, Idle!Arm, Idle!EndTurn,
             Idle!Reap, Idle!Tick, Idle!vars

LEMMA IdleTypeNext == ASSUME Idle!IdleClockAssumption, IdleTypes, [Idle!Next]_Idle!vars PROVE IdleTypes'
  BY SessionTypeNext, StampsTypeNext, TranscriptTypeNext DEF IdleTypes

(* No session is reaped that was seen to work within the bound, in a folder no   *)
(* other session uses (superviseOnePeer; lastTimestampedEntryMs).                *)
THEOREM NoWorkerIsReaped == ASSUME Idle!IdleClockAssumption, ~Shared PROVE Idle!Spec => []Idle!RecentWorkKeeps
  <1>1. Idle!Init => ClockInv
    BY ClockInit
  <1>2. ClockInv /\ [Idle!Next]_Idle!vars => ClockInv'
    BY ClockNext
  <1>3. ClockInv => Idle!RecentWorkKeeps
    BY DEF ClockInv
  <1> QED BY <1>1, <1>2, <1>3, PTL DEF Idle!Spec

-----------------------------------------------------------------------------
(* The activity shown after a sweep is the one the peer's own last line stood  *)
(* for, whatever order the directory lists the transcripts in: the board stands *)
(* for one of the peer's own lines, and for none older than a line it has seen; *)
(* a transcript the sweep leaves out has no line later than the last sweep.      *)
OwnKinds == Turn!Starts \cup Turn!Goes \cup Turn!Ends
TurnLines == [kind : OwnKinds \cup Turn!Noise, at : Nat]
AllLines == UNION {Turn!Range(log[s]) : s \in Turn!Session}
AllOwn == {l \in AllLines : l.kind \in OwnKinds}
Seen == {l \in AllOwn : l.at <= since}
Obs(l) == [state |-> Turn!TurnOf(l.kind), at |-> l.at]

\* An observation that is no older than a line.
Above(b, l) == b.state # "none" /\ l.at <= b.at

TurnTyped ==
  /\ runtime \in {"claude", "codex"}
  /\ now \in Nat /\ since \in Nat /\ since <= now /\ session \in 0 .. MaxSession
  /\ log \in [Turn!Session -> Seq(TurnLines)]

\* Every line has its own tick, and a transcript is in the order of the clock.
LinesTick ==
  /\ \A l \in AllLines : 1 <= l.at /\ l.at <= now
  /\ \A l, m \in AllLines : l.at = m.at => l = m
  /\ \A s \in Turn!Session : \A i, j \in DOMAIN log[s] : i <= j => log[s][i].at <= log[s][j].at

\* The board stands for the latest of the lines that were there at the last sweep.
BoardStands ==
  \/ Seen = {} /\ board = Turn!Nothing /\ truth = "none"
  \/ \E l \in Seen : /\ \A m \in Seen : m.at <= l.at
                     /\ board = Obs(l) /\ truth = Turn!TurnOf(l.kind)

TurnInv == TurnTyped /\ LinesTick /\ BoardStands

LEMMA KindsAre ==
  ASSUME runtime \in {"claude", "codex"}, NEW k \in OwnKinds \cup Turn!Noise
  PROVE  /\ Turn!TurnOf(k) # "none" <=> k \in OwnKinds
         /\ k \in OwnKinds => Turn!TurnOf(k) = IF k \in Turn!Ends THEN "idle" ELSE "working"
  BY DEF OwnKinds, Turn!Noise, Turn!Starts, Turn!Goes, Turn!Ends, Turn!TurnOf, Turn!Claims, Turn!Closes

LEMMA LinesAre ==
  ASSUME TurnTyped
  PROVE  /\ AllLines \subseteq TurnLines /\ AllOwn \subseteq TurnLines
         /\ \A s \in Turn!Session : /\ Len(log[s]) \in Nat /\ DOMAIN log[s] = 1 .. Len(log[s])
                                    /\ \A i \in 1 .. Len(log[s]) : log[s][i] \in TurnLines /\ log[s][i] \in AllLines
         /\ \A l \in AllLines : \E s \in Turn!Session : \E i \in 1 .. Len(log[s]) : l = log[s][i]
  <1>1. \A s \in Turn!Session : log[s] \in Seq(TurnLines)
    BY DEF TurnTyped
  <1>2. ASSUME NEW s \in Turn!Session
        PROVE  Len(log[s]) \in Nat /\ DOMAIN log[s] = 1 .. Len(log[s]) /\ \A i \in 1 .. Len(log[s]) : log[s][i] \in TurnLines
    <2>1. log[s] \in Seq(TurnLines)
      BY <1>1
    <2> QED BY <2>1
  <1> QED BY <1>2 DEF AllLines, AllOwn, Turn!Range

LEMMA TurnInit == ASSUME Turn!TurnWatchAssumption, Turn!Init PROVE TurnInv
  <1>1. \A s \in Turn!Session : log[s] = <<>> /\ DOMAIN log[s] = {}
    BY DEF Turn!Init
  <1>2. AllLines = {}
    BY <1>1 DEF AllLines, Turn!Range
  <1>3. TurnTyped
    <2>1. MaxSession \in Nat
      BY DEF Turn!TurnWatchAssumption
    <2> QED BY <2>1 DEF Turn!Init, TurnTyped
  <1>4. LinesTick
    BY <1>1, <1>2 DEF LinesTick
  <1>5. Seen = {}
    BY <1>2 DEF Seen, AllOwn
  <1> QED BY <1>3, <1>4, <1>5 DEF Turn!Init, TurnInv, BoardStands

(* The last line of a transcript that says something, or nothing. *)
LEMMA ParseIs ==
  ASSUME TurnInv, NEW s \in Turn!Session
  PROVE  \/ Turn!Parse(log[s]) = Turn!Nothing /\ \A i \in 1 .. Len(log[s]) : log[s][i].kind \notin OwnKinds
         \/ \E l \in AllOwn : /\ Turn!Parse(log[s]) = Obs(l)
                              /\ \A i \in 1 .. Len(log[s]) : log[s][i].kind \in OwnKinds => log[s][i].at <= l.at
  <1> DEFINE n == Len(log[s])
             S == Turn!Speaks(log[s])
  <1>1. /\ n \in Nat /\ DOMAIN log[s] = 1 .. n
        /\ \A i \in 1 .. n : log[s][i] \in TurnLines /\ log[s][i] \in AllLines
    BY LinesAre DEF TurnInv
  <1>2. \A i \in 1 .. n : i \in S <=> log[s][i].kind \in OwnKinds
    <2>1. ASSUME NEW i \in 1 .. n PROVE i \in S <=> log[s][i].kind \in OwnKinds
      <3>1. log[s][i].kind \in OwnKinds \cup Turn!Noise
        BY <1>1 DEF TurnLines
      <3>2. Turn!TurnOf(log[s][i].kind) # "none" <=> log[s][i].kind \in OwnKinds
        BY <3>1, KindsAre DEF TurnInv, TurnTyped
      <3> QED BY <1>1, <3>2 DEF Turn!Speaks
    <2> QED BY <2>1
  <1>3. S \subseteq 1 .. n
    BY <1>1 DEF Turn!Speaks
  <1>4. CASE S = {}
    BY <1>2, <1>4 DEF Turn!Parse
  <1>5. CASE S # {}
    <2> HIDE DEF S
    <2> DEFINE m == Turn!Max(S)
    <2>1. m \in S /\ \A j \in S : m >= j
      <3>1. \E x \in S : \A j \in S : j <= x
        BY <1>1, <1>3, <1>5, GreatestNat
      <3>2. \E x \in S : \A j \in S : x >= j
        BY <1>3, <3>1
      <3> QED BY <3>2 DEF Turn!Max
    <2> HIDE DEF m
    <2>2. m \in 1 .. n /\ log[s][m] \in AllOwn
      BY <1>1, <1>2, <1>3, <2>1 DEF AllOwn
    <2>3. Turn!Parse(log[s]) = Obs(log[s][m])
      BY <1>5 DEF Turn!Parse, Obs, S, m
    <2>4. ASSUME NEW i \in 1 .. n, log[s][i].kind \in OwnKinds PROVE log[s][i].at <= log[s][m].at
      <3>1. i <= m
        BY <1>2, <2>1, <2>2, <2>4
      <3> QED BY <1>1, <2>2, <3>1 DEF TurnInv, LinesTick
    <2> QED BY <2>2, <2>3, <2>4
  <1> QED BY <1>4, <1>5

(* Finite and how many mean here what they mean in the module. *)
LEMMA TurnCounts == ASSUME NEW S PROVE (Turn!IsFiniteSet(S) <=> IsFiniteSet(S)) /\ Turn!Cardinality(S) = Cardinality(S)
  BY DEF Turn!IsFiniteSet, IsFiniteSet, Turn!Cardinality, Cardinality

(* A sweep reads every changed transcript, in some order. *)
LEMMA OrdersAre ==
  ASSUME NEW C, IsFiniteSet(C), NEW order \in Turn!SetToSeqs(C)
  PROVE  /\ Len(order) \in Nat /\ order \in [1 .. Len(order) -> C]
         /\ \A s \in C : \E j \in 1 .. Len(order) : order[j] = s
  <1> DEFINE n == Cardinality(C)
  <1>1. n \in Nat
    BY FS_CardinalityType
  <1>2. order \in [1 .. n -> C] /\ \A i, j \in 1 .. n : i # j => order[i] # order[j]
    BY TurnCounts DEF Turn!SetToSeqs
  <1> HIDE DEF n
  <1>3. Len(order) = n
    BY <1>1, <1>2
  <1>4. order \in Injection(1 .. n, C)
    BY <1>2 DEF Injection, IsInjective
  <1>5. Cardinality(1 .. n) = n
    BY <1>1, FS_Interval
  <1>6. order \in Surjection(1 .. n, C)
    BY <1>4, <1>5, FS_Injection DEF n
  <1> QED BY <1>1, <1>2, <1>3, <1>6 DEF Surjection

\* What the board may hold: nothing, or an observation of an own line.
TurnBoards == {Turn!Nothing} \cup {Obs(l) : l \in AllOwn}

LEMMA BoardsAre ==
  ASSUME TurnInv
  PROVE  /\ \A l \in AllOwn : Obs(l) \in TurnBoards /\ Obs(l).state # "none" /\ l.at \in Nat /\ Obs(l).at = l.at
         /\ \A b \in TurnBoards : b.at \in Nat /\ (b.state = "none" => b = Turn!Nothing)
         /\ board \in TurnBoards /\ \A l \in Seen : Above(board, l)
         /\ \A s \in Turn!Session : Turn!Parse(log[s]) \in TurnBoards
  <1>1. ASSUME NEW l \in AllOwn
        PROVE  Obs(l) \in TurnBoards /\ Obs(l).state # "none" /\ l.at \in Nat /\ Obs(l).at = l.at
    <2>1. l \in TurnLines /\ l.kind \in OwnKinds
      BY LinesAre DEF TurnInv, AllOwn
    <2>2. Turn!TurnOf(l.kind) # "none"
      BY <2>1, KindsAre DEF TurnInv, TurnTyped
    <2> QED BY <2>1, <2>2 DEF TurnBoards, Obs, TurnLines
  <1>2. \A b \in TurnBoards : b.at \in Nat /\ (b.state = "none" => b = Turn!Nothing)
    BY <1>1 DEF TurnBoards, Turn!Nothing
  <1>3. board \in TurnBoards /\ \A l \in Seen : Above(board, l)
    BY <1>1 DEF TurnInv, BoardStands, TurnBoards, Seen, Above
  <1>4. \A s \in Turn!Session : Turn!Parse(log[s]) \in TurnBoards
    BY <1>1, ParseIs DEF TurnBoards
  <1> QED BY <1>1, <1>2, <1>3, <1>4

(* An older observation never overwrites a newer one. *)
LEMMA SetKeepsLatest ==
  ASSUME TurnInv, NEW b \in TurnBoards, NEW p \in TurnBoards, NEW l \in AllOwn
  PROVE  Turn!Set(b, p) \in TurnBoards /\ (Above(b, l) \/ Above(p, l) => Above(Turn!Set(b, p), l))
  <1>1. b.at \in Nat /\ p.at \in Nat /\ l.at \in Nat
    BY BoardsAre
  <1> QED BY <1>1 DEF Turn!Set, Above

(* After the transcripts in any order the board is no older than a line it    *)
(* had seen, nor than a line of theirs.                                       *)
LEMMA FoldIsLatest ==
  ASSUME TurnInv, NEW order, Len(order) \in Nat, order \in [1 .. Len(order) -> Turn!Session]
  PROVE  /\ Turn!Fold(order) \in TurnBoards
         /\ \A l \in Seen : Above(Turn!Fold(order), l)
         /\ \A j \in 1 .. Len(order) : \A i \in 1 .. Len(log[order[j]]) :
               log[order[j]][i].kind \in OwnKinds => Above(Turn!Fold(order), log[order[j]][i])
  <1> DEFINE n == Len(order)
             R(j) == Turn!Parse(log[order[j]])
             F == [p \in TurnBoards \X (1 .. n) |-> Turn!Set(p[1], R(p[2]))]
             Def(g) == g = [i \in 0 .. n |-> IF i = 0 THEN board ELSE Turn!Set(g[i - 1], R(i))]
  <1>1. n \in Nat /\ \A j \in 1 .. n : order[j] \in Turn!Session /\ R(j) \in TurnBoards
    BY BoardsAre
  <1>2. \A b, p \in TurnBoards : Turn!Set(b, p) \in TurnBoards
    BY DEF Turn!Set
  <1>3. F \in [TurnBoards \X (1 .. n) -> TurnBoards] /\ \A v \in TurnBoards, i \in 1 .. n : F[<<v, i>>] = Turn!Set(v, R(i))
    BY <1>1, <1>2
  <1> HIDE DEF F, n, R
  <1>4. PICK h \in [0 .. n -> TurnBoards] : IsFold(h, F, board, n)
    BY <1>1, <1>3, BoardsAre, FoldExists
  <1>5. Def(h)
    <2>1. ASSUME NEW i \in 0 .. n PROVE h[i] = IF i = 0 THEN board ELSE Turn!Set(h[i - 1], R(i))
      <3>1. i # 0 => i - 1 \in 0 .. n /\ i \in 1 .. n
        BY <1>1
      <3> QED BY <1>3, <1>4, <3>1 DEF IsFold
    <2> QED BY <1>4, <2>1
  <1>6. PICK g : Def(g) /\ Turn!Fold(order) = g[n]
    BY <1>5 DEF Turn!Fold, n, R
  <1> DEFINE Own(j) == {l \in AllOwn : \E i \in 1 .. Len(log[order[j]]) : l = log[order[j]][i]}
             T == {k \in Nat : k <= n => /\ g[k] \in TurnBoards
                                         /\ \A l \in Seen : Above(g[k], l)
                                         /\ \A j \in 1 .. k : \A l \in Own(j) : Above(g[k], l)}
  <1> HIDE DEF Own
  <1>7. 0 \in T
    <2>1. g[0] = board
      BY <1>1, <1>6
    <2> QED BY <2>1, BoardsAre
  <1>8. ASSUME NEW k \in Nat, k \in T PROVE k + 1 \in T
    <2> SUFFICES ASSUME k + 1 <= n
                 PROVE  /\ g[k + 1] \in TurnBoards
                        /\ \A l \in Seen : Above(g[k + 1], l)
                        /\ \A j \in 1 .. k + 1 : \A l \in Own(j) : Above(g[k + 1], l)
      OBVIOUS
    <2>1. k + 1 \in 0 .. n /\ k + 1 # 0 /\ k + 1 \in 1 .. n /\ (k + 1) - 1 = k
      BY <1>1
    <2>2. g[k + 1] = Turn!Set(g[k], R(k + 1)) /\ R(k + 1) \in TurnBoards
      BY <1>1, <1>6, <2>1
    <2>3. /\ g[k] \in TurnBoards /\ \A l \in Seen : Above(g[k], l)
          /\ \A j \in 1 .. k : \A l \in Own(j) : Above(g[k], l)
      BY <1>1, <1>8
    <2>4. \A l \in AllOwn : Above(g[k], l) \/ Above(R(k + 1), l) => Above(g[k + 1], l)
      BY <2>2, <2>3, SetKeepsLatest
    <2>5. \A l \in Own(k + 1) : Above(R(k + 1), l)
      <3> DEFINE s == order[k + 1]
      <3>1. s \in Turn!Session
        BY <1>1, <2>1
      <3>2. CASE \A i \in 1 .. Len(log[s]) : log[s][i].kind \notin OwnKinds
        BY <3>2 DEF Own, AllOwn
      <3>3. CASE \E l \in AllOwn : /\ Turn!Parse(log[s]) = Obs(l)
                                   /\ \A i \in 1 .. Len(log[s]) : log[s][i].kind \in OwnKinds => log[s][i].at <= l.at
        <4>1. PICK m \in AllOwn : /\ Turn!Parse(log[s]) = Obs(m)
                                  /\ \A i \in 1 .. Len(log[s]) : log[s][i].kind \in OwnKinds => log[s][i].at <= m.at
          BY <3>3
        <4>2. Obs(m).state # "none" /\ Obs(m).at = m.at
          BY BoardsAre
        <4> QED BY <4>1, <4>2 DEF Own, AllOwn, Above, R
      <3> QED BY <3>1, <3>2, <3>3, ParseIs
    <2>6. g[k + 1] \in TurnBoards
      BY <1>2, <2>2, <2>3
    <2>7. \A l \in Seen : Above(g[k + 1], l)
      BY <2>3, <2>4 DEF Seen
    <2>8. ASSUME NEW j \in 1 .. k + 1, NEW l \in Own(j) PROVE Above(g[k + 1], l)
      <3>1. l \in AllOwn
        BY DEF Own
      <3>2. CASE j = k + 1
        BY <2>4, <2>5, <3>1, <3>2
      <3>3. CASE j # k + 1
        <4>1. j \in 1 .. k
          BY <3>3
        <4> QED BY <2>3, <2>4, <3>1, <4>1
      <3> QED BY <3>2, <3>3
    <2> QED BY <2>6, <2>7, <2>8
  <1>9. n \in T
    <2> HIDE DEF T
    <2> QED BY <1>1, <1>7, <1>8, AllNats
  <1>10. /\ Turn!Fold(order) \in TurnBoards
         /\ \A l \in Seen : Above(Turn!Fold(order), l)
         /\ \A j \in 1 .. n : \A l \in Own(j) : Above(Turn!Fold(order), l)
    BY <1>1, <1>6, <1>9
  <1>11. ASSUME NEW j \in 1 .. n, NEW i \in 1 .. Len(log[order[j]]), log[order[j]][i].kind \in OwnKinds
         PROVE  log[order[j]][i] \in Own(j)
    <2>1. log[order[j]][i] \in AllLines
      BY <1>1, LinesAre DEF TurnInv
    <2> QED BY <1>11, <2>1 DEF Own, AllOwn
  <1> QED BY <1>10, <1>11 DEF n

LEMMA SweepKeeps == ASSUME Turn!TurnWatchAssumption, TurnInv, Turn!Sweep PROVE TurnInv'
  <1> DEFINE C == {s \in Turn!Session : Turn!Changed(s)}
  <1>1. UNCHANGED <<runtime, now, log, session>> /\ since' = now /\ truth' = Turn!Truth
    BY DEF Turn!Sweep
  <1>2. PICK order \in Turn!SetToSeqs(C) : board' = Turn!Fold(order)
    BY DEF Turn!Sweep
  <1>3. /\ Len(order) \in Nat /\ order \in [1 .. Len(order) -> C]
        /\ \A s \in C : \E j \in 1 .. Len(order) : order[j] = s
    <2>1. IsFiniteSet(Turn!Session)
      BY FS_Interval DEF Turn!TurnWatchAssumption, Turn!Session
    <2>2. IsFiniteSet(C)
      BY <2>1, FS_Subset
    <2> HIDE DEF C
    <2> QED BY <2>2, OrdersAre
  <1>4. order \in [1 .. Len(order) -> Turn!Session]
    BY <1>3
  <1> HIDE DEF C
  <1>5. \A l \in AllOwn : Above(board', l)
    <2> SUFFICES ASSUME NEW l \in AllOwn PROVE Above(board', l)
      OBVIOUS
    <2>1. PICK s \in Turn!Session : \E i \in 1 .. Len(log[s]) : l = log[s][i]
      BY LinesAre DEF TurnInv, AllOwn
    <2>2. PICK i \in 1 .. Len(log[s]) : l = log[s][i]
      BY <2>1
    <2>3. CASE s \in C
      <3>1. PICK j \in 1 .. Len(order) : order[j] = s
        BY <1>3, <2>3
      <3>2. log[order[j]][i].kind \in OwnKinds
        BY <2>2, <3>1 DEF AllOwn
      <3> QED BY <1>2, <1>3, <1>4, <2>2, <3>1, <3>2, FoldIsLatest
    <2>4. CASE s \notin C
      <3> DEFINE n == Len(log[s])
      <3>1. n \in Nat /\ DOMAIN log[s] = 1 .. n /\ log[s] # <<>> /\ n \in 1 .. n /\ i <= n
        BY LinesAre, <2>2 DEF TurnInv, TurnTyped
      <3>2. log[s][i].at <= log[s][n].at /\ log[s][i].at \in Nat /\ log[s][n].at \in Nat
        BY LinesAre, <2>2, <3>1 DEF TurnInv, LinesTick, TurnLines
      <3>3. ~(log[s][n].at + Overlap >= since)
        BY <2>4, <3>1 DEF C, Turn!Changed, Turn!Last
      <3>4. l \in Seen
        <4>1. l.at <= since
          <5>1. Overlap \in Nat /\ since \in Nat
            BY DEF TurnInv, TurnTyped, Turn!TurnWatchAssumption
          <5> QED BY <2>2, <3>2, <3>3, <5>1
        <4> QED BY <4>1 DEF Seen
      <3> QED BY <1>2, <1>3, <1>4, <3>4, FoldIsLatest
    <2> QED BY <2>3, <2>4
  <1>6. board' \in TurnBoards
    BY <1>2, <1>3, <1>4, FoldIsLatest
  <1>7. AllLines' = AllLines /\ AllOwn' = AllOwn /\ OwnKinds' = OwnKinds
    BY <1>1 DEF AllLines, AllOwn, OwnKinds, Turn!Starts, Turn!Goes, Turn!Ends
  <1>8. Seen' = AllOwn
    <2>1. \A l \in AllOwn : l.at <= now
      BY DEF TurnInv, LinesTick, AllOwn
    <2> QED BY <1>1, <1>7, <2>1 DEF Seen
  <1>9. Turn!Truth = IF AllOwn = {} THEN "none"
                     ELSE IF (CHOOSE l \in AllOwn : \A m \in AllOwn : m.at <= l.at).kind \in Turn!Ends THEN "idle"
                     ELSE "working"
    BY DEF Turn!Truth, AllOwn, AllLines, OwnKinds
  <1>10. BoardStands'
    <2>1. CASE AllOwn = {}
      BY <1>1, <1>6, <1>8, <1>9, <2>1 DEF BoardStands, TurnBoards
    <2>2. CASE AllOwn # {}
      <3>1. PICK l \in AllOwn : board' = Obs(l)
        <4>1. board' # Turn!Nothing
          BY <1>5, <2>2 DEF Above, Turn!Nothing
        <4> QED BY <1>6, <4>1 DEF TurnBoards
      <3>2. \A m \in AllOwn : m.at <= l.at
        BY <1>5, <3>1, BoardsAre DEF Above
      <3>3. (CHOOSE x \in AllOwn : \A m \in AllOwn : m.at <= x.at) = l
        <4>1. ASSUME NEW x \in AllOwn, \A m \in AllOwn : m.at <= x.at PROVE x = l
          <5>1. x.at <= l.at /\ l.at <= x.at /\ x.at \in Nat /\ l.at \in Nat
            BY <3>2, <4>1, BoardsAre
          <5>2. x.at = l.at
            BY <5>1
          <5> QED BY <5>2 DEF TurnInv, LinesTick, AllOwn
        <4> QED BY <3>2, <4>1
      <3>4. truth' = Turn!TurnOf(l.kind)
        BY <1>1, <1>9, <2>2, <3>3, KindsAre DEF TurnInv, TurnTyped, AllOwn
      <3> QED BY <1>8, <3>1, <3>2, <3>4 DEF BoardStands, Obs
    <2> QED BY <2>1, <2>2
  <1>11. TurnTyped'
    <2>1. TurnLines' = TurnLines
      BY <1>1 DEF TurnLines, OwnKinds, Turn!Starts, Turn!Goes, Turn!Ends, Turn!Noise
    <2> QED BY <1>1, <2>1 DEF TurnInv, TurnTyped
  <1>12. LinesTick'
    BY <1>1, <1>7 DEF TurnInv, LinesTick
  <1> QED BY <1>10, <1>11, <1>12 DEF TurnInv

LEMMA WriteKeeps ==
  ASSUME Turn!TurnWatchAssumption, TurnInv, session \in Turn!Session, NEW k \in OwnKinds \cup Turn!Noise, Turn!Write(k)
  PROVE  TurnInv'
  <1> DEFINE new == [kind |-> k, at |-> now + 1]
  <1>1. /\ now' = now + 1 /\ now \in Nat /\ new \in TurnLines
        /\ log' = [log EXCEPT ![session] = Append(@, new)]
        /\ UNCHANGED <<runtime, session, board, since, truth>>
    BY DEF Turn!Write, TurnInv, TurnTyped, TurnLines
  <1>2. UNCHANGED <<OwnKinds, TurnLines>>
    BY <1>1 DEF TurnLines, OwnKinds, Turn!Starts, Turn!Goes, Turn!Ends, Turn!Noise
  <1>3. TurnTyped'
    BY <1>1, <1>2 DEF TurnInv, TurnTyped
  <1> DEFINE n == Len(log[session])
  <1>4. /\ n \in Nat /\ Len(log'[session]) = n + 1 /\ log'[session][n + 1] = new
        /\ \A i \in 1 .. n : log'[session][i] = log[session][i]
        /\ DOMAIN log'[session] = 1 .. n + 1
        /\ \A s \in Turn!Session : s # session => log'[s] = log[s]
    BY <1>1 DEF TurnInv, TurnTyped
  <1> HIDE DEF new, n
  <1>5. AllLines' = AllLines \cup {new}
    <2>1. ASSUME NEW l \in AllLines' PROVE l \in AllLines \cup {new}
      <3>1. PICK s \in Turn!Session : \E i \in DOMAIN log'[s] : l = log'[s][i]
        BY DEF AllLines, Turn!Range
      <3>2. PICK i \in DOMAIN log'[s] : l = log'[s][i]
        BY <3>1
      <3>3. CASE s = session
        <4>1. i = n + 1 \/ i \in 1 .. n
          BY <1>4, <3>3
        <4> QED BY <1>4, <3>2, <3>3, <4>1, LinesAre DEF TurnInv, n
      <3>4. CASE s # session
        BY <1>4, <3>2, <3>4, LinesAre DEF TurnInv
      <3> QED BY <3>3, <3>4
    <2>2. ASSUME NEW l \in AllLines PROVE l \in AllLines'
      <3>1. PICK s \in Turn!Session : \E i \in 1 .. Len(log[s]) : l = log[s][i]
        BY LinesAre DEF TurnInv
      <3>2. PICK i \in 1 .. Len(log[s]) : l = log[s][i]
        BY <3>1
      <3>3. i \in DOMAIN log'[s] /\ log'[s][i] = l
        BY <1>4, <3>2, LinesAre DEF n, TurnInv
      <3> QED BY <3>3 DEF AllLines, Turn!Range
    <2>3. new \in AllLines'
      <3>1. n + 1 \in DOMAIN log'[session]
        BY <1>4
      <3> QED BY <1>4, <3>1 DEF AllLines, Turn!Range
    <2> QED BY <2>1, <2>2, <2>3
  <1>6. new.at = now + 1 /\ new.kind = k
    BY DEF new
  <1>7. Seen' = Seen
    <2>1. ~(new.at <= since)
      BY <1>1, <1>6 DEF TurnInv, TurnTyped
    <2> QED BY <1>1, <1>2, <1>5, <2>1 DEF Seen, AllOwn
  <1>8. BoardStands'
    BY <1>1, <1>7 DEF TurnInv, BoardStands, Obs
  <1>9. \A l \in AllLines : l.at \in Nat /\ 1 <= l.at /\ l.at <= now
    BY LinesAre DEF TurnInv, LinesTick, TurnLines
  <1>10. \A s \in Turn!Session : \A i, j \in DOMAIN log'[s] : i <= j => log'[s][i].at <= log'[s][j].at
    <2> SUFFICES ASSUME NEW s \in Turn!Session, NEW i \in DOMAIN log'[s], NEW j \in DOMAIN log'[s], i <= j
                 PROVE  log'[s][i].at <= log'[s][j].at
      OBVIOUS
    <2>1. CASE s # session
      BY <1>4, <2>1 DEF TurnInv, LinesTick
    <2>2. CASE s = session /\ j = n + 1
      <3>1. i = n + 1 \/ i \in 1 .. n
        BY <1>4, <2>2
      <3>2. i \in 1 .. n => log[session][i] \in AllLines
        BY LinesAre DEF n, TurnInv
      <3>3. log'[s][j].at = now + 1
        BY <1>4, <1>6, <2>2
      <3>4. i \in 1 .. n => log'[s][i].at \in Nat /\ log'[s][i].at <= now
        BY <1>4, <1>9, <2>2, <3>2
      <3> QED BY <1>1, <2>2, <3>1, <3>3, <3>4
    <2>3. CASE s = session /\ j # n + 1
      <3>1. i \in 1 .. n /\ j \in 1 .. n
        BY <1>4, <2>3
      <3>2. log[session][i].at <= log[session][j].at
        BY <3>1, LinesAre DEF TurnInv, LinesTick, n
      <3> QED BY <1>4, <2>3, <3>1, <3>2
    <2> QED BY <2>1, <2>2, <2>3
  <1>11. \A l, m \in AllLines' : l.at = m.at => l = m
    BY <1>1, <1>5, <1>6, <1>9 DEF TurnInv, LinesTick
  <1>12. \A l \in AllLines' : 1 <= l.at /\ l.at <= now'
    BY <1>1, <1>5, <1>6, <1>9
  <1>13. LinesTick'
    BY <1>10, <1>11, <1>12 DEF LinesTick
  <1> QED BY <1>3, <1>8, <1>13 DEF TurnInv

LEMMA NothingSeen == ASSUME TurnInv, since' = 0, board' = Turn!Nothing, truth' = "none", UNCHANGED <<runtime, now, log, session>>
                     PROVE TurnInv'
  <1>1. AllLines' = AllLines /\ OwnKinds' = OwnKinds /\ TurnLines' = TurnLines
    BY DEF AllLines, TurnLines, OwnKinds, Turn!Starts, Turn!Goes, Turn!Ends, Turn!Noise
  <1>2. TurnTyped' /\ LinesTick'
    BY <1>1 DEF TurnInv, TurnTyped, LinesTick
  <1>3. \A l \in AllLines : l.at \in Nat /\ 1 <= l.at
    BY LinesAre DEF TurnInv, LinesTick, TurnLines
  <1>4. Seen' = {}
    BY <1>1, <1>3 DEF Seen, AllOwn
  <1> QED BY <1>2, <1>4 DEF TurnInv, BoardStands

LEMMA TurnOthers == ASSUME TurnInv, now' \in Nat, now <= now', session' \in 0 .. MaxSession,
                           UNCHANGED <<runtime, log, board, since, truth>>
                    PROVE TurnInv'
  <1>1. AllLines' = AllLines /\ OwnKinds' = OwnKinds /\ TurnLines' = TurnLines
    BY DEF AllLines, TurnLines, OwnKinds, Turn!Starts, Turn!Goes, Turn!Ends, Turn!Noise
  <1>2. Seen' = Seen
    BY <1>1 DEF Seen, AllOwn
  <1>3. \A l \in AllLines : l.at \in Nat
    BY LinesAre DEF TurnInv, TurnLines
  <1> QED BY <1>1, <1>2, <1>3 DEF TurnInv, TurnTyped, LinesTick, BoardStands, Obs

LEMMA TurnNext == ASSUME Turn!TurnWatchAssumption, TurnInv, [Turn!Next]_Turn!vars PROVE TurnInv'
  <1>1. CASE Turn!NewSession
    BY <1>1, TurnOthers DEF Turn!TurnWatchAssumption, Turn!NewSession, TurnInv, TurnTyped
  <1> DEFINE Mine == session \in Turn!Session
  <1>2. ASSUME NEW k, Turn!Write(k) PROVE Mine
    <2>1. MaxSession \in Nat
      BY DEF Turn!TurnWatchAssumption
    <2> QED BY <1>2, <2>1 DEF Turn!Write, Turn!Session, TurnInv, TurnTyped
  <1>3. CASE Turn!Begin \/ Turn!Continue \/ Turn!End \/ Turn!Mutter
    <2>1. PICK k \in OwnKinds \cup Turn!Noise : Turn!Write(k)
      BY <1>3 DEF Turn!Begin, Turn!Continue, Turn!End, Turn!Mutter, OwnKinds
    <2> QED BY <1>2, <2>1, WriteKeeps
  <1>4. CASE Turn!Tick
    BY <1>4, TurnOthers DEF Turn!Tick, TurnInv, TurnTyped
  <1>5. CASE Turn!Sweep
    BY <1>5, SweepKeeps
  <1>6. CASE Turn!Restart
    BY <1>6, NothingSeen DEF Turn!Restart
  <1>7. CASE UNCHANGED Turn!vars
    BY <1>7, TurnOthers DEF Turn!vars, TurnInv, TurnTyped
  <1> QED BY <1>1, <1>3, <1>4, <1>5, <1>6, <1>7 DEF Turn!Next

(* The values of the variables: a line takes a tick, so a transcript is no longer  *)
(* than the clock.                                                                *)
TurnTypes ==
  /\ now \in 0 .. TurnTime /\ turn \in Turn!States /\ restarts \in 0 .. MaxRestart
  /\ \A s \in Turn!Session : Len(log[s]) <= now

LEMMA TurnIsTyped == ASSUME Turn!TurnWatchAssumption, TurnInv, TurnTypes PROVE Turn!TypeOK
  <1>1. board.state \in Turn!States \cup {"none"} /\ truth \in Turn!States \cup {"none"}
    <2>1. CASE board = Turn!Nothing /\ truth = "none"
      BY <2>1 DEF Turn!Nothing
    <2>2. CASE \E l \in Seen : board = Obs(l) /\ truth = Turn!TurnOf(l.kind)
      BY <2>2 DEF Obs, Turn!TurnOf, Turn!States
    <2> QED BY <2>1, <2>2 DEF TurnInv, BoardStands
  <1>2. \A s \in Turn!Session : Len(log[s]) \in Nat
    BY LinesAre DEF TurnInv
  <1>3. now \in Nat /\ now <= TurnTime /\ since \in Nat /\ since <= now
    BY DEF TurnInv, TurnTyped, TurnTypes, Turn!TurnWatchAssumption
  <1>4. TurnTime \in Nat
    BY DEF Turn!TurnWatchAssumption
  <1>5. since \in 0 .. TurnTime /\ \A s \in Turn!Session : Len(log[s]) <= TurnTime
    BY <1>2, <1>3, <1>4 DEF TurnTypes
  <1> QED BY <1>1, <1>5 DEF TurnInv, TurnTyped, TurnTypes, Turn!TypeOK

LEMMA TurnTypeInit == ASSUME Turn!TurnWatchAssumption, Turn!Init PROVE TurnTypes
  BY DEF Turn!TurnWatchAssumption, Turn!Init, TurnTypes, Turn!States

LEMMA TurnTypeNext == ASSUME Turn!TurnWatchAssumption, TurnInv, TurnTypes, [Turn!Next]_Turn!vars PROVE TurnTypes'
  <1>0. /\ now \in 0 .. TurnTime /\ turn \in Turn!States /\ restarts \in 0 .. MaxRestart
        /\ TurnTime \in Nat /\ MaxRestart \in Nat
        /\ \A s \in Turn!Session : log[s] \in Seq(TurnLines) /\ Len(log[s]) \in Nat /\ Len(log[s]) <= now
    BY LinesAre DEF Turn!TurnWatchAssumption, TurnTypes, TurnInv, TurnTyped
  <1>1. ASSUME NEW k, Turn!Write(k) PROVE now' \in 0 .. TurnTime /\ restarts' = restarts /\ \A s \in Turn!Session : Len(log'[s]) <= now'
    <2>1. /\ now' = now + 1 /\ now < TurnTime /\ restarts' = restarts
          /\ log' = [log EXCEPT ![session] = Append(@, [kind |-> k, at |-> now + 1])]
      BY <1>1 DEF Turn!Write
    <2>2. ASSUME NEW s \in Turn!Session PROVE Len(log'[s]) <= now'
      <3>1. log'[s] \in {log[s], Append(log[s], [kind |-> k, at |-> now + 1])}
        BY <2>1 DEF TurnInv, TurnTyped
      <3>2. Len(Append(log[s], [kind |-> k, at |-> now + 1])) = Len(log[s]) + 1
        BY <1>0
      <3> QED BY <1>0, <2>1, <3>1, <3>2
    <2> QED BY <1>0, <2>1, <2>2
  <1>2. CASE Turn!Begin \/ Turn!Continue \/ Turn!End \/ Turn!Mutter
    <2>1. turn' \in Turn!States
      BY <1>0, <1>2 DEF Turn!Begin, Turn!Continue, Turn!End, Turn!Mutter, Turn!States
    <2>2. \E k : Turn!Write(k)
      BY <1>2 DEF Turn!Begin, Turn!Continue, Turn!End, Turn!Mutter
    <2> QED BY <1>0, <1>1, <2>1, <2>2 DEF TurnTypes
  <1>3. CASE Turn!NewSession \/ Turn!Sweep \/ UNCHANGED Turn!vars
    BY <1>0, <1>3 DEF Turn!NewSession, Turn!Sweep, Turn!vars, TurnTypes, Turn!States
  <1>4. CASE Turn!Tick
    BY <1>0, <1>4 DEF Turn!Tick, TurnTypes
  <1>5. CASE Turn!Restart
    BY <1>0, <1>5 DEF Turn!Restart, TurnTypes
  <1> QED BY <1>2, <1>3, <1>4, <1>5 DEF Turn!Next

LEMMA TurnSafe == ASSUME Turn!TurnWatchAssumption, TurnInv PROVE Turn!ActivityHonest
  <1>1. Stale \in Nat /\ now \in Nat
    BY DEF TurnInv, TurnTyped, Turn!TurnWatchAssumption
  <1>2. board.at \in Nat
    BY BoardsAre
  <1>3. board.state = truth
    BY DEF TurnInv, BoardStands, Obs, Turn!Nothing
  <1> QED BY <1>1, <1>2, <1>3 DEF Turn!ActivityHonest, Turn!Activity

(* The activity shown is the one the peer's own last line stood for when the  *)
(* daemon last looked, and a claim of work never outlives the stale bound.    *)
THEOREM ActivityIsHonest == ASSUME Turn!TurnWatchAssumption PROVE Turn!Spec => []Turn!ActivityHonest
  <1>1. Turn!Init => TurnInv
    BY TurnInit
  <1>2. TurnInv /\ [Turn!Next]_Turn!vars => TurnInv'
    BY TurnNext
  <1>3. TurnInv => Turn!ActivityHonest
    BY TurnSafe
  <1> QED BY <1>1, <1>2, <1>3, PTL DEF Turn!Spec

-----------------------------------------------------------------------------
(* A notice, a failover hint or a parked limit stands for a turn that died on a *)
(* refusal: a reading of a rollout that has a refused snapshot in hand is the    *)
(* reading of a turn whose last call was refused or of one given up, and every   *)
(* death it has found is one that happened; and a notice has counted no more      *)
(* than the deaths up to the last one it stands for.                              *)
MuteKinds == {"error", "aborted", "task_started", "snapshot", "task_complete"}
Lines == [k : MuteKinds, at : Nat, windows : BOOLEAN, used : BOOLEAN, full : BOOLEAN, typed : BOOLEAN, said : BOOLEAN]
Found == [at : Nat, reset : Nat, type : {"none", "native", "usage_limit_exceeded", "api-refusal"}]
Modes == [refused : BOOLEAN, full : Nat, death : Found]
Notices == [count : Nat, expires : Nat, event : Nat]
Unread == [refused |-> FALSE, full |-> 0, death |-> Mute!Nothing]

MuteTyped ==
  /\ runtime \in {"claude", "codex", "opencode"}
  /\ now \in Nat /\ since \in Nat
  /\ log \in [File -> Seq(Lines)]
  /\ call \in [File -> {"off", "none", "served", "refused"}]
  /\ deaths \subseteq 1 .. now
  /\ board \in [Mute!Types -> Notices]

\* What the parsers find in the files is a death; a refusal they still have in
\* hand is the running turn's last word, or a turn's that was given up.
FilesTell ==
  /\ \A f \in File : \A i \in DOMAIN log[f] : log[f][i].k = "error" => log[f][i].at \in deaths
  /\ \A f \in File : /\ Mute!Rollout(log[f]).refused => call[f] \in {"refused", "off"}
                     /\ Mute!Rollout(log[f]).death.at \in deaths \cup {0}

UpTo(t) == {d \in deaths : d <= t}

CountedOnce == \A t \in Mute!Types : board[t].count <= Cardinality(UpTo(board[t].event))

MuteInv == MuteTyped /\ FilesTell /\ heard \cup parked \subseteq deaths /\ CountedOnce

IsReading(g, text) == g = [i \in 0 .. Len(text) |-> IF i = 0 THEN Unread ELSE Mute!Follow(g[i - 1], text[i])]

LEMMA FollowTyped ==
  ASSUME Mute!MuteWatchAssumption, NEW m \in Modes, NEW l \in Lines PROVE Mute!Follow(m, l) \in Modes
  <1>1. Window \in Nat
    BY DEF Mute!MuteWatchAssumption
  <1>2. Mute!Resets(l) \in Nat /\ l.at \in Nat /\ m.full \in Nat /\ l.windows \in BOOLEAN /\ l.used \in BOOLEAN
    BY <1>1 DEF Mute!Resets, Lines, Modes
  <1> DEFINE full == IF l.windows THEN (IF l.full THEN Mute!Resets(l) ELSE 0) ELSE m.full
             type == IF l.typed THEN "native" ELSE IF m.full > 0 THEN "usage_limit_exceeded" ELSE "api-refusal"
             death == IF l.typed \/ (m.refused /\ ~l.said) THEN [at |-> l.at, reset |-> m.full, type |-> type] ELSE m.death
  <1>3. full \in Nat
    BY <1>2
  <1>4. death \in Found
    BY <1>2 DEF Found, Modes
  <1>5. CASE l.k = "task_started"
    BY <1>5 DEF Mute!Follow, Modes
  <1>6. CASE l.k = "snapshot"
    <2>1. Mute!Follow(m, l) = [m EXCEPT !.refused = ~l.windows /\ ~l.used, !.full = full]
      BY <1>6 DEF Mute!Follow
    <2> HIDE DEF full
    <2> QED BY <1>3, <2>1 DEF Modes
  <1>7. CASE l.k = "task_complete"
    <2>1. Mute!Follow(m, l) = [m EXCEPT !.refused = FALSE, !.death = death]
      BY <1>7 DEF Mute!Follow
    <2> HIDE DEF death
    <2> QED BY <1>4, <2>1 DEF Modes
  <1>8. CASE l.k \notin {"task_started", "snapshot", "task_complete"}
    BY <1>8 DEF Mute!Follow
  <1> QED BY <1>5, <1>6, <1>7, <1>8

LEMMA LinesAt == ASSUME NEW text \in Seq(Lines)
                 PROVE  Len(text) \in Nat /\ DOMAIN text = 1 .. Len(text) /\ \A i \in 1 .. Len(text) : text[i] \in Lines
  OBVIOUS

LEMMA ReadingExists ==
  ASSUME Mute!MuteWatchAssumption, NEW text \in Seq(Lines)
  PROVE  \E g \in [0 .. Len(text) -> Modes] : IsReading(g, text)
  <1> DEFINE n == Len(text)
             F == [p \in Modes \X (1 .. n) |-> Mute!Follow(p[1], text[p[2]])]
  <1>1. n \in Nat /\ \A i \in 1 .. n : text[i] \in Lines
    BY LinesAt
  <1>2. \A v \in Modes, i \in 1 .. n : Mute!Follow(v, text[i]) \in Modes
    BY <1>1, FollowTyped
  <1>3. F \in [Modes \X (1 .. n) -> Modes] /\ \A v \in Modes, i \in 1 .. n : F[<<v, i>>] = Mute!Follow(v, text[i])
    BY <1>2
  <1>4. Unread \in Modes
    BY DEF Unread, Modes, Found, Mute!Nothing
  <1> HIDE DEF F, n
  <1>5. PICK h \in [0 .. n -> Modes] : IsFold(h, F, Unread, n)
    BY <1>1, <1>3, <1>4, FoldExists
  <1>6. ASSUME NEW i \in 0 .. n PROVE h[i] = IF i = 0 THEN Unread ELSE Mute!Follow(h[i - 1], text[i])
    <2>1. i # 0 => i - 1 \in 0 .. n /\ i \in 1 .. n
      BY <1>1
    <2> QED BY <1>3, <1>5, <2>1 DEF IsFold
  <1>7. IsReading(h, text)
    BY <1>5, <1>6 DEF IsReading, n
  <1> QED BY <1>7 DEF n

LEMMA RolloutIs ==
  ASSUME NEW text, NEW g, IsReading(g, text)
  PROVE  \E h : IsReading(h, text) /\ Mute!Rollout(text) = h[Len(text)]
  BY DEF IsReading, Mute!Rollout, Unread

(* Two readings of the same lines agree; so do two of a transcript and of the  *)
(* transcript one line longer, as far as the shorter goes.                      *)
LEMMA ReadingsAgree ==
  ASSUME NEW n \in Nat, NEW a, NEW b, Len(a) \in Nat, Len(b) \in Nat, n <= Len(a), n <= Len(b),
         \A i \in 1 .. n : a[i] = b[i], NEW g, NEW h, IsReading(g, a), IsReading(h, b)
  PROVE  g[n] = h[n]
  <1> DEFINE T == {k \in Nat : k <= n => g[k] = h[k]}
  <1>1. /\ \A i \in 0 .. Len(a) : g[i] = IF i = 0 THEN Unread ELSE Mute!Follow(g[i - 1], a[i])
        /\ \A i \in 0 .. Len(b) : h[i] = IF i = 0 THEN Unread ELSE Mute!Follow(h[i - 1], b[i])
    BY DEF IsReading
  <1>2. 0 \in T
    BY <1>1
  <1>3. ASSUME NEW k \in Nat, k \in T PROVE k + 1 \in T
    <2> SUFFICES ASSUME k + 1 <= n PROVE g[k + 1] = h[k + 1]
      OBVIOUS
    <2>1. k + 1 \in 0 .. Len(a) /\ k + 1 \in 0 .. Len(b) /\ k + 1 \in 1 .. n /\ (k + 1) - 1 = k /\ k + 1 # 0
      OBVIOUS
    <2>2. g[k + 1] = Mute!Follow(g[k], a[k + 1]) /\ h[k + 1] = Mute!Follow(h[k], b[k + 1])
      BY <1>1, <2>1
    <2>3. g[k] = h[k]
      BY <1>3
    <2> QED BY <2>1, <2>2, <2>3
  <1> HIDE DEF T
  <1>4. n \in T
    BY <1>2, <1>3, AllNats
  <1> QED BY <1>4 DEF T

LEMMA RolloutTyped ==
  ASSUME Mute!MuteWatchAssumption, NEW text \in Seq(Lines) PROVE Mute!Rollout(text) \in Modes
  <1>1. PICK g \in [0 .. Len(text) -> Modes] : IsReading(g, text)
    BY ReadingExists
  <1>2. PICK h : IsReading(h, text) /\ Mute!Rollout(text) = h[Len(text)]
    BY <1>1, RolloutIs
  <1>3. Len(text) \in Nat
    BY LinesAt
  <1>4. g[Len(text)] = h[Len(text)]
    BY <1>1, <1>2, <1>3, ReadingsAgree
  <1> QED BY <1>1, <1>2, <1>3, <1>4

(* A rollout one line longer reads as the rollout did, and then the line. *)
LEMMA RolloutGrows ==
  ASSUME Mute!MuteWatchAssumption, NEW text \in Seq(Lines), NEW l \in Lines
  PROVE  Mute!Rollout(Append(text, l)) = Mute!Follow(Mute!Rollout(text), l)
  <1> DEFINE n == Len(text)
             more == Append(text, l)
  <1>1. n \in Nat /\ more \in Seq(Lines) /\ Len(more) = n + 1 /\ more[n + 1] = l /\ \A i \in 1 .. n : more[i] = text[i]
    OBVIOUS
  <1> HIDE DEF more
  <1>2. PICK g : IsReading(g, text) /\ Mute!Rollout(text) = g[n]
    BY ReadingExists, RolloutIs
  <1>3. PICK h : IsReading(h, more) /\ Mute!Rollout(more) = h[n + 1]
    BY <1>1, ReadingExists, RolloutIs
  <1>4. g[n] = h[n]
    <2>1. /\ Len(text) \in Nat /\ Len(more) \in Nat /\ n <= Len(text) /\ n <= Len(more)
          /\ \A i \in 1 .. n : text[i] = more[i]
      BY <1>1
    <2> HIDE DEF n
    <2> QED BY <1>1, <1>2, <1>3, <2>1, ReadingsAgree
  <1>5. n + 1 \in 0 .. n + 1 /\ n + 1 # 0 /\ (n + 1) - 1 = n
    BY <1>1
  <1>6. h[n + 1] = Mute!Follow(h[n], l)
    BY <1>1, <1>3, <1>5 DEF IsReading
  <1> QED BY <1>2, <1>3, <1>4, <1>6 DEF more

LEMMA MuteInit == ASSUME Mute!Init PROVE MuteInv
  <1>1. \A f \in File : log[f] = <<>>
    BY DEF Mute!Init
  <1>2. MuteTyped
    BY DEF Mute!Init, MuteTyped, Mute!Types, Mute!NoNotice, Notices
  <1>3. \A g, text : text = <<>> /\ IsReading(g, text) => g[Len(text)] = Unread
    BY DEF IsReading
  <1>4. ASSUME NEW f \in File PROVE Mute!Rollout(log[f]) = Unread
    <2> DEFINE g == [i \in 0 .. 0 |-> Unread]
    <2>1. IsReading(g, log[f])
      BY <1>1 DEF IsReading
    <2> HIDE DEF g
    <2> QED BY <1>1, <1>3, <2>1, RolloutIs
  <1>5. FilesTell
    BY <1>1, <1>4 DEF FilesTell, Unread, Mute!Nothing
  <1>6. deaths = {} /\ heard \cup parked \subseteq deaths
    BY DEF Mute!Init
  <1>7. CountedOnce
    <2>1. UpTo(0) = {}
      BY <1>6 DEF UpTo
    <2>2. \A t \in Mute!Types : board[t] = Mute!NoNotice
      BY DEF Mute!Init
    <2> QED BY <2>1, <2>2, FS_EmptySet DEF CountedOnce, Mute!NoNotice
  <1> QED BY <1>2, <1>5, <1>6, <1>7 DEF MuteInv

LEMMA DeathsAre ==
  ASSUME MuteTyped
  PROVE  /\ \A d \in deaths : d \in Nat /\ 1 <= d /\ d <= now
         /\ IsFiniteSet(deaths) /\ \A t : IsFiniteSet(UpTo(t)) /\ Cardinality(UpTo(t)) \in Nat
         /\ \A t : Cardinality(UpTo(t)) <= Cardinality(deaths) /\ Cardinality(deaths) \in Nat
  <1>1. now \in Nat /\ deaths \subseteq 1 .. now
    BY DEF MuteTyped
  <1>2. IsFiniteSet(deaths)
    <2>1. IsFiniteSet(1 .. now)
      BY <1>1, FS_Interval
    <2> QED BY <1>1, <2>1, FS_Subset
  <1>3. ASSUME NEW t PROVE IsFiniteSet(UpTo(t)) /\ Cardinality(UpTo(t)) \in Nat /\ Cardinality(UpTo(t)) <= Cardinality(deaths)
    <2>1. UpTo(t) \subseteq deaths
      BY DEF UpTo
    <2> QED BY <1>2, <2>1, FS_Subset, FS_CardinalityType
  <1> QED BY <1>1, <1>2, <1>3, FS_CardinalityType

(* What a file tells of at most one death, happened. *)
LEMMA DetectionsHappened ==
  ASSUME Mute!MuteWatchAssumption, MuteInv, NEW from \in Nat PROVE \A d \in Mute!Detections(from) : d.at \in deaths
  <1> DEFINE floor == Mute!Minus(from, Overlap)
             Death(f) == IF runtime = "codex" THEN Mute!RolloutDeath(log[f], floor) ELSE Mute!ErrorDeath(log[f], floor)
  <1>0. floor \in Nat
    BY DEF Mute!Minus, Mute!MuteWatchAssumption
  <1>1. ASSUME NEW f \in File PROVE Death(f) = Mute!Nothing \/ Death(f).at \in deaths
    <2>1. log[f] \in Seq(Lines) /\ now \in Nat
      BY DEF MuteInv, MuteTyped
    <2>2. CASE runtime = "codex"
      <3>1. Mute!Rollout(log[f]) \in Modes
        BY <2>1, RolloutTyped
      <3>2. Mute!Rollout(log[f]).death.at \in deaths \cup {0}
        BY DEF MuteInv, FilesTell
      <3>3. CASE Mute!Rollout(log[f]).death.at > floor
        <4>1. Mute!Rollout(log[f]).death.at # 0
          BY <1>0, <3>3
        <4> QED BY <2>2, <3>2, <3>3, <4>1 DEF Mute!RolloutDeath
      <3>4. CASE ~(Mute!Rollout(log[f]).death.at > floor)
        BY <2>2, <3>4 DEF Mute!RolloutDeath
      <3> QED BY <3>3, <3>4
    <2>3. CASE runtime # "codex"
      <3> DEFINE errors == {i \in DOMAIN log[f] : log[f][i].k = "error" /\ log[f][i].at > floor}
                 last == log[f][Mute!Max(errors)]
      <3>1. CASE errors = {}
        BY <2>3, <3>1 DEF Mute!ErrorDeath
      <3>2. CASE errors # {}
        <4>1. errors \subseteq 1 .. Len(log[f]) /\ Len(log[f]) \in Nat
          BY <2>1
        <4>2. Mute!Max(errors) \in errors
          <5> HIDE DEF errors
          <5>1. \E x \in errors : \A j \in errors : j <= x
            BY <3>2, <4>1, GreatestNat
          <5>2. \E x \in errors : \A j \in errors : x >= j
            BY <4>1, <5>1
          <5> QED BY <5>2 DEF Mute!Max
        <4>3. last.k = "error" /\ Mute!Max(errors) \in DOMAIN log[f]
          BY <4>2
        <4>4. last.at \in deaths
          BY <4>3 DEF MuteInv, FilesTell
        <4>5. Death(f).at = last.at
          BY <2>3, <3>2 DEF Mute!ErrorDeath
        <4> QED BY <4>4, <4>5
      <3> QED BY <3>1, <3>2
    <2> QED BY <2>2, <2>3
  <1>2. ASSUME NEW d PROVE Mute!Resolve(d).at = d.at \/ Mute!Resolve(d) = d
    BY DEF Mute!Resolve
  <1> SUFFICES ASSUME NEW d \in Mute!Detections(from) PROVE d.at \in deaths
    OBVIOUS
  <1>3. PICK f \in File : d = Mute!Resolve(Death(f)) /\ d # Mute!Nothing
    BY DEF Mute!Detections
  <1> HIDE DEF Death
  <1>4. Mute!Resolve(Mute!Nothing) = Mute!Nothing
    BY DEF Mute!Resolve, Mute!Nothing
  <1> QED BY <1>1, <1>2, <1>3, <1>4

(* Finite and how many mean here what they mean in the module. *)
LEMMA MuteCounts == ASSUME NEW S PROVE (Mute!IsFiniteSet(S) <=> IsFiniteSet(S)) /\ Mute!Cardinality(S) = Cardinality(S)
  BY DEF Mute!IsFiniteSet, IsFiniteSet, Mute!Cardinality, Cardinality

LEMMA DetectionsFinite == ASSUME Mute!MuteWatchAssumption, NEW from PROVE IsFiniteSet(Mute!Detections(from))
  <1> DEFINE floor == Mute!Minus(from, Overlap)
             Death(f) == Mute!Resolve(IF runtime = "codex" THEN Mute!RolloutDeath(log[f], floor) ELSE Mute!ErrorDeath(log[f], floor))
             All == {Death(f) : f \in File}
             F == [f \in File |-> Death(f)]
  <1> HIDE DEF Death
  <1>1. F \in Surjection(File, All)
    BY DEF Surjection
  <1>2. IsFiniteSet(All)
    BY <1>1, MuteCounts, FS_Surjection DEF Mute!MuteWatchAssumption
  <1>3. Mute!Detections(from) \subseteq All
    BY DEF Mute!Detections, Death
  <1> QED BY <1>2, <1>3, FS_Subset

LEMMA OrdersIn ==
  ASSUME NEW C, IsFiniteSet(C), NEW order \in Mute!SetToSeqs(C)
  PROVE  Len(order) \in Nat /\ order \in [1 .. Len(order) -> C] /\ Mute!Range(order) \subseteq C
  <1>1. Cardinality(C) \in Nat
    BY FS_CardinalityType
  <1>2. order \in [1 .. Cardinality(C) -> C]
    BY MuteCounts DEF Mute!SetToSeqs
  <1> QED BY <1>1, <1>2 DEF Mute!Range

Counted(b) == b \in [Mute!Types -> Notices] /\ \A t \in Mute!Types : b[t].count <= Cardinality(UpTo(b[t].event))

Moved(m, c, e) == [m EXCEPT !.count = c, !.event = e]

LEMMA NoticeMoved ==
  ASSUME NEW m \in Notices, NEW c \in Nat, NEW e \in Nat
  PROVE  Moved(m, c, e) \in Notices /\ Moved(m, c, e).count = c /\ Moved(m, c, e).event = e
  BY DEF Moved, Notices

(* A death counts once: a notice is counted up by a later one only. *)
LEMMA RaiseCounts ==
  ASSUME Mute!MuteWatchAssumption, MuteInv, NEW b, Counted(b), NEW d, d.at \in deaths PROVE Counted(Mute!Raise(b, d))
  <1> DEFINE t == d.type
             moment == d.at
             new == [count |-> 1, expires |-> now + Ttl, event |-> moment]
             more == Moved(b[t], b[t].count + 1, moment)
             notice == IF b[t].count = 0 \/ b[t].expires <= now THEN new
                       ELSE IF moment > b[t].event THEN more ELSE b[t]
  <1>1. now \in Nat /\ Ttl \in Nat /\ moment \in Nat /\ 1 <= moment /\ b \in [Mute!Types -> Notices]
    BY DeathsAre DEF MuteInv, MuteTyped, Mute!MuteWatchAssumption, Counted
  <1>2. Mute!Raise(b, d) = [b EXCEPT ![t] = notice]
    BY DEF Mute!Raise, Moved
  <1>3. moment \in UpTo(moment) /\ IsFiniteSet(UpTo(moment)) /\ Cardinality(UpTo(moment)) \in Nat
    <2>1. moment \in Nat /\ moment \in deaths
      BY <1>1
    <2> HIDE DEF moment
    <2>2. moment <= moment
      BY <2>1
    <2>3. moment \in UpTo(moment)
      BY <2>1, <2>2 DEF UpTo
    <2>4. MuteTyped
      BY DEF MuteInv
    <2>5. IsFiniteSet(UpTo(moment)) /\ Cardinality(UpTo(moment)) \in Nat
      BY <2>4, DeathsAre
    <2> QED BY <2>3, <2>5
  <1>4. Cardinality(UpTo(moment)) >= 1
    <2>1. Cardinality(UpTo(moment)) # 0
      BY <1>3, FS_EmptySet
    <2> QED BY <1>3, <2>1
  <1>5. ASSUME t \in Mute!Types PROVE notice \in Notices /\ notice.count <= Cardinality(UpTo(notice.event))
    <2>1. b[t] \in Notices /\ b[t].count <= Cardinality(UpTo(b[t].event))
      BY <1>5 DEF Counted
    <2>2. CASE b[t].count = 0 \/ b[t].expires <= now
      <3>1. notice = new
        BY <2>2
      <3>2. new \in Notices /\ new.count = 1 /\ new.event = moment
        BY <1>1 DEF Notices
      <3> HIDE DEF notice, new
      <3> QED BY <1>3, <1>4, <3>1, <3>2
    <2>3. CASE ~(b[t].count = 0 \/ b[t].expires <= now) /\ moment > b[t].event
      <3>1. notice = more
        BY <2>3
      <3>2. b[t].count \in Nat /\ b[t].event \in Nat
        BY <2>1 DEF Notices
      <3>3. more \in Notices /\ more.count = b[t].count + 1 /\ more.event = moment
        <4> DEFINE m == b[t]
                   c == m.count + 1
        <4>1. m \in Notices /\ c \in Nat /\ moment \in Nat
          BY <1>1, <2>1, <3>2
        <4> HIDE DEF moment, m, c
        <4>2. Moved(m, c, moment) \in Notices /\ Moved(m, c, moment).count = c /\ Moved(m, c, moment).event = moment
          BY <4>1, NoticeMoved
        <4> QED BY <4>2 DEF m, c
      <3>4. Cardinality(UpTo(b[t].event)) + 1 <= Cardinality(UpTo(moment))
        <4> DEFINE old == UpTo(b[t].event)
        <4>1. IsFiniteSet(old) /\ Cardinality(old) \in Nat
          BY DeathsAre DEF MuteInv
        <4>2. moment \notin old
          BY <1>1, <2>3, <3>2 DEF UpTo
        <4>3. old \cup {moment} \subseteq UpTo(moment)
          <5>1. ASSUME NEW x \in old PROVE x \in UpTo(moment)
            <6>1. x \in Nat
              BY DeathsAre DEF MuteInv, UpTo
            <6> QED BY <1>1, <2>3, <3>2, <6>1 DEF UpTo
          <5> QED BY <1>3, <5>1
        <4> HIDE DEF old, moment
        <4>4. Cardinality(old \cup {moment}) = Cardinality(old) + 1
          BY <4>1, <4>2, FS_AddElement
        <4>5. Cardinality(old \cup {moment}) <= Cardinality(UpTo(moment))
          BY <1>3, <4>3, FS_Subset
        <4> QED BY <4>4, <4>5 DEF old
      <3>5. Cardinality(UpTo(b[t].event)) \in Nat
        BY DeathsAre DEF MuteInv
      <3> HIDE DEF notice, more
      <3> QED BY <1>3, <2>1, <3>1, <3>2, <3>3, <3>4, <3>5
    <2>4. CASE ~(b[t].count = 0 \/ b[t].expires <= now) /\ ~(moment > b[t].event)
      BY <2>1, <2>4
    <2> QED BY <2>2, <2>3, <2>4
  <1> HIDE DEF notice
  <1>6. CASE t \in Mute!Types
    BY <1>1, <1>2, <1>5, <1>6 DEF Counted
  <1>7. CASE t \notin Mute!Types
    BY <1>1, <1>2, <1>7 DEF Counted
  <1> QED BY <1>6, <1>7

LEMMA RaiseAllCounts ==
  ASSUME Mute!MuteWatchAssumption, MuteInv, NEW order, Len(order) \in Nat,
         \A j \in 1 .. Len(order) : order[j].at \in deaths
  PROVE  Counted(Mute!RaiseAll(order))
  <1> DEFINE n == Len(order)
             Boards == {b \in [Mute!Types -> Notices] : Counted(b)}
             F == [p \in Boards \X (1 .. n) |-> Mute!Raise(p[1], order[p[2]])]
             Def(g) == g = [i \in 0 .. n |-> IF i = 0 THEN board ELSE Mute!Raise(g[i - 1], order[i])]
  <1>1. \A b \in Boards, i \in 1 .. n : Mute!Raise(b, order[i]) \in Boards
    <2>1. ASSUME NEW b \in Boards, NEW i \in 1 .. n PROVE Mute!Raise(b, order[i]) \in Boards
      <3>1. Counted(Mute!Raise(b, order[i]))
        BY RaiseCounts
      <3> QED BY <3>1 DEF Counted
    <2> QED BY <2>1
  <1> HIDE DEF Boards, n
  <1>2. F \in [Boards \X (1 .. n) -> Boards] /\ \A b \in Boards, i \in 1 .. n : F[<<b, i>>] = Mute!Raise(b, order[i])
    BY <1>1
  <1> HIDE DEF F
  <1>3. board \in Boards
    BY DEF Boards, Counted, MuteInv, MuteTyped, CountedOnce
  <1>4. n \in Nat
    BY DEF n
  <1>5. PICK h \in [0 .. n -> Boards] : IsFold(h, F, board, n)
    BY <1>2, <1>3, <1>4, FoldExists
  <1>6. ASSUME NEW i \in 0 .. n PROVE h[i] = IF i = 0 THEN board ELSE Mute!Raise(h[i - 1], order[i])
    <2>1. i # 0 => i - 1 \in 0 .. n /\ i \in 1 .. n
      BY <1>4
    <2> QED BY <1>2, <1>5, <2>1 DEF IsFold
  <1>7. Def(h)
    BY <1>5, <1>6
  <1>8. PICK g : Def(g) /\ Mute!RaiseAll(order) = g[n]
    BY <1>7 DEF Mute!RaiseAll, n
  <1> DEFINE T == {k \in Nat : k <= n => g[k] \in Boards}
  <1>9. 0 \in T
    BY <1>3, <1>4, <1>8
  <1>10. ASSUME NEW k \in Nat, k \in T PROVE k + 1 \in T
    <2> SUFFICES ASSUME k + 1 <= n PROVE g[k + 1] \in Boards
      OBVIOUS
    <2>1. k + 1 \in 0 .. n /\ k + 1 \in 1 .. n /\ k + 1 # 0 /\ (k + 1) - 1 = k
      BY <1>4
    <2>2. g[k + 1] = Mute!Raise(g[k], order[k + 1])
      BY <1>8, <2>1
    <2>3. g[k] \in Boards
      BY <1>4, <1>10
    <2> QED BY <1>1, <2>1, <2>2, <2>3
  <1>11. n \in T
    <2> HIDE DEF T
    <2> QED BY <1>4, <1>9, <1>10, AllNats
  <1> QED BY <1>4, <1>8, <1>11 DEF Boards

LEMMA MuteSweep == ASSUME Mute!MuteWatchAssumption, MuteInv, Mute!Sweep PROVE MuteInv'
  <1> DEFINE C == Mute!Detections(since)
  <1>1. PICK order \in Mute!SetToSeqs(C) :
          /\ board' = Mute!RaiseAll(order)
          /\ heard' = heard \cup {d.at : d \in Mute!Range(order) \cup Mute!CaughtUp}
          /\ parked' = parked \cup {d.at : d \in {e \in Mute!Range(order) : e.reset > 0} \cup Mute!CaughtUp}
          /\ since' = now /\ UNCHANGED <<runtime, now, log, call, deaths>>
    BY DEF Mute!Sweep
  <1>2. Len(order) \in Nat /\ order \in [1 .. Len(order) -> C] /\ Mute!Range(order) \subseteq C
    <2>1. IsFiniteSet(C)
      BY DetectionsFinite
    <2> HIDE DEF C
    <2> QED BY <2>1, OrdersIn
  <1>3. now \in Nat /\ since \in Nat /\ Mute!Minus(now, Horizon) \in Nat
    BY DEF MuteInv, MuteTyped, Mute!Minus, Mute!MuteWatchAssumption
  <1>4. \A d \in C : d.at \in deaths
    BY <1>3, DetectionsHappened
  <1>5. \A d \in Mute!CaughtUp : d.at \in deaths
    BY <1>3, DetectionsHappened DEF Mute!CaughtUp
  <1> HIDE DEF C
  <1>6. Counted(board')
    BY <1>1, <1>2, <1>4, RaiseAllCounts
  <1>7. heard' \cup parked' \subseteq deaths'
    BY <1>1, <1>2, <1>4, <1>5 DEF MuteInv
  <1>8. MuteTyped'
    BY <1>1, <1>3, <1>6 DEF MuteInv, MuteTyped, Counted, Mute!Types, Notices
  <1>9. CountedOnce'
    BY <1>1, <1>6 DEF Counted, CountedOnce, UpTo
  <1>10. FilesTell'
    BY <1>1 DEF MuteInv, FilesTell
  <1> QED BY <1>7, <1>8, <1>9, <1>10 DEF MuteInv

(* Deaths may only grow under a notice. *)
LEMMA CountStands ==
  ASSUME MuteInv, board' = board, deaths \subseteq deaths', MuteTyped' PROVE CountedOnce'
  <1>1. IsFiniteSet(deaths')
    <2>1. now' \in Nat /\ deaths' \subseteq 1 .. now'
      BY DEF MuteTyped
    <2>2. IsFiniteSet(1 .. now')
      BY <2>1, FS_Interval
    <2> QED BY <2>1, <2>2, FS_Subset
  <1>2. ASSUME NEW t \in Mute!Types PROVE board'[t].count <= Cardinality((UpTo(board[t].event))')
    <2> DEFINE old == UpTo(board[t].event)
               new == UpTo(board[t].event)'
    <2>1. old \subseteq new /\ new \subseteq deaths'
      BY DEF UpTo
    <2>2. IsFiniteSet(new)
      BY <1>1, <2>1, FS_Subset
    <2>3. Cardinality(old) <= Cardinality(new) /\ Cardinality(new) \in Nat
      <3> HIDE DEF old, new
      <3> QED BY <2>1, <2>2, FS_Subset, FS_CardinalityType
    <2>4. Cardinality(old) \in Nat
      BY DeathsAre DEF MuteInv
    <2>5. board[t].count <= Cardinality(old) /\ board[t].count \in Nat
      BY DEF MuteInv, MuteTyped, CountedOnce, Notices
    <2> HIDE DEF old, new
    <2>6. board[t].count <= Cardinality(new)
      BY <2>3, <2>4, <2>5
    <2> QED BY <2>6 DEF new
  <1> QED BY <1>2 DEF CountedOnce

LEMMA MuteWrite ==
  ASSUME Mute!MuteWatchAssumption, MuteInv, NEW f \in File, NEW l \in Lines, l.at = now + 1, Mute!Write(f, l),
         \/ deaths' = deaths \/ deaths' = deaths \cup {now + 1},
         call' \in [File -> {"off", "none", "served", "refused"}],
         \A g \in File : g # f => call'[g] = call[g],
         l.k = "error" => now + 1 \in deaths',
         Mute!Follow(Mute!Rollout(log[f]), l).refused => call'[f] \in {"refused", "off"},
         Mute!Follow(Mute!Rollout(log[f]), l).death.at \in deaths' \cup {0}
  PROVE  MuteInv'
  <1>1. /\ now \in Nat /\ now' = now + 1 /\ log' = [log EXCEPT ![f] = Append(@, l)]
        /\ UNCHANGED <<runtime, board, since, heard, parked>>
    BY DEF Mute!Write, Mute!daemonVars, MuteInv, MuteTyped
  <1>2. \A d \in deaths : d \in Nat /\ 1 <= d /\ d <= now
    BY DeathsAre DEF MuteInv
  <1>3. deaths \subseteq deaths' /\ deaths' \subseteq 1 .. now'
    BY <1>1, <1>2
  <1>4. MuteTyped'
    <2>1. Append(log[f], l) \in Seq(Lines)
      BY DEF MuteInv, MuteTyped
    <2>2. log' \in [File -> Seq(Lines)]
      BY <1>1, <2>1 DEF MuteInv, MuteTyped
    <2> QED BY <1>1, <1>3, <2>2 DEF MuteInv, MuteTyped
  <1>5. CountedOnce'
    BY <1>1, <1>3, <1>4, CountStands
  <1>6. heard' \cup parked' \subseteq deaths'
    BY <1>1, <1>3 DEF MuteInv
  <1>7. log[f] \in Seq(Lines) /\ log'[f] = Append(log[f], l) /\ \A g \in File : g # f => log'[g] = log[g]
    BY <1>1 DEF MuteInv, MuteTyped
  <1>8. \A g \in File : \A i \in DOMAIN log'[g] : log'[g][i].k = "error" => log'[g][i].at \in deaths'
    <2> SUFFICES ASSUME NEW g \in File, NEW i \in DOMAIN log'[g], log'[g][i].k = "error"
                 PROVE  log'[g][i].at \in deaths'
      OBVIOUS
    <2>1. CASE g # f
      BY <1>3, <1>7, <2>1 DEF MuteInv, FilesTell
    <2>2. CASE g = f
      <3> DEFINE n == Len(log[f])
      <3>1. n \in Nat /\ DOMAIN log[f] = 1 .. n /\ DOMAIN log'[f] = 1 .. n + 1 /\ log'[f][n + 1] = l
            /\ \A j \in 1 .. n : log'[f][j] = log[f][j]
        BY <1>7
      <3>2. CASE i = n + 1
        BY <2>2, <3>1, <3>2
      <3>3. CASE i # n + 1
        <4>1. i \in 1 .. n
          BY <2>2, <3>1, <3>3
        <4> QED BY <1>3, <2>2, <3>1, <4>1 DEF MuteInv, FilesTell
      <3> QED BY <3>2, <3>3
    <2> QED BY <2>1, <2>2
  <1>9. ASSUME NEW g \in File
        PROVE  /\ Mute!Rollout(log'[g]).refused => call'[g] \in {"refused", "off"}
               /\ Mute!Rollout(log'[g]).death.at \in deaths' \cup {0}
    <2>1. CASE g # f
      BY <1>3, <1>7, <2>1 DEF MuteInv, FilesTell
    <2>2. CASE g = f
      <3>1. Mute!Rollout(log'[f]) = Mute!Follow(Mute!Rollout(log[f]), l)
        BY <1>7, RolloutGrows
      <3> QED BY <2>2, <3>1
    <2> QED BY <2>1, <2>2
  <1>10. FilesTell'
    <2>1. \A g \in File : Mute!Rollout(log[g])' = Mute!Rollout(log'[g])
      BY DEF Mute!Rollout, Mute!Follow, Mute!Resets
    <2> QED BY <1>8, <1>9, <2>1 DEF FilesTell
  <1> QED BY <1>4, <1>5, <1>6, <1>10 DEF MuteInv

\* The reading of a line of each kind.
LEMMA ReadsOn ==
  ASSUME Mute!MuteWatchAssumption, NEW m \in Modes, NEW l \in Lines
  PROVE  /\ l.k \in {"error", "aborted"} => Mute!Follow(m, l) = m
         /\ l.k = "task_started" => ~Mute!Follow(m, l).refused /\ Mute!Follow(m, l).death = m.death
         /\ l.k = "snapshot" => Mute!Follow(m, l).refused = (~l.windows /\ ~l.used) /\ Mute!Follow(m, l).death = m.death
         /\ l.k = "task_complete" =>
              /\ ~Mute!Follow(m, l).refused
              /\ \/ Mute!Follow(m, l).death = m.death
                 \/ Mute!Follow(m, l).death.at = l.at /\ (l.typed \/ (m.refused /\ ~l.said))
  BY DEF Mute!Follow, Modes

LEMMA LineTyped ==
  ASSUME now \in Nat, NEW k \in MuteKinds
  PROVE  Mute!Line(k) \in Lines /\ Mute!Line(k).k = k /\ Mute!Line(k).at = now + 1
  BY DEF Mute!Line, Lines

LEMMA MuteOther ==
  ASSUME MuteInv, UNCHANGED <<runtime, log, deaths, heard, parked>>, now' \in Nat, now <= now', since' \in Nat,
         board' = board \/ board' = [t \in Mute!Types |-> Mute!NoNotice],
         call' \in [File -> {"off", "none", "served", "refused"}],
         \A f \in File : call'[f] = call[f] \/ call'[f] = "off"
  PROVE  MuteInv'
  <1>1. board' \in [Mute!Types -> Notices]
    BY DEF MuteInv, MuteTyped, Mute!NoNotice, Notices
  <1>2. MuteTyped'
    <2>1. 1 .. now \subseteq 1 .. now'
      BY DEF MuteInv, MuteTyped
    <2> QED BY <1>1, <2>1 DEF MuteInv, MuteTyped
  <1>3. CountedOnce'
    <2>1. CASE board' = board
      BY <1>2, <2>1, CountStands
    <2>2. CASE board' = [t \in Mute!Types |-> Mute!NoNotice]
      <3>1. \A t : UpTo(t)' = UpTo(t)
        BY DEF UpTo
      <3>2. \A t : Cardinality(UpTo(t)) \in Nat
        BY DeathsAre DEF MuteInv
      <3>3. ASSUME NEW t \in Mute!Types PROVE board'[t].count <= Cardinality(UpTo(board'[t].event))
        BY <2>2, <3>2 DEF Mute!NoNotice
      <3> QED BY <3>1, <3>3 DEF CountedOnce, UpTo
    <2> QED BY <2>1, <2>2
  <1>4. FilesTell'
    BY DEF MuteInv, FilesTell
  <1> QED BY <1>2, <1>3, <1>4 DEF MuteInv

LEMMA MuteNext == ASSUME Mute!MuteWatchAssumption, MuteInv, [Mute!Next]_Mute!vars PROVE MuteInv'
  <1> DEFINE Calls == [File -> {"off", "none", "served", "refused"}]
  <1>1. now \in Nat /\ since \in Nat /\ call \in Calls
    BY DEF MuteInv, MuteTyped
  <1>2. \A f \in File :
          /\ Mute!Rollout(log[f]) \in Modes /\ Mute!Rollout(log[f]).death.at \in deaths \cup {0}
          /\ Mute!Rollout(log[f]).refused => call[f] \in {"refused", "off"}
    BY RolloutTyped DEF MuteInv, MuteTyped, FilesTell
  <1>3. \A k \in MuteKinds : Mute!Line(k) \in Lines /\ Mute!Line(k).k = k /\ Mute!Line(k).at = now + 1
    BY <1>1, LineTyped
  <1>4. CASE Mute!Sweep
    BY <1>4, MuteSweep
  <1>5. CASE Mute!Restart
    BY <1>1, <1>5, MuteOther DEF Mute!Restart
  <1>6. CASE Mute!Tick
    BY <1>1, <1>6, MuteOther DEF Mute!Tick, Mute!writerVars, Mute!daemonVars
  <1>7. CASE UNCHANGED Mute!vars
    BY <1>1, <1>7, MuteOther DEF Mute!vars
  <1>8. ASSUME NEW f \in File, Mute!SaysError(f) PROVE MuteInv'
    <2> DEFINE m == Mute!Rollout(log[f])
    <2>0. m \in Modes /\ m.death.at \in deaths \cup {0} /\ (m.refused => call[f] \in {"refused", "off"})
      BY <1>2
    <2> HIDE DEF m
    <2>1. PICK full \in BOOLEAN : Mute!Write(f, [Mute!Line("error") EXCEPT !.full = full])
      BY <1>8 DEF Mute!SaysError
    <2> DEFINE l == [Mute!Line("error") EXCEPT !.full = full]
    <2>2. l \in Lines /\ l.k = "error" /\ l.at = now + 1
      BY <1>3 DEF MuteKinds, Lines
    <2>3. deaths' = deaths \cup {now + 1} /\ call' = call
      BY <1>8 DEF Mute!SaysError
    <2> HIDE DEF l
    <2>4. Mute!Follow(m, l) = m
      BY <2>0, <2>2, ReadsOn
    <2> QED BY <1>1, <2>0, <2>1, <2>2, <2>3, <2>4, MuteWrite DEF l, m
  <1>9. ASSUME NEW f \in File, Mute!Interrupted(f) PROVE MuteInv'
    <2> DEFINE m == Mute!Rollout(log[f])
    <2>0. m \in Modes /\ m.death.at \in deaths \cup {0} /\ (m.refused => call[f] \in {"refused", "off"})
      BY <1>2
    <2> HIDE DEF m
    <2> DEFINE l == Mute!Line("aborted")
    <2>1. Mute!Write(f, l) /\ deaths' = deaths /\ call' = call
      BY <1>9 DEF Mute!Interrupted
    <2>2. l \in Lines /\ l.k = "aborted" /\ l.at = now + 1
      BY <1>3 DEF MuteKinds
    <2> HIDE DEF l
    <2>3. Mute!Follow(m, l) = m
      BY <2>0, <2>2, ReadsOn
    <2> QED BY <1>1, <2>0, <2>1, <2>2, <2>3, MuteWrite DEF m
  <1>10. ASSUME NEW f \in File, Mute!Starts(f) PROVE MuteInv'
    <2> DEFINE m == Mute!Rollout(log[f])
    <2>0. m \in Modes /\ m.death.at \in deaths \cup {0} /\ (m.refused => call[f] \in {"refused", "off"})
      BY <1>2
    <2> HIDE DEF m
    <2> DEFINE l == Mute!Line("task_started")
    <2>1. Mute!Write(f, l) /\ deaths' = deaths /\ call' = [call EXCEPT ![f] = "none"]
      BY <1>10 DEF Mute!Starts
    <2>2. l \in Lines /\ l.k = "task_started" /\ l.at = now + 1
      BY <1>3 DEF MuteKinds
    <2>3. call' \in Calls /\ \A g \in File : g # f => call'[g] = call[g]
      BY <1>1, <2>1
    <2> HIDE DEF l
    <2>4. ~Mute!Follow(m, l).refused /\ Mute!Follow(m, l).death = m.death
      BY <2>0, <2>2, ReadsOn
    <2> QED BY <2>0, <2>1, <2>2, <2>3, <2>4, MuteWrite DEF m
  <1>11. ASSUME NEW f \in File, Mute!Served(f) PROVE MuteInv'
    <2> DEFINE m == Mute!Rollout(log[f])
    <2>0. m \in Modes /\ m.death.at \in deaths \cup {0} /\ (m.refused => call[f] \in {"refused", "off"})
      BY <1>2
    <2> HIDE DEF m
    <2>1. PICK full \in BOOLEAN : Mute!Write(f, [Mute!Line("snapshot") EXCEPT !.windows = TRUE, !.full = full])
      BY <1>11 DEF Mute!Served
    <2> DEFINE l == [Mute!Line("snapshot") EXCEPT !.windows = TRUE, !.full = full]
    <2>2. l \in Lines /\ l.k = "snapshot" /\ l.at = now + 1 /\ l.windows
      BY <1>3 DEF MuteKinds, Lines
    <2>3. /\ deaths' = deaths /\ call' = [call EXCEPT ![f] = "served"]
          /\ call' \in Calls /\ \A g \in File : g # f => call'[g] = call[g]
      BY <1>1, <1>11 DEF Mute!Served
    <2> HIDE DEF l
    <2>4. ~Mute!Follow(m, l).refused /\ Mute!Follow(m, l).death = m.death
      BY <2>0, <2>2, ReadsOn
    <2> QED BY <2>0, <2>1, <2>2, <2>3, <2>4, MuteWrite DEF l, m
  <1>12. ASSUME NEW f \in File, Mute!RefusedCall(f) PROVE MuteInv'
    <2> DEFINE m == Mute!Rollout(log[f])
    <2>0. m \in Modes /\ m.death.at \in deaths \cup {0} /\ (m.refused => call[f] \in {"refused", "off"})
      BY <1>2
    <2> HIDE DEF m
    <2> DEFINE l == [Mute!Line("snapshot") EXCEPT !.used = FALSE]
    <2>1. Mute!Write(f, l) /\ deaths' = deaths /\ call' = [call EXCEPT ![f] = "refused"]
      BY <1>12 DEF Mute!RefusedCall
    <2>2. l \in Lines /\ l.k = "snapshot" /\ l.at = now + 1
      BY <1>3 DEF MuteKinds, Lines
    <2>3. call' \in Calls /\ call'[f] = "refused" /\ \A g \in File : g # f => call'[g] = call[g]
      BY <1>1, <2>1
    <2> HIDE DEF l
    <2>4. Mute!Follow(m, l).death = m.death
      BY <2>0, <2>2, ReadsOn
    <2> QED BY <2>0, <2>1, <2>2, <2>3, <2>4, MuteWrite DEF m
  <1>13. ASSUME NEW f \in File, Mute!Completes(f) PROVE MuteInv'
    <2> DEFINE m == Mute!Rollout(log[f])
    <2>0. m \in Modes /\ m.death.at \in deaths \cup {0} /\ (m.refused => call[f] \in {"refused", "off"})
      BY <1>2
    <2> HIDE DEF m
    <2>1. PICK typed \in BOOLEAN, said \in BOOLEAN :
            /\ call[f] = "refused" => ~said
            /\ typed => call[f] = "refused"
            /\ Mute!Write(f, [Mute!Line("task_complete") EXCEPT !.typed = typed, !.said = said])
      BY <1>13 DEF Mute!Completes
    <2> DEFINE l == [Mute!Line("task_complete") EXCEPT !.typed = typed, !.said = said]
    <2>2. l \in Lines /\ l.k = "task_complete" /\ l.at = now + 1 /\ l.typed = typed
      BY <1>3 DEF MuteKinds, Lines
    <2>3. /\ call[f] # "off" /\ deaths' = deaths \cup {t \in {now + 1} : call[f] = "refused"}
          /\ call' = [call EXCEPT ![f] = "off"]
      BY <1>13 DEF Mute!Completes
    <2>4. call' \in Calls /\ call'[f] = "off" /\ \A g \in File : g # f => call'[g] = call[g]
      BY <1>1, <2>3
    <2>5. deaths' = IF call[f] = "refused" THEN deaths \cup {now + 1} ELSE deaths
      BY <2>3
    <2> HIDE DEF l
    <2>6. /\ ~Mute!Follow(m, l).refused
          /\ Mute!Follow(m, l).death = m.death \/ (Mute!Follow(m, l).death.at = l.at /\ (l.typed \/ m.refused))
      BY <2>0, <2>2, ReadsOn
    <2>7. Mute!Follow(m, l).death.at \in deaths' \cup {0}
      <3>1. l.typed \/ m.refused => call[f] = "refused"
        BY <2>0, <2>1, <2>2, <2>3
      <3> QED BY <2>0, <2>2, <2>5, <2>6, <3>1
    <2>8. deaths' = deaths \/ deaths' = deaths \cup {now + 1}
      BY <2>5
    <2> QED BY <2>1, <2>2, <2>4, <2>6, <2>7, <2>8, MuteWrite DEF l, m
  <1>14. ASSUME NEW f \in File, Mute!Aborts(f) PROVE MuteInv'
    <2>1. /\ call' \in Calls /\ \A g \in File : call'[g] = call[g] \/ call'[g] = "off"
          /\ UNCHANGED <<runtime, now, log, deaths, Mute!daemonVars>>
      BY <1>1, <1>14 DEF Mute!Aborts
    <2> QED BY <1>1, <2>1, MuteOther DEF Mute!daemonVars
  <1> QED BY <1>4, <1>5, <1>6, <1>7, <1>8, <1>9, <1>10, <1>11, <1>12, <1>13, <1>14 DEF Mute!Next

LEMMA MuteSafe == ASSUME MuteInv PROVE Mute!MuteIsReal
  <1>1. ASSUME NEW t \in Mute!Types PROVE board[t].count <= Cardinality(deaths)
    <2>1. board[t].count \in Nat /\ board[t].count <= Cardinality(UpTo(board[t].event))
      BY DEF MuteInv, MuteTyped, CountedOnce, Notices
    <2> QED BY <2>1, DeathsAre DEF MuteInv
  <1> QED BY <1>1, MuteCounts DEF MuteInv, Mute!MuteIsReal

(* The values of the variables. *)
MuteTypes ==
  /\ now \in 0 .. MaxTime /\ since \in 0 .. MaxTime /\ catchUp \in BOOLEAN /\ restarts \in 0 .. MaxRestart

(* A notice counts no more than the ticks of the clock: a death takes one. *)
LEMMA CountsBounded ==
  ASSUME MuteInv, now \in 0 .. MaxTime, MaxTime \in Nat, NEW t \in Mute!Types PROVE board[t].count \in 0 .. MaxTime
  <1>1. board[t].count \in Nat /\ now \in Nat /\ deaths \subseteq 1 .. now
    BY DEF MuteInv, MuteTyped, Notices
  <1>2. board[t].count <= Cardinality(deaths)
    BY MuteCounts, MuteSafe DEF Mute!MuteIsReal
  <1>3. IsFiniteSet(1 .. now) /\ Cardinality(1 .. now) = now
    BY <1>1, FS_Interval
  <1>4. Cardinality(deaths) \in Nat /\ Cardinality(deaths) <= now
    BY <1>1, <1>3, FS_Subset, FS_CardinalityType
  <1> QED BY <1>1, <1>2, <1>4

LEMMA MuteIsTyped == ASSUME Mute!MuteWatchAssumption, MuteInv, MuteTypes PROVE Mute!TypeOK
  <1>1. MaxTime \in Nat
    BY DEF Mute!MuteWatchAssumption
  <1>2. \A t \in Mute!Types : board[t].count \in 0 .. MaxTime
    BY <1>1, CountsBounded DEF MuteTypes
  <1>3. UNION {heard, parked, deaths} \subseteq 1 .. MaxTime
    <2>1. now \in 0 .. MaxTime /\ deaths \subseteq 1 .. now /\ heard \subseteq deaths /\ parked \subseteq deaths
      BY DEF MuteInv, MuteTyped, MuteTypes
    <2>2. 1 .. now \subseteq 1 .. MaxTime
      BY <1>1, <2>1
    <2>3. heard \subseteq 1 .. MaxTime /\ parked \subseteq 1 .. MaxTime /\ deaths \subseteq 1 .. MaxTime
      BY <2>1, <2>2
    <2> QED BY <2>3
  <1> QED BY <1>2, <1>3 DEF MuteInv, MuteTyped, MuteTypes, Mute!TypeOK

LEMMA MuteTypeInit == ASSUME Mute!MuteWatchAssumption, Mute!Init PROVE MuteTypes
  BY DEF Mute!MuteWatchAssumption, Mute!Init, MuteTypes

LEMMA MuteTypeNext ==
  ASSUME Mute!MuteWatchAssumption, MuteTypes, [Mute!Next]_Mute!vars
  PROVE  MuteTypes'
  <1>0. MuteTypes /\ MaxTime \in Nat /\ MaxRestart \in Nat /\ 0 \in 0 .. MaxRestart
    BY DEF Mute!MuteWatchAssumption
  <1>1. CASE Mute!Sweep
    BY <1>0, <1>1 DEF Mute!Sweep, MuteTypes, Mute!Write, Mute!daemonVars, Mute!writerVars
  <1>2. CASE Mute!Restart
    BY <1>0, <1>2 DEF Mute!Restart, MuteTypes, Mute!Write, Mute!daemonVars, Mute!writerVars
  <1>3. CASE Mute!Tick
    BY <1>0, <1>3 DEF Mute!Tick, MuteTypes, Mute!Write, Mute!daemonVars, Mute!writerVars
  <1>4. ASSUME NEW f \in File, Mute!SaysError(f) PROVE MuteTypes'
    BY <1>0, <1>4 DEF Mute!SaysError, MuteTypes, Mute!Write, Mute!daemonVars, Mute!writerVars
  <1>5. ASSUME NEW f \in File, Mute!Interrupted(f) PROVE MuteTypes'
    BY <1>0, <1>5 DEF Mute!Interrupted, MuteTypes, Mute!Write, Mute!daemonVars, Mute!writerVars
  <1>6. ASSUME NEW f \in File, Mute!Starts(f) PROVE MuteTypes'
    BY <1>0, <1>6 DEF Mute!Starts, MuteTypes, Mute!Write, Mute!daemonVars, Mute!writerVars
  <1>7. ASSUME NEW f \in File, Mute!Served(f) PROVE MuteTypes'
    BY <1>0, <1>7 DEF Mute!Served, MuteTypes, Mute!Write, Mute!daemonVars, Mute!writerVars
  <1>8. ASSUME NEW f \in File, Mute!RefusedCall(f) PROVE MuteTypes'
    BY <1>0, <1>8 DEF Mute!RefusedCall, MuteTypes, Mute!Write, Mute!daemonVars, Mute!writerVars
  <1>9. ASSUME NEW f \in File, Mute!Completes(f) PROVE MuteTypes'
    BY <1>0, <1>9 DEF Mute!Completes, MuteTypes, Mute!Write, Mute!daemonVars, Mute!writerVars
  <1>10. ASSUME NEW f \in File, Mute!Aborts(f) PROVE MuteTypes'
    BY <1>0, <1>10 DEF Mute!Aborts, MuteTypes, Mute!Write, Mute!daemonVars, Mute!writerVars
  <1>11. CASE UNCHANGED Mute!vars
    BY <1>0, <1>11 DEF Mute!vars, MuteTypes, Mute!Write, Mute!daemonVars, Mute!writerVars
  <1> QED BY <1>1, <1>2, <1>3, <1>4, <1>5, <1>6, <1>7, <1>8, <1>9, <1>10, <1>11 DEF Mute!Next

(* A notice, a failover hint or a parked limit stands for a turn that died on  *)
(* a refusal, and a line read by many sweeps counts once.                      *)
THEOREM AMuteIsReal == ASSUME Mute!MuteWatchAssumption PROVE Mute!Spec => []Mute!MuteIsReal
  <1>1. Mute!Init => MuteInv
    BY MuteInit
  <1>2. MuteInv /\ [Mute!Next]_Mute!vars => MuteInv'
    BY MuteNext
  <1>3. MuteInv => Mute!MuteIsReal
    BY MuteSafe
  <1> QED BY <1>1, <1>2, <1>3, PTL DEF Mute!Spec

-----------------------------------------------------------------------------
(* When the verbs are at rest, none was killed and no write fell on a file that *)
(* had changed, the files say what the profiles say: what a file lacks is still  *)
(* to be written by the verb of its folder, and the copy a verb has read still    *)
(* tells of that folder what the file tells.                                      *)
Table == [kind : {"quiet", "user", "mcp", "headers", "projects", "hooks"},
          dir : Dir \cup {"host"}, at : Nat, val : Conf!Groups \cup {"set", "trusted"}]
Texts == Seq(Table)
Ops == Conf!TomlOps \cup Conf!SettingsOps \cup {"unhook"}
Step == [op : Ops, dir : Dir]

\* A verb of p has this change of d's files yet to make.
Ahead(steps, d, op) == \E i \in 1 .. Len(steps) : steps[i] = [op |-> op, dir |-> d]
Pending(p, d, op) == Ahead(todo[p], d, op)

ConfigTyped ==
  /\ toml \in Texts
  /\ hooks \in [Dir -> Seq(Conf!Groups)]
  /\ settings \in [Dir -> SUBSET Conf!Entries]
  /\ mode \in [Dir -> {"none", "yolo", "gated"}]
  /\ todo \in [Proc -> Seq(Step)]
  /\ DOMAIN snap = Proc
  /\ torn \in BOOLEAN /\ killed \in BOOLEAN

\* Two processes work on one folder only if one of them seeds its hooks' trust.
OneVerb ==
  \A p, q \in Proc : \A d \in Dir : \A x, y \in Ops :
    p # q /\ Pending(p, d, x) /\ Pending(q, d, y) => x = "seed" \/ y = "seed"

\* What a verb has yet to do fits the folder's mode, and a folder that is no
\* peer's has nothing that a change could bring back.
FitsMode ==
  /\ \A p \in Proc, d \in Dir, x \in Ops :
       /\ mode[d] = "none" /\ Pending(p, d, x) => x \in {"untrust", "unseed"}
       /\ mode[d] # "none" => ~Pending(p, d, "untrust")
       /\ Pending(p, d, "gate") => mode[d] = "gated"
       /\ Pending(p, d, "ungate") => mode[d] = "yolo"
  /\ \A d \in Dir : mode[d] = "none" => hooks[d] = <<>> /\ settings[d] = {}

\* The copy p has read of the file it changes for d is as good as the file.
Current(p, d, op) ==
  /\ op \in {"trust", "untrust"} => (Conf!Has(snap[p].text, "projects", d) <=> Conf!Has(toml, "projects", d))
  /\ op = "unseed" /\ mode[d] = "none" /\ Conf!Has(toml, "hooks", d) => Conf!Has(snap[p].text, "hooks", d)
  /\ op \in {"gate", "ungate"} => ("ours" \in snap[p].text <=> "ours" \in settings[d])

CopyTyped(p, op) ==
  /\ op \in Conf!TomlOps => snap[p].text \in Texts /\ Conf!Has(snap[p].text, "user", "host")
  /\ op \in Conf!SettingsOps => snap[p].text \in SUBSET Conf!Entries
  /\ op = "unhook" => snap[p].text \in Seq(Conf!Groups)

Copies ==
  \A p \in Proc : snap[p] # None =>
    /\ todo[p] # <<>>
    /\ CopyTyped(p, Head(todo[p]).op)
    /\ ~torn /\ ~killed => Current(p, Head(todo[p]).dir, Head(todo[p]).op)

Settled(d) ==
  /\ mode[d] = "none" /\ Conf!Has(toml, "projects", d) => \E p \in Proc : Pending(p, d, "untrust")
  /\ mode[d] = "none" /\ Conf!Has(toml, "hooks", d) => \E p \in Proc : Pending(p, d, "unseed")
  /\ mode[d] # "none" /\ ~Conf!Has(toml, "projects", d) => \E p \in Proc : Pending(p, d, "trust")
  /\ mode[d] = "gated" /\ "ours" \notin settings[d] => \E p \in Proc : Pending(p, d, "gate")
  /\ mode[d] # "gated" /\ "ours" \in settings[d] => \E p \in Proc : Pending(p, d, "ungate")

Owed == /\ Conf!Has(toml, "user", "host")
        /\ ~torn /\ ~killed => \A d \in Dir : Settled(d)

ConfigInv == ConfigTyped /\ OneVerb /\ FitsMode /\ Copies /\ Owed

-----------------------------------------------------------------------------
Holds(s, x) == \E i \in 1 .. Len(s) : s[i] = x

(* The members kept of a sequence are those at the positions kept. *)
LEMMA KeptIs ==
  ASSUME NEW V, NEW s \in Seq(V), NEW P
  PROVE  /\ Conf!Kept(s, P) \in Seq(V) /\ Len(Conf!Kept(s, P)) <= Len(s)
         /\ \A x : Holds(Conf!Kept(s, P), x) <=> \E i \in 1 .. Len(s) : i \in P /\ s[i] = x
  <1> DEFINE n == Len(s)
             F == [v \in Seq(V) \X (1 .. n) |-> IF v[2] \in P THEN Append(v[1], s[v[2]]) ELSE v[1]]
             Def(g) == g = [i \in 0 .. n |-> IF i = 0 THEN <<>>
                                             ELSE IF i \in P THEN Append(g[i - 1], s[i]) ELSE g[i - 1]]
             Among(t, x) == \E i \in 1 .. Len(t) : t[i] = x
             MetBy(k, x) == \E i \in 1 .. k : i \in P /\ s[i] = x
  <1>1. n \in Nat /\ \A i \in 1 .. n : s[i] \in V
    OBVIOUS
  <1>2. F \in [Seq(V) \X (1 .. n) -> Seq(V)]
    BY <1>1
  <1>3. \A v \in Seq(V), i \in 1 .. n : F[<<v, i>>] = IF i \in P THEN Append(v, s[i]) ELSE v
    OBVIOUS
  <1>4. <<>> \in Seq(V)
    OBVIOUS
  <1>5. n = Len(s)
    OBVIOUS
  <1> HIDE DEF F, n
  <1>6. PICK h \in [0 .. n -> Seq(V)] : IsFold(h, F, <<>>, n)
    BY <1>1, <1>2, <1>4, FoldExists
  <1>7. Def(h)
    <2>1. ASSUME NEW i \in 0 .. n
          PROVE  h[i] = IF i = 0 THEN <<>> ELSE IF i \in P THEN Append(h[i - 1], s[i]) ELSE h[i - 1]
      <3>1. i # 0 => i - 1 \in 0 .. n /\ i \in 1 .. n
        BY <1>1
      <3> QED BY <1>3, <1>6, <3>1 DEF IsFold
    <2> QED BY <1>6, <2>1
  <1>8. PICK g : Def(g) /\ Conf!Kept(s, P) = g[n]
    BY <1>5, <1>7 DEF Conf!Kept
  <1> DEFINE Kind(k) == k <= n => g[k] \in Seq(V) /\ Len(g[k]) <= k /\ \A x : Among(g[k], x) <=> MetBy(k, x)
             T == {k \in Nat : Kind(k)}
  <1>9. 0 \in T
    <2>1. g[0] = <<>>
      BY <1>1, <1>8
    <2>2. Len(<<>>) = 0 /\ 1 .. 0 = {}
      OBVIOUS
    <2>3. \A x : ~Among(<<>>, x) /\ ~MetBy(0, x)
      BY <2>2
    <2>4. Kind(0)
      BY <2>1, <2>2, <2>3, <1>4
    <2> HIDE DEF Kind
    <2> QED BY <2>4
  <1>10. ASSUME NEW k \in Nat, k \in T PROVE k + 1 \in T
    <2>0. Kind(k)
      BY <1>10
    <2> SUFFICES ASSUME k + 1 <= n
                 PROVE  g[k + 1] \in Seq(V) /\ Len(g[k + 1]) <= k + 1 /\ \A x : Among(g[k + 1], x) <=> MetBy(k + 1, x)
      <3>1. k + 1 \in Nat
        OBVIOUS
      <3> QED BY <3>1
    <2>1. k + 1 \in 0 .. n /\ k + 1 # 0 /\ k + 1 \in 1 .. n /\ (k + 1) - 1 = k
      BY <1>1
    <2>2. g[k + 1] = IF k + 1 \in P THEN Append(g[k], s[k + 1]) ELSE g[k]
      BY <1>8, <2>1
    <2>3. g[k] \in Seq(V) /\ Len(g[k]) \in Nat /\ Len(g[k]) <= k /\ (\A x : Among(g[k], x) <=> MetBy(k, x)) /\ s[k + 1] \in V
      <3>1. k <= n
        BY <1>1
      <3> QED BY <1>1, <2>0, <2>1, <3>1
    <2>4. \A x : MetBy(k + 1, x) <=> MetBy(k, x) \/ (k + 1 \in P /\ s[k + 1] = x)
      <3>1. \A i : i \in 1 .. k + 1 <=> i \in 1 .. k \/ i = k + 1
        OBVIOUS
      <3> QED BY <3>1
    <2>5. CASE k + 1 \in P
      <3>1. g[k + 1] = Append(g[k], s[k + 1])
        BY <2>2, <2>5
      <3>2. ASSUME NEW t \in Seq(V), NEW v \in V 
            PROVE /\ Append(t, v) \in Seq(V) /\ Len(Append(t, v)) = Len(t) + 1
                  /\ \A x : Among(Append(t, v), x) <=> Among(t, x) \/ v = x
        <4>1. /\ Append(t, v) \in Seq(V) /\ Len(Append(t, v)) = Len(t) + 1 /\ Len(t) \in Nat
              /\ Append(t, v)[Len(t) + 1] = v
              /\ \A i \in 1 .. Len(t) : Append(t, v)[i] = t[i]
          OBVIOUS
        <4>2. \A i : i \in 1 .. Len(t) + 1 <=> i \in 1 .. Len(t) \/ i = Len(t) + 1
          BY <4>1
        <4> QED BY <4>1, <4>2
      <3> HIDE DEF Among, MetBy
      <3> QED BY <2>3, <2>4, <2>5, <3>1, <3>2
    <2>6. CASE k + 1 \notin P
      <3> HIDE DEF Among, MetBy
      <3> QED BY <2>2, <2>3, <2>4, <2>6
    <2> QED BY <2>5, <2>6
  <1>11. n \in T
    <2> HIDE DEF T
    <2> QED BY <1>1, <1>9, <1>10, AllNats
  <1>12. Kind(n) /\ n <= n
    <2>1. Kind(n)
      <3> HIDE DEF Kind
      <3> QED BY <1>11
    <2> QED BY <1>1, <2>1
  <1>13. Conf!Kept(s, P) \in Seq(V) /\ Len(Conf!Kept(s, P)) <= n /\ \A x : Among(Conf!Kept(s, P), x) <=> MetBy(n, x)
    BY <1>8, <1>12
  <1> QED BY <1>5, <1>13 DEF Holds

(* The members of a concatenation. *)
LEMMA JoinedIs ==
  ASSUME NEW V, NEW s \in Seq(V), NEW t \in Seq(V)
  PROVE  /\ s \o t \in Seq(V)
         /\ \A x : Holds(s \o t, x) <=> Holds(s, x) \/ Holds(t, x)
  <1> DEFINE c == s \o t
  <1>1. /\ c \in Seq(V) /\ Len(c) = Len(s) + Len(t) /\ Len(s) \in Nat /\ Len(t) \in Nat
        /\ \A i \in 1 .. Len(s) : c[i] = s[i]
        /\ \A i \in 1 .. Len(t) : c[Len(s) + i] = t[i]
    OBVIOUS
  <1> HIDE DEF c
  <1>2. \A i \in 1 .. Len(c) : i \in 1 .. Len(s) \/ (i - Len(s) \in 1 .. Len(t) /\ Len(s) + (i - Len(s)) = i)
    BY <1>1
  <1>3. \A i \in 1 .. Len(s) : i \in 1 .. Len(c)
    BY <1>1
  <1>4. \A i \in 1 .. Len(t) : Len(s) + i \in 1 .. Len(c)
    BY <1>1
  <1>5. ASSUME NEW x PROVE (\E i \in 1 .. Len(c) : c[i] = x)
                     <=> (\E i \in 1 .. Len(s) : s[i] = x) \/ (\E i \in 1 .. Len(t) : t[i] = x)
    <2>1. ASSUME NEW i \in 1 .. Len(c), c[i] = x, i \notin 1 .. Len(s) PROVE \E j \in 1 .. Len(t) : t[j] = x
      <3>1. i - Len(s) \in 1 .. Len(t) /\ Len(s) + (i - Len(s)) = i
        BY <1>2, <2>1
      <3> QED BY <1>1, <2>1, <3>1
    <2> QED BY <1>1, <1>3, <1>4, <2>1
  <1> QED BY <1>1, <1>5 DEF c, Holds

LEMMA HasHolds ==
  ASSUME NEW text, NEW kind, NEW d
  PROVE  Conf!Has(text, kind, d) <=> \E x : Holds(text, x) /\ x.kind = kind /\ x.dir = d
  BY DEF Conf!Has, Holds

(* What the trust of a folder's hooks does to the other sections: nothing. *)
LEMMA SeededIs ==
  ASSUME ConfigTyped, NEW text \in Texts, NEW d \in Dir
  PROVE  /\ Conf!Seeded(text, d) \in Texts
         /\ \A kind, e : kind # "hooks" \/ e # d \/ hooks[d] = <<>>
                => (Conf!Has(Conf!Seeded(text, d), kind, e) <=> Conf!Has(text, kind, e))
  <1> DEFINE groups == hooks[d]
             At(i) == {k \in 1 .. Len(text) : text[k].kind = "hooks" /\ text[k].dir = d /\ text[k].at = i}
             Section(i) == [kind |-> "hooks", dir |-> d, at |-> i, val |-> groups[i]]
             kept == [k \in 1 .. Len(text) |->
                        IF \E i \in 1 .. Len(groups) : k \in At(i) THEN Section(text[k].at) ELSE text[k]]
             all == [i \in 1 .. Len(groups) |-> Section(i)]
             new == Conf!Kept(all, {i \in 1 .. Len(groups) : At(i) = {}})
  <1>1. Conf!Seeded(text, d) = kept \o new
    BY DEF Conf!Seeded
  <1>2. groups \in Seq(Conf!Groups) /\ Len(groups) \in Nat /\ \A i \in 1 .. Len(groups) : groups[i] \in Conf!Groups
    BY DEF ConfigTyped
  <1>3. Texts = Seq(Table)
    BY DEF Texts
  <1>4. Len(text) \in Nat /\ \A k \in 1 .. Len(text) : text[k] \in Table
    BY <1>3
  <1>5. \A i \in 1 .. Len(groups) : Section(i) \in Table
    BY <1>2 DEF Table
  <1>6. \A k \in 1 .. Len(text) : kept[k] \in Table /\ kept[k].kind = text[k].kind /\ kept[k].dir = text[k].dir
    <2> SUFFICES ASSUME NEW k \in 1 .. Len(text)
                 PROVE  kept[k] \in Table /\ kept[k].kind = text[k].kind /\ kept[k].dir = text[k].dir
      OBVIOUS
    <2>1. CASE \E i \in 1 .. Len(groups) : k \in At(i)
      <3>1. PICK i \in 1 .. Len(groups) : k \in At(i)
        BY <2>1
      <3>2. text[k].kind = "hooks" /\ text[k].dir = d /\ text[k].at = i
        BY <3>1
      <3>3. kept[k] = Section(i)
        BY <2>1, <3>2
      <3> QED BY <1>5, <3>2, <3>3
    <2>2. CASE ~ \E i \in 1 .. Len(groups) : k \in At(i)
      BY <1>4, <2>2
    <2> QED BY <2>1, <2>2
  <1>7. kept \in Seq(Table) /\ Len(kept) = Len(text)
    <2>1. DOMAIN kept = 1 .. Len(text) /\ kept = [k \in 1 .. Len(text) |-> kept[k]]
      OBVIOUS
    <2> HIDE DEF kept
    <2> QED BY <1>4, <1>6, <2>1
  <1>8. all \in Seq(Table) /\ Len(all) = Len(groups) /\ \A i \in 1 .. Len(groups) : all[i] = Section(i)
    BY <1>2, <1>5
  <1> HIDE DEF kept, all, Section, At
  <1>9. new \in Seq(Table) /\ \A x : Holds(new, x) => \E i \in 1 .. Len(groups) : x = Section(i)
    BY <1>8, KeptIs
  <1> HIDE DEF new
  <1>10. kept \o new \in Seq(Table) /\ \A x : Holds(kept \o new, x) <=> Holds(kept, x) \/ Holds(new, x)
    BY <1>7, <1>9, JoinedIs
  <1>11. \A kind, e : Conf!Has(kept, kind, e) <=> Conf!Has(text, kind, e)
    BY <1>6, <1>7 DEF Conf!Has
  <1>12. ASSUME NEW kind, NEW e, kind # "hooks" \/ e # d \/ hooks[d] = <<>> PROVE ~Conf!Has(new, kind, e)
    <2>1. ASSUME NEW x, Holds(new, x) PROVE x.kind = "hooks" /\ x.dir = d /\ hooks[d] # <<>>
      <3>1. PICK i \in 1 .. Len(groups) : x = Section(i)
        BY <1>9, <2>1
      <3>2. Len(groups) # 0
        BY <1>2
      <3> QED BY <3>1, <3>2 DEF Section
    <2> QED BY <1>12, <2>1, HasHolds
  <1>13. \A kind, e : Conf!Has(kept \o new, kind, e) <=> Conf!Has(kept, kind, e) \/ Conf!Has(new, kind, e)
    <2> SUFFICES ASSUME NEW kind, NEW e
                 PROVE  Conf!Has(kept \o new, kind, e) <=> Conf!Has(kept, kind, e) \/ Conf!Has(new, kind, e)
      OBVIOUS
    <2> QED BY <1>10, HasHolds
  <1> QED BY <1>1, <1>3, <1>10, <1>11, <1>12, <1>13

(* What a change does to the sections the folders' trust is read from. *)
LEMMA ChangeIs ==
  ASSUME ConfigTyped, NEW text \in Texts, NEW d \in Dir, NEW op \in Conf!TomlOps
  PROVE  /\ Conf!ChangedToml(op, d, text) \in Texts
         /\ Conf!Has(text, "user", "host") => Conf!Has(Conf!ChangedToml(op, d, text), "user", "host")
         /\ \A e \in Dir : Conf!Has(Conf!ChangedToml(op, d, text), "projects", e) <=>
                                  (op = "trust" /\ e = d) \/ (Conf!Has(text, "projects", e) /\ ~(op = "untrust" /\ e = d))
         /\ \A e \in Dir : op # "seed" \/ e # d \/ hooks[d] = <<>> =>
                             (Conf!Has(Conf!ChangedToml(op, d, text), "hooks", e) => Conf!Has(text, "hooks", e))
         /\ op = "unseed" => ~Conf!Has(Conf!ChangedToml(op, d, text), "hooks", d)
  <1> DEFINE project == [kind |-> "projects", dir |-> d, at |-> 0, val |-> "trusted"]
  <1>1. Texts = Seq(Table)
    BY DEF Texts
  <1>2. project \in Table /\ Conf!Host("mcp") \in Table /\ Conf!Host("headers") \in Table /\ Conf!Host("quiet") \in Table
    BY DEF Conf!Host, Table
  <1>3. /\ project.kind = "projects" /\ project.dir = d /\ Conf!Host("mcp").kind = "mcp"
        /\ Conf!Host("headers").kind = "headers" /\ Conf!Host("quiet").kind = "quiet"
    BY DEF Conf!Host
  <1> HIDE DEF project
  <1>4. ASSUME NEW t \in Seq(Table), NEW s \in Seq(Table), NEW kind, NEW e
        PROVE  t \o s \in Seq(Table) /\ (Conf!Has(t \o s, kind, e) <=> Conf!Has(t, kind, e) \/ Conf!Has(s, kind, e))
    <2>1. t \o s \in Seq(Table) /\ \A x : Holds(t \o s, x) <=> Holds(t, x) \/ Holds(s, x)
      BY JoinedIs
    <2> QED BY <2>1, HasHolds
  <1>5. ASSUME NEW x \in Table, NEW kind, NEW e PROVE <<x>> \in Seq(Table) /\ (Conf!Has(<<x>>, kind, e) <=> x.kind = kind /\ x.dir = e)
    <2>1. Len(<<x>>) = 1 /\ <<x>>[1] = x /\ <<x>> \in Seq(Table) /\ 1 .. 1 = {1}
      OBVIOUS
    <2> QED BY <2>1 DEF Conf!Has
  <1>6. ASSUME NEW kind, NEW from
        PROVE  /\ Conf!Without(text, kind, from) \in Seq(Table)
               /\ \A k, e : Conf!Has(Conf!Without(text, kind, from), k, e) <=> Conf!Has(text, k, e) /\ ~(k = kind /\ e = from)
    <2> DEFINE P == {k \in 1 .. Len(text) : ~(text[k].kind = kind /\ text[k].dir = from)}
    <2>1. Conf!Without(text, kind, from) = Conf!Kept(text, P)
      BY DEF Conf!Without
    <2>2. \A i \in 1 .. Len(text) : i \in P <=> ~(text[i].kind = kind /\ text[i].dir = from)
      OBVIOUS
    <2> HIDE DEF P
    <2>3. Conf!Kept(text, P) \in Seq(Table) /\ \A x : Holds(Conf!Kept(text, P), x) <=> \E i \in 1 .. Len(text) : i \in P /\ text[i] = x
      BY <1>1, KeptIs
    <2>4. ASSUME NEW k, NEW e PROVE Conf!Has(Conf!Kept(text, P), k, e) <=> Conf!Has(text, k, e) /\ ~(k = kind /\ e = from)
      <3>1. Conf!Has(Conf!Kept(text, P), k, e) <=> \E i \in 1 .. Len(text) : i \in P /\ text[i].kind = k /\ text[i].dir = e
        BY <2>3, HasHolds
      <3> QED BY <3>1, <2>2 DEF Conf!Has
    <2> QED BY <2>1, <2>3, <2>4
  <1>7. CASE op = "trust"
    <2>1. Conf!ChangedToml(op, d, text) = Conf!Trusted(text, d)
      BY <1>7 DEF Conf!ChangedToml
    <2>2. CASE Conf!Has(text, "projects", d)
      <3>1. Conf!Trusted(text, d) = text
        BY <2>2 DEF Conf!Trusted
      <3> QED BY <1>7, <2>1, <2>2, <3>1
    <2>3. CASE ~Conf!Has(text, "projects", d)
      <3>1. Conf!Trusted(text, d) = Append(text, project)
        BY <2>3 DEF Conf!Trusted, project
      <3>2. Append(text, project) = text \o <<project>>
        BY <1>1, <1>2
      <3>3. text \o <<project>> \in Seq(Table)
        BY <1>1, <1>2, <1>4, <1>5
      <3>4. ASSUME NEW kind, NEW e
            PROVE  Conf!Has(text \o <<project>>, kind, e) <=> Conf!Has(text, kind, e) \/ (kind = "projects" /\ e = d)
        <4>1. <<project>> \in Seq(Table) /\ (Conf!Has(<<project>>, kind, e) <=> project.kind = kind /\ project.dir = e)
          BY <1>2, <1>5
        <4>2. Conf!Has(<<project>>, kind, e) <=> kind = "projects" /\ e = d
          BY <1>3, <4>1
        <4>3. Conf!Has(text \o <<project>>, kind, e) <=> Conf!Has(text, kind, e) \/ Conf!Has(<<project>>, kind, e)
          BY <1>1, <1>4, <4>1
        <4> QED BY <4>2, <4>3
      <3> DEFINE c == text \o <<project>>
      <3>5. Conf!ChangedToml(op, d, text) = c /\ c \in Texts
        BY <1>1, <2>1, <3>1, <3>2, <3>3
      <3>6. \A kind, e : Conf!Has(c, kind, e) <=> Conf!Has(text, kind, e) \/ (kind = "projects" /\ e = d)
        BY <3>4
      <3> HIDE DEF c
      <3>7. /\ Conf!Has(c, "user", "host") <=> Conf!Has(text, "user", "host")
            /\ \A e : Conf!Has(c, "hooks", e) <=> Conf!Has(text, "hooks", e)
            /\ \A e : Conf!Has(c, "projects", e) <=> Conf!Has(text, "projects", e) \/ e = d
        BY <3>6
      <3> QED BY <1>7, <3>5, <3>7
    <2> QED BY <2>2, <2>3
  <1>8. CASE op = "untrust"
    <2>1. Conf!ChangedToml(op, d, text) = Conf!Without(text, "projects", d)
      BY <1>8 DEF Conf!ChangedToml
    <2> QED BY <1>1, <1>6, <1>8, <2>1
  <1>9. CASE op = "unseed"
    <2>1. Conf!ChangedToml(op, d, text) = Conf!Without(text, "hooks", d)
      BY <1>9 DEF Conf!ChangedToml
    <2> QED BY <1>1, <1>6, <1>9, <2>1
  <1>10. CASE op = "seed"
    <2>1. Conf!ChangedToml(op, d, text) = Conf!Seeded(text, d)
      BY <1>10 DEF Conf!ChangedToml
    <2>2. /\ Conf!Seeded(text, d) \in Texts
          /\ \A kind, e : kind # "hooks" \/ e # d \/ hooks[d] = <<>>
                => (Conf!Has(Conf!Seeded(text, d), kind, e) <=> Conf!Has(text, kind, e))
      BY SeededIs
    <2> QED BY <1>10, <2>1, <2>2
  <1>11. CASE op = "mcp"
    <2>1. Conf!ChangedToml(op, d, text) = Conf!Wired(text)
      BY <1>11 DEF Conf!ChangedToml
    <2>2. CASE Conf!Has(text, "mcp", "host")
      BY <1>11, <2>1, <2>2 DEF Conf!Wired
    <2>3. CASE ~Conf!Has(text, "mcp", "host")
      <3>1. Conf!Wired(text) = text \o <<Conf!Host("mcp"), Conf!Host("headers")>>
        BY <2>3 DEF Conf!Wired
      <3>2. <<Conf!Host("mcp"), Conf!Host("headers")>> = <<Conf!Host("mcp")>> \o <<Conf!Host("headers")>>
        OBVIOUS
      <3>3. ASSUME NEW kind, NEW e
            PROVE  /\ <<Conf!Host("mcp"), Conf!Host("headers")>> \in Seq(Table)
                   /\ Conf!Has(<<Conf!Host("mcp"), Conf!Host("headers")>>, kind, e) => kind \in {"mcp", "headers"}
        <4>1. /\ <<Conf!Host("mcp")>> \in Seq(Table) /\ <<Conf!Host("headers")>> \in Seq(Table)
              /\ Conf!Has(<<Conf!Host("mcp")>>, kind, e) => kind = "mcp"
              /\ Conf!Has(<<Conf!Host("headers")>>, kind, e) => kind = "headers"
          BY <1>2, <1>3, <1>5
        <4> QED BY <1>4, <3>2, <4>1
      <3>4. text \o <<Conf!Host("mcp"), Conf!Host("headers")>> \in Seq(Table)
        BY <1>1, <1>4, <3>3
      <3>5. ASSUME NEW kind, NEW e, kind \notin {"mcp", "headers"}
            PROVE  Conf!Has(text \o <<Conf!Host("mcp"), Conf!Host("headers")>>, kind, e) <=> Conf!Has(text, kind, e)
        BY <1>1, <1>4, <3>3, <3>5
      <3> QED BY <1>1, <1>11, <2>1, <3>1, <3>4, <3>5
    <2> QED BY <2>2, <2>3
  <1>12. CASE op = "quiet"
    <2>1. Conf!ChangedToml(op, d, text) = Conf!Quieted(text)
      BY <1>12 DEF Conf!ChangedToml
    <2>2. CASE Conf!Has(text, "quiet", "host")
      BY <1>12, <2>1, <2>2 DEF Conf!Quieted
    <2>3. CASE ~Conf!Has(text, "quiet", "host")
      <3>1. Conf!Quieted(text) = <<Conf!Host("quiet")>> \o text
        BY <2>3 DEF Conf!Quieted
      <3>2. <<Conf!Host("quiet")>> \o text \in Seq(Table)
        BY <1>1, <1>2, <1>4, <1>5
      <3>3. ASSUME NEW kind, NEW e, kind # "quiet"
            PROVE  Conf!Has(<<Conf!Host("quiet")>> \o text, kind, e) <=> Conf!Has(text, kind, e)
        <4>1. <<Conf!Host("quiet")>> \in Seq(Table) /\ ~Conf!Has(<<Conf!Host("quiet")>>, kind, e)
          BY <1>2, <1>3, <1>5, <3>3
        <4> QED BY <1>1, <1>4, <4>1
      <3> QED BY <1>1, <1>12, <2>1, <3>1, <3>2, <3>3
    <2> QED BY <2>2, <2>3
  <1> QED BY <1>7, <1>8, <1>9, <1>10, <1>11, <1>12 DEF Conf!TomlOps

-----------------------------------------------------------------------------
(* What lies ahead in a verb's list, and after its next step. *)
LEMMA AheadTail ==
  ASSUME NEW steps \in Seq(Step), steps # <<>>
  PROVE  /\ Head(steps) \in Step /\ Tail(steps) \in Seq(Step)
         /\ Ahead(steps, Head(steps).dir, Head(steps).op)
         /\ \A d, x : Ahead(Tail(steps), d, x) => Ahead(steps, d, x)
         /\ \A d, x : Ahead(steps, d, x) => Ahead(Tail(steps), d, x) \/ (d = Head(steps).dir /\ x = Head(steps).op)
  <1>1. /\ Len(steps) \in Nat /\ Len(steps) > 0 /\ Head(steps) = steps[1] /\ steps[1] \in Step
        /\ Tail(steps) \in Seq(Step) /\ Len(Tail(steps)) = Len(steps) - 1
        /\ \A i \in 1 .. Len(steps) - 1 : Tail(steps)[i] = steps[i + 1]
    OBVIOUS
  <1>2. steps[1] = [op |-> steps[1].op, dir |-> steps[1].dir] /\ 1 \in 1 .. Len(steps)
    BY <1>1 DEF Step
  <1>3. \A i \in 1 .. Len(steps) - 1 : i + 1 \in 1 .. Len(steps)
    BY <1>1
  <1>4. \A i \in 1 .. Len(steps) : i = 1 \/ (i - 1 \in 1 .. Len(steps) - 1 /\ (i - 1) + 1 = i)
    BY <1>1
  <1>5. ASSUME NEW d, NEW x, Ahead(Tail(steps), d, x) PROVE Ahead(steps, d, x)
    BY <1>1, <1>3, <1>5 DEF Ahead
  <1>6. ASSUME NEW d, NEW x, Ahead(steps, d, x), ~Ahead(Tail(steps), d, x)
        PROVE  d = Head(steps).dir /\ x = Head(steps).op
    <2>1. PICK i \in 1 .. Len(steps) : steps[i] = [op |-> x, dir |-> d]
      BY <1>6 DEF Ahead
    <2>2. ASSUME i # 1 PROVE FALSE
      <3>1. i - 1 \in 1 .. Len(Tail(steps)) /\ Tail(steps)[i - 1] = steps[i]
        BY <1>1, <1>4, <2>2
      <3> QED BY <1>6, <2>1, <3>1 DEF Ahead
    <2> QED BY <1>1, <2>1, <2>2
  <1> QED BY <1>1, <1>2, <1>5, <1>6 DEF Ahead

LEMMA OnIs ==
  ASSUME NEW d \in Dir, NEW ops \in Seq(Ops)
  PROVE  /\ Conf!On(d, ops) \in Seq(Step)
         /\ \A e, x : Ahead(Conf!On(d, ops), e, x) <=> e = d /\ Holds(ops, x)
  <1>1. Len(ops) \in Nat /\ \A i \in 1 .. Len(ops) : [op |-> ops[i], dir |-> d] \in Step
    BY DEF Step
  <1>2. /\ Conf!On(d, ops) \in Seq(Step) /\ Len(Conf!On(d, ops)) = Len(ops)
        /\ \A i \in 1 .. Len(ops) : Conf!On(d, ops)[i] = [op |-> ops[i], dir |-> d]
    BY <1>1 DEF Conf!On
  <1>3. ASSUME NEW e, NEW x PROVE Ahead(Conf!On(d, ops), e, x) <=> \E i \in 1 .. Len(ops) : ops[i] = x /\ d = e
    <2>1. \A i \in 1 .. Len(ops) : Conf!On(d, ops)[i] = [op |-> x, dir |-> e] <=> ops[i] = x /\ d = e
      <3> SUFFICES ASSUME NEW i \in 1 .. Len(ops) PROVE Conf!On(d, ops)[i] = [op |-> x, dir |-> e] <=> ops[i] = x /\ d = e
        OBVIOUS
      <3>1. Conf!On(d, ops)[i] = [op |-> ops[i], dir |-> d]
        BY <1>2
      <3>2. [op |-> ops[i], dir |-> d] = [op |-> x, dir |-> e] <=> ops[i] = x /\ d = e
        OBVIOUS
      <3> QED BY <3>1, <3>2
    <2> QED BY <1>2, <2>1 DEF Ahead
  <1> QED BY <1>2, <1>3 DEF Holds

LEMMA AheadJoined ==
  ASSUME NEW s \in Seq(Step), NEW t \in Seq(Step)
  PROVE  /\ s \o t \in Seq(Step)
         /\ \A d, x : Ahead(s \o t, d, x) <=> Ahead(s, d, x) \/ Ahead(t, d, x)
  <1>1. s \o t \in Seq(Step) /\ \A x : Holds(s \o t, x) <=> Holds(s, x) \/ Holds(t, x)
    BY JoinedIs
  <1> QED BY <1>1 DEF Ahead, Holds

LEMMA FreeIs ==
  ASSUME NEW d \in Dir, Conf!Free(d), NEW p \in Proc, NEW x PROVE ~Pending(p, d, x)
  BY DEF Conf!Free, Pending, Ahead

LEMMA ConfigInit == ASSUME Conf!Init PROVE ConfigInv
  <1>1. /\ toml = <<Conf!Host("user")>> /\ Len(<<Conf!Host("user")>>) = 1 /\ <<Conf!Host("user")>>[1] = Conf!Host("user")
        /\ Conf!Host("user").kind = "user" /\ Conf!Host("user").dir = "host" /\ Conf!Host("user") \in Table
    BY DEF Conf!Init, Conf!Host, Table
  <1>2. \A kind, d : Conf!Has(toml, kind, d) <=> kind = "user" /\ d = "host"
    BY <1>1 DEF Conf!Has
  <1>3. toml \in Texts
    BY <1>1 DEF Texts
  <1>4. \A p \in Proc : todo[p] = <<>> /\ snap[p] = None /\ \A d, x : ~Pending(p, d, x)
    <2>1. Len(<<>>) = 0 /\ 1 .. 0 = {}
      OBVIOUS
    <2> QED BY <2>1 DEF Conf!Init, Pending, Ahead
  <1>5. ConfigTyped
    <2>1. <<>> \in Seq(Step) /\ <<>> \in Seq(Conf!Groups) /\ {} \in SUBSET Conf!Entries
      OBVIOUS
    <2>2. todo \in [Proc -> Seq(Step)] /\ hooks \in [Dir -> Seq(Conf!Groups)]
      BY <2>1 DEF Conf!Init
    <2>3. settings \in [Dir -> SUBSET Conf!Entries]
      BY <2>1 DEF Conf!Init
    <2> QED BY <1>3, <2>2, <2>3 DEF Conf!Init, ConfigTyped
  <1>6. OneVerb /\ FitsMode /\ Copies
    BY <1>4 DEF Conf!Init, OneVerb, FitsMode, Copies
  <1>7. Owed
    BY <1>2 DEF Conf!Init, Owed, Settled
  <1> QED BY <1>5, <1>6, <1>7 DEF ConfigInv

-----------------------------------------------------------------------------
\* A folder the new verb does not take, but for the trust of its hooks.
Untouched(d, changes) ==
  /\ mode'[d] = mode[d] /\ settings'[d] = settings[d] /\ hooks'[d] = hooks[d]
  /\ \A x \in Ops : Ahead(changes, d, x) => x = "seed" /\ mode[d] # "none"

\* A folder that is no peer's any more.
Left(d, changes) ==
  /\ mode'[d] = "none" /\ hooks'[d] = <<>> /\ settings'[d] = {}
  /\ Ahead(changes, d, "untrust") /\ Ahead(changes, d, "unseed")
  /\ \A x \in Ops : Ahead(changes, d, x) => x \in {"untrust", "unseed"}

\* A folder that is a peer's, and what the verb has to write into it.
Taken(d, changes) ==
  /\ mode'[d] # "none" /\ ~Ahead(changes, d, "untrust")
  /\ Ahead(changes, d, "gate") => mode'[d] = "gated"
  /\ Ahead(changes, d, "ungate") => mode'[d] = "yolo"
  /\ mode[d] = "none" => Ahead(changes, d, "trust")
  /\ ~torn /\ ~killed /\ mode'[d] = "gated" /\ "ours" \notin settings'[d] => Ahead(changes, d, "gate")
  /\ ~torn /\ ~killed /\ mode'[d] # "gated" /\ "ours" \in settings'[d] => Ahead(changes, d, "ungate")

(* A verb begins on folders no other verb is at work in, whatever it is. *)
LEMMA BeginKeeps ==
  ASSUME ConfigInv, NEW p \in Proc, NEW changes \in Seq(Step), Conf!Begin(p, changes), toml' = toml,
         mode' \in [Dir -> {"none", "yolo", "gated"}], hooks' \in [Dir -> Seq(Conf!Groups)],
         settings' \in [Dir -> SUBSET Conf!Entries],
         \A d \in Dir : Untouched(d, changes) \/ (Conf!Free(d) /\ (Left(d, changes) \/ Taken(d, changes)))
  PROVE  ConfigInv'
  <1>1. /\ todo[p] = <<>> /\ todo' = [todo EXCEPT ![p] = changes]
        /\ snap' = snap /\ torn' = torn /\ killed' = killed
    BY DEF Conf!Begin
  <1>2. todo \in [Proc -> Seq(Step)]
    BY DEF ConfigInv, ConfigTyped
  <1>3. todo'[p] = changes /\ \A q \in Proc : q # p => todo'[q] = todo[q]
    BY <1>1, <1>2
  <1>4. \A d, x : ~Pending(p, d, x)
    <2>1. Len(<<>>) = 0 /\ 1 .. 0 = {}
      OBVIOUS
    <2> QED BY <1>1, <2>1 DEF Pending, Ahead
  <1>5. \A q \in Proc : \A d, x : Pending(q, d, x)' <=> IF q = p THEN Ahead(changes, d, x) ELSE Pending(q, d, x)
    BY <1>3 DEF Pending, Ahead
  <1>6. \A d \in Dir : Conf!Free(d) => \A q \in Proc : \A x : ~Pending(q, d, x)
    BY FreeIs
  <1>7. {"trust", "untrust", "seed", "unseed", "gate", "ungate"} \subseteq Ops
    BY DEF Ops, Conf!TomlOps, Conf!SettingsOps
  <1>8. ConfigTyped'
    <2>1. todo' \in [Proc -> Seq(Step)]
      BY <1>1, <1>2
    <2> QED BY <1>1, <2>1 DEF ConfigInv, ConfigTyped
  <1>9. OneVerb'
    <2> SUFFICES ASSUME NEW q \in Proc, NEW r \in Proc, NEW d \in Dir, NEW x \in Ops, NEW y \in Ops,
                        q # r, Pending(q, d, x)', Pending(r, d, y)'
                 PROVE  x = "seed" \/ y = "seed"
      BY DEF OneVerb
    <2>1. CASE q # p /\ r # p
      BY <1>5, <2>1 DEF ConfigInv, OneVerb
    <2>2. CASE q = p
      BY <1>4, <1>5, <1>6, <2>2 DEF Untouched
    <2>3. CASE r = p
      BY <1>4, <1>5, <1>6, <2>3 DEF Untouched
    <2> QED BY <2>1, <2>2, <2>3
  <1>10. FitsMode'
    <2>1. ASSUME NEW q \in Proc, NEW d \in Dir, NEW x \in Ops
          PROVE  /\ mode'[d] = "none" /\ Pending(q, d, x)' => x \in {"untrust", "unseed"}
                 /\ mode'[d] # "none" => ~Pending(q, d, "untrust")'
                 /\ Pending(q, d, "gate")' => mode'[d] = "gated"
                 /\ Pending(q, d, "ungate")' => mode'[d] = "yolo"
      <3>1. /\ mode[d] = "none" /\ Pending(q, d, x) => x \in {"untrust", "unseed"}
            /\ mode[d] # "none" => ~Pending(q, d, "untrust")
            /\ Pending(q, d, "gate") => mode[d] = "gated"
            /\ Pending(q, d, "ungate") => mode[d] = "yolo"
        BY DEF ConfigInv, FitsMode
      <3>2. CASE Untouched(d, changes)
        <4>1. CASE q = p
          BY <1>5, <1>7, <3>2, <4>1 DEF Untouched
        <4>2. CASE q # p
          BY <1>5, <3>1, <3>2, <4>2 DEF Untouched
        <4> QED BY <4>1, <4>2
      <3>3. CASE Conf!Free(d) /\ (Left(d, changes) \/ Taken(d, changes))
        <4>1. CASE q = p
          <5>1. CASE Left(d, changes)
            BY <1>5, <1>7, <4>1, <5>1 DEF Left
          <5>2. CASE Taken(d, changes)
            BY <1>5, <4>1, <5>2 DEF Taken
          <5> QED BY <3>3, <5>1, <5>2
        <4>2. CASE q # p
          BY <1>5, <1>6, <3>3, <4>2
        <4> QED BY <4>1, <4>2
      <3> QED BY <3>2, <3>3
    <2>2. ASSUME NEW d \in Dir, mode'[d] = "none" PROVE hooks'[d] = <<>> /\ settings'[d] = {}
      BY <2>2 DEF ConfigInv, FitsMode, Untouched, Left, Taken
    <2> QED BY <2>1, <2>2 DEF FitsMode
  <1>11. Copies'
    <2> SUFFICES ASSUME NEW q \in Proc, snap'[q] # None
                 PROVE  /\ todo'[q] # <<>> /\ CopyTyped(q, Head(todo[q]).op)'
                        /\ ~torn' /\ ~killed' => Current(q, Head(todo[q]).dir, Head(todo[q]).op)'
      BY DEF Copies
    <2>1. /\ snap[q] # None /\ todo[q] # <<>> /\ CopyTyped(q, Head(todo[q]).op)
          /\ ~torn /\ ~killed => Current(q, Head(todo[q]).dir, Head(todo[q]).op)
      BY <1>1 DEF ConfigInv, Copies
    <2>2. q # p /\ todo'[q] = todo[q]
      BY <1>1, <1>3, <2>1
    <2>3. todo[q] \in Seq(Step)
      BY <1>2
    <2>4. Head(todo[q]) \in Step /\ Pending(q, Head(todo[q]).dir, Head(todo[q]).op)
      BY <2>1, <2>3, AheadTail DEF Pending
    <2>5. Head(todo[q]).dir \in Dir
      BY <2>4 DEF Step
    <2>6. ~Conf!Free(Head(todo[q]).dir)
      BY <1>6, <2>4, <2>5
    <2>7. Untouched(Head(todo[q]).dir, changes)
      BY <2>5, <2>6
    <2>8. CopyTyped(q, Head(todo[q]).op)'
      BY <1>1, <2>1, <2>2 DEF CopyTyped, Conf!Has
    <2>9. ASSUME ~torn', ~killed' PROVE Current(q, Head(todo[q]).dir, Head(todo[q]).op)'
      <3>1. Current(q, Head(todo[q]).dir, Head(todo[q]).op)
        BY <1>1, <2>1, <2>9
      <3>2. /\ snap'[q] = snap[q] /\ Head(todo'[q]) = Head(todo[q])
            /\ mode'[Head(todo[q]).dir] = mode[Head(todo[q]).dir]
            /\ settings'[Head(todo[q]).dir] = settings[Head(todo[q]).dir]
        BY <1>1, <2>2, <2>7 DEF Untouched
      <3> QED BY <3>1, <3>2 DEF Current, Conf!Has
    <2> QED BY <2>1, <2>2, <2>8, <2>9
  <1>12. Owed'
    <2>1. Conf!Has(toml, "user", "host")'
      BY DEF ConfigInv, Owed, Conf!Has
    <2>2. ASSUME ~torn', ~killed', NEW d \in Dir PROVE Settled(d)'
      <3>1. Settled(d) /\ ~torn /\ ~killed
        BY <1>1, <2>2 DEF ConfigInv, Owed
      <3>2. \A kind : Conf!Has(toml, kind, d)' <=> Conf!Has(toml, kind, d)
        BY DEF Conf!Has
      <3>3. \A q \in Proc : \A x : Pending(q, d, x) => Pending(q, d, x)'
        BY <1>4, <1>5
      <3>4. CASE Untouched(d, changes)
        BY <3>1, <3>2, <3>3, <3>4 DEF Settled, Untouched
      <3>5. CASE Conf!Free(d) /\ Left(d, changes)
        BY <1>5, <3>5 DEF Settled, Left
      <3>6. CASE Conf!Free(d) /\ Taken(d, changes)
        <4>1. mode[d] # "none" => Conf!Has(toml, "projects", d)
          BY <1>6, <3>1, <3>6 DEF Settled
        <4> QED BY <1>5, <3>1, <3>2, <3>6, <4>1 DEF Settled, Taken
      <3> QED BY <3>4, <3>5, <3>6
    <2> QED BY <2>1, <2>2 DEF Owed
  <1> QED BY <1>8, <1>9, <1>10, <1>11, <1>12 DEF ConfigInv

(* What lies ahead of each verb when it begins. *)
LEMMA CreateList ==
  ASSUME NEW d \in Dir
  PROVE  /\ Conf!On(d, <<"memory", "trust", "approve", "mcp", "quiet">>) \in Seq(Step)
         /\ \A e, x : Ahead(Conf!On(d, <<"memory", "trust", "approve", "mcp", "quiet">>), e, x)
                         <=> e = d /\ x \in {"memory", "trust", "approve", "mcp", "quiet"}
  <1> DEFINE ops == <<"memory", "trust", "approve", "mcp", "quiet">>
  <1>1. ops \in Seq(Ops)
    BY DEF Ops, Conf!TomlOps, Conf!SettingsOps
  <1>2. /\ Len(ops) = 5 /\ 1 .. 5 = {1, 2, 3, 4, 5} /\ ops[1] = "memory" /\ ops[2] = "trust"
        /\ ops[3] = "approve" /\ ops[4] = "mcp" /\ ops[5] = "quiet"
    OBVIOUS
  <1>3. \A x : Holds(ops, x) <=> x \in {"memory", "trust", "approve", "mcp", "quiet"}
    <2> HIDE DEF ops
    <2> QED BY <1>2 DEF Holds
  <1> HIDE DEF ops
  <1>4. Conf!On(d, ops) \in Seq(Step) /\ \A e, x : Ahead(Conf!On(d, ops), e, x) <=> e = d /\ Holds(ops, x)
    BY <1>1, OnIs
  <1> QED BY <1>3, <1>4 DEF ops

LEMMA ModeList ==
  ASSUME NEW d \in Dir, NEW m \in {"yolo", "gated"}
  PROVE  /\ Conf!On(d, Conf!Surfaces(d, m)) \in Seq(Step)
         /\ \A e, x : Ahead(Conf!On(d, Conf!Surfaces(d, m)), e, x)
                         <=> e = d /\ x \in {IF m = "gated" THEN "gate" ELSE "ungate", "unseed", "unhook", "seed"}
  <1> DEFINE g == IF m = "gated" THEN "gate" ELSE "ungate"
             ops == <<g, "unseed", "unhook", "seed">>
  <1>1. g \in Ops /\ {"unseed", "unhook", "seed"} \subseteq Ops
    BY DEF Ops, Conf!TomlOps, Conf!SettingsOps
  <1>2. Conf!Surfaces(d, m) = ops
    BY DEF Conf!Surfaces
  <1> HIDE DEF g
  <1>3. /\ ops \in Seq(Ops) /\ Len(ops) = 4 /\ 1 .. 4 = {1, 2, 3, 4} /\ ops[1] = g
        /\ ops[2] = "unseed" /\ ops[3] = "unhook" /\ ops[4] = "seed"
    BY <1>1
  <1>4. \A x : Holds(ops, x) <=> x \in {g, "unseed", "unhook", "seed"}
    <2> HIDE DEF ops
    <2> QED BY <1>3 DEF Holds
  <1> HIDE DEF ops
  <1>5. Conf!On(d, ops) \in Seq(Step) /\ \A e, x : Ahead(Conf!On(d, ops), e, x) <=> e = d /\ Holds(ops, x)
    BY <1>3, OnIs
  <1> QED BY <1>2, <1>4, <1>5 DEF g

LEMMA OneList ==
  ASSUME NEW d \in Dir, NEW op \in Ops
  PROVE  /\ Conf!On(d, <<op>>) \in Seq(Step)
         /\ \A e, x : Ahead(Conf!On(d, <<op>>), e, x) <=> e = d /\ x = op
  <1>1. <<op>> \in Seq(Ops) /\ Len(<<op>>) = 1 /\ 1 .. 1 = {1} /\ <<op>>[1] = op
    OBVIOUS
  <1>2. \A x : Holds(<<op>>, x) <=> x = op
    BY <1>1 DEF Holds
  <1>3. Conf!On(d, <<op>>) \in Seq(Step) /\ \A e, x : Ahead(Conf!On(d, <<op>>), e, x) <=> e = d /\ Holds(<<op>>, x)
    BY <1>1, OnIs
  <1> QED BY <1>2, <1>3

LEMMA ForgottenList ==
  ASSUME NEW d \in Dir
  PROVE  /\ Conf!Forgotten(d) \in Seq(Step)
         /\ \A e, x : Ahead(Conf!Forgotten(d), e, x) <=> e = d /\ x \in {"untrust", "unseed"}
  <1> DEFINE ops == <<"untrust", "unseed">>
  <1>1. ops \in Seq(Ops) /\ Conf!Forgotten(d) = Conf!On(d, ops)
    BY DEF Ops, Conf!TomlOps, Conf!Forgotten
  <1>2. Len(ops) = 2 /\ 1 .. 2 = {1, 2} /\ ops[1] = "untrust" /\ ops[2] = "unseed"
    OBVIOUS
  <1>3. \A x : Holds(ops, x) <=> x \in {"untrust", "unseed"}
    <2> HIDE DEF ops
    <2> QED BY <1>2 DEF Holds
  <1> HIDE DEF ops
  <1>4. Conf!On(d, ops) \in Seq(Step) /\ \A e, x : Ahead(Conf!On(d, ops), e, x) <=> e = d /\ Holds(ops, x)
    BY <1>1, OnIs
  <1> QED BY <1>1, <1>3, <1>4

LEMMA RenameList ==
  ASSUME NEW d \in Dir, NEW e \in Dir
  PROVE  /\ Conf!On(e, <<"trust">>) \o Conf!Forgotten(d) \o Conf!On(e, <<"seed">>) \in Seq(Step)
         /\ \A f, x : Ahead(Conf!On(e, <<"trust">>) \o Conf!Forgotten(d) \o Conf!On(e, <<"seed">>), f, x)
                         <=> (f = e /\ x \in {"trust", "seed"}) \/ (f = d /\ x \in {"untrust", "unseed"})
  <1>1. "trust" \in Ops /\ "seed" \in Ops
    BY DEF Ops, Conf!TomlOps
  <1> DEFINE a == Conf!On(e, <<"trust">>)
             b == Conf!Forgotten(d)
             c == Conf!On(e, <<"seed">>)
  <1>2. /\ a \in Seq(Step) /\ c \in Seq(Step) /\ b \in Seq(Step)
        /\ \A f, x : Ahead(a, f, x) <=> f = e /\ x = "trust"
        /\ \A f, x : Ahead(c, f, x) <=> f = e /\ x = "seed"
        /\ \A f, x : Ahead(b, f, x) <=> f = d /\ x \in {"untrust", "unseed"}
    BY <1>1, OneList, ForgottenList
  <1> HIDE DEF a, b, c
  <1>3. a \o b \in Seq(Step) /\ \A f, x : Ahead(a \o b, f, x) <=> Ahead(a, f, x) \/ Ahead(b, f, x)
    BY <1>2, AheadJoined
  <1>4. a \o b \o c \in Seq(Step) /\ \A f, x : Ahead(a \o b \o c, f, x) <=> Ahead(a \o b, f, x) \/ Ahead(c, f, x)
    BY <1>2, <1>3, AheadJoined
  <1>5. \A f, x : Ahead(a \o b \o c, f, x)
            <=> (f = e /\ x \in {"trust", "seed"}) \/ (f = d /\ x \in {"untrust", "unseed"})
    BY <1>2, <1>3, <1>4
  <1> QED BY <1>4, <1>5 DEF a, b, c

LEMMA CreateKeeps == ASSUME ConfigInv, NEW p \in Proc, NEW d \in Dir, Conf!Create(p, d) PROVE ConfigInv'
  <1> DEFINE changes == Conf!On(d, <<"memory", "trust", "approve", "mcp", "quiet">>)
  <1>1. /\ changes \in Seq(Step)
        /\ \A e, x : Ahead(changes, e, x) <=> e = d /\ x \in {"memory", "trust", "approve", "mcp", "quiet"}
    BY CreateList
  <1>2. /\ Conf!Begin(p, changes) /\ Conf!Free(d) /\ mode[d] = "none" /\ mode' = [mode EXCEPT ![d] = "yolo"]
        /\ toml' = toml /\ settings' = settings /\ hooks' = hooks
    BY DEF Conf!Create
  <1> HIDE DEF changes
  <1>3. ConfigTyped /\ settings[d] = {}
    BY <1>2 DEF ConfigInv, FitsMode
  <1>4. \A e \in Dir : mode'[e] = IF e = d THEN "yolo" ELSE mode[e]
    BY <1>2, <1>3 DEF ConfigTyped
  <1>5. Taken(d, changes)
    BY <1>1, <1>2, <1>3, <1>4 DEF Taken
  <1>6. \A e \in Dir : e # d => Untouched(e, changes)
    BY <1>1, <1>2, <1>4 DEF Untouched
  <1>7. mode' \in [Dir -> {"none", "yolo", "gated"}]
    BY <1>2, <1>3 DEF ConfigTyped
  <1> QED BY <1>1, <1>2, <1>3, <1>5, <1>6, <1>7, BeginKeeps DEF ConfigTyped

LEMMA SetModeKeeps ==
  ASSUME ConfigInv, NEW p \in Proc, NEW d \in Dir, NEW m \in {"yolo", "gated"}, Conf!SetMode(p, d, m) PROVE ConfigInv'
  <1> DEFINE changes == Conf!On(d, Conf!Surfaces(d, m))
  <1>1. /\ changes \in Seq(Step)
        /\ \A e, x : Ahead(changes, e, x)
                        <=> e = d /\ x \in {IF m = "gated" THEN "gate" ELSE "ungate", "unseed", "unhook", "seed"}
    BY ModeList
  <1>2. /\ Conf!Begin(p, changes) /\ Conf!Free(d) /\ mode[d] # "none" /\ mode' = [mode EXCEPT ![d] = m]
        /\ toml' = toml /\ settings' = settings /\ hooks' = hooks
    BY DEF Conf!SetMode
  <1> HIDE DEF changes
  <1>3. ConfigTyped
    BY DEF ConfigInv
  <1>4. \A e \in Dir : mode'[e] = IF e = d THEN m ELSE mode[e]
    BY <1>2, <1>3 DEF ConfigTyped
  <1>5. Taken(d, changes)
    <2>1. CASE m = "gated"
      BY <1>1, <1>2, <1>4, <2>1 DEF Taken
    <2>2. CASE m = "yolo"
      BY <1>1, <1>2, <1>4, <2>2 DEF Taken
    <2> QED BY <2>1, <2>2
  <1>6. \A e \in Dir : e # d => Untouched(e, changes)
    BY <1>1, <1>2, <1>4 DEF Untouched
  <1>7. mode' \in [Dir -> {"none", "yolo", "gated"}]
    BY <1>2, <1>3 DEF ConfigTyped
  <1> QED BY <1>1, <1>2, <1>3, <1>5, <1>6, <1>7, BeginKeeps DEF ConfigTyped

LEMMA BootKeeps == ASSUME ConfigInv, NEW p \in Proc, NEW d \in Dir, Conf!Boot(p, d) PROVE ConfigInv'
  <1> DEFINE changes == Conf!On(d, <<"seed">>)
  <1>1. changes \in Seq(Step) /\ \A e, x : Ahead(changes, e, x) <=> e = d /\ x = "seed"
    <2>1. "seed" \in Ops
      BY DEF Ops, Conf!TomlOps
    <2> QED BY <2>1, OneList
  <1>2. /\ Conf!Begin(p, changes) /\ mode[d] # "none" /\ mode' = mode
        /\ toml' = toml /\ settings' = settings /\ hooks' = hooks
    BY DEF Conf!Boot, Conf!files
  <1> HIDE DEF changes
  <1>3. \A e \in Dir : Untouched(e, changes)
    BY <1>1, <1>2 DEF Untouched
  <1> QED BY <1>1, <1>2, <1>3, BeginKeeps DEF ConfigInv, ConfigTyped

LEMMA RemoveKeeps == ASSUME ConfigInv, NEW p \in Proc, NEW d \in Dir, Conf!RemovePeer(p, d) PROVE ConfigInv'
  <1> DEFINE changes == Conf!Forgotten(d)
  <1>1. changes \in Seq(Step) /\ \A e, x : Ahead(changes, e, x) <=> e = d /\ x \in {"untrust", "unseed"}
    BY ForgottenList
  <1>2. /\ Conf!Begin(p, changes) /\ Conf!Free(d) /\ mode' = [mode EXCEPT ![d] = "none"] /\ toml' = toml
        /\ hooks' = [hooks EXCEPT ![d] = <<>>] /\ settings' = [settings EXCEPT ![d] = {}]
    BY DEF Conf!RemovePeer
  <1> HIDE DEF changes
  <1>3. ConfigTyped
    BY DEF ConfigInv
  <1>4. /\ mode'[d] = "none" /\ hooks'[d] = <<>> /\ settings'[d] = {}
        /\ \A e \in Dir : e # d => mode'[e] = mode[e] /\ hooks'[e] = hooks[e] /\ settings'[e] = settings[e]
    BY <1>2, <1>3 DEF ConfigTyped
  <1>5. Left(d, changes)
    BY <1>1, <1>4 DEF Left
  <1>6. \A e \in Dir : e # d => Untouched(e, changes)
    BY <1>1, <1>4 DEF Untouched
  <1>7. <<>> \in Seq(Conf!Groups) /\ {} \in SUBSET Conf!Entries
    OBVIOUS
  <1>8. /\ mode' \in [Dir -> {"none", "yolo", "gated"}] /\ hooks' \in [Dir -> Seq(Conf!Groups)]
        /\ settings' \in [Dir -> SUBSET Conf!Entries]
    BY <1>2, <1>3, <1>7 DEF ConfigTyped
  <1> QED BY <1>1, <1>2, <1>5, <1>6, <1>8, BeginKeeps

LEMMA RenameKeeps ==
  ASSUME ConfigInv, NEW p \in Proc, NEW d \in Dir, NEW e \in Dir, Conf!Rename(p, d, e) PROVE ConfigInv'
  <1> DEFINE changes == Conf!On(e, <<"trust">>) \o Conf!Forgotten(d) \o Conf!On(e, <<"seed">>)
  <1>1. /\ changes \in Seq(Step)
        /\ \A f, x : Ahead(changes, f, x)
                        <=> (f = e /\ x \in {"trust", "seed"}) \/ (f = d /\ x \in {"untrust", "unseed"})
    BY RenameList
  <1>2. /\ Conf!Begin(p, changes) /\ d # e /\ Conf!Free(d) /\ Conf!Free(e) /\ mode[d] # "none" /\ mode[e] = "none"
        /\ mode' = [mode EXCEPT ![e] = mode[d], ![d] = "none"] /\ toml' = toml
        /\ hooks' = [hooks EXCEPT ![e] = hooks[d], ![d] = <<>>]
        /\ settings' = [settings EXCEPT ![e] = settings[d], ![d] = {}]
    BY DEF Conf!Rename
  <1> HIDE DEF changes
  <1>3. ConfigTyped
    BY DEF ConfigInv
  <1>4. /\ mode'[d] = "none" /\ hooks'[d] = <<>> /\ settings'[d] = {}
        /\ mode'[e] = mode[d] /\ hooks'[e] = hooks[d] /\ settings'[e] = settings[d]
        /\ \A f \in Dir : f \notin {d, e} => mode'[f] = mode[f] /\ hooks'[f] = hooks[f] /\ settings'[f] = settings[f]
    BY <1>2, <1>3 DEF ConfigTyped
  <1>5. Left(d, changes)
    BY <1>1, <1>2, <1>4 DEF Left
  <1>6. ~torn /\ ~killed => ("ours" \in settings[d] <=> mode[d] = "gated")
    <2>1. \A q \in Proc : \A x : ~Pending(q, d, x)
      BY <1>2, FreeIs
    <2> QED BY <2>1 DEF ConfigInv, Owed, Settled
  <1>7. Taken(e, changes)
    <2>1. /\ ~Ahead(changes, e, "untrust") /\ ~Ahead(changes, e, "gate") /\ ~Ahead(changes, e, "ungate")
          /\ Ahead(changes, e, "trust")
      BY <1>1, <1>2
    <2>2. /\ mode'[e] = mode[d] /\ mode[d] # "none" /\ settings'[e] = settings[d]
      BY <1>2, <1>4
    <2> QED BY <1>6, <2>1, <2>2 DEF Taken
  <1>8. \A f \in Dir : f \notin {d, e} => Untouched(f, changes)
    BY <1>1, <1>4 DEF Untouched
  <1>9. <<>> \in Seq(Conf!Groups) /\ {} \in SUBSET Conf!Entries
    OBVIOUS
  <1>10. /\ mode' \in [Dir -> {"none", "yolo", "gated"}] /\ hooks' \in [Dir -> Seq(Conf!Groups)]
         /\ settings' \in [Dir -> SUBSET Conf!Entries]
    BY <1>2, <1>3, <1>9 DEF ConfigTyped
  <1>11. \A f \in Dir : Untouched(f, changes) \/ (Conf!Free(f) /\ (Left(f, changes) \/ Taken(f, changes)))
    BY <1>2, <1>5, <1>7, <1>8
  <1> QED BY <1>1, <1>2, <1>10, <1>11, BeginKeeps

-----------------------------------------------------------------------------
LEMMA ReadKeeps == ASSUME ConfigInv, NEW p \in Proc, Conf!Read(p) PROVE ConfigInv'
  <1> DEFINE h == Head(todo[p])
             text == Conf!Content(h.op, h.dir)
  <1>1. /\ todo[p] # <<>> /\ snap[p] = None /\ snap' = [snap EXCEPT ![p] = [text |-> text]]
        /\ UNCHANGED <<toml, settings, hooks, mode, todo, torn, killed>>
    BY DEF Conf!Read, Conf!files, Conf!bounds
  <1>2. ConfigTyped
    BY DEF ConfigInv
  <1>3. h \in Step
    <2>1. todo[p] \in Seq(Step)
      BY <1>2 DEF ConfigTyped
    <2> QED BY <1>1, <2>1, AheadTail
  <1>4. h.op \in Ops /\ h.dir \in Dir
    BY <1>3 DEF Step
  <1>5. /\ h.op \in Conf!TomlOps => text = toml
        /\ h.op \in Conf!SettingsOps => text = settings[h.dir]
        /\ h.op = "unhook" => text = hooks[h.dir]
    BY DEF Conf!Content, Conf!TomlOps, Conf!SettingsOps
  <1> HIDE DEF text
  <1>6. snap'[p].text = text /\ DOMAIN snap' = Proc /\ \A q \in Proc : q # p => snap'[q] = snap[q]
    BY <1>1, <1>2 DEF ConfigTyped
  <1>7. /\ \A q \in Proc : \A e, x : Pending(q, e, x)' <=> Pending(q, e, x)
        /\ \A kind, e : Conf!Has(toml, kind, e)' <=> Conf!Has(toml, kind, e)
    BY <1>1 DEF Pending, Ahead, Conf!Has
  <1>8. ConfigTyped' /\ OneVerb' /\ FitsMode'
    BY <1>1, <1>2, <1>6, <1>7 DEF ConfigInv, ConfigTyped, OneVerb, FitsMode
  <1>9. Owed'
    BY <1>1, <1>7 DEF ConfigInv, Owed, Settled
  <1>10. Copies'
    <2> SUFFICES ASSUME NEW q \in Proc, snap'[q] # None
                 PROVE  /\ todo'[q] # <<>> /\ CopyTyped(q, Head(todo[q]).op)'
                        /\ ~torn' /\ ~killed' => Current(q, Head(todo[q]).dir, Head(todo[q]).op)'
      BY DEF Copies
    <2>1. CASE q = p
      <3>1. Head(todo'[q]) = h
        BY <1>1, <2>1
      <3>2. CopyTyped(q, Head(todo[q]).op)'
        BY <1>2, <1>4, <1>5, <1>6, <2>1, <3>1 DEF ConfigInv, ConfigTyped, CopyTyped, Owed, Conf!TomlOps, Conf!SettingsOps, Conf!Has
      <3>3. Current(q, Head(todo[q]).dir, Head(todo[q]).op)'
        BY <1>1, <1>5, <1>6, <2>1, <3>1 DEF Current, Conf!TomlOps, Conf!SettingsOps, Conf!Has
      <3> QED BY <1>1, <2>1, <3>2, <3>3
    <2>2. CASE q # p
      <3>1. snap'[q] = snap[q] /\ todo' = todo
        BY <1>1, <1>6, <2>2
      <3> QED BY <1>1, <3>1 DEF ConfigInv, Copies, CopyTyped, Current, Conf!Has
    <2> QED BY <2>1, <2>2
  <1> QED BY <1>8, <1>9, <1>10 DEF ConfigInv

LEMMA KillKeeps == ASSUME ConfigInv, NEW p \in Proc, Conf!Kill(p) PROVE ConfigInv'
  <1>1. /\ todo' = [todo EXCEPT ![p] = <<>>] /\ snap' = [snap EXCEPT ![p] = None] /\ killed' = TRUE
        /\ UNCHANGED <<toml, settings, hooks, mode, torn>>
    BY DEF Conf!Kill, Conf!files
  <1>2. ConfigTyped /\ <<>> \in Seq(Step)
    BY DEF ConfigInv
  <1>3. /\ todo' \in [Proc -> Seq(Step)] /\ todo'[p] = <<>> /\ snap'[p] = None /\ DOMAIN snap' = Proc
        /\ \A q \in Proc : q # p => todo'[q] = todo[q] /\ snap'[q] = snap[q]
    BY <1>1, <1>2 DEF ConfigTyped
  <1>4. \A q \in Proc : \A d, x : Pending(q, d, x)' => Pending(q, d, x)
    <2>1. Len(<<>>) = 0 /\ 1 .. 0 = {}
      OBVIOUS
    <2> QED BY <1>3, <2>1 DEF Pending, Ahead
  <1>5. ConfigTyped'
    BY <1>1, <1>2, <1>3 DEF ConfigTyped
  <1>6. OneVerb' /\ FitsMode'
    BY <1>1, <1>4 DEF ConfigInv, OneVerb, FitsMode
  <1>7. Copies'
    BY <1>1, <1>3 DEF ConfigInv, Copies, CopyTyped, Conf!Has
  <1>8. Owed'
    BY <1>1 DEF ConfigInv, Owed, Conf!Has
  <1> QED BY <1>5, <1>6, <1>7, <1>8 DEF ConfigInv

LEMMA EditKeeps == ASSUME ConfigInv, NEW d \in Dir, NEW g \in Conf!Groups, Conf!UserEdit(d, g) PROVE ConfigInv'
  <1>1. /\ mode[d] # "none" /\ hooks' = [hooks EXCEPT ![d] = Append(@, g)]
        /\ settings' = [settings EXCEPT ![d] = @ \cup {"users"}]
        /\ UNCHANGED <<toml, mode, todo, snap, torn, killed>>
    BY DEF Conf!UserEdit
  <1>2. ConfigTyped
    BY DEF ConfigInv
  <1>3. hooks' \in [Dir -> Seq(Conf!Groups)] /\ \A e \in Dir : e # d => hooks'[e] = hooks[e]
    <2>1. Append(hooks[d], g) \in Seq(Conf!Groups)
      BY <1>2 DEF ConfigTyped
    <2> QED BY <1>1, <1>2, <2>1 DEF ConfigTyped
  <1>4. /\ settings' \in [Dir -> SUBSET Conf!Entries] /\ \A e \in Dir : e # d => settings'[e] = settings[e]
        /\ \A e \in Dir : "ours" \in settings'[e] <=> "ours" \in settings[e]
    <2>1. settings[d] \cup {"users"} \in SUBSET Conf!Entries
      BY <1>2 DEF ConfigTyped, Conf!Entries
    <2>2. settings' \in [Dir -> SUBSET Conf!Entries] /\ settings'[d] = settings[d] \cup {"users"}
      BY <1>1, <1>2, <2>1 DEF ConfigTyped
    <2>3. \A e \in Dir : e # d => settings'[e] = settings[e]
      BY <1>1, <1>2 DEF ConfigTyped
    <2> QED BY <2>2, <2>3
  <1>5. ConfigTyped'
    BY <1>1, <1>2, <1>3, <1>4 DEF ConfigTyped
  <1>6. /\ \A q \in Proc : \A e, x : Pending(q, e, x)' <=> Pending(q, e, x)
        /\ \A kind, e : Conf!Has(toml, kind, e)' <=> Conf!Has(toml, kind, e)
    BY <1>1 DEF Pending, Ahead, Conf!Has
  <1>7. OneVerb'
    BY <1>6 DEF ConfigInv, OneVerb
  <1>8. FitsMode'
    BY <1>1, <1>3, <1>4, <1>6 DEF ConfigInv, FitsMode
  <1>9. Copies'
    <2> SUFFICES ASSUME NEW q \in Proc, snap[q] # None
                 PROVE  /\ todo[q] # <<>> /\ CopyTyped(q, Head(todo[q]).op)'
                        /\ ~torn /\ ~killed => Current(q, Head(todo[q]).dir, Head(todo[q]).op)'
      BY <1>1 DEF Copies
    <2>1. /\ todo[q] # <<>> /\ CopyTyped(q, Head(todo[q]).op)
          /\ ~torn /\ ~killed => Current(q, Head(todo[q]).dir, Head(todo[q]).op)
      BY DEF ConfigInv, Copies
    <2>2. Head(todo[q]) \in Step
      <3>1. todo[q] \in Seq(Step)
        BY <1>2 DEF ConfigTyped
      <3> QED BY <2>1, <3>1, AheadTail
    <2>3. Head(todo[q]).dir \in Dir
      BY <2>2 DEF Step
    <2>4. CopyTyped(q, Head(todo[q]).op)'
      BY <1>1, <2>1 DEF CopyTyped, Conf!Has
    <2>5. ASSUME ~torn, ~killed PROVE Current(q, Head(todo[q]).dir, Head(todo[q]).op)'
      BY <1>1, <1>4, <2>1, <2>3, <2>5 DEF Current, Conf!Has
    <2> QED BY <2>1, <2>4, <2>5
  <1>10. Owed'
    BY <1>1, <1>4, <1>6 DEF ConfigInv, Owed, Settled
  <1> QED BY <1>5, <1>7, <1>8, <1>9, <1>10 DEF ConfigInv

(* What a write makes of the files, when it falls on the file it has read. *)
LEMMA WriteDoes ==
  ASSUME ConfigInv, NEW p \in Proc, Conf!Write(p), NEW d, NEW op, d = Head(todo[p]).dir, op = Head(todo[p]).op
  PROVE  /\ d \in Dir /\ op \in Ops /\ Pending(p, d, op)
         /\ toml' \in Texts /\ hooks' \in [Dir -> Seq(Conf!Groups)] /\ settings' \in [Dir -> SUBSET Conf!Entries]
         /\ torn' \in BOOLEAN /\ (torn => torn')
         /\ Conf!Has(toml, "user", "host")'
         /\ \A e \in Dir : mode[e] = "none" => hooks'[e] = hooks[e] /\ settings'[e] = settings[e]
         /\ ~torn' /\ ~killed =>
              /\ \A e \in Dir : Conf!Has(toml, "projects", e)' <=>
                   (op = "trust" /\ e = d) \/ (Conf!Has(toml, "projects", e) /\ ~(op = "untrust" /\ e = d))
              /\ \A e \in Dir : mode[e] = "none" => (Conf!Has(toml, "hooks", e)' => Conf!Has(toml, "hooks", e))
              /\ op = "unseed" /\ mode[d] = "none" => ~Conf!Has(toml, "hooks", d)'
              /\ \A e \in Dir : "ours" \in settings'[e] <=>
                   (op = "gate" /\ e = d) \/ ("ours" \in settings[e] /\ ~(op = "ungate" /\ e = d))
  <1> DEFINE old == snap[p].text
             new == Conf!Changed(op, d, old)
  <1>1. /\ snap[p] # None /\ todo[p] # <<>> /\ CopyTyped(p, op)
        /\ ~torn /\ ~killed => Current(p, d, op)
    BY DEF Conf!Write, ConfigInv, Copies
  <1>2. ConfigTyped
    BY DEF ConfigInv
  <1>3. d \in Dir /\ op \in Ops /\ Pending(p, d, op)
    <2>1. todo[p] \in Seq(Step)
      BY <1>2 DEF ConfigTyped
    <2>2. Head(todo[p]) \in Step /\ Ahead(todo[p], d, op)
      BY <1>1, <2>1, AheadTail
    <2> QED BY <2>2 DEF Pending, Step
  <1>4. /\ new = old => UNCHANGED <<toml, settings, hooks, torn>>
        /\ new # old => /\ torn' = (torn \/ Conf!Content(op, d) # old)
                        /\ toml' = IF op \in Conf!TomlOps THEN new ELSE toml
                        /\ settings' = IF op \in Conf!SettingsOps THEN [settings EXCEPT ![d] = new] ELSE settings
                        /\ hooks' = IF op = "unhook" THEN [hooks EXCEPT ![d] = new] ELSE hooks
    BY DEF Conf!Write
  <1>5. mode[d] = "none" => op \in {"untrust", "unseed"}
    BY <1>3 DEF ConfigInv, FitsMode
  <1>6. torn \in BOOLEAN /\ torn' \in BOOLEAN /\ (torn => torn')
    <2>1. torn \in BOOLEAN
      BY <1>2 DEF ConfigTyped
    <2>2. torn' = torn \/ torn' = (torn \/ Conf!Content(op, d) # old)
      <3> HIDE DEF old, new
      <3> QED BY <1>4
    <2> HIDE DEF old
    <2> QED BY <2>1, <2>2
  <1>7. CASE op \in Conf!TomlOps
    <2>1. old \in Texts /\ Conf!Has(old, "user", "host") /\ new = Conf!ChangedToml(op, d, old)
      BY <1>1, <1>7 DEF CopyTyped, Conf!Changed
    <2> HIDE DEF old
    <2>2. /\ new \in Texts /\ Conf!Has(new, "user", "host")
          /\ \A e \in Dir : Conf!Has(new, "projects", e) <=>
                                   (op = "trust" /\ e = d) \/ (Conf!Has(old, "projects", e) /\ ~(op = "untrust" /\ e = d))
          /\ \A e \in Dir : op # "seed" \/ e # d \/ hooks[d] = <<>> => (Conf!Has(new, "hooks", e) => Conf!Has(old, "hooks", e))
          /\ op = "unseed" => ~Conf!Has(new, "hooks", d)
      BY <1>2, <1>3, <1>7, <2>1, ChangeIs
    <2>3. op \notin Conf!SettingsOps /\ op # "unhook"
      BY <1>7 DEF Conf!TomlOps, Conf!SettingsOps
    <2> HIDE DEF new
    <2>4. hooks' = hooks /\ settings' = settings /\ (new = old => toml' = toml) /\ (new # old => toml' = new)
      BY <1>4, <1>7, <2>3
    <2>5. toml' \in Texts
      BY <1>2, <2>2, <2>4 DEF ConfigTyped
    <2>6. Conf!Has(toml, "user", "host")'
      <3>1. Conf!Has(toml, "user", "host")
        BY DEF ConfigInv, Owed
      <3> QED BY <2>2, <2>4, <3>1 DEF Conf!Has
    <2>7. \A e \in Dir : mode[e] = "none" => op # "seed" \/ e # d \/ hooks[d] = <<>>
      BY <1>5
    <2>8. ASSUME ~torn', ~killed
          PROVE  /\ \A e \in Dir : Conf!Has(toml, "projects", e)' <=>
                       (op = "trust" /\ e = d) \/ (Conf!Has(toml, "projects", e) /\ ~(op = "untrust" /\ e = d))
                 /\ \A e \in Dir : mode[e] = "none" => (Conf!Has(toml, "hooks", e)' => Conf!Has(toml, "hooks", e))
                 /\ op = "unseed" /\ mode[d] = "none" => ~Conf!Has(toml, "hooks", d)'
      <3>1. CASE new # old
        <4>1. old = toml /\ toml' = new
          BY <1>4, <1>6, <1>7, <2>4, <2>8, <3>1 DEF Conf!Content
        <4>2. \A kind, e : (Conf!Has(toml, kind, e)' <=> Conf!Has(new, kind, e)) /\ (Conf!Has(toml, kind, e) <=> Conf!Has(old, kind, e))
          BY <4>1 DEF Conf!Has
        <4> QED BY <2>2, <2>7, <4>2
      <3>2. CASE new = old
        <4>1. toml' = toml /\ ~torn
          BY <1>6, <2>4, <2>8, <3>2
        <4>2. \A kind, e : Conf!Has(toml, kind, e)' <=> Conf!Has(toml, kind, e)
          BY <4>1 DEF Conf!Has
        <4>3. Current(p, d, op)
          BY <1>1, <2>8, <4>1
        <4>4. op = "trust" => Conf!Has(toml, "projects", d)
          BY <1>3, <2>2, <3>2, <4>3 DEF Current, old
        <4>5. op = "untrust" => ~Conf!Has(toml, "projects", d)
          BY <1>3, <2>2, <3>2, <4>3 DEF Current, old
        <4>6. op = "unseed" /\ mode[d] = "none" => ~Conf!Has(toml, "hooks", d)
          BY <1>3, <2>2, <3>2, <4>3 DEF Current, old
        <4> QED BY <4>2, <4>4, <4>5, <4>6
      <3> QED BY <3>1, <3>2
    <2>9. \A e \in Dir : "ours" \in settings'[e] <=>
                   (op = "gate" /\ e = d) \/ ("ours" \in settings[e] /\ ~(op = "ungate" /\ e = d))
      BY <2>3, <2>4 DEF Conf!SettingsOps
    <2>10. hooks' \in [Dir -> Seq(Conf!Groups)] /\ settings' \in [Dir -> SUBSET Conf!Entries]
      BY <1>2, <2>4 DEF ConfigTyped
    <2> QED BY <1>3, <1>6, <2>4, <2>5, <2>6, <2>8, <2>9, <2>10
  <1>8. CASE op \in Conf!SettingsOps
    <2>1. op \notin Conf!TomlOps /\ op # "unhook"
      BY <1>8 DEF Conf!TomlOps, Conf!SettingsOps
    <2>2. old \in SUBSET Conf!Entries /\ new = Conf!ChangedSettings(op, old)
      BY <1>1, <1>8, <2>1 DEF CopyTyped, Conf!Changed
    <2>3. /\ new \in SUBSET Conf!Entries
          /\ "ours" \in new <=> op = "gate" \/ ("ours" \in old /\ op # "ungate")
      BY <1>8, <2>2 DEF Conf!ChangedSettings, Conf!SettingsOps, Conf!Entries
    <2>4. /\ toml' = toml /\ hooks' = hooks /\ \A e \in Dir : e # d => settings'[e] = settings[e]
          /\ settings' \in [Dir -> SUBSET Conf!Entries]
          /\ new # old => settings'[d] = new
          /\ new = old => settings' = settings
      BY <1>2, <1>3, <1>4, <1>8, <2>1, <2>3 DEF ConfigTyped
    <2>5. mode[d] # "none"
      BY <1>5, <1>8 DEF Conf!SettingsOps
    <2>6. \A kind, e : Conf!Has(toml, kind, e)' <=> Conf!Has(toml, kind, e)
      BY <2>4 DEF Conf!Has
    <2>7. op \notin {"trust", "untrust", "unseed"}
      BY <1>8 DEF Conf!SettingsOps
    <2>8. ASSUME ~torn', ~killed, NEW e \in Dir
          PROVE  "ours" \in settings'[e] <=>
                   (op = "gate" /\ e = d) \/ ("ours" \in settings[e] /\ ~(op = "ungate" /\ e = d))
      <3>1. CASE e # d
        BY <2>4, <3>1
      <3>2. CASE e = d /\ new # old
        <4>1. old = settings[d]
          BY <1>4, <1>6, <1>8, <2>1, <2>8, <3>2 DEF Conf!Content
        <4> QED BY <2>3, <2>4, <3>2, <4>1
      <3>3. CASE e = d /\ new = old
        <4>1. settings'[e] = settings[e] /\ ~torn
          BY <1>6, <2>4, <2>8, <3>3
        <4>2. op \in {"gate", "ungate"} => ("ours" \in old <=> "ours" \in settings[d])
          BY <1>1, <2>8, <4>1 DEF Current
        <4> QED BY <2>3, <3>3, <4>1, <4>2
      <3> QED BY <3>1, <3>2, <3>3
    <2>9. Conf!Has(toml, "user", "host")'
      BY <2>6 DEF ConfigInv, Owed
    <2>10. toml' \in Texts /\ hooks' \in [Dir -> Seq(Conf!Groups)]
      BY <1>2, <2>4 DEF ConfigTyped
    <2>11. \A e \in Dir : mode[e] = "none" => hooks'[e] = hooks[e] /\ settings'[e] = settings[e]
      BY <2>4, <2>5
    <2> QED BY <1>3, <1>6, <2>4, <2>6, <2>7, <2>8, <2>9, <2>10, <2>11
  <1>9. CASE op = "unhook"
    <2>1. op \notin Conf!TomlOps /\ op \notin Conf!SettingsOps
      BY <1>9 DEF Conf!TomlOps, Conf!SettingsOps
    <2>2. new = Conf!ChangedHooks(old) /\ old \in Seq(Conf!Groups)
      BY <1>1, <1>9, <2>1 DEF CopyTyped, Conf!Changed
    <2>3. new \in Seq(Conf!Groups)
      BY <2>2, KeptIs DEF Conf!ChangedHooks
    <2>4. /\ toml' = toml /\ settings' = settings /\ hooks' \in [Dir -> Seq(Conf!Groups)]
          /\ \A e \in Dir : e # d => hooks'[e] = hooks[e]
      BY <1>2, <1>3, <1>4, <1>9, <2>1, <2>3 DEF ConfigTyped
    <2>5. mode[d] # "none"
      BY <1>5, <1>9
    <2>6. \A kind, e : Conf!Has(toml, kind, e)' <=> Conf!Has(toml, kind, e)
      BY <2>4 DEF Conf!Has
    <2>7. Conf!Has(toml, "user", "host")'
      BY <2>6 DEF ConfigInv, Owed
    <2>8. toml' \in Texts /\ settings' \in [Dir -> SUBSET Conf!Entries]
      BY <1>2, <2>4 DEF ConfigTyped
    <2>9. \A e \in Dir : mode[e] = "none" => hooks'[e] = hooks[e] /\ settings'[e] = settings[e]
      BY <2>4, <2>5
    <2> QED BY <1>3, <1>6, <1>9, <2>4, <2>6, <2>7, <2>8, <2>9
  <1> QED BY <1>3, <1>7, <1>8, <1>9 DEF Ops

LEMMA FileWriteKeeps == ASSUME ConfigInv, NEW p \in Proc, Conf!Write(p) PROVE ConfigInv'
  <1>1. PICK d, op : d = Head(todo[p]).dir /\ op = Head(todo[p]).op
    OBVIOUS
  <1>2. /\ d \in Dir /\ op \in Ops /\ Pending(p, d, op)
        /\ toml' \in Texts /\ hooks' \in [Dir -> Seq(Conf!Groups)] /\ settings' \in [Dir -> SUBSET Conf!Entries]
        /\ torn' \in BOOLEAN /\ (torn => torn')
        /\ Conf!Has(toml, "user", "host")'
        /\ \A e \in Dir : mode[e] = "none" => hooks'[e] = hooks[e] /\ settings'[e] = settings[e]
    BY <1>1, WriteDoes
  <1>3. ASSUME ~torn', ~killed
        PROVE  /\ \A e \in Dir : Conf!Has(toml, "projects", e)' <=>
                     (op = "trust" /\ e = d) \/ (Conf!Has(toml, "projects", e) /\ ~(op = "untrust" /\ e = d))
               /\ \A e \in Dir : mode[e] = "none" => (Conf!Has(toml, "hooks", e)' => Conf!Has(toml, "hooks", e))
               /\ op = "unseed" /\ mode[d] = "none" => ~Conf!Has(toml, "hooks", d)'
               /\ \A e \in Dir : "ours" \in settings'[e] <=>
                     (op = "gate" /\ e = d) \/ ("ours" \in settings[e] /\ ~(op = "ungate" /\ e = d))
    BY <1>1, <1>3, WriteDoes
  <1>4. /\ snap[p] # None /\ snap' = [snap EXCEPT ![p] = None] /\ todo' = [todo EXCEPT ![p] = Tail(@)]
        /\ mode' = mode /\ killed' = killed
    BY DEF Conf!Write
  <1>5. ConfigTyped
    BY DEF ConfigInv
  <1>6. todo[p] # <<>> /\ todo[p] \in Seq(Step)
    BY <1>4, <1>5 DEF ConfigInv, Copies, ConfigTyped
  <1>7. /\ todo' \in [Proc -> Seq(Step)] /\ todo'[p] = Tail(todo[p]) /\ snap'[p] = None /\ DOMAIN snap' = Proc
        /\ \A q \in Proc : q # p => todo'[q] = todo[q] /\ snap'[q] = snap[q]
    BY <1>4, <1>5, <1>6, AheadTail DEF ConfigTyped
  <1>8. \A q \in Proc : \A e, x : Pending(q, e, x)' => Pending(q, e, x)
    <2>1. \A e, x : Ahead(Tail(todo[p]), e, x) => Ahead(todo[p], e, x)
      BY <1>6, AheadTail
    <2>2. ASSUME NEW q \in Proc, NEW e, NEW x, Pending(q, e, x)'
          PROVE  Pending(q, e, x)
      <3>1. CASE q = p
        BY <1>7, <2>1, <2>2, <3>1 DEF Pending
      <3>2. CASE q # p
        BY <1>7, <2>2, <3>2 DEF Pending, Ahead
      <3> QED BY <3>1, <3>2
    <2> QED BY <2>2
  <1>9. \A q \in Proc : \A e, x : Pending(q, e, x) => Pending(q, e, x)' \/ (q = p /\ e = d /\ x = op)
    <2>1. \A e, x : Ahead(todo[p], e, x) => Ahead(Tail(todo[p]), e, x) \/ (e = d /\ x = op)
      BY <1>1, <1>6, AheadTail
    <2>2. ASSUME NEW q \in Proc, NEW e, NEW x, Pending(q, e, x)
          PROVE  Pending(q, e, x)' \/ (q = p /\ e = d /\ x = op)
      <3>1. CASE q = p
        BY <1>7, <2>1, <2>2, <3>1 DEF Pending
      <3>2. CASE q # p
        BY <1>7, <2>2, <3>2 DEF Pending, Ahead
      <3> QED BY <3>1, <3>2
    <2> QED BY <2>2
  <1>10. ConfigTyped'
    BY <1>2, <1>4, <1>5, <1>7 DEF ConfigTyped
  <1>11. OneVerb'
    BY <1>8 DEF ConfigInv, OneVerb
  <1>12. FitsMode'
    BY <1>2, <1>4, <1>8 DEF ConfigInv, FitsMode
  <1>13. Copies'
    <2> SUFFICES ASSUME NEW q \in Proc, snap'[q] # None
                 PROVE  /\ todo'[q] # <<>> /\ CopyTyped(q, Head(todo[q]).op)'
                        /\ ~torn' /\ ~killed' => Current(q, Head(todo[q]).dir, Head(todo[q]).op)'
      BY DEF Copies
    <2>1. q # p /\ todo'[q] = todo[q] /\ snap'[q] = snap[q]
      BY <1>7
    <2>2. PICK e, x : e = Head(todo[q]).dir /\ x = Head(todo[q]).op
      OBVIOUS
    <2>3. /\ todo[q] # <<>> /\ CopyTyped(q, x)
          /\ ~torn /\ ~killed => Current(q, e, x)
      BY <2>1, <2>2 DEF ConfigInv, Copies
    <2>4. e \in Dir /\ x \in Ops /\ Pending(q, e, x)
      <3>1. todo[q] \in Seq(Step)
        BY <1>5 DEF ConfigTyped
      <3>2. Head(todo[q]) \in Step /\ Ahead(todo[q], e, x)
        BY <2>2, <2>3, <3>1, AheadTail
      <3> QED BY <2>2, <3>2 DEF Pending, Step
    <2>5. e = d => x = "seed" \/ op = "seed"
      BY <1>2, <2>1, <2>4 DEF ConfigInv, OneVerb
    <2>6. CopyTyped(q, Head(todo[q]).op)'
      BY <2>1, <2>2, <2>3 DEF CopyTyped, Conf!Has
    <2>7. ASSUME ~torn', ~killed' PROVE Current(q, Head(todo[q]).dir, Head(todo[q]).op)'
      <3>1. Current(q, e, x) /\ ~killed
        BY <1>2, <1>4, <1>5, <2>3, <2>7 DEF ConfigTyped
      <3>2. x \in {"trust", "untrust"} => (Conf!Has(toml, "projects", e)' <=> Conf!Has(toml, "projects", e))
        BY <1>3, <2>4, <2>5, <2>7, <3>1
      <3>3. mode[e] = "none" /\ Conf!Has(toml, "hooks", e)' => Conf!Has(toml, "hooks", e)
        BY <1>3, <2>4, <2>7, <3>1
      <3>4. x \in {"gate", "ungate"} => ("ours" \in settings'[e] <=> "ours" \in settings[e])
        BY <1>3, <2>4, <2>5, <2>7, <3>1
      <3>5. /\ x \in {"trust", "untrust"} => (Conf!Has(snap[q].text, "projects", e) <=> Conf!Has(toml, "projects", e)')
            /\ x = "unseed" /\ mode[e] = "none" /\ Conf!Has(toml, "hooks", e)' => Conf!Has(snap[q].text, "hooks", e)
            /\ x \in {"gate", "ungate"} => ("ours" \in snap[q].text <=> "ours" \in settings'[e])
        BY <3>1, <3>2, <3>3, <3>4 DEF Current
      <3>6. Head(todo'[q]).dir = e /\ Head(todo'[q]).op = x
        BY <2>1, <2>2
      <3> QED BY <1>4, <2>1, <3>5, <3>6 DEF Current, Conf!Has
    <2> QED BY <2>1, <2>3, <2>6, <2>7
  <1>14. Owed'
    <2> SUFFICES ASSUME ~torn', ~killed', NEW e \in Dir PROVE Settled(e)'
      BY <1>2 DEF Owed
    <2>1. Settled(e) /\ ~killed
      BY <1>2, <1>4, <1>5 DEF ConfigInv, Owed, ConfigTyped
    <2>2. /\ Conf!Has(toml, "projects", e)' <=>
                    (op = "trust" /\ e = d) \/ (Conf!Has(toml, "projects", e) /\ ~(op = "untrust" /\ e = d))
          /\ mode[e] = "none" => (Conf!Has(toml, "hooks", e)' => Conf!Has(toml, "hooks", e))
          /\ op = "unseed" /\ mode[d] = "none" => ~Conf!Has(toml, "hooks", d)'
          /\ "ours" \in settings'[e] <=>
               (op = "gate" /\ e = d) \/ ("ours" \in settings[e] /\ ~(op = "ungate" /\ e = d))
      BY <1>3, <2>1
    <2>3. /\ mode[d] = "none" => op \in {"untrust", "unseed"}
          /\ mode[d] # "none" => op # "untrust"
          /\ op = "gate" => mode[d] = "gated"
          /\ op = "ungate" => mode[d] = "yolo"
      BY <1>2 DEF ConfigInv, FitsMode
    <2>4. \A x : (\E q \in Proc : Pending(q, e, x)) => (\E q \in Proc : Pending(q, e, x)') \/ (e = d /\ x = op)
      BY <1>9
    <2>5. mode'[e] = "none" /\ Conf!Has(toml, "projects", e)' => \E q \in Proc : Pending(q, e, "untrust")'
      BY <1>4, <2>1, <2>2, <2>3, <2>4 DEF Settled
    <2>6. mode'[e] = "none" /\ Conf!Has(toml, "hooks", e)' => \E q \in Proc : Pending(q, e, "unseed")'
      BY <1>4, <2>1, <2>2, <2>4 DEF Settled
    <2>7. mode'[e] # "none" /\ ~Conf!Has(toml, "projects", e)' => \E q \in Proc : Pending(q, e, "trust")'
      BY <1>4, <2>1, <2>2, <2>3, <2>4 DEF Settled
    <2>8. mode'[e] = "gated" /\ "ours" \notin settings'[e] => \E q \in Proc : Pending(q, e, "gate")'
      BY <1>4, <2>1, <2>2, <2>3, <2>4 DEF Settled
    <2>9. mode'[e] # "gated" /\ "ours" \in settings'[e] => \E q \in Proc : Pending(q, e, "ungate")'
      BY <1>4, <2>1, <2>2, <2>3, <2>4 DEF Settled
    <2> QED BY <2>5, <2>6, <2>7, <2>8, <2>9 DEF Settled
  <1> QED BY <1>10, <1>11, <1>12, <1>13, <1>14 DEF ConfigInv

LEMMA ConfigNext == ASSUME ConfigInv, [Conf!Next]_Conf!vars PROVE ConfigInv'
  <1>1. ASSUME NEW p \in Proc, NEW d \in Dir, Conf!Create(p, d) PROVE ConfigInv'
    BY <1>1, CreateKeeps
  <1>2. ASSUME NEW p \in Proc, NEW d \in Dir, Conf!Boot(p, d) PROVE ConfigInv'
    BY <1>2, BootKeeps
  <1>3. ASSUME NEW p \in Proc, NEW d \in Dir, Conf!RemovePeer(p, d) PROVE ConfigInv'
    BY <1>3, RemoveKeeps
  <1>4. ASSUME NEW p \in Proc, NEW d \in Dir, NEW m \in {"yolo", "gated"}, Conf!SetMode(p, d, m) PROVE ConfigInv'
    BY <1>4, SetModeKeeps
  <1>5. ASSUME NEW p \in Proc, NEW d \in Dir, NEW e \in Dir, Conf!Rename(p, d, e) PROVE ConfigInv'
    BY <1>5, RenameKeeps
  <1>6. ASSUME NEW p \in Proc, Conf!Read(p) \/ Conf!Write(p) \/ Conf!Kill(p) PROVE ConfigInv'
    BY <1>6, ReadKeeps, FileWriteKeeps, KillKeeps
  <1>7. ASSUME NEW d \in Dir, NEW g \in Conf!Groups, Conf!UserEdit(d, g) PROVE ConfigInv'
    BY <1>7, EditKeeps
  <1>8. CASE UNCHANGED Conf!vars
    <2>1. UNCHANGED <<toml, settings, hooks, mode, todo, snap, torn, killed>>
      BY <1>8 DEF Conf!vars
    <2>2. /\ \A q \in Proc : \A e, x : Pending(q, e, x)' <=> Pending(q, e, x)
          /\ \A kind, e : Conf!Has(toml, kind, e)' <=> Conf!Has(toml, kind, e)
      BY <2>1 DEF Pending, Ahead, Conf!Has
    <2>3. ConfigTyped' /\ OneVerb' /\ FitsMode'
      BY <2>1, <2>2 DEF ConfigInv, ConfigTyped, OneVerb, FitsMode
    <2>4. Copies'
      BY <2>1 DEF ConfigInv, Copies, CopyTyped, Current, Conf!Has
    <2>5. Owed'
      BY <2>1, <2>2 DEF ConfigInv, Owed, Settled
    <2> QED BY <2>3, <2>4, <2>5 DEF ConfigInv
  <1> QED BY <1>1, <1>2, <1>3, <1>4, <1>5, <1>6, <1>7, <1>8 DEF Conf!Next

(* The values of the variables: no folder has more than two groups of hooks, *)
(* and what a verb writes has its place among the sections.                   *)
Short(groups) == Len(groups) <= 2
ExactCopy(p, op) ==
  /\ op \in Conf!TomlOps => snap[p].text \in Seq(Conf!Sections)
  /\ op = "unhook" => Short(snap[p].text)
ExactCopies == \A p \in Proc : snap[p] # None => ExactCopy(p, Head(todo[p]).op)
ConfigTypes ==
  /\ toml \in Seq(Conf!Sections) /\ (\A d \in Dir : Short(hooks[d])) /\ ExactCopies
  /\ verbs \in 0 .. ConfVerb /\ edits \in 0 .. MaxEdit

LEMMA ConfigIsTyped == ASSUME ConfigInv, ConfigTypes PROVE Conf!TypeOK
  <1>1. ASSUME NEW p \in Proc, NEW i \in 1 .. Len(todo[p]) PROVE todo[p][i].dir \in Dir
    <2>1. todo[p] \in Seq(Step)
      BY DEF ConfigInv, ConfigTyped
    <2>2. todo[p][i] \in Step
      BY <2>1
    <2> QED BY <2>2 DEF Step
  <1> QED BY <1>1 DEF ConfigInv, ConfigTyped, ConfigTypes, Conf!TypeOK

LEMMA ConfigTypeInit == ASSUME Conf!HostConfigAssumption, Conf!Init PROVE ConfigTypes
  <1>1. Conf!Host("user") \in Conf!Sections
    BY DEF Conf!Host, Conf!Sections
  <1>2. toml \in Seq(Conf!Sections)
    BY <1>1 DEF Conf!Init
  <1>3. \A d \in Dir : Short(hooks[d])
    BY DEF Conf!Init, Short
  <1>4. ExactCopies
    BY DEF Conf!Init, ExactCopies
  <1> QED BY <1>2, <1>3, <1>4 DEF Conf!Init, ConfigTypes, Conf!HostConfigAssumption

LEMMA SectionsAre ==
  ASSUME NEW d \in Dir
  PROVE  /\ \A k \in {"quiet", "user", "mcp", "headers"} : Conf!Host(k) \in Conf!Sections
         /\ [kind |-> "projects", dir |-> d, at |-> 0, val |-> "trusted"] \in Conf!Sections
         /\ \A i \in 1 .. 3, g \in Conf!Groups : [kind |-> "hooks", dir |-> d, at |-> i, val |-> g] \in Conf!Sections
  BY DEF Conf!Host, Conf!Sections

(* A hook's trust is kept under a position the folder has. *)
LEMMA SeededExact ==
  ASSUME ConfigTyped, NEW text \in Seq(Conf!Sections), NEW d \in Dir, Short(hooks[d])
  PROVE  Conf!Seeded(text, d) \in Seq(Conf!Sections)
  <1> DEFINE groups == hooks[d]
             At(i) == {k \in 1 .. Len(text) : text[k].kind = "hooks" /\ text[k].dir = d /\ text[k].at = i}
             Section(i) == [kind |-> "hooks", dir |-> d, at |-> i, val |-> groups[i]]
             kept == [k \in 1 .. Len(text) |->
                        IF \E i \in 1 .. Len(groups) : k \in At(i) THEN Section(text[k].at) ELSE text[k]]
             all == [i \in 1 .. Len(groups) |-> Section(i)]
             new == Conf!Kept(all, {i \in 1 .. Len(groups) : At(i) = {}})
  <1>1. Conf!Seeded(text, d) = kept \o new
    BY DEF Conf!Seeded
  <1>2. groups \in Seq(Conf!Groups) /\ Len(groups) \in Nat /\ Len(groups) <= 2 /\ \A i \in 1 .. Len(groups) : groups[i] \in Conf!Groups
    BY DEF ConfigTyped, Short
  <1>3. \A i \in 1 .. Len(groups) : i \in 1 .. 3
    BY <1>2
  <1>4. Len(text) \in Nat /\ \A k \in 1 .. Len(text) : text[k] \in Conf!Sections
    OBVIOUS
  <1>5. \A i \in 1 .. Len(groups) : Section(i) \in Conf!Sections
    <2> HIDE DEF groups
    <2> QED BY <1>2, <1>3, SectionsAre
  <1>6. ASSUME NEW k \in 1 .. Len(text) PROVE kept[k] \in Conf!Sections
    <2>1. CASE \E i \in 1 .. Len(groups) : k \in At(i)
      <3>1. PICK i \in 1 .. Len(groups) : k \in At(i)
        BY <2>1
      <3>2. text[k].at = i
        BY <3>1
      <3>3. kept[k] = Section(i)
        BY <2>1, <3>2
      <3> QED BY <1>5, <3>3
    <2>2. CASE ~ \E i \in 1 .. Len(groups) : k \in At(i)
      BY <1>4, <2>2
    <2> QED BY <2>1, <2>2
  <1>7. kept \in Seq(Conf!Sections)
    <2>1. DOMAIN kept = 1 .. Len(text) /\ kept = [k \in 1 .. Len(text) |-> kept[k]]
      OBVIOUS
    <2> HIDE DEF kept
    <2> QED BY <1>4, <1>6, <2>1
  <1>8. all \in Seq(Conf!Sections)
    <2>1. \A i \in 1 .. Len(groups) : all[i] \in Conf!Sections
      BY <1>5
    <2>2. all = [i \in 1 .. Len(groups) |-> all[i]]
      OBVIOUS
    <2> HIDE DEF all, groups
    <2> QED BY <1>2, <2>1, <2>2
  <1> HIDE DEF kept, all, Section, At
  <1>9. new \in Seq(Conf!Sections)
    BY <1>8, KeptIs
  <1> HIDE DEF new
  <1> QED BY <1>1, <1>7, <1>9, JoinedIs

LEMMA ChangeExact ==
  ASSUME ConfigTyped, NEW text \in Seq(Conf!Sections), NEW d \in Dir, NEW op \in Conf!TomlOps, Short(hooks[d])
  PROVE  Conf!ChangedToml(op, d, text) \in Seq(Conf!Sections)
  <1>1. CASE op = "trust"
    <2>1. Conf!ChangedToml(op, d, text) = Conf!Trusted(text, d)
      BY <1>1 DEF Conf!ChangedToml
    <2>2. Append(text, [kind |-> "projects", dir |-> d, at |-> 0, val |-> "trusted"]) \in Seq(Conf!Sections)
      BY SectionsAre
    <2> QED BY <2>1, <2>2 DEF Conf!Trusted
  <1>2. ASSUME NEW kind, NEW from PROVE Conf!Without(text, kind, from) \in Seq(Conf!Sections)
    <2> DEFINE P == {k \in 1 .. Len(text) : ~(text[k].kind = kind /\ text[k].dir = from)}
    <2>1. Conf!Without(text, kind, from) = Conf!Kept(text, P)
      BY DEF Conf!Without
    <2> HIDE DEF P
    <2> QED BY <2>1, KeptIs
  <1>3. CASE op = "untrust" \/ op = "unseed"
    <2>1. Conf!ChangedToml(op, d, text) = Conf!Without(text, "projects", d) \/ Conf!ChangedToml(op, d, text) = Conf!Without(text, "hooks", d)
      BY <1>3 DEF Conf!ChangedToml
    <2> QED BY <1>2, <2>1
  <1>4. CASE op = "seed"
    <2>1. Conf!ChangedToml(op, d, text) = Conf!Seeded(text, d)
      BY <1>4 DEF Conf!ChangedToml
    <2> QED BY <2>1, SeededExact
  <1>5. CASE op = "mcp"
    <2>1. Conf!ChangedToml(op, d, text) = Conf!Wired(text)
      BY <1>5 DEF Conf!ChangedToml
    <2>2. Conf!Host("mcp") \in Conf!Sections /\ Conf!Host("headers") \in Conf!Sections
      BY SectionsAre
    <2>3. <<Conf!Host("mcp"), Conf!Host("headers")>> \in Seq(Conf!Sections)
      BY <2>2
    <2>4. text \o <<Conf!Host("mcp"), Conf!Host("headers")>> \in Seq(Conf!Sections)
      BY <2>3, JoinedIs
    <2> QED BY <2>1, <2>4 DEF Conf!Wired
  <1>6. CASE op = "quiet"
    <2>1. Conf!ChangedToml(op, d, text) = Conf!Quieted(text)
      BY <1>6 DEF Conf!ChangedToml
    <2>2. Conf!Host("quiet") \in Conf!Sections
      BY SectionsAre
    <2>3. <<Conf!Host("quiet")>> \in Seq(Conf!Sections)
      BY <2>2
    <2>4. <<Conf!Host("quiet")>> \o text \in Seq(Conf!Sections)
      BY <2>3, JoinedIs
    <2> QED BY <2>1, <2>4 DEF Conf!Quieted
  <1> QED BY <1>1, <1>3, <1>4, <1>5, <1>6 DEF Conf!TomlOps

(* A verb begins: it has read nothing yet, and another's copy stays. *)
LEMMA BeginExact ==
  ASSUME ConfigInv, ConfigTypes, NEW p \in Proc, NEW changes, Conf!Begin(p, changes), toml' = toml,
         \A d \in Dir : Short(hooks'[d]), Conf!HostConfigAssumption
  PROVE  ConfigTypes'
  <1>1. /\ todo[p] = <<>> /\ todo' = [todo EXCEPT ![p] = changes] /\ snap' = snap /\ edits' = edits
        /\ verbs < ConfVerb /\ verbs' = verbs + 1
    BY DEF Conf!Begin
  <1>2. snap[p] = None
    BY <1>1 DEF ConfigInv, Copies
  <1>3. \A q \in Proc : q # p => todo'[q] = todo[q]
    BY <1>1 DEF ConfigInv, ConfigTyped
  <1>4. ExactCopies'
    BY <1>1, <1>2, <1>3 DEF ConfigTypes, ExactCopies, ExactCopy
  <1>5. verbs' \in 0 .. ConfVerb
    BY <1>1 DEF ConfigTypes, Conf!HostConfigAssumption
  <1> QED BY <1>1, <1>4, <1>5 DEF ConfigTypes

LEMMA ReadExact == ASSUME ConfigInv, ConfigTypes, NEW p \in Proc, Conf!Read(p) PROVE ConfigTypes'
  <1> DEFINE h == Head(todo[p])
             text == Conf!Content(h.op, h.dir)
  <1>1. /\ todo[p] # <<>> /\ snap' = [snap EXCEPT ![p] = [text |-> text]]
        /\ UNCHANGED <<toml, hooks, todo, verbs, edits>>
    BY DEF Conf!Read, Conf!files, Conf!bounds
  <1>2. todo[p] \in Seq(Step) /\ DOMAIN snap = Proc
    BY DEF ConfigInv, ConfigTyped
  <1>3. h.dir \in Dir
    <2>1. h \in Step
      BY <1>1, <1>2, AheadTail
    <2> QED BY <2>1 DEF Step
  <1>4. (h.op \in Conf!TomlOps => text = toml) /\ (h.op = "unhook" => text = hooks[h.dir])
    BY DEF Conf!Content, Conf!TomlOps, Conf!SettingsOps
  <1> HIDE DEF text
  <1>5. snap'[p].text = text /\ \A q \in Proc : q # p => snap'[q] = snap[q]
    BY <1>1, <1>2
  <1>6. ASSUME NEW q \in Proc, snap'[q] # None PROVE ExactCopy(q, Head(todo[q]).op)'
    <2>1. CASE q = p
      BY <1>1, <1>3, <1>4, <1>5, <2>1 DEF ConfigTypes, ExactCopy
    <2>2. CASE q # p
      BY <1>1, <1>5, <1>6, <2>2 DEF ConfigTypes, ExactCopies, ExactCopy
    <2> QED BY <2>1, <2>2
  <1>7. ExactCopies'
    BY <1>1, <1>6 DEF ExactCopies
  <1> QED BY <1>1, <1>7 DEF ConfigTypes

LEMMA WriteExact == ASSUME ConfigInv, ConfigTypes, NEW p \in Proc, Conf!Write(p) PROVE ConfigTypes'
  <1> DEFINE op == Head(todo[p]).op
             d == Head(todo[p]).dir
             old == snap[p].text
             new == Conf!Changed(op, d, old)
  <1>1. /\ snap[p] # None /\ todo[p] # <<>> /\ CopyTyped(p, op) /\ ExactCopy(p, op)
    BY DEF Conf!Write, ConfigInv, Copies, ConfigTypes, ExactCopies
  <1>2. ConfigTyped /\ DOMAIN snap = Proc /\ todo \in [Proc -> Seq(Step)]
    BY DEF ConfigInv, ConfigTyped
  <1>3. d \in Dir /\ op \in Ops
    <2>1. Head(todo[p]) \in Step
      BY <1>1, <1>2, AheadTail
    <2> QED BY <2>1 DEF Step
  <1>4. /\ new = old => UNCHANGED <<toml, settings, hooks, torn>>
        /\ new # old => /\ toml' = IF op \in Conf!TomlOps THEN new ELSE toml
                        /\ hooks' = IF op = "unhook" THEN [hooks EXCEPT ![d] = new] ELSE hooks
        /\ snap' = [snap EXCEPT ![p] = None] /\ todo' = [todo EXCEPT ![p] = Tail(@)]
        /\ UNCHANGED <<verbs, edits>>
    BY DEF Conf!Write, Conf!bounds
  <1>5. op \in Conf!TomlOps => new \in Seq(Conf!Sections)
    <2>1. op \in Conf!TomlOps => new = Conf!ChangedToml(op, d, old) /\ old \in Seq(Conf!Sections)
      BY <1>1 DEF Conf!Changed, ExactCopy
    <2> HIDE DEF old, new, op, d
    <2>2. Short(hooks[d])
      BY <1>3 DEF ConfigTypes
    <2> QED BY <1>2, <1>3, <2>1, <2>2, ChangeExact
  <1>6. op = "unhook" => Short(new)
    <2>1. op = "unhook" => new = Conf!ChangedHooks(old) /\ old \in Seq(Conf!Groups) /\ Short(old)
      BY <1>1 DEF Conf!Changed, ExactCopy, CopyTyped, Conf!TomlOps, Conf!SettingsOps
    <2> HIDE DEF old, new
    <2>2. ASSUME op = "unhook" PROVE Len(new) <= 2
      <3>1. Conf!Kept(old, {i \in 1 .. Len(old) : old[i] # "ours"}) \in Seq(Conf!Groups)
            /\ Len(Conf!Kept(old, {i \in 1 .. Len(old) : old[i] # "ours"})) <= Len(old)
        BY <2>1, <2>2, KeptIs
      <3>2. new \in Seq(Conf!Groups) /\ Len(new) <= Len(old) /\ old \in Seq(Conf!Groups) /\ Len(old) <= 2
        BY <2>1, <2>2, <3>1 DEF Conf!ChangedHooks, Short
      <3> QED BY <3>2
    <2> QED BY <2>2 DEF Short
  <1> HIDE DEF old, new, op, d
  <1>7. toml' \in Seq(Conf!Sections)
    BY <1>4, <1>5 DEF ConfigTypes
  <1>8. \A e \in Dir : Short(hooks'[e])
    BY <1>2, <1>4, <1>6 DEF ConfigTypes, ConfigTyped
  <1>9. snap'[p] = None /\ \A q \in Proc : q # p => snap'[q] = snap[q] /\ todo'[q] = todo[q]
    BY <1>2, <1>4
  <1>10. ExactCopies'
    BY <1>9 DEF ConfigTypes, ExactCopies, ExactCopy
  <1> QED BY <1>4, <1>7, <1>8, <1>10 DEF ConfigTypes

LEMMA KillExact ==
  ASSUME Conf!HostConfigAssumption, ConfigInv, ConfigTypes, NEW p \in Proc, Conf!Kill(p) PROVE ConfigTypes'
  <1>1. /\ todo' = [todo EXCEPT ![p] = <<>>] /\ snap' = [snap EXCEPT ![p] = None]
        /\ edits < MaxEdit /\ edits' = edits + 1 /\ UNCHANGED <<toml, hooks, verbs>>
    BY DEF Conf!Kill, Conf!files
  <1>2. DOMAIN snap = Proc /\ DOMAIN todo = Proc
    BY DEF ConfigInv, ConfigTyped
  <1>3. snap'[p] = None /\ \A q \in Proc : q # p => snap'[q] = snap[q] /\ todo'[q] = todo[q]
    BY <1>1, <1>2
  <1>4. ExactCopies'
    BY <1>3 DEF ConfigTypes, ExactCopies, ExactCopy
  <1>5. edits' \in 0 .. MaxEdit
    BY <1>1 DEF ConfigTypes, Conf!HostConfigAssumption
  <1> QED BY <1>1, <1>4, <1>5 DEF ConfigTypes

LEMMA EditExact ==
  ASSUME Conf!HostConfigAssumption, ConfigInv, ConfigTypes, NEW d \in Dir, NEW g \in Conf!Groups, Conf!UserEdit(d, g) PROVE ConfigTypes'
  <1>1. /\ Len(hooks[d]) < 2 /\ hooks' = [hooks EXCEPT ![d] = Append(@, g)]
        /\ edits < MaxEdit /\ edits' = edits + 1 /\ UNCHANGED <<toml, todo, snap, verbs>>
    BY DEF Conf!UserEdit
  <1>2. hooks \in [Dir -> Seq(Conf!Groups)]
    BY DEF ConfigInv, ConfigTyped
  <1>3. \A e \in Dir : Short(hooks'[e])
    <2>1. Len(Append(hooks[d], g)) <= 2
      <3>1. hooks[d] \in Seq(Conf!Groups)
        BY <1>2
      <3> QED BY <1>1, <3>1
    <2> QED BY <1>1, <1>2, <2>1 DEF ConfigTypes, Short
  <1>4. ExactCopies'
    BY <1>1 DEF ConfigTypes, ExactCopies, ExactCopy
  <1>5. edits' \in 0 .. MaxEdit
    BY <1>1 DEF ConfigTypes, Conf!HostConfigAssumption
  <1> QED BY <1>1, <1>3, <1>4, <1>5 DEF ConfigTypes

LEMMA ConfigTypeNext == ASSUME Conf!HostConfigAssumption, ConfigInv, ConfigTypes, [Conf!Next]_Conf!vars PROVE ConfigTypes'
  <1>0. (\A d \in Dir : Short(hooks[d])) /\ DOMAIN hooks = Dir /\ Short(<<>>)
    BY DEF ConfigTypes, ConfigInv, ConfigTyped, Short
  <1>1. ASSUME NEW p \in Proc, NEW d \in Dir, Conf!Create(p, d) PROVE ConfigTypes'
    BY <1>0, <1>1, BeginExact DEF Conf!Create
  <1>2. ASSUME NEW p \in Proc, NEW d \in Dir, Conf!Boot(p, d) PROVE ConfigTypes'
    BY <1>0, <1>2, BeginExact DEF Conf!Boot, Conf!files
  <1>3. ASSUME NEW p \in Proc, NEW d \in Dir, Conf!RemovePeer(p, d) PROVE ConfigTypes'
    <2>1. hooks' = [hooks EXCEPT ![d] = <<>>] /\ toml' = toml /\ Conf!Begin(p, Conf!Forgotten(d))
      BY <1>3 DEF Conf!RemovePeer
    <2>2. \A e \in Dir : Short(hooks'[e])
      BY <1>0, <2>1
    <2> QED BY <2>1, <2>2, BeginExact
  <1>4. ASSUME NEW p \in Proc, NEW d \in Dir, NEW m \in {"yolo", "gated"}, Conf!SetMode(p, d, m) PROVE ConfigTypes'
    BY <1>0, <1>4, BeginExact DEF Conf!SetMode
  <1>5. ASSUME NEW p \in Proc, NEW d \in Dir, NEW e \in Dir, Conf!Rename(p, d, e) PROVE ConfigTypes'
    <2> DEFINE changes == Conf!On(e, <<"trust">>) \o Conf!Forgotten(d) \o Conf!On(e, <<"seed">>)
    <2>1. hooks' = [hooks EXCEPT ![e] = hooks[d], ![d] = <<>>] /\ toml' = toml /\ Conf!Begin(p, changes)
      BY <1>5 DEF Conf!Rename
    <2>2. \A f \in Dir : Short(hooks'[f])
      BY <1>0, <2>1
    <2> HIDE DEF changes
    <2> QED BY <2>1, <2>2, BeginExact
  <1>6. ASSUME NEW p \in Proc, Conf!Read(p) \/ Conf!Write(p) \/ Conf!Kill(p) PROVE ConfigTypes'
    BY <1>6, ReadExact, WriteExact, KillExact
  <1>7. ASSUME NEW d \in Dir, NEW g \in Conf!Groups, Conf!UserEdit(d, g) PROVE ConfigTypes'
    BY <1>7, EditExact
  <1>8. CASE UNCHANGED Conf!vars
    BY <1>8 DEF Conf!vars, ConfigTypes, ExactCopies, ExactCopy
  <1> QED BY <1>1, <1>2, <1>3, <1>4, <1>5, <1>6, <1>7, <1>8 DEF Conf!Next

LEMMA ConfigSafe == ASSUME ConfigInv PROVE Conf!AtRestAgrees
  <1> SUFFICES ASSUME ~torn, ~killed, \A p \in Proc : todo[p] = <<>>
               PROVE  /\ Conf!Has(toml, "user", "host")
                      /\ \A d \in Dir :
                           /\ mode[d] = "none" => ~Conf!Has(toml, "projects", d) /\ ~Conf!Has(toml, "hooks", d)
                           /\ mode[d] # "none" => Conf!Has(toml, "projects", d)
                           /\ ("ours" \in settings[d]) <=> (mode[d] = "gated")
    BY DEF Conf!AtRestAgrees
  <1>1. \A p \in Proc : \A d, x : ~Pending(p, d, x)
    <2>1. Len(<<>>) = 0 /\ 1 .. 0 = {}
      OBVIOUS
    <2> QED BY <2>1 DEF Pending, Ahead
  <1> QED BY <1>1 DEF ConfigInv, Owed, Settled

(* At rest, with no verb killed and no write fallen on a file that changed      *)
(* under it, the files say what the profiles say: for any folders and processes. *)
THEOREM FilesAgree == Conf!Spec => []Conf!AtRestAgrees
  <1>1. Conf!Init => ConfigInv
    BY ConfigInit
  <1>2. ConfigInv /\ [Conf!Next]_Conf!vars => ConfigInv'
    BY ConfigNext
  <1>3. ConfigInv => Conf!AtRestAgrees
    BY ConfigSafe
  <1> QED BY <1>1, <1>2, <1>3, PTL DEF Conf!Spec

-----------------------------------------------------------------------------
(* No table of codex's file is there twice: every change looks for its table in  *)
(* the text that it has read and writes back, and the two tables of the server   *)
(* come together.                                                              *)
Same(x, y) == x.kind = y.kind /\ x.dir = y.dir /\ x.at = y.at
Single(s) == \A i, j \in 1 .. Len(s) : i < j => ~Same(s[i], s[j])
Readable(s) == Single(s) /\ (Conf!Has(s, "headers", "host") => Conf!Has(s, "mcp", "host"))

TablesInv ==
  /\ Readable(toml)
  /\ \A p \in Proc : snap[p] # None /\ Head(todo[p]).op \in Conf!TomlOps => Readable(snap[p].text)

LEMMA SingleJoined ==
  ASSUME NEW V, NEW s \in Seq(V), NEW t \in Seq(V), Single(s), Single(t),
         \A i \in 1 .. Len(s), j \in 1 .. Len(t) : ~Same(s[i], t[j])
  PROVE  Single(s \o t)
  <1> DEFINE c == s \o t
  <1>1. /\ Len(c) = Len(s) + Len(t) /\ Len(s) \in Nat /\ Len(t) \in Nat
        /\ \A i \in 1 .. Len(s) : c[i] = s[i]
        /\ \A i \in 1 .. Len(t) : c[Len(s) + i] = t[i]
    OBVIOUS
  <1> HIDE DEF c
  <1> SUFFICES ASSUME NEW i \in 1 .. Len(c), NEW j \in 1 .. Len(c), i < j PROVE ~Same(c[i], c[j])
    BY DEF Single, c
  <1>2. CASE j \in 1 .. Len(s)
    BY <1>1, <1>2 DEF Single
  <1>3. CASE j \notin 1 .. Len(s)
    <2>1. j - Len(s) \in 1 .. Len(t) /\ c[j] = t[j - Len(s)]
      <3>1. j - Len(s) \in 1 .. Len(t) /\ Len(s) + (j - Len(s)) = j
        BY <1>1, <1>3
      <3> QED BY <1>1, <3>1
    <2>2. CASE i \in 1 .. Len(s)
      BY <1>1, <2>1, <2>2
    <2>3. CASE i \notin 1 .. Len(s)
      <3>1. i - Len(s) \in 1 .. Len(t) /\ Len(s) + (i - Len(s)) = i /\ i - Len(s) < j - Len(s)
        BY <1>1, <1>3, <2>3
      <3> QED BY <1>1, <2>1, <3>1 DEF Single
    <2> QED BY <2>2, <2>3
  <1> QED BY <1>2, <1>3

LEMMA SingleOne ==
  ASSUME NEW x PROVE Single(<<x>>) /\ Len(<<x>>) = 1 /\ 1 .. 1 = {1} /\ <<x>>[1] = x
  BY DEF Single

(* What is kept of a text without doubles has none. *)
LEMMA SingleKept ==
  ASSUME NEW V, NEW s \in Seq(V), NEW P, Single(s)
  PROVE  Single(Conf!Kept(s, P))
  <1> DEFINE n == Len(s)
             F == [v \in Seq(V) \X (1 .. n) |-> IF v[2] \in P THEN Append(v[1], s[v[2]]) ELSE v[1]]
             Def(g) == g = [i \in 0 .. n |-> IF i = 0 THEN <<>>
                                             ELSE IF i \in P THEN Append(g[i - 1], s[i]) ELSE g[i - 1]]
             From(t, k) == \A j \in 1 .. Len(t) : \E i \in 1 .. k : t[j] = s[i]
  <1>1. n \in Nat /\ \A i \in 1 .. n : s[i] \in V
    OBVIOUS
  <1>2. F \in [Seq(V) \X (1 .. n) -> Seq(V)]
    BY <1>1
  <1>3. \A v \in Seq(V), i \in 1 .. n : F[<<v, i>>] = IF i \in P THEN Append(v, s[i]) ELSE v
    OBVIOUS
  <1>4. <<>> \in Seq(V)
    OBVIOUS
  <1>5. n = Len(s)
    OBVIOUS
  <1> HIDE DEF F, n
  <1>6. PICK h \in [0 .. n -> Seq(V)] : IsFold(h, F, <<>>, n)
    BY <1>1, <1>2, <1>4, FoldExists
  <1>7. Def(h)
    <2>1. ASSUME NEW i \in 0 .. n
          PROVE  h[i] = IF i = 0 THEN <<>> ELSE IF i \in P THEN Append(h[i - 1], s[i]) ELSE h[i - 1]
      <3>1. i # 0 => i - 1 \in 0 .. n /\ i \in 1 .. n
        BY <1>1
      <3> QED BY <1>3, <1>6, <3>1 DEF IsFold
    <2> QED BY <1>6, <2>1
  <1>8. PICK g : Def(g) /\ Conf!Kept(s, P) = g[n]
    BY <1>5, <1>7 DEF Conf!Kept
  <1> DEFINE Kind(k) == k <= n => g[k] \in Seq(V) /\ Single(g[k]) /\ From(g[k], k)
             T == {k \in Nat : Kind(k)}
  <1>9. 0 \in T
    <2>1. g[0] = <<>>
      BY <1>1, <1>8
    <2>2. 1 .. Len(<<>>) = {}
      OBVIOUS
    <2>3. Single(<<>>) /\ From(<<>>, 0)
      BY <2>2 DEF Single
    <2> QED BY <1>4, <2>1, <2>3
  <1>10. ASSUME NEW k \in Nat, k \in T PROVE k + 1 \in T
    <2> SUFFICES ASSUME k + 1 <= n PROVE g[k + 1] \in Seq(V) /\ Single(g[k + 1]) /\ From(g[k + 1], k + 1)
      <3>1. k + 1 \in Nat
        OBVIOUS
      <3> QED BY <3>1
    <2>1. k + 1 \in 0 .. n /\ k + 1 # 0 /\ k + 1 \in 1 .. n /\ (k + 1) - 1 = k /\ k <= n
          /\ \A i \in 1 .. k : i \in 1 .. n /\ i < k + 1 /\ i \in 1 .. k + 1
      BY <1>1
    <2>2. g[k + 1] = IF k + 1 \in P THEN Append(g[k], s[k + 1]) ELSE g[k]
      BY <1>8, <2>1
    <2>3. g[k] \in Seq(V) /\ Single(g[k]) /\ From(g[k], k) /\ s[k + 1] \in V
      BY <1>1, <1>10, <2>1
    <2>4. CASE k + 1 \in P
      <3>1. \A j \in 1 .. Len(g[k]) : ~Same(g[k][j], s[k + 1])
        BY <1>5, <2>1, <2>3 DEF Single
      <3>2. ASSUME NEW t \in Seq(V), NEW v \in V, Single(t), \A j \in 1 .. Len(t) : ~Same(t[j], v)
            PROVE  /\ Append(t, v) \in Seq(V) /\ Single(Append(t, v))
                   /\ \A j \in 1 .. Len(Append(t, v)) : Append(t, v)[j] = v \/ \E i \in 1 .. Len(t) : Append(t, v)[j] = t[i]
        <4>1. Append(t, v) = t \o <<v>> /\ Append(t, v) \in Seq(V) /\ <<v>> \in Seq(V)
          OBVIOUS
        <4>2. Single(t \o <<v>>)
          BY <3>2, <4>1, SingleJoined, SingleOne
        <4>3. /\ Len(Append(t, v)) = Len(t) + 1 /\ Len(t) \in Nat /\ Append(t, v)[Len(t) + 1] = v
              /\ \A i \in 1 .. Len(t) : Append(t, v)[i] = t[i]
          OBVIOUS
        <4>4. \A i : i \in 1 .. Len(t) + 1 <=> i \in 1 .. Len(t) \/ i = Len(t) + 1
          BY <4>3
        <4> QED BY <4>1, <4>2, <4>3, <4>4
      <3>3. /\ g[k + 1] = Append(g[k], s[k + 1]) /\ g[k + 1] \in Seq(V) /\ Single(g[k + 1])
            /\ \A j \in 1 .. Len(g[k + 1]) : g[k + 1][j] = s[k + 1] \/ \E i \in 1 .. Len(g[k]) : g[k + 1][j] = g[k][i]
        BY <2>2, <2>3, <2>4, <3>1, <3>2
      <3>4. ASSUME NEW j \in 1 .. Len(g[k + 1]) PROVE \E i \in 1 .. k + 1 : g[k + 1][j] = s[i]
        <4>1. CASE g[k + 1][j] = s[k + 1]
          <5>1. k + 1 \in 1 .. k + 1
            OBVIOUS
          <5> QED BY <4>1, <5>1
        <4>2. CASE \E i \in 1 .. Len(g[k]) : g[k + 1][j] = g[k][i]
          BY <2>1, <2>3, <4>2
        <4> QED BY <3>3, <4>1, <4>2
      <3> QED BY <3>3, <3>4
    <2>5. CASE k + 1 \notin P
      BY <2>1, <2>2, <2>3, <2>5
    <2> QED BY <2>4, <2>5
  <1>11. n \in T
    <2> HIDE DEF T
    <2> QED BY <1>1, <1>9, <1>10, AllNats
  <1>12. Kind(n) /\ n <= n
    BY <1>1, <1>11
  <1> QED BY <1>8, <1>12

(* A folder's trust of its hooks is corrected where it stands, and added where   *)
(* there is none for the position.                                             *)
LEMMA SingleSeeded ==
  ASSUME ConfigTyped, NEW text \in Texts, NEW d \in Dir, Single(text)
  PROVE  Single(Conf!Seeded(text, d))
  <1> DEFINE groups == hooks[d]
             At(i) == {k \in 1 .. Len(text) : text[k].kind = "hooks" /\ text[k].dir = d /\ text[k].at = i}
             Section(i) == [kind |-> "hooks", dir |-> d, at |-> i, val |-> groups[i]]
             kept == [k \in 1 .. Len(text) |->
                        IF \E i \in 1 .. Len(groups) : k \in At(i) THEN Section(text[k].at) ELSE text[k]]
             all == [i \in 1 .. Len(groups) |-> Section(i)]
             P == {i \in 1 .. Len(groups) : At(i) = {}}
             new == Conf!Kept(all, P)
             Pieces == {kept[k] : k \in 1 .. Len(text)} \cup {Section(i) : i \in 1 .. Len(groups)}
  <1>1. Conf!Seeded(text, d) = kept \o new
    BY DEF Conf!Seeded
  <1>2. Len(groups) \in Nat /\ Len(text) \in Nat
    BY DEF ConfigTyped, Texts
  <1>3. ASSUME NEW k \in 1 .. Len(text) PROVE Same(kept[k], text[k])
    <2>1. CASE \E i \in 1 .. Len(groups) : k \in At(i)
      <3>1. text[k].kind = "hooks" /\ text[k].dir = d /\ kept[k] = Section(text[k].at)
        BY <2>1
      <3> QED BY <3>1 DEF Same
    <2>2. CASE ~ \E i \in 1 .. Len(groups) : k \in At(i)
      BY <2>2 DEF Same
    <2> QED BY <2>1, <2>2
  <1>4. kept \in Seq(Pieces) /\ Len(kept) = Len(text)
    <2>1. \A k \in 1 .. Len(text) : kept[k] \in Pieces
      OBVIOUS
    <2>2. kept = [k \in 1 .. Len(text) |-> kept[k]]
      OBVIOUS
    <2> HIDE DEF kept, Pieces
    <2> QED BY <1>2, <2>1, <2>2
  <1>5. all \in Seq(Pieces) /\ Len(all) = Len(groups) /\ \A i \in 1 .. Len(groups) : all[i] = Section(i)
    <2>1. \A i \in 1 .. Len(groups) : all[i] = Section(i) /\ Section(i) \in Pieces
      OBVIOUS
    <2>2. all = [i \in 1 .. Len(groups) |-> all[i]]
      OBVIOUS
    <2> HIDE DEF all, Pieces, Section, groups
    <2> QED BY <1>2, <2>1, <2>2
  <1>6. \A i : Section(i).kind = "hooks" /\ Section(i).dir = d /\ Section(i).at = i
    OBVIOUS
  <1>7. \A k \in 1 .. Len(text) : \A i : k \in At(i) <=> text[k].kind = "hooks" /\ text[k].dir = d /\ text[k].at = i
    OBVIOUS
  <1>8. \A i : i \in P <=> i \in 1 .. Len(groups) /\ At(i) = {}
    OBVIOUS
  <1> HIDE DEF kept, all, Section, At, Pieces, P
  <1>9. Single(kept)
    BY <1>3, <1>4 DEF Single, Same
  <1>10. Single(all)
    BY <1>2, <1>5, <1>6 DEF Single, Same
  <1>11. new \in Seq(Pieces) /\ Single(new) /\ \A x : Holds(new, x) <=> \E i \in 1 .. Len(all) : i \in P /\ all[i] = x
    BY <1>5, <1>10, KeptIs, SingleKept
  <1> HIDE DEF new
  <1>12. ASSUME NEW k \in 1 .. Len(kept), NEW j \in 1 .. Len(new) PROVE ~Same(kept[k], new[j])
    <2>1. PICK i \in 1 .. Len(groups) : i \in P /\ new[j] = Section(i)
      BY <1>5, <1>11 DEF Holds
    <2>2. k \in 1 .. Len(text) /\ k \notin At(i)
      BY <1>4, <1>8, <2>1
    <2>3. ~(text[k].kind = "hooks" /\ text[k].dir = d /\ text[k].at = i)
      BY <1>7, <2>2
    <2> QED BY <1>3, <1>6, <2>1, <2>2, <2>3 DEF Same
  <1> QED BY <1>1, <1>4, <1>9, <1>11, <1>12, SingleJoined

LEMMA HasJoined ==
  ASSUME NEW t \in Seq(Table), NEW s \in Seq(Table), NEW kind, NEW e
  PROVE  Conf!Has(t \o s, kind, e) <=> Conf!Has(t, kind, e) \/ Conf!Has(s, kind, e)
  <1>1. \A x : Holds(t \o s, x) <=> Holds(t, x) \/ Holds(s, x)
    BY JoinedIs
  <1> QED BY <1>1, HasHolds

LEMMA HasOne ==
  ASSUME NEW x \in Table, NEW kind, NEW e
  PROVE  <<x>> \in Seq(Table) /\ (Conf!Has(<<x>>, kind, e) <=> x.kind = kind /\ x.dir = e)
  <1>1. Len(<<x>>) = 1 /\ <<x>>[1] = x /\ <<x>> \in Seq(Table) /\ 1 .. 1 = {1}
    OBVIOUS
  <1> QED BY <1>1 DEF Conf!Has

(* A table that the text has not is put at its end, or at its beginning. *)
LEMMA OneMore ==
  ASSUME NEW text \in Texts, Single(text), NEW x \in Table, ~Conf!Has(text, x.kind, x.dir)
  PROVE  /\ text \o <<x>> \in Texts /\ <<x>> \o text \in Texts
         /\ Single(text \o <<x>>) /\ Single(<<x>> \o text)
         /\ \A kind, e : Conf!Has(text \o <<x>>, kind, e) <=> Conf!Has(text, kind, e) \/ (kind = x.kind /\ e = x.dir)
         /\ \A kind, e : Conf!Has(<<x>> \o text, kind, e) <=> Conf!Has(text, kind, e) \/ (kind = x.kind /\ e = x.dir)
  <1>1. text \in Seq(Table) /\ <<x>> \in Seq(Table) /\ Texts = Seq(Table)
    BY DEF Texts
  <1>2. \A k \in 1 .. Len(text) : ~Same(text[k], x) /\ ~Same(x, text[k])
    BY DEF Conf!Has, Same
  <1>3. Single(text \o <<x>>) /\ Single(<<x>> \o text)
    BY <1>1, <1>2, SingleOne, SingleJoined
  <1>4. text \o <<x>> \in Texts /\ <<x>> \o text \in Texts
    BY <1>1, JoinedIs
  <1>5. ASSUME NEW kind, NEW e
        PROVE  /\ Conf!Has(text \o <<x>>, kind, e) <=> Conf!Has(text, kind, e) \/ (kind = x.kind /\ e = x.dir)
               /\ Conf!Has(<<x>> \o text, kind, e) <=> Conf!Has(text, kind, e) \/ (kind = x.kind /\ e = x.dir)
    BY <1>1, HasJoined, HasOne
  <1> QED BY <1>3, <1>4, <1>5

LEMMA ReadableWithout ==
  ASSUME NEW text \in Texts, Readable(text), NEW kind \in {"projects", "hooks"}, NEW d
  PROVE  Readable(Conf!Without(text, kind, d))
  <1> DEFINE P == {k \in 1 .. Len(text) : ~(text[k].kind = kind /\ text[k].dir = d)}
  <1>1. Conf!Without(text, kind, d) = Conf!Kept(text, P) /\ text \in Seq(Table)
    BY DEF Conf!Without, Texts
  <1>2. \A i \in 1 .. Len(text) : text[i].kind \notin {"projects", "hooks"} => i \in P
    OBVIOUS
  <1> HIDE DEF P
  <1>3. Single(Conf!Kept(text, P)) /\ \A x : Holds(Conf!Kept(text, P), x) <=> \E i \in 1 .. Len(text) : i \in P /\ text[i] = x
    BY <1>1, KeptIs, SingleKept DEF Readable
  <1>4. ASSUME NEW k \in {"headers", "mcp"} PROVE Conf!Has(Conf!Kept(text, P), k, "host") <=> Conf!Has(text, k, "host")
    <2>1. Conf!Has(Conf!Kept(text, P), k, "host")
            <=> \E i \in 1 .. Len(text) : i \in P /\ text[i].kind = k /\ text[i].dir = "host"
      BY <1>3, HasHolds
    <2> QED BY <1>2, <2>1 DEF Conf!Has
  <1> QED BY <1>1, <1>3, <1>4 DEF Readable

(* No change of codex's file makes it unreadable. *)
LEMMA ReadableChanged ==
  ASSUME ConfigTyped, NEW text \in Texts, Readable(text), NEW d \in Dir, NEW op \in Conf!TomlOps
  PROVE  Readable(Conf!ChangedToml(op, d, text))
  <1> DEFINE project == [kind |-> "projects", dir |-> d, at |-> 0, val |-> "trusted"]
  <1>1. /\ project \in Table /\ Conf!Host("mcp") \in Table /\ Conf!Host("headers") \in Table /\ Conf!Host("quiet") \in Table
        /\ project.kind = "projects" /\ project.dir = d
    BY DEF Conf!Host, Table
  <1>2. \A k \in {"mcp", "headers", "quiet"} : Conf!Host(k).kind = k /\ Conf!Host(k).dir = "host"
    BY DEF Conf!Host
  <1>3. CASE op = "trust"
    <2>1. CASE Conf!Has(text, "projects", d)
      BY <1>3, <2>1 DEF Conf!ChangedToml, Conf!Trusted
    <2>2. CASE ~Conf!Has(text, "projects", d)
      <3>1. Conf!ChangedToml(op, d, text) = Append(text, project)
        BY <1>3, <2>2 DEF Conf!ChangedToml, Conf!Trusted
      <3> HIDE DEF project
      <3>2. Append(text, project) = text \o <<project>>
        BY <1>1 DEF Texts
      <3>3. Single(text \o <<project>>) /\ \A kind \in {"headers", "mcp"} :
              Conf!Has(text \o <<project>>, kind, "host") <=> Conf!Has(text, kind, "host")
        BY <1>1, <2>2, OneMore DEF Readable
      <3> QED BY <3>1, <3>2, <3>3 DEF Readable
    <2> QED BY <2>1, <2>2
  <1>4. CASE op = "untrust" \/ op = "unseed"
    <2>1. \E kind \in {"projects", "hooks"} : Conf!ChangedToml(op, d, text) = Conf!Without(text, kind, d)
      BY <1>4 DEF Conf!ChangedToml
    <2> QED BY <2>1, ReadableWithout
  <1>5. CASE op = "seed"
    <2>1. Conf!ChangedToml(op, d, text) = Conf!Seeded(text, d)
      BY <1>5 DEF Conf!ChangedToml
    <2>2. \A kind \in {"headers", "mcp"} : Conf!Has(Conf!Seeded(text, d), kind, "host") <=> Conf!Has(text, kind, "host")
      BY SeededIs
    <2> QED BY <2>1, <2>2, SingleSeeded DEF Readable
  <1>6. CASE op = "mcp"
    <2>1. CASE Conf!Has(text, "mcp", "host")
      BY <1>6, <2>1 DEF Conf!ChangedToml, Conf!Wired
    <2>2. CASE ~Conf!Has(text, "mcp", "host")
      <3>1. Conf!ChangedToml(op, d, text) = text \o <<Conf!Host("mcp"), Conf!Host("headers")>>
        BY <1>6, <2>2 DEF Conf!ChangedToml, Conf!Wired
      <3> DEFINE one == text \o <<Conf!Host("mcp")>>
      <3>2. one \o <<Conf!Host("headers")>> = text \o <<Conf!Host("mcp"), Conf!Host("headers")>>
        BY DEF Texts
      <3>3. /\ one \in Texts /\ Single(one)
            /\ \A kind, e : Conf!Has(one, kind, e) <=> Conf!Has(text, kind, e) \/ (kind = "mcp" /\ e = "host")
        BY <1>1, <1>2, <2>2, OneMore DEF Readable
      <3> HIDE DEF one
      <3>4. ~Conf!Has(one, "headers", "host")
        BY <2>2, <3>3 DEF Readable
      <3>5. Single(one \o <<Conf!Host("headers")>>) /\ Conf!Has(one \o <<Conf!Host("headers")>>, "mcp", "host")
        BY <1>1, <1>2, <3>3, <3>4, OneMore
      <3> QED BY <3>1, <3>2, <3>5 DEF Readable
    <2> QED BY <2>1, <2>2
  <1>7. CASE op = "quiet"
    <2>1. CASE Conf!Has(text, "quiet", "host")
      BY <1>7, <2>1 DEF Conf!ChangedToml, Conf!Quieted
    <2>2. CASE ~Conf!Has(text, "quiet", "host")
      <3>1. Conf!ChangedToml(op, d, text) = <<Conf!Host("quiet")>> \o text
        BY <1>7, <2>2 DEF Conf!ChangedToml, Conf!Quieted
      <3>2. Single(<<Conf!Host("quiet")>> \o text) /\ \A kind \in {"headers", "mcp"} :
              Conf!Has(<<Conf!Host("quiet")>> \o text, kind, "host") <=> Conf!Has(text, kind, "host")
        BY <1>1, <1>2, <2>2, OneMore DEF Readable
      <3> QED BY <3>1, <3>2 DEF Readable
    <2> QED BY <2>1, <2>2
  <1> QED BY <1>3, <1>4, <1>5, <1>6, <1>7 DEF Conf!TomlOps

LEMMA TablesBegin ==
  ASSUME ConfigInv, TablesInv, NEW p \in Proc, NEW changes, Conf!Begin(p, changes), toml' = toml
  PROVE  TablesInv'
  <1>1. todo[p] = <<>> /\ todo' = [todo EXCEPT ![p] = changes] /\ snap' = snap
    BY DEF Conf!Begin
  <1>2. snap[p] = None /\ \A q \in Proc : q # p => todo'[q] = todo[q]
    BY <1>1 DEF ConfigInv, Copies, ConfigTyped
  <1> QED BY <1>1, <1>2 DEF TablesInv, Readable, Single, Conf!Has

LEMMA TablesNext == ASSUME ConfigInv, TablesInv, [Conf!Next]_Conf!vars PROVE TablesInv'
  <1>0. DOMAIN snap = Proc /\ todo \in [Proc -> Seq(Step)] /\ toml \in Texts /\ ConfigTyped
    BY DEF ConfigInv, ConfigTyped
  <1>1. ASSUME NEW p \in Proc, NEW d \in Dir, \/ Conf!Create(p, d) \/ Conf!Boot(p, d) \/ Conf!RemovePeer(p, d)
                                              \/ \E m \in {"yolo", "gated"} : Conf!SetMode(p, d, m)
                                              \/ \E e \in Dir : Conf!Rename(p, d, e)
        PROVE  TablesInv'
    <2>1. toml' = toml /\ \E changes : Conf!Begin(p, changes)
      BY <1>1 DEF Conf!Create, Conf!Boot, Conf!RemovePeer, Conf!SetMode, Conf!Rename, Conf!files
    <2> QED BY <2>1, TablesBegin
  <1>2. ASSUME NEW p \in Proc, Conf!Read(p) PROVE TablesInv'
    <2> DEFINE h == Head(todo[p])
               text == Conf!Content(h.op, h.dir)
    <2>1. snap' = [snap EXCEPT ![p] = [text |-> text]] /\ UNCHANGED <<toml, todo>>
      BY <1>2 DEF Conf!Read, Conf!files
    <2>2. h.op \in Conf!TomlOps => text = toml
      BY DEF Conf!Content
    <2> HIDE DEF text
    <2>3. snap'[p].text = text /\ \A q \in Proc : q # p => snap'[q] = snap[q]
      BY <1>0, <2>1
    <2>4. Readable(toml')
      BY <2>1 DEF TablesInv
    <2>5. ASSUME NEW q \in Proc, snap'[q] # None, Head(todo'[q]).op \in Conf!TomlOps PROVE Readable(snap'[q].text)
      BY <2>1, <2>2, <2>3, <2>5 DEF TablesInv
    <2> QED BY <2>4, <2>5 DEF TablesInv, Readable, Single, Conf!Has
  <1>3. ASSUME NEW p \in Proc, Conf!Write(p) PROVE TablesInv'
    <2> DEFINE op == Head(todo[p]).op
               d == Head(todo[p]).dir
               old == snap[p].text
               new == Conf!Changed(op, d, old)
    <2>1. /\ toml' = toml \/ (op \in Conf!TomlOps /\ toml' = new)
          /\ snap[p] # None /\ todo[p] # <<>> /\ CopyTyped(p, op)
          /\ snap' = [snap EXCEPT ![p] = None] /\ todo' = [todo EXCEPT ![p] = Tail(@)]
      BY <1>3 DEF Conf!Write, ConfigInv, Copies
    <2>2. d \in Dir
      <3>1. Head(todo[p]) \in Step
        BY <1>0, <2>1, AheadTail
      <3> QED BY <3>1 DEF Step
    <2>3. ASSUME op \in Conf!TomlOps PROVE Readable(new)
      <3>1. new = Conf!ChangedToml(op, d, old) /\ old \in Texts /\ Readable(old)
        BY <2>1, <2>3 DEF Conf!Changed, CopyTyped, TablesInv
      <3> HIDE DEF new, old, op, d
      <3> QED BY <1>0, <2>2, <2>3, <3>1, ReadableChanged
    <2> HIDE DEF new
    <2>4. Readable(toml')
      BY <2>1, <2>3 DEF TablesInv
    <2>5. snap'[p] = None /\ \A q \in Proc : q # p => snap'[q] = snap[q] /\ todo'[q] = todo[q]
      BY <1>0, <2>1
    <2>6. ASSUME NEW q \in Proc, snap'[q] # None, Head(todo'[q]).op \in Conf!TomlOps PROVE Readable(snap'[q].text)
      BY <2>5, <2>6 DEF TablesInv
    <2> QED BY <2>4, <2>6 DEF TablesInv, Readable, Single, Conf!Has
  <1>4. ASSUME NEW p \in Proc, Conf!Kill(p) PROVE TablesInv'
    <2>1. todo' = [todo EXCEPT ![p] = <<>>] /\ snap' = [snap EXCEPT ![p] = None] /\ toml' = toml
      BY <1>4 DEF Conf!Kill, Conf!files
    <2>2. snap'[p] = None /\ \A q \in Proc : q # p => snap'[q] = snap[q] /\ todo'[q] = todo[q]
      BY <1>0, <2>1
    <2> QED BY <2>1, <2>2 DEF TablesInv, Readable, Single, Conf!Has
  <1>5. CASE (\E d \in Dir, g \in Conf!Groups : Conf!UserEdit(d, g)) \/ UNCHANGED Conf!vars
    <2>1. UNCHANGED <<toml, todo, snap>>
      BY <1>5 DEF Conf!UserEdit, Conf!vars
    <2> QED BY <2>1 DEF TablesInv, Readable, Single, Conf!Has
  <1> QED BY <1>1, <1>2, <1>3, <1>4, <1>5 DEF Conf!Next

(* Codex's configuration never has a table twice, which would keep every peer of *)
(* the host from booting, for any number of folders, processes and verbs, also   *)
(* when writes fall on a file that has changed and verbs are killed half-way     *)
(* (preTrustCodexCwd, preSeedCodexHooksTrust, writeCodexMcpConfig).             *)
THEOREM NoTableIsThereTwice == Conf!Spec => []Conf!NoTableTwice
  <1>1. Conf!Init => ConfigInv /\ TablesInv
    <2>1. ASSUME Conf!Init PROVE TablesInv
      <3>1. toml = <<Conf!Host("user")>> /\ \A p \in Proc : snap[p] = None
        BY <2>1 DEF Conf!Init
      <3>2. Single(toml) /\ ~Conf!Has(toml, "headers", "host")
        BY <3>1, SingleOne DEF Conf!Has, Conf!Host
      <3> QED BY <3>1, <3>2 DEF TablesInv, Readable
    <2> QED BY <2>1, ConfigInit
  <1>2. ConfigInv /\ TablesInv /\ [Conf!Next]_Conf!vars => (ConfigInv /\ TablesInv)'
    BY ConfigNext, TablesNext
  <1>3. ConfigInv /\ TablesInv => Conf!NoTableTwice
    <2> SUFFICES ASSUME TablesInv, ConfigTyped, NEW i \in 1 .. Len(toml), NEW j \in 1 .. Len(toml), i # j
                 PROVE  ~Same(toml[i], toml[j])
      BY DEF Conf!NoTableTwice, Same, ConfigInv
    <2>1. Len(toml) \in Nat
      BY DEF ConfigTyped, Texts
    <2>2. i < j \/ j < i
      BY <2>1
    <2>3. Same(toml[i], toml[j]) => Same(toml[j], toml[i])
      BY DEF Same
    <2> QED BY <2>2, <2>3 DEF TablesInv, Readable, Single
  <1> QED BY <1>1, <1>2, <1>3, PTL DEF Conf!Spec

=============================================================================
