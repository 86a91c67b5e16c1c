---------------------------- MODULE NoticeProofs ----------------------------
(* Eight components that owe somebody an answer: the delivery that owes its      *)
(* sender one verdict, the routing that owes a queued message a fate, the goal   *)
(* watch that owes the operator every stall, the park that owes a session one     *)
(* continuation, and four verbs whose answer must be so: those that change a      *)
(* peer, connect, uninstall and the voice.  They share no state; what is proved    *)
(* of each holds for every value of its constants.                               *)
EXTENDS Integers, Sequences, FiniteSets, SequencesExt, FiniteSetTheorems, WellFoundedInduction,
        TLAPS

CONSTANTS Delivery, None, MaxRestart, Msg, MaxGen, Thread, CwdOf, PeerCwd,
          Stall, MaxTime, Overlap, Ttl, MaxFault, Pass, MaxEvent, Name, Dir,
          Rt, Proc, MaxVerb, Verb, Token, ConnectRestart, Job, Session,
          Daemon, MaxWake, MaxRun, Late, VoiceVerb, MaxHand, VoiceFault

VARIABLES writer, pasted, landed, old, disk, resolved, resNotice, copy,
          closing, pending, now, slot, board, sent, restarts, host, inbox, pc,
          path, answer, told, queue, token, drain, tail, daemon, row, latest,
          since, sweep, stalls, heard, excused, faults, event, session, due,
          halted, park, at, nudges, profile, marks, index, live, retiring,
          changed, sync, job, verbs, killed, installed, human, router, loaded,
          stored, face, seen, tok, before, ans, plists, foreign, binary, tree,
          lines, todo, planned, term, stuckJob, wakes, runs, keys, helper,
          started, closed, idle, intent, lock, asked, receipt, rank, hands

Acc == INSTANCE Acceptance
Route == INSTANCE Routing
Goal == INSTANCE GoalWatch
Limit == INSTANCE LimitPark
Mem == INSTANCE Membership
Con == INSTANCE Connect WITH MaxRestart <- ConnectRestart
Un == INSTANCE Uninstall
Vo == INSTANCE Voice WITH MaxVerb <- VoiceVerb, MaxFault <- VoiceFault

-----------------------------------------------------------------------------
(* Every nonempty set of naturals has a least element, and induction. *)
LEMMA LeastNat == ASSUME NEW T, T \subseteq Nat, T # {} PROVE \E x \in T : \A y \in T : x <= y
  <1> DEFINE R == {ss \in Nat \X Nat : ss[1] < ss[2]}
  <1>1. IsWellFoundedOn(R, Nat)
    BY NatLessThanWellFounded DEF OpToRel
  <1> HIDE DEF R
  <1>2. PICK x \in T : \A y \in T : ~ (<<y, x>> \in R)
    BY <1>1, WFMin
  <1>3. ASSUME NEW y \in T PROVE x <= y
    <2>1. ~ (<<y, x>> \in R) /\ x \in Nat /\ y \in Nat
      BY <1>2
    <2>2. y < x => <<y, x>> \in R
      BY <2>1 DEF R
    <2> QED BY <2>1, <2>2
  <1> QED BY <1>3

LEMMA AllNats == ASSUME NEW T, 0 \in T, \A n \in Nat : n \in T => n + 1 \in T PROVE \A n \in Nat : n \in T
  <1> SUFFICES ASSUME NEW m \in Nat, m \notin T PROVE FALSE
    OBVIOUS
  <1> DEFINE U == {n \in Nat : n \notin T}
  <1>1. PICK x \in U : \A y \in U : x <= y
    <2>1. U \subseteq Nat /\ U # {}
      OBVIOUS
    <2> HIDE DEF U
    <2> QED BY <2>1, LeastNat
  <1>2. x # 0 /\ x - 1 \in Nat /\ ~(x <= x - 1)
    OBVIOUS
  <1>3. x - 1 \in T
    BY <1>1, <1>2
  <1>4. (x - 1) + 1 = x
    BY <1>2
  <1> QED BY <1>2, <1>3, <1>4

IsFold(g, F, start, n) == g[0] = start /\ \A i \in 1 .. n : g[i] = F[<<g[i - 1], i>>]

(* A definition by recursion on 0 .. n has the function it defines. *)
LEMMA FoldExists ==
  ASSUME NEW V, NEW n \in Nat, NEW start \in V, NEW F \in [V \X (1 .. n) -> V]
  PROVE  \E g \in [0 .. n -> V] : IsFold(g, F, start, n)
  <1> DEFINE Def(g, k) == g = [i \in 0 .. k |-> IF i = 0 THEN start ELSE F[<<g[i - 1], i>>]]
             Has(k) == \E g \in [0 .. k -> V] : Def(g, k)
             T == {k \in Nat : k <= n => Has(k)}
  <1>1. 0 \in T
    <2> DEFINE g == [i \in 0 .. 0 |-> start]
    <2>1. g \in [0 .. 0 -> V] /\ Def(g, 0)
      OBVIOUS
    <2> QED BY <2>1
  <1>2. ASSUME NEW k \in Nat, k \in T PROVE k + 1 \in T
    <2> HIDE DEF Has
    <2> SUFFICES ASSUME k + 1 <= n PROVE Has(k + 1)
      OBVIOUS
    <2>1. PICK h \in [0 .. k -> V] : Def(h, k)
      BY <1>2 DEF Has
    <2> DEFINE new == F[<<h[k], k + 1>>]
               g == [i \in 0 .. k + 1 |-> IF i = k + 1 THEN new ELSE h[i]]
    <2>2. h[k] \in V /\ new \in V
      <3>1. k \in 0 .. k /\ k + 1 \in 1 .. n
        OBVIOUS
      <3>2. h[k] \in V
        BY <2>1, <3>1
      <3> QED BY <3>1, <3>2
    <2>3. g \in [0 .. k + 1 -> V]
      BY <2>2
    <2>4. DOMAIN g = 0 .. k + 1 /\ g[k + 1] = new /\ \A i \in 0 .. k : g[i] = h[i]
      OBVIOUS
    <2> HIDE DEF g
    <2>5. ASSUME NEW i \in 0 .. k + 1 PROVE g[i] = IF i = 0 THEN start ELSE F[<<g[i - 1], i>>]
      <3>1. CASE i = k + 1
        <4>1. i # 0 /\ i - 1 = k /\ k \in 0 .. k
          BY <3>1
        <4>2. g[i - 1] = h[k]
          BY <2>4, <4>1
        <4> QED BY <2>4, <3>1, <4>1, <4>2
      <3>2. CASE i = 0
        <4>1. 0 \in 0 .. k
          OBVIOUS
        <4> QED BY <2>1, <2>4, <3>2, <4>1
      <3>3. CASE i # k + 1 /\ i # 0
        <4>1. i \in 0 .. k /\ i - 1 \in 0 .. k
          BY <3>3
        <4>2. h[i] = F[<<h[i - 1], i>>]
          BY <2>1, <3>3, <4>1
        <4>3. g[i] = h[i] /\ g[i - 1] = h[i - 1]
          BY <2>4, <4>1
        <4> QED BY <3>3, <4>2, <4>3
      <3> QED BY <3>1, <3>2, <3>3
    <2>6. g = [i \in 0 .. k + 1 |-> g[i]]
      BY <2>3
    <2>7. Def(g, k + 1)
      BY <2>5, <2>6
    <2> QED BY <2>3, <2>7 DEF Has
  <1> HIDE DEF T
  <1>3. n \in T
    BY <1>1, <1>2, AllNats
  <1>4. PICK g \in [0 .. n -> V] : Def(g, n)
    BY <1>3 DEF T
  <1>5. 0 \in 0 .. n /\ \A i \in 1 .. n : i \in 0 .. n /\ i # 0
    OBVIOUS
  <1>6. IsFold(g, F, start, n)
    BY <1>4, <1>5 DEF IsFold
  <1> QED BY <1>6

(* The greatest of some positions. *)
LEMMA GreatestNat ==
  ASSUME NEW n \in Nat, NEW S, S \subseteq 1 .. n, S # {}
  PROVE  \E m \in S : \A j \in S : j <= m
  <1> DEFINE U == {n - i : i \in S}
  <1>1. U \subseteq Nat /\ U # {}
    <2>1. ASSUME NEW i \in S PROVE n - i \in Nat
      OBVIOUS
    <2> QED BY <2>1
  <1> HIDE DEF U
  <1>2. PICK x \in U : \A y \in U : x <= y
    BY <1>1, LeastNat
  <1>3. PICK i \in S : x = n - i
    BY <1>2 DEF U
  <1>4. ASSUME NEW j \in S PROVE j <= i
    <2>1. n - j \in U
      BY DEF U
    <2>2. n - i <= n - j
      BY <1>2, <1>3, <2>1
    <2> QED BY <2>2
  <1> QED BY <1>4

-----------------------------------------------------------------------------
(* The notice of one verdict is never sent twice, for any deliveries and any     *)
(* deaths of the daemon: what was told is claimed in the record on disk, or a    *)
(* later verdict stands there; the writer has ended by then, and the copy a pass *)
(* works on is the record.                                                     *)
Teller == {"caller", "operator"}
Verdict == {"unresolved", "failed", "delivered"}
Ended(d) == writer[d] \in {"done", "gone"}
Busy == slot \in {"caller", "caller sending", "operator", "operator sending"}

AccTyped ==
  /\ disk \in [Delivery -> Acc!Record] /\ copy \in [Delivery -> Acc!Record]
  /\ pending \subseteq Delivery /\ writer \in [Delivery -> {"new", "ready", "pasting", "waiting", "done", "gone"}]

(* What was told of a delivery is claimed under its verdict, or is overtaken.    *)
Claimed ==
  \A d \in Delivery : \A s \in Teller : \A st : <<d, s, st>> \in sent =>
    /\ st \in Verdict
    /\ \/ disk[d].status = st /\ disk[d][s] # "no"
       \/ disk[d].status = "delivered" /\ st = "unresolved"

(* The writer's last word, and all the reconciler's, come after its work.        *)
WriterEnded ==
  \A d \in Delivery :
    /\ disk[d].status = "none" => disk[d] = Acc!Absent
    /\ disk[d].status # "none" => writer[d] # "new"
    /\ disk[d].status \notin {"none", "prepared", "sending"} => Ended(d)
    /\ d \in old => Ended(d)

(* A record a pass has still to look at is as it read it, or no verdict yet.      *)
CopyStands ==
  /\ \A d \in pending :
       \/ copy[d] = disk[d] /\ copy[d].status \notin {"none", "prepared", "sending"} /\ Ended(d)
       \/ /\ copy[d].status \in {"prepared", "sending"} /\ writer[d] # "new"
          /\ \A s \in Teller : \A st : <<d, s, st>> \notin sent
  /\ Busy => now \in Delivery /\ now \notin pending /\ copy[now] = disk[now] /\ Ended(now)
             /\ copy[now].status \in Verdict

AccInv == AccTyped /\ Claimed /\ WriterEnded /\ CopyStands

LEMMA AccInit == ASSUME Acc!Init PROVE AccInv
  <1>1. AccTyped
    BY DEF Acc!Init, AccTyped, Acc!Record, Acc!Absent, Acc!Statuses, Acc!Claims
  <1>2. \A d \in Delivery : disk[d].status = "none"
    BY DEF Acc!Init, Acc!Absent
  <1> QED BY <1>1, <1>2 DEF Acc!Init, AccInv, Claimed, WriterEnded, CopyStands, Busy

(* The writer's step: it has not ended, so nobody was told anything. *)
LEMMA WriterKeeps ==
  ASSUME AccInv, NEW d \in Delivery, Acc!Writing(d)
  PROVE  AccInv'
  <1>1. Acc!OthersStay /\ (\E w \in {"ready", "pasting", "waiting", "done", "gone"} : writer' = [writer EXCEPT ![d] = w])
        /\ old' = old
    BY DEF Acc!Writing, Acc!Prepare, Acc!RefuseBefore, Acc!BeforeSend, Acc!Paste, Acc!RefuseSend, Acc!Confirm, Acc!GiveUp, Acc!WriterGone, Acc!Moves
  <1>2. UNCHANGED <<sent, copy, pending, now, slot>>
    BY <1>1 DEF Acc!OthersStay, Acc!passVars
  <1>3. writer'[d] # "new" /\ \A x \in Delivery : x # d => writer'[x] = writer[x]
    BY <1>1 DEF AccInv, AccTyped
  <1>4. CASE UNCHANGED disk /\ (Ended(d) => Ended(d)')
    <2>1. \A x \in Delivery : Ended(x) => Ended(x)'
      BY <1>3, <1>4 DEF Ended
    <2>2. AccTyped'
      BY <1>1, <1>2, <1>4 DEF AccInv, AccTyped
    <2>3. Claimed' /\ WriterEnded'
      BY <1>1, <1>2, <1>3, <1>4, <2>1 DEF AccInv, Claimed, WriterEnded
    <2>4. CopyStands'
      <3>1. pending \subseteq Delivery
        BY DEF AccInv, AccTyped
      <3> QED BY <1>2, <1>3, <1>4, <2>1, <3>1 DEF AccInv, CopyStands, Busy
    <2> QED BY <2>2, <2>3, <2>4 DEF AccInv
  <1>5. ASSUME NEW st \in Acc!Statuses \ {"none"}, Acc!WriterSays(d, st), ~Ended(d), writer'[d] # "new",
               st \in {"prepared", "sending"} \/ Ended(d)'
        PROVE  AccInv'
    <2> DEFINE r == [Acc!Absent EXCEPT !.status = st, !.managed = (st = "pending")]
    <2>2. r \in Acc!Record /\ r.status = st
      BY DEF Acc!Record, Acc!Absent, Acc!Claims
    <2>3. disk' = [disk EXCEPT ![d] = r]
      BY <1>5 DEF Acc!WriterSays
    <2> HIDE DEF r
    <2>4. disk'[d] = r /\ \A x \in Delivery : x # d => disk'[x] = disk[x]
      BY <2>3 DEF AccInv, AccTyped
    <2>5. disk[d].status \in {"none", "prepared", "sending"}
      BY <1>5 DEF AccInv, WriterEnded, Ended
    <2>6. \A s \in Teller : \A t : <<d, s, t>> \notin sent
      BY <2>5 DEF AccInv, Claimed, Verdict
    <2>7. AccTyped'
      BY <1>1, <1>2, <2>2, <2>3 DEF AccInv, AccTyped
    <2>8. Claimed'
      BY <1>2, <2>4, <2>6 DEF AccInv, Claimed
    <2>9. WriterEnded'
      BY <1>1, <1>3, <1>5, <2>2, <2>4 DEF AccInv, WriterEnded, Ended
    <2>10. CopyStands'
      <3>1. ASSUME NEW x \in pending
            PROVE  \/ /\ copy[x] = disk'[x] /\ copy[x].status \notin {"none", "prepared", "sending"}
                      /\ Ended(x)'
                   \/ /\ copy[x].status \in {"prepared", "sending"} /\ writer'[x] # "new"
                      /\ \A s \in Teller : \A t : <<x, s, t>> \notin sent
        <4>1. CASE x = d
          BY <1>5, <2>6, <4>1 DEF AccInv, CopyStands
        <4>2. CASE x # d
          <5>1. x \in Delivery
            BY DEF AccInv, AccTyped
          <5> QED BY <4>2, <5>1, <1>3, <2>4 DEF AccInv, CopyStands, Ended
        <4> QED BY <4>1, <4>2
      <3>2. Busy => now # d
        BY <1>5 DEF AccInv, CopyStands, Ended
      <3> QED BY <1>2, <1>3, <2>4, <3>1, <3>2 DEF AccInv, CopyStands, Busy, Ended
    <2> QED BY <2>7, <2>8, <2>9, <2>10 DEF AccInv
  <1>6. writer[d] \in {"new", "ready", "pasting", "waiting"} => ~Ended(d)
    BY DEF Ended
  <1>7. CASE Acc!Paste(d) \/ Acc!WriterGone(d)
    BY <1>4, <1>7 DEF Acc!Paste, Acc!WriterGone, Acc!Moves, Ended, AccInv, AccTyped
  <1>8. CASE Acc!Prepare(d) \/ Acc!BeforeSend(d)
    BY <1>3, <1>5, <1>6, <1>8 DEF Acc!Prepare, Acc!BeforeSend, Acc!Moves, Acc!Statuses
  <1>9. CASE Acc!RefuseBefore(d) \/ Acc!RefuseSend(d) \/ Acc!Confirm(d) \/ Acc!GiveUp(d)
    <2>1. Ended(d)'
      BY <1>9 DEF Acc!RefuseBefore, Acc!RefuseSend, Acc!Confirm, Acc!GiveUp, Acc!Moves, Ended, AccInv, AccTyped
    <2> QED BY <1>3, <1>5, <1>6, <1>9, <2>1 DEF Acc!RefuseBefore, Acc!RefuseSend, Acc!Confirm, Acc!GiveUp, Acc!Moves, Acc!Statuses
  <1> QED BY <1>7, <1>8, <1>9 DEF Acc!Writing
(* What neither the records, nor the pass, nor what was told is touched by. *)
LEMMA RecordsStay ==
  ASSUME AccInv, UNCHANGED <<writer, old, disk, copy, pending, now, slot>>,
         \A d \in Delivery : \A s \in Teller : \A st : <<d, s, st>> \in sent' <=> <<d, s, st>> \in sent
  PROVE  AccInv'
  <1>1. AccTyped' /\ WriterEnded'
    BY DEF AccInv, AccTyped, WriterEnded, Ended
  <1>2. Claimed'
    BY DEF AccInv, Claimed
  <1>3. pending \subseteq Delivery
    BY DEF AccInv, AccTyped
  <1>4. CopyStands'
    BY <1>3 DEF AccInv, CopyStands, Busy, Ended
  <1> QED BY <1>1, <1>2, <1>4 DEF AccInv

LEMMA BeginPassKeeps == ASSUME Acc!AcceptanceAssumption, AccInv, Acc!BeginPass PROVE AccInv'
  <1>1. /\ now = None /\ copy' = disk /\ pending' = {d \in Delivery : disk[d] # Acc!Absent}
        /\ UNCHANGED <<writer, old, disk, now, slot, sent>>
    BY DEF Acc!BeginPass, Acc!writerVars
  <1>2. ~Busy /\ ~Busy'
    BY <1>1 DEF AccInv, CopyStands, Busy, Acc!AcceptanceAssumption
  <1>3. AccTyped' /\ WriterEnded' /\ Claimed'
    BY <1>1 DEF AccInv, AccTyped, WriterEnded, Claimed, Ended
  <1>4. CopyStands'
    BY <1>1, <1>2 DEF AccInv, AccTyped, Claimed, CopyStands, WriterEnded, Ended, Verdict
  <1> QED BY <1>3, <1>4 DEF AccInv

(* A record left alone, or closed: the pass forgets its copy. *)
LEMMA PassedBy ==
  ASSUME Acc!AcceptanceAssumption, AccInv, NEW d \in pending, now = None,
         pending' = pending \ {d}, copy' = [copy EXCEPT ![d] = Acc!Absent],
         UNCHANGED <<writer, old, disk>>,
         slot' \in {slot, "closure"},
         \A x \in Delivery : \A s \in Teller : \A st : <<x, s, st>> \in sent' <=> <<x, s, st>> \in sent
  PROVE  AccInv'
  <1>1. ~Busy /\ ~Busy'
    BY DEF AccInv, CopyStands, Busy, Acc!AcceptanceAssumption
  <1>2. Acc!Absent \in Acc!Record
    BY DEF Acc!Absent, Acc!Record, Acc!Statuses, Acc!Claims
  <1>3. AccTyped' /\ WriterEnded' /\ Claimed'
    BY <1>2 DEF AccInv, AccTyped, WriterEnded, Claimed, Ended
  <1>4. \A x \in pending' : x \in Delivery /\ x \in pending /\ copy'[x] = copy[x]
    BY DEF AccInv, AccTyped
  <1>5. CopyStands'
    BY <1>1, <1>4 DEF AccInv, CopyStands, Ended
  <1> QED BY <1>3, <1>5 DEF AccInv

LEMMA ReconcileClosedKeeps ==
  ASSUME Acc!AcceptanceAssumption, AccInv, NEW d \in Delivery, Acc!ReconcileClosed(d)
  PROVE  AccInv'
  <1>1. \A x \in Delivery : \A s \in Teller : \A st : <<x, s, st>> \in sent' <=> <<x, s, st>> \in sent
    BY DEF Acc!ReconcileClosed, Teller
  <1> QED BY <1>1, PassedBy DEF Acc!ReconcileClosed, Acc!writerVars

(* A verdict is on disk: on a record nobody was told of, or which says the same,  *)
(* or that the paste was accepted after all.                                   *)
LEMMA VerdictKeeps ==
  ASSUME Acc!AcceptanceAssumption, AccInv, NEW d \in pending, now = None, Ended(d),
         NEW r \in Acc!Record, r.status \in Verdict,
         pending' = pending \ {d}, copy' = [copy EXCEPT ![d] = r], disk' = [disk EXCEPT ![d] = r],
         now' = d, slot' = "caller", UNCHANGED <<writer, old, sent>>,
         \/ disk[d] = r
         \/ \A s \in Teller : \A st : <<d, s, st>> \in sent => r.status = "delivered" /\ st = "unresolved"
  PROVE  AccInv'
  <1>0. d \in Delivery
    BY DEF AccInv, AccTyped
  <1>1. /\ disk'[d] = r /\ copy'[d] = r
        /\ \A x \in Delivery : x # d => disk'[x] = disk[x] /\ copy'[x] = copy[x]
    BY <1>0 DEF AccInv, AccTyped
  <1>2. AccTyped'
    BY <1>0 DEF AccInv, AccTyped
  <1>3. Claimed'
    BY <1>0, <1>1 DEF AccInv, Claimed, Verdict
  <1>4. WriterEnded'
    BY <1>0, <1>1 DEF AccInv, WriterEnded, Verdict, Ended
  <1>5. \A x \in pending' : x \in Delivery /\ x \in pending /\ x # d
    BY DEF AccInv, AccTyped
  <1>6. CopyStands'
    BY <1>0, <1>1, <1>5 DEF AccInv, CopyStands, Ended
  <1> QED BY <1>2, <1>3, <1>4, <1>6 DEF AccInv

(* The pass judges a record after its writer has ended. *)
LEMMA ReconcileKeeps ==
  ASSUME Acc!AcceptanceAssumption, AccInv, NEW d \in Delivery, Acc!Reconcile(d)
  PROVE  AccInv'
  <1> DEFINE r == Acc!Judged(d)
  <1>1. /\ now = None /\ d \in pending /\ pending' = pending \ {d}
        /\ UNCHANGED <<writer, old, sent>>
    BY DEF Acc!Reconcile, Acc!writerVars
  <1>2. CASE /\ Acc!Skipped(d) \/ r.status = "pending"
             /\ copy' = [copy EXCEPT ![d] = Acc!Absent] /\ UNCHANGED <<disk, slot>>
    BY <1>1, <1>2, PassedBy
  <1>3. CASE /\ ~(Acc!Skipped(d) \/ r.status = "pending")
             /\ copy' = [copy EXCEPT ![d] = r]
             /\ disk' = IF r.status # copy[d].status THEN [disk EXCEPT ![d] = r] ELSE disk
             /\ now' = d /\ slot' = "caller"
    <2> DEFINE c == copy[d]
    <2>1. c \in Acc!Record /\ disk[d] \in Acc!Record /\ disk = [disk EXCEPT ![d] = disk[d]]
      BY DEF AccInv, AccTyped
    <2>2. \/ c = disk[d] /\ c.status \notin {"none", "prepared", "sending"} /\ Ended(d)
          \/ /\ c.status \in {"prepared", "sending"} /\ writer[d] # "new"
             /\ \A s \in Teller : \A st : <<d, s, st>> \notin sent
      BY <1>1 DEF AccInv, CopyStands
    <2>3. Ended(d)
      BY <1>3, <2>2 DEF Acc!Skipped, Acc!Alive, AccInv, AccTyped, WriterEnded, Ended
    <2>4. CASE c.status \in {"prepared", "sending", "pending"}
      <3>1. r \in Acc!Record /\ r.status \in Verdict
        BY <1>3, <2>1, <2>4 DEF Acc!Judged, Acc!Evidence, Acc!Record, Acc!Absent, Acc!Statuses, Acc!Claims, Verdict
      <3>2. \A s \in Teller : \A st : <<d, s, st>> \notin sent
        BY <2>2, <2>4 DEF AccInv, Claimed, Verdict
      <3>3. r.status # c.status
        BY <2>4, <3>1 DEF Verdict
      <3> HIDE DEF r
      <3> QED BY <1>1, <1>3, <2>3, <3>1, <3>2, <3>3, VerdictKeeps
    <2>5. CASE c.status = "unresolved"
      <3>1. c = disk[d]
        BY <2>2, <2>5
      <3>2. r = c \/ (r \in Acc!Record /\ r.status = "delivered")
        BY <2>1, <2>5 DEF Acc!Judged, Acc!Evidence, Acc!Record, Acc!Absent, Acc!Statuses, Acc!Claims
      <3>3. \A s \in Teller : \A st : <<d, s, st>> \in sent => st = "unresolved"
        BY <2>5, <3>1 DEF AccInv, Claimed
      <3> HIDE DEF r
      <3>4. disk' = [disk EXCEPT ![d] = r]
        BY <1>3, <2>1, <2>5, <3>1, <3>2
      <3> QED BY <1>1, <1>3, <2>1, <2>3, <2>5, <3>1, <3>2, <3>3, <3>4, VerdictKeeps DEF Verdict
    <2>6. CASE c.status \in {"failed", "delivered"}
      <3>1. r = c /\ c = disk[d]
        BY <2>2, <2>6 DEF Acc!Judged
      <3> HIDE DEF r
      <3> QED BY <1>1, <1>3, <2>1, <2>3, <2>6, <3>1, VerdictKeeps DEF Verdict
    <2> QED BY <1>3, <2>1, <2>2, <2>4, <2>5, <2>6 DEF Acc!Skipped, Acc!Record, Acc!Statuses
  <1> QED BY <1>2, <1>3 DEF Acc!Reconcile

LEMMA ExceptIn ==
  ASSUME NEW D, NEW R, NEW f \in [D -> R], NEW x \in D, NEW v \in R
  PROVE  [f EXCEPT ![x] = v] \in [D -> R]
  OBVIOUS

(* A claim or an answer: the copy of a pass and the record change together.      *)
LEMMA ClaimKeeps ==
  ASSUME AccInv, Busy, NEW s \in Teller, NEW a \in Acc!Claims,
         copy' = [copy EXCEPT ![now][s] = a], disk' = [disk EXCEPT ![now] = copy'[now]],
         UNCHANGED <<writer, old, pending>>,
         Busy' => now' = now,
         \A d \in Delivery : \A t \in Teller : \A st : <<d, t, st>> \in sent' =>
           <<d, t, st>> \in sent \/ <<d, t, st>> = <<now, s, copy[now].status>>,
         a = "no" => <<now, s, copy[now].status>> \notin sent'
  PROVE  AccInv'
  <1> DEFINE c == [copy[now] EXCEPT ![s] = a]
  <1>1. now \in Delivery /\ now \notin pending /\ copy[now] = disk[now] /\ Ended(now) /\ copy[now].status \in Verdict
    BY DEF AccInv, CopyStands
  <1>2. copy[now] \in Acc!Record
    BY <1>1 DEF AccInv, AccTyped
  <1>3. c \in Acc!Record /\ c.status = copy[now].status /\ c[s] = a /\ \A t \in Teller : t # s => c[t] = copy[now][t]
    <2>1. CASE s = "caller"
      BY <1>2, <2>1 DEF Acc!Record, Teller
    <2>2. CASE s = "operator"
      BY <1>2, <2>2 DEF Acc!Record, Teller
    <2> QED BY <2>1, <2>2 DEF Teller
  <1>4. copy' = [copy EXCEPT ![now] = c] /\ disk' = [disk EXCEPT ![now] = c]
    BY <1>1 DEF AccInv, AccTyped
  <1> HIDE DEF c
  <1>5. /\ disk'[now] = c /\ copy'[now] = c
        /\ \A x \in Delivery : x # now => disk'[x] = disk[x] /\ copy'[x] = copy[x]
    BY <1>1, <1>4 DEF AccInv, AccTyped
  <1>6. AccTyped'
    <2>1. copy' \in [Delivery -> Acc!Record] /\ disk' \in [Delivery -> Acc!Record]
      <3>1. disk \in [Delivery -> Acc!Record] /\ copy \in [Delivery -> Acc!Record]
        BY DEF AccInv, AccTyped
      <3>2. /\ [copy EXCEPT ![now] = c] \in [Delivery -> Acc!Record]
            /\ [disk EXCEPT ![now] = c] \in [Delivery -> Acc!Record]
        BY <1>1, <1>3, <3>1, ExceptIn
      <3> QED BY <1>4, <3>2, Zenon
    <2> QED BY <2>1 DEF AccInv, AccTyped
  <1>7. Claimed'
    <2> SUFFICES ASSUME NEW d \in Delivery, NEW t \in Teller, NEW st, <<d, t, st>> \in sent'
                 PROVE  /\ st \in Verdict
                        /\ \/ disk'[d].status = st /\ disk'[d][t] # "no"
                           \/ disk'[d].status = "delivered" /\ st = "unresolved"
      BY DEF Claimed
    <2>1. CASE d = now /\ t = s /\ st = copy[now].status
      BY <1>1, <1>3, <1>5, <2>1
    <2>2. CASE ~(d = now /\ t = s /\ st = copy[now].status)
      <3>1. <<d, t, st>> \in sent
        BY <2>2
      <3>2. /\ st \in Verdict
            /\ \/ disk[d].status = st /\ disk[d][t] # "no"
               \/ disk[d].status = "delivered" /\ st = "unresolved"
        BY <3>1 DEF AccInv, Claimed
      <3>3. CASE d # now
        BY <1>5, <3>2, <3>3
      <3>4. CASE d = now
        BY <1>1, <1>3, <1>5, <2>2, <3>2, <3>4
      <3> QED BY <3>3, <3>4
    <2> QED BY <2>1, <2>2
  <1>8. WriterEnded'
    BY <1>1, <1>3, <1>5 DEF AccInv, WriterEnded, Ended, Verdict
  <1>9. \A x \in pending' : x \in Delivery /\ x \in pending /\ x # now
    BY <1>1 DEF AccInv, AccTyped
  <1>10. ASSUME NEW x \in pending
         PROVE  \/ copy'[x] = disk'[x] /\ copy'[x].status \notin {"none", "prepared", "sending"} /\ Ended(x)'
                \/ /\ copy'[x].status \in {"prepared", "sending"} /\ writer'[x] # "new"
                   /\ \A t \in Teller : \A st : <<x, t, st>> \notin sent'
    BY <1>5, <1>9 DEF AccInv, CopyStands, Ended
  <1>11. CopyStands'
    BY <1>1, <1>3, <1>5, <1>10 DEF CopyStands, Ended
  <1> QED BY <1>6, <1>7, <1>8, <1>11 DEF AccInv
LEMMA AgeKeeps == ASSUME AccInv, NEW d \in Delivery, Acc!Age(d) PROVE AccInv'
  <1>1. Ended(d) /\ old' = old \cup {d} /\ UNCHANGED <<writer, disk, copy, pending, now, slot, sent>>
    BY DEF Acc!Age, Acc!OthersStay, Acc!passVars, Ended
  <1>2. AccTyped' /\ Claimed' /\ WriterEnded'
    BY <1>1 DEF AccInv, AccTyped, Claimed, WriterEnded, Ended
  <1>3. CopyStands'
    BY <1>1 DEF AccInv, CopyStands, Busy, Ended
  <1> QED BY <1>2, <1>3 DEF AccInv

LEMMA PassOverKeeps == ASSUME AccInv, Acc!PassOver PROVE AccInv'
  <1>1. /\ Busy /\ (Busy' => now' = now)
        /\ UNCHANGED <<writer, old, disk, copy, pending, sent>>
    BY DEF Acc!PassOver, Acc!NextSlot, Busy, Acc!writerVars
  <1>2. AccTyped' /\ Claimed' /\ WriterEnded'
    BY <1>1 DEF AccInv, AccTyped, Claimed, WriterEnded, Ended
  <1>3. CopyStands'
    BY <1>1 DEF AccInv, CopyStands, Ended
  <1> QED BY <1>2, <1>3 DEF AccInv

LEMMA NoticesKeep ==
  ASSUME AccInv, Acc!Claim \/ \E s \in Teller : Acc!Answered(s)
  PROVE  AccInv'
  <1>1. CASE Acc!Claim
    <2>1. slot \in Teller /\ Busy /\ "sending" \in Acc!Claims /\ "sending" # "no"
      BY <1>1 DEF Acc!Claim, Busy, Teller, Acc!Claims
    <2>2. now' = now /\ UNCHANGED <<writer, old, pending>>
      BY <1>1 DEF Acc!Claim, Acc!writerVars
    <2> QED BY <1>1, <2>1, <2>2, ClaimKeeps DEF Acc!Claim
  <1>2. ASSUME NEW s \in Teller, Acc!Answered(s) PROVE AccInv'
    <2>1. Busy /\ (Busy' => now' = now) /\ UNCHANGED <<writer, old, pending>>
      BY <1>2 DEF Acc!Answered, Acc!Claiming, Acc!NextSlot, Busy, Teller, Acc!writerVars
    <2>2. PICK x \in {"taken", "refused", "unknown"} :
            /\ copy' = [copy EXCEPT ![now][s] = Acc!Answer(x)]
            /\ sent' = Acc!Forgets(s, copy[now].status, x)
      BY <1>2 DEF Acc!Answered
    <2>3. Acc!Answer(x) \in Acc!Claims /\ (Acc!Answer(x) = "no" => x = "refused")
      BY DEF Acc!Answer, Acc!Claims
    <2>4. /\ \A d \in Delivery : \A t \in Teller : \A st : <<d, t, st>> \in sent' => <<d, t, st>> \in sent
          /\ Acc!Answer(x) = "no" => <<now, s, copy[now].status>> \notin sent'
      BY <2>2, <2>3 DEF Acc!Forgets
    <2> QED BY <1>2, <2>1, <2>2, <2>3, <2>4, ClaimKeeps DEF Acc!Answered
  <1> QED BY <1>1, <1>2

LEMMA AccNext == ASSUME Acc!AcceptanceAssumption, AccInv, [Acc!Next]_Acc!vars PROVE AccInv'
  <1>1. ASSUME NEW d \in Delivery, Acc!Writing(d) \/ Acc!Age(d) PROVE AccInv'
    BY <1>1, WriterKeeps, AgeKeeps
  <1>2. CASE (\E d \in Delivery : Acc!Land(d) \/ Acc!Resolve(d)) \/ UNCHANGED Acc!vars
    BY <1>2, RecordsStay DEF Acc!Land, Acc!Resolve, Acc!OthersStay, Acc!passVars, Acc!writerVars, Acc!vars
  <1>3. CASE Acc!ClosureAnswered
    <2>1. UNCHANGED <<writer, old, disk, copy, pending>> /\ ~Busy /\ ~Busy'
      BY <1>3 DEF Acc!ClosureAnswered, Acc!writerVars, Busy
    <2>2. \A d \in Delivery : \A s \in Teller : \A st : <<d, s, st>> \in sent' <=> <<d, s, st>> \in sent
      BY <1>3 DEF Acc!ClosureAnswered, Acc!Forgets, Teller
    <2>3. AccTyped' /\ WriterEnded' /\ Claimed'
      BY <2>1, <2>2 DEF AccInv, AccTyped, WriterEnded, Ended, Claimed
    <2>4. CopyStands'
      <3>1. pending \subseteq Delivery
        BY DEF AccInv, AccTyped
      <3> QED BY <2>1, <2>2, <3>1 DEF AccInv, CopyStands, Ended
    <2> QED BY <2>3, <2>4 DEF AccInv
  <1>4. CASE Acc!Restart
    <2>1. /\ copy' = [d \in Delivery |-> Acc!Absent] /\ pending' = {} /\ ~Busy'
          /\ UNCHANGED <<writer, old, disk, sent>>
      BY <1>4 DEF Acc!Restart, Acc!writerVars, Busy
    <2>2. Acc!Absent \in Acc!Record
      BY DEF Acc!Absent, Acc!Record, Acc!Statuses, Acc!Claims
    <2>3. AccTyped' /\ WriterEnded' /\ Claimed' /\ CopyStands'
      BY <2>1, <2>2 DEF AccInv, AccTyped, WriterEnded, Ended, Claimed, CopyStands
    <2> QED BY <2>3 DEF AccInv
  <1>5. CASE Acc!Reconciling
    BY <1>3, <1>5, BeginPassKeeps, PassOverKeeps, NoticesKeep, ReconcileKeeps, ReconcileClosedKeeps DEF Acc!Reconciling, Teller
  <1> QED BY <1>1, <1>2, <1>4, <1>5 DEF Acc!Next

(* The step that begins a notice. *)
LEMMA AccStep == ASSUME AccInv, [Acc!Next]_Acc!vars PROVE Acc!TellsOnce
  <1> SUFFICES ASSUME NEW s \in Teller, slot # Acc!Claiming(s), slot' = Acc!Claiming(s)
               PROVE  <<now, s, copy[now].status>> \notin sent
    BY DEF Acc!TellsOnce, Teller
  <1>1. Acc!Claim /\ slot = s
    <2>1. slot' # slot /\ slot' \in {"caller sending", "operator sending"}
      BY DEF Acc!Claiming
    <2>2. Acc!Claim
      <3>1. CASE \E d \in Delivery : Acc!Writing(d) \/ Acc!Land(d) \/ Acc!Age(d) \/ Acc!Resolve(d)
        <4>1. slot' = slot
          BY <3>1 DEF Acc!Writing, Acc!Prepare, Acc!RefuseBefore, Acc!BeforeSend, Acc!Paste, Acc!RefuseSend, Acc!Confirm, Acc!GiveUp, Acc!WriterGone, Acc!Land,
                      Acc!Age, Acc!Resolve, Acc!OthersStay, Acc!passVars
        <4> QED BY <2>1, <4>1
      <3>2. CASE Acc!Reconciling
        BY <2>1, <3>2 DEF Acc!Reconciling, Acc!BeginPass, Acc!PassOver, Acc!ClosureAnswered, Acc!Reconcile, Acc!ReconcileClosed, Acc!Answered,
                          Acc!NextSlot
      <3>3. CASE Acc!Restart \/ UNCHANGED Acc!vars
        BY <2>1, <3>3 DEF Acc!Restart, Acc!vars, Acc!passVars
      <3> QED BY <3>1, <3>2, <3>3 DEF Acc!Next
    <2> QED BY <2>2 DEF Acc!Claim, Acc!Claiming, Teller
  <1>2. copy[now][s] = "no" /\ now \in Delivery /\ copy[now] = disk[now] /\ copy[now].status \in Verdict
    BY <1>1 DEF Acc!Claim, AccInv, CopyStands, Busy, Teller
  <1> QED BY <1>2 DEF AccInv, Claimed, Verdict

(* No step begins a notice of a verdict that may already have been sent: not a    *)
(* later pass, nor one after a restart in the middle of the send (reconcile).    *)
THEOREM VerdictToldOnce == ASSUME Acc!AcceptanceAssumption PROVE Acc!Spec => Acc!NeverToldTwice
  <1>1. Acc!Init => AccInv
    BY AccInit
  <1>2. AccInv /\ [Acc!Next]_Acc!vars => AccInv'
    BY AccNext
  <1>3. AccInv /\ [Acc!Next]_Acc!vars => Acc!TellsOnce
    BY AccStep
  <1> QED BY <1>1, <1>2, <1>3, PTL DEF Acc!Spec, Acc!NeverToldTwice

-----------------------------------------------------------------------------
(* The two verdicts a sender acts on without asking are true.  What is pasted    *)
(* was pasted by a writer that has got that far.                                *)
PastedBy == \A d \in pasted : writer[d] \in {"waiting", "done", "gone"}

TrueInv == AccInv /\ pasted \subseteq Delivery /\ PastedBy /\ Acc!VerdictsTrue

LEMMA TrueInit == ASSUME Acc!Init PROVE TrueInv
  BY AccInit DEF Acc!Init, TrueInv, PastedBy, Acc!VerdictsTrue, Acc!Absent

(* What a writer puts down is true when it does. *)
LEMMA WriterIsTrue ==
  ASSUME TrueInv, NEW d \in Delivery, NEW st \in Acc!Statuses, Acc!WriterSays(d, st), pasted' = pasted, landed' = landed,
         st = "delivered" => d \in landed, st = "rejected" => d \notin pasted
  PROVE  Acc!VerdictsTrue'
  <1> DEFINE r == [Acc!Absent EXCEPT !.status = st, !.managed = (st = "pending")]
  <1>1. r.status = st
    BY DEF Acc!Absent
  <1>2. disk' = [disk EXCEPT ![d] = r]
    BY DEF Acc!WriterSays
  <1> HIDE DEF r
  <1>3. disk'[d] = r /\ \A x \in Delivery : x # d => disk'[x] = disk[x]
    BY <1>2 DEF TrueInv, AccInv, AccTyped
  <1> QED BY <1>1, <1>3 DEF TrueInv, Acc!VerdictsTrue

LEMMA WritingIsTrue ==
  ASSUME TrueInv, NEW d \in Delivery, Acc!Writing(d)
  PROVE  Acc!VerdictsTrue' /\ pasted' \subseteq Delivery /\ PastedBy'
  <1>1. \E w \in {"ready", "pasting", "waiting", "done", "gone"} : writer' = [writer EXCEPT ![d] = w]
    BY DEF Acc!Writing, Acc!Prepare, Acc!RefuseBefore, Acc!BeforeSend, Acc!Paste, Acc!RefuseSend, Acc!Confirm, Acc!GiveUp, Acc!WriterGone, Acc!Moves
  <1>2. writer \in [Delivery -> {"new", "ready", "pasting", "waiting", "done", "gone"}] /\ pasted \subseteq Delivery
    BY DEF TrueInv, AccInv, AccTyped
  <1>3. CASE Acc!Prepare(d) \/ Acc!RefuseBefore(d) \/ Acc!BeforeSend(d) \/ Acc!RefuseSend(d)
    <2>1. d \notin pasted /\ pasted' = pasted /\ landed' = landed
      BY <1>3 DEF Acc!Prepare, Acc!RefuseBefore, Acc!BeforeSend, Acc!RefuseSend, Acc!Moves, TrueInv, PastedBy
    <2>2. Acc!VerdictsTrue'
      BY <1>3, <2>1, WriterIsTrue DEF Acc!Prepare, Acc!RefuseBefore, Acc!BeforeSend, Acc!RefuseSend, Acc!Statuses
    <2>3. \A x \in pasted : writer'[x] = writer[x]
      BY <1>1, <1>2, <2>1
    <2> QED BY <1>2, <2>1, <2>2, <2>3 DEF TrueInv, PastedBy
  <1>4. CASE Acc!Confirm(d) \/ Acc!GiveUp(d)
    <2>1. pasted' = pasted /\ landed' = landed
      BY <1>4 DEF Acc!Confirm, Acc!GiveUp
    <2>2. Acc!VerdictsTrue'
      BY <1>4, <2>1, WriterIsTrue DEF Acc!Confirm, Acc!GiveUp, Acc!Statuses
    <2>3. \A x \in pasted : writer'[x] = writer[x] \/ writer'[x] = "done"
      BY <1>2, <1>4 DEF Acc!Confirm, Acc!GiveUp, Acc!Moves
    <2> QED BY <1>2, <2>1, <2>2, <2>3 DEF TrueInv, PastedBy
  <1>5. CASE Acc!Paste(d)
    <2>1. pasted' = pasted \cup {d} /\ landed' = landed /\ disk' = disk /\ writer[d] = "pasting"
          /\ writer' = [writer EXCEPT ![d] = "waiting"]
      BY <1>5 DEF Acc!Paste, Acc!Moves
    <2>2. disk[d].status # "rejected"
      BY <2>1 DEF TrueInv, AccInv, WriterEnded, Ended
    <2>3. Acc!VerdictsTrue'
      BY <2>1, <2>2 DEF TrueInv, Acc!VerdictsTrue
    <2>4. \A x \in pasted' : writer'[x] = "waiting" \/ (x \in pasted /\ writer'[x] = writer[x])
      BY <1>2, <2>1
    <2> QED BY <1>2, <2>1, <2>3, <2>4 DEF TrueInv, PastedBy
  <1>6. CASE Acc!WriterGone(d)
    <2>1. pasted' = pasted /\ landed' = landed /\ disk' = disk /\ writer' = [writer EXCEPT ![d] = "gone"]
      BY <1>6 DEF Acc!WriterGone
    <2>2. \A x \in pasted : writer'[x] = writer[x] \/ writer'[x] = "gone"
      BY <1>2, <2>1
    <2> QED BY <1>2, <2>1, <2>2 DEF TrueInv, PastedBy, Acc!VerdictsTrue
  <1> QED BY <1>3, <1>4, <1>5, <1>6 DEF Acc!Writing

(* The reconciler's verdict: only a receipt makes it "delivered". *)
LEMMA JudgedIsTrue ==
  ASSUME NEW d \in Delivery, copy[d] \in Acc!Record, Acc!Judged(d).status # copy[d].status
  PROVE  /\ Acc!Judged(d).status # "rejected"
         /\ Acc!Judged(d).status = "delivered" => d \in landed
  BY DEF Acc!Judged, Acc!Evidence, Acc!Record, Acc!Absent, Acc!Statuses

LEMMA ReconcileIsTrue ==
  ASSUME TrueInv, NEW d \in Delivery, Acc!Reconcile(d)
  PROVE  Acc!VerdictsTrue'
  <1>1. pasted' = pasted /\ landed' = landed
    BY DEF Acc!Reconcile, Acc!writerVars
  <1>2. CASE disk' = disk
    BY <1>1, <1>2 DEF TrueInv, Acc!VerdictsTrue
  <1>3. CASE disk' # disk
    <2> DEFINE r == Acc!Judged(d)
    <2>1. disk' = [disk EXCEPT ![d] = r] /\ r.status # copy[d].status
      BY <1>3 DEF Acc!Reconcile
    <2>2. copy[d] \in Acc!Record
      BY DEF TrueInv, AccInv, AccTyped
    <2>3. r.status # "rejected" /\ (r.status = "delivered" => d \in landed)
      BY <2>1, <2>2, JudgedIsTrue
    <2> HIDE DEF r
    <2>4. disk'[d] = r /\ \A x \in Delivery : x # d => disk'[x] = disk[x]
      BY <2>1 DEF TrueInv, AccInv, AccTyped
    <2> QED BY <1>1, <2>3, <2>4 DEF TrueInv, Acc!VerdictsTrue
  <1> QED BY <1>2, <1>3

(* A claim or an answer leaves the verdict. *)
LEMMA NoticesAreTrue ==
  ASSUME TrueInv, Acc!Claim \/ \E s \in Teller : Acc!Answered(s)
  PROVE  Acc!VerdictsTrue'
  <1>1. Busy /\ pasted' = pasted /\ landed' = landed
    BY DEF Acc!Claim, Acc!Answered, Acc!Claiming, Busy, Teller, Acc!writerVars
  <1>2. now \in Delivery /\ copy[now] = disk[now] /\ copy[now] \in Acc!Record
    BY <1>1 DEF TrueInv, AccInv, AccTyped, CopyStands
  <1>3. PICK s \in Teller : \E a : copy' = [copy EXCEPT ![now][s] = a] /\ disk' = [disk EXCEPT ![now] = copy'[now]]
    <2>1. CASE Acc!Claim
      BY <2>1 DEF Acc!Claim, Teller
    <2>2. CASE \E s \in Teller : Acc!Answered(s)
      BY <2>2 DEF Acc!Answered
    <2> QED BY <2>1, <2>2
  <1>4. copy'[now].status = copy[now].status
    <2>1. PICK a : copy' = [copy EXCEPT ![now][s] = a]
      BY <1>3
    <2>2. copy'[now] = [copy[now] EXCEPT ![s] = a]
      BY <1>2, <2>1 DEF TrueInv, AccInv, AccTyped
    <2> QED BY <1>2, <2>2 DEF Teller, Acc!Record
  <1>5. \A x \in Delivery : disk'[x].status = disk[x].status
    BY <1>2, <1>3, <1>4 DEF TrueInv, AccInv, AccTyped
  <1> QED BY <1>1, <1>5 DEF TrueInv, Acc!VerdictsTrue

LEMMA TrueNext == ASSUME Acc!AcceptanceAssumption, TrueInv, [Acc!Next]_Acc!vars PROVE TrueInv'
  <1>1. AccInv'
    BY AccNext DEF TrueInv
  <1>2. ASSUME NEW d \in Delivery, Acc!Writing(d) PROVE TrueInv'
    BY <1>1, <1>2, WritingIsTrue DEF TrueInv
  <1>3. CASE (\E d \in Delivery : Acc!Land(d) \/ Acc!Age(d) \/ Acc!Resolve(d)) \/ Acc!Restart \/ UNCHANGED Acc!vars
    <2>1. pasted' = pasted /\ landed \subseteq landed' /\ UNCHANGED <<writer, disk>>
      BY <1>3 DEF Acc!Land, Acc!Age, Acc!Resolve, Acc!Restart, Acc!OthersStay, Acc!writerVars, Acc!vars
    <2> QED BY <1>1, <2>1 DEF TrueInv, PastedBy, Acc!VerdictsTrue
  <1>4. CASE Acc!Reconciling
    <2>1. UNCHANGED <<writer, pasted, landed>>
      BY <1>4 DEF Acc!Reconciling, Acc!BeginPass, Acc!PassOver, Acc!Claim, Acc!ClosureAnswered, Acc!Reconcile, Acc!ReconcileClosed, Acc!Answered, Acc!writerVars
    <2>2. Acc!VerdictsTrue'
      <3>1. CASE Acc!BeginPass \/ Acc!PassOver \/ Acc!ClosureAnswered \/ \E d \in Delivery : Acc!ReconcileClosed(d)
        BY <2>1, <3>1 DEF Acc!BeginPass, Acc!PassOver, Acc!ClosureAnswered, Acc!ReconcileClosed, TrueInv, Acc!VerdictsTrue
      <3> QED BY <1>4, <3>1, ReconcileIsTrue, NoticesAreTrue DEF Acc!Reconciling, Teller
    <2> QED BY <1>1, <2>1, <2>2 DEF TrueInv, PastedBy
  <1> QED BY <1>2, <1>3, <1>4 DEF Acc!Next

(* The values of the other variables: a closure is told of a decided record, and   *)
(* the board shows what the pass works on.                                        *)
BytesTyped == pasted \subseteq Delivery /\ landed \subseteq pasted /\ old \subseteq Delivery
ClosesTyped ==
  /\ resolved \in [Delivery -> {"no"} \cup Acc!Outcomes] /\ resNotice \in [Delivery -> Acc!Claims]
  /\ closing \subseteq Delivery /\ \A d \in closing : resolved[d] # "no"
SlotTyped ==
  /\ now \in Delivery \cup {None} /\ board \subseteq Delivery /\ restarts \in 0 .. MaxRestart
  /\ slot \in {"idle", "caller", "caller sending", "operator", "operator sending", "closure"}
  /\ slot = "closure" => now \in Delivery /\ resolved[now] # "no"
Notices == Delivery \X {"caller", "operator", "closure"} \X (Acc!Statuses \cup Acc!Outcomes)

AccTypes == BytesTyped /\ ClosesTyped /\ SlotTyped /\ sent \subseteq Notices

LEMMA AccIsTyped == ASSUME AccInv, AccTypes PROVE Acc!TypeOK
  BY DEF AccInv, AccTyped, AccTypes, BytesTyped, ClosesTyped, SlotTyped, Notices, Acc!TypeOK

LEMMA AccTypeInit == ASSUME Acc!AcceptanceAssumption, Acc!Init PROVE AccTypes
  BY DEF Acc!AcceptanceAssumption, Acc!Init, AccTypes, BytesTyped, ClosesTyped, SlotTyped, Acc!Claims

(* What the pass works on is a delivery whose copy is a record. *)
LEMMA WorkedOn ==
  ASSUME AccInv, Busy
  PROVE  now \in Delivery /\ copy[now].status \in Acc!Statuses
  BY DEF AccInv, AccTyped, CopyStands, Verdict, Acc!Statuses

LEMMA BytesTypeNext ==
  ASSUME Acc!AcceptanceAssumption, AccInv, AccTypes, [Acc!Next]_Acc!vars
  PROVE  BytesTyped'
  <1>0. BytesTyped
    BY DEF AccTypes
  <1>1. ASSUME NEW d \in Delivery, Acc!Prepare(d) \/ Acc!RefuseBefore(d) \/ Acc!BeforeSend(d) \/ Acc!Paste(d) \/ Acc!RefuseSend(d) \/ Acc!Confirm(d) \/ Acc!GiveUp(d) \/ Acc!WriterGone(d) PROVE BytesTyped'
    BY <1>0, <1>1 DEF Acc!Prepare, Acc!RefuseBefore, Acc!BeforeSend, Acc!Paste, Acc!RefuseSend, Acc!Confirm, Acc!GiveUp,
       Acc!WriterGone, Acc!Moves, Acc!OthersStay, BytesTyped, Acc!writerVars, Acc!passVars
  <1>2. ASSUME NEW d \in Delivery, Acc!Land(d) \/ Acc!Age(d) PROVE BytesTyped'
    BY <1>0, <1>2 DEF Acc!Land, Acc!Age, Acc!Moves, Acc!OthersStay, BytesTyped, Acc!writerVars, Acc!passVars
  <1>3. ASSUME NEW d \in Delivery, Acc!Resolve(d) PROVE BytesTyped'
    BY <1>0, <1>3 DEF Acc!Resolve, BytesTyped, Acc!writerVars, Acc!passVars
  <1>4. CASE Acc!BeginPass
    BY <1>0, <1>4 DEF Acc!BeginPass, BytesTyped, Acc!writerVars, Acc!passVars
  <1>5. CASE Acc!PassOver
    BY <1>0, <1>5 DEF Acc!PassOver, BytesTyped, Acc!writerVars, Acc!passVars
  <1>6. CASE Acc!Claim
    BY <1>0, <1>6 DEF Acc!Claim, BytesTyped, Acc!writerVars, Acc!passVars
  <1>7. CASE Acc!ClosureAnswered
    BY <1>0, <1>7 DEF Acc!ClosureAnswered, BytesTyped, Acc!writerVars, Acc!passVars
  <1>8. ASSUME NEW d \in Delivery, Acc!Reconcile(d) PROVE BytesTyped'
    BY <1>0, <1>8 DEF Acc!Reconcile, BytesTyped, Acc!writerVars, Acc!passVars
  <1>9. ASSUME NEW d \in Delivery, Acc!ReconcileClosed(d) PROVE BytesTyped'
    BY <1>0, <1>9 DEF Acc!ReconcileClosed, BytesTyped, Acc!writerVars, Acc!passVars
  <1>10. ASSUME NEW s \in {"caller", "operator"}, Acc!Answered(s) PROVE BytesTyped'
    BY <1>0, <1>10 DEF Acc!Answered, BytesTyped, Acc!writerVars, Acc!passVars
  <1>11. CASE Acc!Restart
    BY <1>0, <1>11 DEF Acc!Restart, BytesTyped, Acc!writerVars, Acc!passVars
  <1>12. CASE UNCHANGED Acc!vars
    BY <1>0, <1>12 DEF Acc!vars, Acc!writerVars, Acc!passVars, BytesTyped, Acc!writerVars, Acc!passVars
  <1> QED BY <1>1, <1>2, <1>3, <1>4, <1>5, <1>6, <1>7, <1>8, <1>9, <1>10, <1>11, <1>12 DEF Acc!Next,
     Acc!Writing, Acc!Reconciling

LEMMA ClosesTypeNext ==
  ASSUME Acc!AcceptanceAssumption, AccInv, AccTypes, [Acc!Next]_Acc!vars
  PROVE  ClosesTyped'
  <1>0. ClosesTyped /\ SlotTyped /\ {"no", "sending", "sent"} = Acc!Claims
    BY DEF AccTypes, Acc!Claims
  <1>1. ASSUME NEW d \in Delivery, Acc!Prepare(d) \/ Acc!RefuseBefore(d) \/ Acc!BeforeSend(d) \/ Acc!Paste(d) \/ Acc!RefuseSend(d) \/ Acc!Confirm(d) \/ Acc!GiveUp(d) \/ Acc!WriterGone(d) PROVE ClosesTyped'
    BY <1>0, <1>1 DEF Acc!Prepare, Acc!RefuseBefore, Acc!BeforeSend, Acc!Paste, Acc!RefuseSend, Acc!Confirm, Acc!GiveUp,
       Acc!WriterGone, Acc!OthersStay, ClosesTyped, SlotTyped, Acc!writerVars, Acc!passVars
  <1>2. ASSUME NEW d \in Delivery, Acc!Land(d) \/ Acc!Age(d) PROVE ClosesTyped'
    BY <1>0, <1>2 DEF Acc!Land, Acc!Age, Acc!OthersStay, ClosesTyped, SlotTyped, Acc!writerVars, Acc!passVars
  <1>3. ASSUME NEW d \in Delivery, Acc!Resolve(d) PROVE ClosesTyped'
    BY <1>0, <1>3 DEF Acc!Resolve, Acc!Outcomes, ClosesTyped, SlotTyped, Acc!writerVars, Acc!passVars
  <1>4. CASE Acc!BeginPass
    BY <1>0, <1>4 DEF Acc!BeginPass, ClosesTyped, SlotTyped, Acc!writerVars, Acc!passVars
  <1>5. CASE Acc!PassOver
    BY <1>0, <1>5 DEF Acc!PassOver, ClosesTyped, SlotTyped, Acc!writerVars, Acc!passVars
  <1>6. CASE Acc!Claim
    BY <1>0, <1>6 DEF Acc!Claim, ClosesTyped, SlotTyped, Acc!writerVars, Acc!passVars
  <1>7. CASE Acc!ClosureAnswered
    BY <1>0, <1>7 DEF Acc!ClosureAnswered, Acc!Answer, ClosesTyped, SlotTyped, Acc!writerVars, Acc!passVars
  <1>8. ASSUME NEW d \in Delivery, Acc!Reconcile(d) PROVE ClosesTyped'
    BY <1>0, <1>8 DEF Acc!Reconcile, ClosesTyped, SlotTyped, Acc!writerVars, Acc!passVars
  <1>9. ASSUME NEW d \in Delivery, Acc!ReconcileClosed(d) PROVE ClosesTyped'
    BY <1>0, <1>9 DEF Acc!ReconcileClosed, ClosesTyped, SlotTyped, Acc!writerVars, Acc!passVars
  <1>10. ASSUME NEW s \in {"caller", "operator"}, Acc!Answered(s) PROVE ClosesTyped'
    BY <1>0, <1>10 DEF Acc!Answered, ClosesTyped, SlotTyped, Acc!writerVars, Acc!passVars
  <1>11. CASE Acc!Restart
    BY <1>0, <1>11 DEF Acc!Restart, ClosesTyped, SlotTyped, Acc!writerVars, Acc!passVars
  <1>12. CASE UNCHANGED Acc!vars
    BY <1>0, <1>12 DEF Acc!vars, Acc!writerVars, Acc!passVars, ClosesTyped, SlotTyped, Acc!writerVars, Acc!passVars
  <1> QED BY <1>1, <1>2, <1>3, <1>4, <1>5, <1>6, <1>7, <1>8, <1>9, <1>10, <1>11, <1>12 DEF Acc!Next,
     Acc!Writing, Acc!Reconciling

LEMMA SlotTypeNext ==
  ASSUME Acc!AcceptanceAssumption, AccInv, AccTypes, [Acc!Next]_Acc!vars
  PROVE  SlotTyped'
  <1>0. SlotTyped /\ ClosesTyped /\ pending \subseteq Delivery /\ (Busy => now \in Delivery) /\ MaxRestart \in Nat
        /\ (slot \in {"caller", "caller sending", "operator", "operator sending"} => now \in Delivery)
    BY WorkedOn DEF AccTypes, AccInv, AccTyped, Busy, Acc!AcceptanceAssumption
  <1>1. ASSUME NEW d \in Delivery, Acc!Prepare(d) \/ Acc!RefuseBefore(d) \/ Acc!BeforeSend(d) \/ Acc!Paste(d) \/ Acc!RefuseSend(d) \/ Acc!Confirm(d) \/ Acc!GiveUp(d) \/ Acc!WriterGone(d) PROVE SlotTyped'
    BY <1>0, <1>1 DEF Acc!Prepare, Acc!RefuseBefore, Acc!BeforeSend, Acc!Paste, Acc!RefuseSend, Acc!Confirm, Acc!GiveUp,
       Acc!WriterGone, Acc!OthersStay, SlotTyped, ClosesTyped, Acc!writerVars, Acc!passVars
  <1>2. ASSUME NEW d \in Delivery, Acc!Land(d) \/ Acc!Age(d) PROVE SlotTyped'
    BY <1>0, <1>2 DEF Acc!Land, Acc!Age, Acc!OthersStay, SlotTyped, ClosesTyped, Acc!writerVars, Acc!passVars
  <1>3. ASSUME NEW d \in Delivery, Acc!Resolve(d) PROVE SlotTyped'
    BY <1>0, <1>3 DEF Acc!Resolve, SlotTyped, ClosesTyped, Acc!writerVars, Acc!passVars
  <1>4. CASE Acc!BeginPass
    BY <1>0, <1>4 DEF Acc!BeginPass, SlotTyped, ClosesTyped, Acc!writerVars, Acc!passVars
  <1>5. CASE Acc!PassOver
    BY <1>0, <1>5 DEF Acc!PassOver, Acc!NextSlot, SlotTyped, ClosesTyped, Acc!writerVars, Acc!passVars
  <1>6. CASE Acc!Claim
    BY <1>0, <1>6 DEF Acc!Claim, Acc!Claiming, SlotTyped, ClosesTyped, Acc!writerVars, Acc!passVars
  <1>7. CASE Acc!ClosureAnswered
    BY <1>0, <1>7 DEF Acc!ClosureAnswered, SlotTyped, ClosesTyped, Acc!writerVars, Acc!passVars
  <1>8. ASSUME NEW d \in Delivery, Acc!Reconcile(d) PROVE SlotTyped'
    BY <1>0, <1>8 DEF Acc!Reconcile, SlotTyped, ClosesTyped, Acc!writerVars, Acc!passVars
  <1>9. ASSUME NEW d \in Delivery, Acc!ReconcileClosed(d) PROVE SlotTyped'
    BY <1>0, <1>9 DEF Acc!ReconcileClosed, SlotTyped, ClosesTyped, Acc!writerVars, Acc!passVars
  <1>10. ASSUME NEW s \in {"caller", "operator"}, Acc!Answered(s) PROVE SlotTyped'
    BY <1>0, <1>10 DEF Acc!Answered, Acc!NextSlot, Acc!Claiming, SlotTyped, ClosesTyped, Acc!writerVars,
       Acc!passVars
  <1>11. CASE Acc!Restart
    <2>1. restarts \in 0 .. MaxRestart /\ MaxRestart \in Nat /\ restarts < MaxRestart /\ restarts' = restarts + 1
      BY <1>0, <1>11 DEF Acc!Restart, SlotTyped
    <2>2. restarts' \in 0 .. MaxRestart
      BY <2>1
    <2>3. now' = None /\ slot' = "idle" /\ board' = board
      BY <1>11 DEF Acc!Restart
    <2> QED BY <1>0, <2>2, <2>3 DEF SlotTyped
  <1>12. CASE UNCHANGED Acc!vars
    BY <1>0, <1>12 DEF Acc!vars, Acc!writerVars, Acc!passVars, SlotTyped, ClosesTyped, Acc!writerVars, Acc!passVars
  <1> QED BY <1>1, <1>2, <1>3, <1>4, <1>5, <1>6, <1>7, <1>8, <1>9, <1>10, <1>11, <1>12 DEF Acc!Next,
     Acc!Writing, Acc!Reconciling

LEMMA SentTypeNext ==
  ASSUME Acc!AcceptanceAssumption, AccInv, AccTypes, [Acc!Next]_Acc!vars
  PROVE  sent' \subseteq Notices
  <1>0. /\ sent \subseteq Notices /\ \A d \in closing : d \in Delivery /\ resolved[d] \in Acc!Outcomes
        /\ slot \in {"caller", "operator"} => <<now, slot, copy[now].status>> \in Notices
    <2>1. slot \in {"caller", "operator"} => now \in Delivery /\ copy[now].status \in Acc!Statuses
      BY WorkedOn DEF Busy
    <2> QED BY <2>1 DEF AccTypes, ClosesTyped, Notices
  <1>1. ASSUME NEW d \in Delivery, Acc!Prepare(d) \/ Acc!RefuseBefore(d) \/ Acc!BeforeSend(d) \/ Acc!Paste(d) \/ Acc!RefuseSend(d) \/ Acc!Confirm(d) \/ Acc!GiveUp(d) \/ Acc!WriterGone(d) PROVE sent' \subseteq Notices
    BY <1>0, <1>1 DEF Acc!Prepare, Acc!RefuseBefore, Acc!BeforeSend, Acc!Paste, Acc!RefuseSend, Acc!Confirm, Acc!GiveUp,
       Acc!WriterGone, Acc!OthersStay, Acc!writerVars, Acc!passVars
  <1>2. ASSUME NEW d \in Delivery, Acc!Land(d) \/ Acc!Age(d) PROVE sent' \subseteq Notices
    BY <1>0, <1>2 DEF Acc!Land, Acc!Age, Acc!OthersStay, Acc!writerVars, Acc!passVars
  <1>3. ASSUME NEW d \in Delivery, Acc!Resolve(d) PROVE sent' \subseteq Notices
    BY <1>0, <1>3 DEF Acc!Resolve, Acc!writerVars, Acc!passVars
  <1>4. CASE Acc!BeginPass
    BY <1>0, <1>4 DEF Acc!BeginPass, Acc!writerVars, Acc!passVars
  <1>5. CASE Acc!PassOver
    BY <1>0, <1>5 DEF Acc!PassOver, Acc!writerVars, Acc!passVars
  <1>6. CASE Acc!Claim
    BY <1>0, <1>6 DEF Acc!Claim, Acc!writerVars, Acc!passVars
  <1>7. CASE Acc!ClosureAnswered
    BY <1>0, <1>7 DEF Acc!ClosureAnswered, Acc!Forgets, Acc!writerVars, Acc!passVars
  <1>8. ASSUME NEW d \in Delivery, Acc!Reconcile(d) PROVE sent' \subseteq Notices
    BY <1>0, <1>8 DEF Acc!Reconcile, Acc!writerVars, Acc!passVars
  <1>9. ASSUME NEW d \in Delivery, Acc!ReconcileClosed(d) PROVE sent' \subseteq Notices
    BY <1>0, <1>9 DEF Acc!ReconcileClosed, Notices
  <1>10. ASSUME NEW s \in {"caller", "operator"}, Acc!Answered(s) PROVE sent' \subseteq Notices
    BY <1>0, <1>10 DEF Acc!Answered, Acc!Forgets, Acc!writerVars, Acc!passVars
  <1>11. CASE Acc!Restart
    BY <1>0, <1>11 DEF Acc!Restart, Acc!writerVars, Acc!passVars
  <1>12. CASE UNCHANGED Acc!vars
    BY <1>0, <1>12 DEF Acc!vars, Acc!writerVars, Acc!passVars, Acc!writerVars, Acc!passVars
  <1> QED BY <1>1, <1>2, <1>3, <1>4, <1>5, <1>6, <1>7, <1>8, <1>9, <1>10, <1>11, <1>12 DEF Acc!Next,
     Acc!Writing, Acc!Reconciling

LEMMA AccTypeNext == ASSUME Acc!AcceptanceAssumption, AccInv, AccTypes, [Acc!Next]_Acc!vars PROVE AccTypes'
  BY BytesTypeNext, ClosesTypeNext, SlotTypeNext, SentTypeNext DEF AccTypes

LEMMA TrueSafe == ASSUME TrueInv PROVE Acc!VerdictsTrue
  BY DEF TrueInv

(* A record says "delivered" only with a receipt and "rejected" only when no      *)
(* byte was sent, whoever wrote it, and however old the copy the reconciler       *)
(* judged (deliverCodexToHost, reconcile).                                      *)
THEOREM VerdictsAreTrue == ASSUME Acc!AcceptanceAssumption PROVE Acc!Spec => []Acc!VerdictsTrue
  <1>1. Acc!Init => TrueInv
    BY TrueInit
  <1>2. TrueInv /\ [Acc!Next]_Acc!vars => TrueInv'
    BY TrueNext
  <1>3. TrueInv => Acc!VerdictsTrue
    BY TrueSafe
  <1> QED BY <1>1, <1>2, <1>3, PTL DEF Acc!Spec

-----------------------------------------------------------------------------
(* A message answered "queued" is in the queue, in the drain's hand, delivered,  *)
(* or its sender was told, for any messages and sessions, until the daemon       *)
(* closes.  A message is at one place at a time, and the drain has in its hand   *)
(* the one queued message that is on its way to the session.                    *)
Once(q) == \A i, j \in DOMAIN q : q[i] = q[j] => i = j

RtTyped ==
  /\ pc = [m \in Msg |-> pc[m]] /\ path = [m \in Msg |-> path[m]] /\ answer = [m \in Msg |-> answer[m]]
  /\ queue \in Seq(Msg) /\ tail \in Seq(Msg) /\ inbox \in Seq(Msg)
  /\ drain \in [at : {"off", "top", "hold", "deliver", "notify", "left"}, job : Msg \cup {None}, orphan : BOOLEAN]

OnePlace ==
  /\ Once(queue) /\ Once(tail)
  /\ \A m \in Route!Range(queue) : pc[m] = "queued" /\ path[m] = "queued"
  /\ \A m \in Route!Range(tail) : pc[m] = "tail"
  /\ \A m \in Msg : /\ path[m] = "queued" => pc[m] \in {"queued", "tail", "done"}
                    /\ answer[m] = "queued" => path[m] = "queued"

InHand ==
  /\ \A m \in Route!Range(tail) : path[m] = "queued" => drain.at = "deliver" /\ drain.job = m
  /\ drain.at = "hold" => ~drain.orphan /\ queue # <<>> /\ drain.job = Head(queue)
  /\ drain.at \in {"top", "off", "left"} => drain.job = None \/ drain.job \in Route!Landed \cup told

Fated == \A m \in Msg : answer[m] = "queued"
           => m \in Route!Range(queue) \cup Route!Range(tail) \cup {drain.job} \cup Route!Landed \cup told

DaemonTyped == \E c, f, g : daemon = [closed |-> c, failing |-> f, gone |-> g]
Open == RtTyped /\ OnePlace /\ InHand /\ Fated
RoutingInv == DaemonTyped /\ (~daemon.closed => Open)

-----------------------------------------------------------------------------
LEMMA AppendRange ==
  ASSUME NEW S, NEW q \in Seq(S), NEW x \in S
  PROVE  /\ Append(q, x) \in Seq(S) /\ Append(q, x) # <<>>
         /\ Route!Range(Append(q, x)) = Route!Range(q) \cup {x}
         /\ Once(q) /\ x \notin Route!Range(q) => Once(Append(q, x))
         /\ q # <<>> => Head(Append(q, x)) = Head(q)
  <1> DEFINE a == Append(q, x)
  <1>1. /\ a \in Seq(S) /\ a # <<>> /\ DOMAIN q = 1 .. Len(q) /\ DOMAIN a = 1 .. Len(q) + 1 /\ Len(q) \in Nat
        /\ \A i \in 1 .. Len(q) : a[i] = q[i]
        /\ a[Len(q) + 1] = x
    OBVIOUS
  <1>2. Route!Range(a) = Route!Range(q) \cup {x}
    <2>1. x \in Route!Range(a) /\ Route!Range(q) \subseteq Route!Range(a)
      <3>1. Len(q) + 1 \in DOMAIN a /\ DOMAIN q \subseteq DOMAIN a
        BY <1>1
      <3> QED BY <1>1, <3>1 DEF Route!Range
    <2>2. ASSUME NEW i \in DOMAIN a PROVE a[i] \in Route!Range(q) \cup {x}
      <3>1. i \in DOMAIN q \/ i = Len(q) + 1
        BY <1>1
      <3> QED BY <1>1, <3>1 DEF Route!Range
    <2> QED BY <2>1, <2>2 DEF Route!Range
  <1>3. ASSUME Once(q), x \notin Route!Range(q) PROVE Once(a)
    <2> SUFFICES ASSUME NEW i \in DOMAIN a, NEW j \in DOMAIN a, a[i] = a[j] PROVE i = j
      BY DEF Once
    <2>1. (i \in DOMAIN q \/ i = Len(q) + 1) /\ (j \in DOMAIN q \/ j = Len(q) + 1)
      BY <1>1
    <2>2. \A k \in DOMAIN q : q[k] # x
      BY <1>3 DEF Route!Range
    <2> QED BY <1>1, <1>3, <2>1, <2>2 DEF Once
  <1>4. q # <<>> => Head(a) = Head(q)
    OBVIOUS
  <1> QED BY <1>1, <1>2, <1>3, <1>4

LEMMA TailRange ==
  ASSUME NEW S, NEW q \in Seq(S), q # <<>>
  PROVE  /\ Tail(q) \in Seq(S) /\ Head(q) \in S /\ Head(q) \in Route!Range(q)
         /\ Route!Range(q) = {Head(q)} \cup Route!Range(Tail(q))
         /\ Once(q) => Once(Tail(q)) /\ Head(q) \notin Route!Range(Tail(q))
  <1>1. /\ Tail(q) \in Seq(S) /\ Head(q) \in S /\ Head(q) = q[1] /\ 1 \in DOMAIN q
        /\ DOMAIN q = 1 .. Len(q) /\ DOMAIN Tail(q) = 1 .. Len(q) - 1 /\ Len(q) \in Nat
        /\ \A i \in DOMAIN Tail(q) : Tail(q)[i] = q[i + 1] /\ i + 1 \in DOMAIN q
    OBVIOUS
  <1>2. \A i \in DOMAIN q : i = 1 \/ (i - 1 \in DOMAIN Tail(q) /\ Tail(q)[i - 1] = q[i])
    BY <1>1
  <1>3. Route!Range(q) = {Head(q)} \cup Route!Range(Tail(q))
    <2>1. Route!Range(q) \subseteq {Head(q)} \cup Route!Range(Tail(q))
      BY <1>1, <1>2 DEF Route!Range
    <2>2. {Head(q)} \cup Route!Range(Tail(q)) \subseteq Route!Range(q)
      BY <1>1 DEF Route!Range
    <2> QED BY <2>1, <2>2
  <1>4. ASSUME Once(q) PROVE Once(Tail(q)) /\ Head(q) \notin Route!Range(Tail(q))
    <2>1. ASSUME NEW i \in DOMAIN Tail(q), NEW j \in DOMAIN Tail(q), Tail(q)[i] = Tail(q)[j] PROVE i = j
      <3>1. i + 1 = j + 1
        BY <1>1, <1>4, <2>1 DEF Once
      <3> QED BY <1>1, <3>1
    <2>2. ASSUME NEW i \in DOMAIN Tail(q) PROVE Tail(q)[i] # q[1]
      <3>1. i + 1 # 1
        BY <1>1
      <3> QED BY <1>1, <1>4, <3>1 DEF Once
    <2> QED BY <1>1, <2>1, <2>2 DEF Once, Route!Range
  <1> QED BY <1>1, <1>3, <1>4

LEMMA RoutingInit == ASSUME Route!Init PROVE RoutingInv
  <1>1. RtTyped /\ Route!Range(queue) = {} /\ Route!Range(tail) = {}
    BY DEF Route!Init, RtTyped, Route!Range
  <1>2. OnePlace /\ InHand /\ Fated
    BY <1>1 DEF Route!Init, OnePlace, InHand, Fated, Once
  <1>3. DaemonTyped
    BY DEF Route!Init, DaemonTyped
  <1> QED BY <1>1, <1>2, <1>3 DEF RoutingInv, Open

-----------------------------------------------------------------------------
(* A step of a send that is nowhere yet, or of the session: the queue, the       *)
(* chain of deliveries and the drain stay.                                     *)
LEMMA ElsewhereOpen ==
  ASSUME Open, UNCHANGED <<told, queue, drain, tail>>,
         inbox' \in Seq(Msg), Route!Landed \subseteq Route!Landed',
         pc' = [m \in Msg |-> pc'[m]], path' = [m \in Msg |-> path'[m]], answer' = [m \in Msg |-> answer'[m]],
         \A m \in Msg : \/ pc'[m] = pc[m] /\ path'[m] = path[m] /\ answer'[m] = answer[m]
                        \/ /\ pc[m] \notin {"queued", "tail", "done"}
                           /\ path'[m] # "queued"
                           /\ answer'[m] # "queued"
  PROVE  Open'
  <1>1. RtTyped'
    BY DEF Open, RtTyped
  <1>2. Route!Range(queue) \subseteq Msg /\ Route!Range(tail) \subseteq Msg
    BY DEF Open, RtTyped, Route!Range
  <1>3. \A m \in Route!Range(queue) \cup Route!Range(tail) : pc'[m] = pc[m] /\ path'[m] = path[m]
    BY <1>2 DEF Open, OnePlace
  <1>4. OnePlace'
    BY <1>3 DEF Open, OnePlace
  <1>5. InHand'
    BY <1>3 DEF Open, InHand
  <1>6. Fated'
    BY DEF Open, Fated
  <1> QED BY <1>1, <1>4, <1>5, <1>6 DEF Open

LEMMA SessionOpen ==
  ASSUME Open, Route!Start \/ Route!Die \/ Route!Type \/ Route!Paste \/ (\E m \in Msg : Route!Land(m))
  PROVE  Open'
  <1>1. UNCHANGED <<told, queue, drain, tail, pc, path, answer>>
    BY DEF Route!Start, Route!Die, Route!Type, Route!Paste, Route!Land, Route!sendVars
  <1>2. inbox' \in Seq(Msg) /\ Route!Landed \subseteq Route!Landed'
    <2>1. CASE UNCHANGED inbox
      BY <2>1 DEF Open, RtTyped, Route!Landed
    <2>2. CASE \E m \in Msg : Route!Land(m)
      BY <2>2, AppendRange DEF Route!Land, Open, RtTyped, Route!Landed
    <2> QED BY <2>1, <2>2 DEF Route!Start, Route!Die, Route!Type, Route!Paste
  <1> QED BY <1>1, <1>2, ElsewhereOpen DEF Open, RtTyped

LEMMA SendOpen ==
  ASSUME Open, NEW m \in Msg,
         \/ Route!Route(m) \/ Route!EnqueueRefused(m) \/ Route!WakeBoot(m) \/ Route!BootReady(m) \/ Route!WakeFails(m) \/ Route!Verify(m)
         \/ Route!WakeLost(m)
  PROVE  Open'
  <1>1. UNCHANGED <<told, queue, drain, tail>>
    BY DEF Route!Route, Route!EnqueueRefused, Route!WakeBoot, Route!BootReady, Route!WakeFails, Route!Verify, Route!WakeLost
  <1>2. pc[m] \notin {"queued", "tail", "done"}
    BY DEF Route!Route, Route!EnqueueRefused, Route!WakeBoot, Route!BootReady, Route!WakeFails, Route!Verify, Route!WakeLost
  <1>3. inbox' \in Seq(Msg) /\ Route!Landed \subseteq Route!Landed'
    <2>1. CASE UNCHANGED inbox
      BY <2>1 DEF Open, RtTyped, Route!Landed
    <2>2. CASE Route!BootReady(m)
      BY <2>2, AppendRange DEF Route!BootReady, Open, RtTyped, Route!Landed
    <2> QED BY <2>1, <2>2 DEF Route!Route, Route!EnqueueRefused, Route!WakeBoot, Route!WakeFails, Route!Verify, Route!WakeLost, Route!hostVars
  <1>4. \E a : pc' = [pc EXCEPT ![m] = a]
    BY DEF Route!Route, Route!EnqueueRefused, Route!WakeBoot, Route!BootReady, Route!WakeFails, Route!Verify, Route!WakeLost, Route!TryLive, Route!Reply
  <1>5. UNCHANGED path \/ \E p \in {"first", "second"} : path' = [path EXCEPT ![m] = p]
    BY DEF Route!Route, Route!EnqueueRefused, Route!WakeBoot, Route!BootReady, Route!WakeFails, Route!Verify, Route!WakeLost, Route!TryLive
  <1>6. UNCHANGED answer \/ \E a \in {"ok", "error"} : answer' = [answer EXCEPT ![m] = a]
    BY DEF Route!Route, Route!EnqueueRefused, Route!WakeBoot, Route!BootReady, Route!WakeFails, Route!Verify, Route!WakeLost, Route!TryLive, Route!Reply
  <1>7. path[m] # "queued" /\ answer[m] # "queued"
    BY <1>2 DEF Open, OnePlace
  <1>8. path'[m] # "queued" /\ answer'[m] # "queued"
    BY <1>5, <1>6, <1>7 DEF Open, RtTyped
  <1>9. \A x \in Msg : x # m => pc'[x] = pc[x] /\ path'[x] = path[x] /\ answer'[x] = answer[x]
    BY <1>4, <1>5, <1>6 DEF Open, RtTyped
  <1>10. pc' = [x \in Msg |-> pc'[x]] /\ path' = [x \in Msg |-> path'[x]] /\ answer' = [x \in Msg |-> answer'[x]]
    BY <1>4, <1>5, <1>6 DEF Open, RtTyped
  <1> QED BY <1>1, <1>2, <1>3, <1>8, <1>9, <1>10, ElsewhereOpen

LEMMA GateOpenOpen == ASSUME Open, NEW m \in Msg, Route!GateOpen(m) PROVE Open'
  <1>1. /\ pc[m] = "gate" /\ pc' = [pc EXCEPT ![m] = "tail"] /\ tail' = Append(tail, m)
        /\ UNCHANGED <<inbox, path, answer, told, queue, drain>>
    BY DEF Route!GateOpen, Route!hostVars
  <1>2. path[m] # "queued" /\ m \notin Route!Range(tail) /\ m \notin Route!Range(queue)
    BY <1>1 DEF Open, OnePlace
  <1>3. tail' \in Seq(Msg) /\ Route!Range(tail') = Route!Range(tail) \cup {m} /\ Once(tail')
    BY <1>1, <1>2, AppendRange DEF Open, RtTyped, OnePlace
  <1>4. \A x \in Msg : pc'[x] = IF x = m THEN "tail" ELSE pc[x]
    BY <1>1 DEF Open, RtTyped
  <1>5. Route!Range(queue) \subseteq Msg /\ Route!Range(tail) \subseteq Msg
    BY DEF Open, RtTyped, Route!Range
  <1>6. RtTyped'
    BY <1>1, <1>3 DEF Open, RtTyped
  <1>7. OnePlace'
    BY <1>1, <1>2, <1>3, <1>4, <1>5 DEF Open, OnePlace
  <1>8. InHand' /\ Fated'
    BY <1>1, <1>2, <1>3 DEF Open, InHand, Fated, Route!Landed
  <1> QED BY <1>6, <1>7, <1>8 DEF Open

LEMMA EnqueueOpen == ASSUME Open, NEW m \in Msg, Route!Enqueue(m) PROVE Open'
  <1>1. /\ pc[m] = "gate" /\ path' = [path EXCEPT ![m] = "queued"] /\ pc' = [pc EXCEPT ![m] = "queued"]
        /\ answer' = [answer EXCEPT ![m] = "queued"] /\ queue' = Append(queue, m) /\ drain' = Route!Kick(drain)
        /\ UNCHANGED <<inbox, told, tail>>
    BY DEF Route!Enqueue, Route!hostVars
  <1>2. m \notin Route!Range(tail) /\ m \notin Route!Range(queue)
    BY <1>1 DEF Open, OnePlace
  <1>3. /\ queue' \in Seq(Msg) /\ queue' # <<>> /\ Route!Range(queue') = Route!Range(queue) \cup {m} /\ Once(queue')
        /\ queue # <<>> => Head(queue') = Head(queue)
    BY <1>1, <1>2, AppendRange DEF Open, RtTyped, OnePlace
  <1>4. \A x \in Msg : x # m => pc'[x] = pc[x] /\ path'[x] = path[x] /\ answer'[x] = answer[x]
    BY <1>1 DEF Open, RtTyped
  <1>5. pc'[m] = "queued" /\ path'[m] = "queued"
    BY <1>1 DEF Open, RtTyped
  <1>6. Route!Range(queue) \subseteq Msg /\ Route!Range(tail) \subseteq Msg
    BY DEF Open, RtTyped, Route!Range
  <1>7. /\ drain'.job = drain.job /\ drain'.orphan = drain.orphan
        /\ drain'.at = IF drain.at = "off" THEN "top" ELSE drain.at
        /\ drain' \in [at : {"off", "top", "hold", "deliver", "notify", "left"}, job : Msg \cup {None}, orphan : BOOLEAN]
    BY <1>1 DEF Open, RtTyped, Route!Kick
  <1>8. RtTyped'
    BY <1>1, <1>3, <1>7 DEF Open, RtTyped
  <1>9. OnePlace'
    BY <1>1, <1>2, <1>3, <1>4, <1>5, <1>6 DEF Open, OnePlace
  <1>10. InHand'
    BY <1>1, <1>2, <1>3, <1>4, <1>6, <1>7 DEF Open, InHand, Route!Landed
  <1>11. Fated'
    BY <1>1, <1>3, <1>4, <1>7 DEF Open, Fated, Route!Landed
  <1> QED BY <1>8, <1>9, <1>10, <1>11 DEF Open

(* The delivery at the head ends; that of a queued message is in the drain's hand. *)
LEMMA SettleOpen == ASSUME Open, Route!Settle PROVE Open'
  <1> DEFINE m == Head(tail)
  <1>1. tail # <<>> /\ tail' = Tail(tail) /\ UNCHANGED <<inbox, told, queue>>
    BY DEF Route!Settle, Route!hostVars
  <1>2. /\ m \in Msg /\ m \in Route!Range(tail) /\ tail' \in Seq(Msg) /\ Route!Range(tail) = {m} \cup Route!Range(tail')
        /\ Once(tail') /\ m \notin Route!Range(tail')
    BY <1>1, TailRange DEF Open, RtTyped, OnePlace
  <1>3. pc[m] = "tail" /\ m \notin Route!Range(queue)
    BY <1>2 DEF Open, OnePlace
  <1>4. PICK o \in Route!Outcomes(m) :
          IF path[m] = "queued"
          THEN /\ drain' = [drain EXCEPT !.at = IF o = "ok" THEN "top" ELSE "notify"]
               /\ pc' = [pc EXCEPT ![m] = "done"]
               /\ UNCHANGED answer
          ELSE Route!Reply(m, o) /\ UNCHANGED drain
    BY DEF Route!Settle
  <1>5. path' = path
    BY DEF Route!Settle
  <1>6. o \in {"ok", "unconfirmed", "error"} /\ (o = "ok" => m \in Route!Landed)
    BY <1>4 DEF Route!Outcomes
  <1>7. /\ pc' = [pc EXCEPT ![m] = "done"]
        /\ \A x \in Msg : pc'[x] = IF x = m THEN "done" ELSE pc[x]
    BY <1>4 DEF Route!Reply, Open, RtTyped
  <1>8. Route!Range(queue) \subseteq Msg /\ Route!Range(tail) \subseteq Msg
    BY DEF Open, RtTyped, Route!Range
  <1> HIDE DEF m
  <1>9. CASE path[m] = "queued"
    <2>1. UNCHANGED answer /\ drain' = [drain EXCEPT !.at = IF o = "ok" THEN "top" ELSE "notify"]
      BY <1>4, <1>9
    <2>2. drain.at = "deliver" /\ drain.job = m /\ \A x \in Route!Range(tail') : path[x] # "queued"
      BY <1>2, <1>9 DEF Open, InHand
    <2>3. drain'.job = m /\ drain'.at = IF o = "ok" THEN "top" ELSE "notify"
      BY <2>1, <2>2 DEF Open, RtTyped
    <2>4. RtTyped'
      BY <1>1, <1>2, <1>5, <1>7, <2>1 DEF Open, RtTyped
    <2>5. OnePlace'
      BY <1>1, <1>2, <1>3, <1>5, <1>7, <1>8, <2>1 DEF Open, OnePlace
    <2>6. InHand' /\ Fated'
      BY <1>1, <1>2, <1>5, <1>6, <2>1, <2>2, <2>3 DEF Open, InHand, Fated, Route!Landed
    <2> QED BY <2>4, <2>5, <2>6 DEF Open
  <1>10. CASE path[m] # "queued"
    <2>1. UNCHANGED drain /\ answer' = [answer EXCEPT ![m] = o]
      BY <1>4, <1>10 DEF Route!Reply
    <2>2. answer'[m] # "queued" /\ \A x \in Msg : x # m => answer'[x] = answer[x]
      BY <1>2, <1>6, <2>1 DEF Open, RtTyped
    <2>3. RtTyped'
      BY <1>1, <1>2, <1>5, <1>7, <2>1 DEF Open, RtTyped
    <2>4. OnePlace'
      BY <1>1, <1>2, <1>3, <1>5, <1>7, <1>8, <2>2 DEF Open, OnePlace
    <2>5. InHand' /\ Fated'
      BY <1>1, <1>2, <1>5, <2>1, <2>2 DEF Open, InHand, Fated, Route!Landed
    <2> QED BY <2>3, <2>4, <2>5 DEF Open
  <1> QED BY <1>9, <1>10

(* The head of the queue goes into the chain of deliveries. *)
LEMMA CommitOpen ==
  ASSUME Route!RoutingAssumption, Open, queue # <<>>, queue' = Tail(queue), Route!Commit(Head(queue)),
         drain.at \in {"top", "hold"}
  PROVE  Open'
  <1> DEFINE m == Head(queue)
  <1>1. /\ drain' = [at |-> "deliver", job |-> m, orphan |-> FALSE] /\ pc' = [pc EXCEPT ![m] = "tail"]
        /\ tail' = Append(tail, m) /\ UNCHANGED <<inbox, path, answer, told>>
    BY DEF Route!Commit, Route!hostVars
  <1>2. /\ m \in Msg /\ m \in Route!Range(queue) /\ queue' \in Seq(Msg) /\ Route!Range(queue) = {m} \cup Route!Range(queue')
        /\ Once(queue') /\ m \notin Route!Range(queue')
    BY TailRange DEF Open, RtTyped, OnePlace
  <1> HIDE DEF m
  <1>3. pc[m] = "queued" /\ m \notin Route!Range(tail)
    BY <1>2 DEF Open, OnePlace
  <1>4. tail' \in Seq(Msg) /\ Route!Range(tail') = Route!Range(tail) \cup {m} /\ Once(tail')
    BY <1>1, <1>2, <1>3, AppendRange DEF Open, RtTyped, OnePlace
  <1>5. \A x \in Msg : pc'[x] = IF x = m THEN "tail" ELSE pc[x]
    BY <1>1 DEF Open, RtTyped
  <1>6. Route!Range(queue) \subseteq Msg /\ Route!Range(tail) \subseteq Msg
    BY DEF Open, RtTyped, Route!Range
  <1>7. RtTyped'
    BY <1>1, <1>2, <1>4 DEF Open, RtTyped
  <1>8. OnePlace'
    BY <1>1, <1>2, <1>3, <1>4, <1>5, <1>6 DEF Open, OnePlace
  <1>9. \A x \in Route!Range(tail) : path[x] # "queued"
    BY DEF Open, InHand
  <1>10. drain.job = None \/ drain.job = m \/ drain.job \in Route!Landed \cup told
    BY DEF m, Open, InHand
  <1>11. InHand'
    BY <1>1, <1>4, <1>9 DEF InHand
  <1>12. Fated'
    BY <1>1, <1>2, <1>4, <1>6, <1>10 DEF Open, Fated, Route!Landed, Route!RoutingAssumption
  <1> QED BY <1>7, <1>8, <1>11, <1>12 DEF Open
(* The drain loop looks, waits or ends: nothing leaves the queue or its hand.    *)
LEMMA DrainLooks ==
  ASSUME Route!RoutingAssumption, Open, Route!DrainEmpty \/ Route!DrainLeft \/ Route!DrainAsk \/ Route!DrainWait
  PROVE  Open'
  <1>1. UNCHANGED <<inbox, pc, path, answer, told, queue, tail>>
    BY DEF Route!DrainEmpty, Route!DrainLeft, Route!DrainAsk, Route!DrainWait, Route!hostVars, Route!sendVars
  <1>2. drain.at \in {"top", "left", "hold"}
    BY DEF Route!DrainEmpty, Route!DrainLeft, Route!DrainAsk, Route!DrainWait, Route!DrainAt
  <1>3. \/ drain' = [at |-> "left", job |-> None, orphan |-> FALSE]
        \/ drain.at = "left" /\ \E x \in {"off", "top"} : drain' = [drain EXCEPT !.at = x]
        \/ queue # <<>> /\ drain.at = "top" /\ drain' = [at |-> "hold", job |-> Head(queue), orphan |-> FALSE]
        \/ drain.at = "hold" /\ drain' = [at |-> "top", job |-> None, orphan |-> FALSE]
    BY DEF Route!DrainEmpty, Route!DrainLeft, Route!DrainAsk, Route!DrainWait, Route!DrainAt
  <1>4. queue # <<>> => Head(queue) \in Msg /\ Head(queue) \in Route!Range(queue)
    BY TailRange DEF Open, RtTyped
  <1>0. /\ drain' \in [at : {"off", "top", "hold", "deliver", "notify", "left"}, job : Msg \cup {None},
                       orphan : BOOLEAN]
        /\ \/ drain'.at \in {"left", "top"} /\ drain'.job = None
           \/ drain.at = "left" /\ drain'.at \in {"off", "top"} /\ drain'.job = drain.job
           \/ queue # <<>> /\ drain'.at = "hold" /\ drain'.job = Head(queue) /\ ~drain'.orphan
    <2>1. CASE drain' = [at |-> "left", job |-> None, orphan |-> FALSE]
      BY <2>1
    <2>2. CASE drain.at = "left" /\ \E x \in {"off", "top"} : drain' = [drain EXCEPT !.at = x]
      BY <2>2 DEF Open, RtTyped
    <2>3. CASE queue # <<>> /\ drain.at = "top" /\ drain' = [at |-> "hold", job |-> Head(queue), orphan |-> FALSE]
      BY <2>3, <1>4
    <2>4. CASE drain.at = "hold" /\ drain' = [at |-> "top", job |-> None, orphan |-> FALSE]
      BY <2>4
    <2> QED BY <1>3, <2>1, <2>2, <2>3, <2>4
  <1>5. RtTyped'
    BY <1>1, <1>0 DEF Open, RtTyped
  <1>6. OnePlace'
    BY <1>1 DEF Open, OnePlace
  <1>7. \A x \in Route!Range(tail) : path[x] # "queued"
    BY <1>2 DEF Open, InHand
  <1>8. InHand'
    <2>1. UNCHANGED Route!Landed
      BY <1>1 DEF Route!Landed
    <2> QED BY <1>1, <1>0, <1>7, <2>1 DEF Open, InHand
  <1>9. \A m \in Msg : m = drain.job => m \in Route!Landed \cup told \cup Route!Range(queue) \cup {drain'.job}
    BY <1>2, <1>3, <1>4 DEF Open, RtTyped, InHand, Route!RoutingAssumption
  <1>10. Fated'
    BY <1>1, <1>9 DEF Open, Fated, Route!Landed
  <1> QED BY <1>5, <1>6, <1>8, <1>10 DEF Open

(* The message of a session that is gone goes from the queue into the notice.    *)
LEMMA DrainStaleOpen == ASSUME Route!RoutingAssumption, Open, Route!DrainStale PROVE Open'
  <1> DEFINE m == Head(queue)
  <1>1. /\ queue # <<>> /\ queue' = Tail(queue) /\ drain.at = "top"
        /\ drain' = [drain EXCEPT !.at = "notify", !.job = m] /\ pc' = [pc EXCEPT ![m] = "done"]
        /\ UNCHANGED <<inbox, path, answer, told, tail>>
    BY DEF Route!DrainStale, Route!DrainAt, Route!hostVars
  <1>2. /\ m \in Msg /\ m \in Route!Range(queue) /\ queue' \in Seq(Msg) /\ Route!Range(queue) = {m} \cup Route!Range(queue')
        /\ Once(queue') /\ m \notin Route!Range(queue')
    BY <1>1, TailRange DEF Open, RtTyped, OnePlace
  <1> HIDE DEF m
  <1>3. pc[m] = "queued" /\ m \notin Route!Range(tail)
    BY <1>2 DEF Open, OnePlace
  <1>4. \A x \in Msg : pc'[x] = IF x = m THEN "done" ELSE pc[x]
    BY <1>1 DEF Open, RtTyped
  <1>5. Route!Range(queue) \subseteq Msg /\ Route!Range(tail) \subseteq Msg
    BY DEF Open, RtTyped, Route!Range
  <1>6. drain'.at = "notify" /\ drain'.job = m
    BY <1>1 DEF Open, RtTyped
  <1>7. RtTyped'
    BY <1>1, <1>2 DEF Open, RtTyped
  <1>8. OnePlace'
    BY <1>1, <1>2, <1>3, <1>4, <1>5 DEF Open, OnePlace
  <1>9. \A x \in Route!Range(tail) : path[x] # "queued"
    BY <1>1 DEF Open, InHand
  <1>10. InHand'
    BY <1>1, <1>6, <1>9 DEF InHand
  <1>11. Fated'
    BY <1>1, <1>2, <1>6 DEF Open, InHand, Fated, Route!Landed, Route!RoutingAssumption
  <1> QED BY <1>7, <1>8, <1>10, <1>11 DEF Open

LEMMA DrainNotifyOpen == ASSUME Open, Route!DrainNotify PROVE Open'
  <1>1. /\ drain.at = "notify" /\ told' = told \cup {drain.job}
        /\ drain' = [at |-> "top", job |-> None, orphan |-> FALSE]
        /\ UNCHANGED <<inbox, pc, path, answer, queue, tail>>
    BY DEF Route!DrainNotify, Route!DrainAt, Route!hostVars, Route!sendVars
  <1>2. RtTyped' /\ OnePlace'
    BY <1>1 DEF Open, RtTyped, OnePlace
  <1>3. InHand' /\ Fated'
    BY <1>1 DEF Open, InHand, Fated, Route!Landed
  <1> QED BY <1>2, <1>3 DEF Open

(* The daemon closes once. *)
LEMMA DaemonCloses ==
  ASSUME DaemonTyped, [Route!Next]_Route!vars
  PROVE  /\ DaemonTyped'
         /\ daemon.closed => daemon'.closed
         /\ Route!Close \/ Route!Exit => daemon'.closed
  <1>1. CASE UNCHANGED daemon /\ ~Route!Close /\ ~Route!Exit
    BY <1>1 DEF DaemonTyped
  <1>2. CASE Route!Close \/ Route!Exit \/ \E m \in Msg : Route!FailOne(m)
    <2>1. PICK c, f, g : daemon = [closed |-> c, failing |-> f, gone |-> g]
      BY DEF DaemonTyped
    <2>2. CASE Route!Close
      <3>1. daemon' = [closed |-> TRUE, failing |-> Route!Range(queue), gone |-> g]
        BY <2>1, <2>2 DEF Route!Close
      <3> QED BY <3>1 DEF DaemonTyped
    <2>3. CASE Route!Exit
      <3>1. daemon' = [closed |-> c, failing |-> f, gone |-> TRUE] /\ daemon.closed
        BY <2>1, <2>3 DEF Route!Exit
      <3> QED BY <2>1, <3>1 DEF DaemonTyped
    <2>4. CASE ~Route!Close /\ ~Route!Exit /\ \E m \in Msg : Route!FailOne(m)
      <3>1. PICK m : daemon' = [closed |-> c, failing |-> f \ {m}, gone |-> g]
        BY <2>1, <2>4 DEF Route!FailOne
      <3>2. DaemonTyped'
        BY <3>1 DEF DaemonTyped
      <3> QED BY <2>1, <2>4, <3>1, <3>2
    <2> QED BY <1>2, <2>2, <2>3, <2>4
  <1> QED BY <1>1, <1>2 DEF Route!Next, Route!Start, Route!Die, Route!Type, Route!Land, Route!Route, Route!GateOpen, Route!Enqueue, Route!EnqueueRefused, Route!WakeBoot, Route!BootReady,
             Route!WakeFails, Route!Verify, Route!WakeLost, Route!Delivery, Route!Paste, Route!Settle, Route!DrainStep, Route!DrainEmpty, Route!DrainLeft, Route!DrainStale,
             Route!DrainAsk, Route!DrainWait, Route!DrainCommit, Route!DrainNotify, Route!DrainForce, Route!Commit, Route!vars

LEMMA RoutingNext == ASSUME Route!RoutingAssumption, RoutingInv, [Route!Next]_Route!vars PROVE RoutingInv'
  <1> SUFFICES ASSUME ~daemon'.closed PROVE Open'
    BY DaemonCloses DEF RoutingInv
  <1>1. Open /\ ~Route!Close /\ ~Route!Exit
    BY DaemonCloses DEF RoutingInv
  <1>2. CASE Route!Start \/ Route!Die \/ Route!Type \/ Route!Paste \/ (\E m \in Msg : Route!Land(m))
    BY <1>1, <1>2, SessionOpen
  <1>3. ASSUME NEW m \in Msg,
               \/ Route!Route(m) \/ Route!EnqueueRefused(m) \/ Route!WakeBoot(m) \/ Route!BootReady(m) \/ Route!WakeFails(m) \/ Route!Verify(m)
               \/ Route!WakeLost(m) \/ Route!GateOpen(m) \/ Route!Enqueue(m)
        PROVE  Open'
    BY <1>1, <1>3, SendOpen, GateOpenOpen, EnqueueOpen
  <1>4. CASE Route!Settle
    BY <1>1, <1>4, SettleOpen
  <1>5. CASE Route!DrainEmpty \/ Route!DrainLeft \/ Route!DrainAsk \/ Route!DrainWait \/ Route!DrainStale \/ Route!DrainNotify
    BY <1>1, <1>5, DrainLooks, DrainStaleOpen, DrainNotifyOpen
  <1>6. CASE Route!DrainCommit
    <2>1. drain.at = "hold" /\ ~drain.orphan /\ queue # <<>> /\ drain.job = Head(queue)
      BY <1>1, <1>6 DEF Route!DrainCommit, Route!DrainAt, Open, InHand
    <2> QED BY <1>1, <1>6, <2>1, CommitOpen DEF Route!DrainCommit
  <1>7. CASE Route!DrainForce
    BY <1>1, <1>7, CommitOpen DEF Route!DrainForce, Route!DrainAt
  <1>8. CASE \E m \in Msg : Route!FailOne(m)
    <2>1. UNCHANGED <<inbox, pc, path, answer, queue, drain, tail>> /\ told \subseteq told'
      BY <1>8 DEF Route!FailOne, Route!hostVars, Route!sendVars
    <2> QED BY <1>1, <2>1 DEF Open, RtTyped, OnePlace, InHand, Fated, Route!Landed
  <1>9. CASE UNCHANGED Route!vars
    BY <1>1, <1>9 DEF Route!vars, Open, RtTyped, OnePlace, InHand, Fated, Route!Landed
  <1> QED BY <1>1, <1>2, <1>3, <1>4, <1>5, <1>6, <1>7, <1>8, <1>9 DEF Route!Next, Route!Delivery, Route!DrainStep

(* The values of the variables.  Also while the daemon closes, the drain has a     *)
(* message in its hand whenever one is on its way, held, or owed a notice.          *)
DrainTyped ==
  /\ drain \in [at : {"off", "top", "hold", "deliver", "notify", "left"}, job : Msg \cup {None}, orphan : BOOLEAN]
  /\ drain.at \in {"hold", "deliver", "notify"} => drain.job \in Msg
  /\ drain.at = "hold" /\ ~drain.orphan => queue # <<>>
Queued(i) == path[tail[i]] = "queued"
Chain ==
  /\ \A i \in DOMAIN tail : pc[tail[i]] \in {"tail", "done"} /\ (Queued(i) => drain.at = "deliver")
  /\ \A i, j \in DOMAIN tail : Queued(i) /\ Queued(j) => i = j
  /\ \A m \in Msg : path[m] = "queued" => pc[m] \in {"queued", "tail", "done"}
SendsTyped ==
  /\ pc \in [Msg -> {"new", "gate", "tail", "wake", "boot", "verify", "queued", "done"}]
  /\ path \in [Msg -> {"first", "second", "queued"}] /\ answer \in [Msg -> Route!Answers]
RoutingSessionTyped ==
  /\ host \in [up : {"off", "boot", "ready"}, gen : 0 .. MaxGen, typing : BOOLEAN]
  /\ pasted \in [Msg -> 0 .. MaxGen] /\ token \in [Msg -> 0 .. MaxGen]
QueuesTyped == queue \in Seq(Msg) /\ tail \in Seq(Msg) /\ inbox \in Seq(Msg)
ClosingTyped == told \subseteq Msg /\ daemon \in [closed : BOOLEAN, failing : SUBSET Msg, gone : BOOLEAN]

RoutingTypes == DrainTyped /\ Chain /\ SendsTyped /\ RoutingSessionTyped /\ QueuesTyped /\ ClosingTyped

LEMMA RoutingIsTyped == ASSUME RoutingTypes PROVE Route!TypeOK
  BY DEF RoutingTypes, DrainTyped, SendsTyped, RoutingSessionTyped, QueuesTyped, ClosingTyped, Route!TypeOK

LEMMA RoutingTypeInit == ASSUME Route!RoutingAssumption, Route!Init PROVE RoutingTypes
  <1>1. 0 \in 0 .. MaxGen /\ <<>> \in Seq(Msg)
    BY DEF Route!RoutingAssumption
  <1>2. RoutingSessionTyped /\ QueuesTyped
    BY <1>1 DEF Route!Init, RoutingSessionTyped, QueuesTyped
  <1>3. DrainTyped /\ Chain /\ SendsTyped /\ ClosingTyped
    BY DEF Route!Init, DrainTyped, Chain, SendsTyped, ClosingTyped, Route!Answers
  <1> QED BY <1>2, <1>3 DEF RoutingTypes

(* What the queues gain and lose are messages. *)
LEMMA Ends ==
  ASSUME NEW q \in Seq(Msg)
  PROVE  /\ \A m \in Msg : Append(q, m) \in Seq(Msg)
         /\ q # <<>> => Head(q) \in Msg /\ Tail(q) \in Seq(Msg)
         /\ Route!Range(q) \subseteq Msg
  <1>1. \A m \in Msg : Append(q, m) \in Seq(Msg)
    BY AppendRange
  <1>2. q # <<>> => Head(q) \in Msg /\ Tail(q) \in Seq(Msg)
    BY TailRange
  <1>3. \A i \in DOMAIN q : q[i] \in Msg
    OBVIOUS
  <1> QED BY <1>1, <1>2, <1>3 DEF Route!Range

Moves(q, r) == r \in {q, <<>>} \/ (q # <<>> /\ r = Tail(q)) \/ \E m \in Msg : r = Append(q, m)

LEMMA MovesTyped == ASSUME NEW q \in Seq(Msg), NEW r, Moves(q, r) PROVE r \in Seq(Msg)
  <1>1. <<>> \in Seq(Msg)
    OBVIOUS
  <1> QED BY <1>1, Ends DEF Moves

LEMMA QueuesMove ==
  ASSUME Route!RoutingAssumption, RoutingTypes, [Route!Next]_Route!vars
  PROVE  Moves(queue, queue') /\ Moves(tail, tail') /\ Moves(inbox, inbox')
  <1>0. /\ queue # <<>> => Head(queue) \in Msg
        /\ drain.at = "hold" => drain.job \in Msg /\ (~drain.orphan => queue # <<>>)
    BY Ends DEF RoutingTypes, QueuesTyped, DrainTyped
  <1>1. CASE Route!Start \/ Route!Die \/ Route!Type
    BY <1>0, <1>1 DEF Route!Start, Route!Die, Route!Type, Moves
  <1>2. ASSUME NEW m \in Msg, Route!Land(m) PROVE Moves(queue, queue') /\ Moves(tail, tail') /\ Moves(inbox, inbox')
    BY <1>0, <1>2 DEF Route!Land, Moves
  <1>3. ASSUME NEW m \in Msg, Route!Route(m) PROVE Moves(queue, queue') /\ Moves(tail, tail') /\ Moves(inbox, inbox')
    BY <1>0, <1>3 DEF Route!Route, Route!Reply, Route!hostVars, Moves
  <1>4. ASSUME NEW m \in Msg, Route!GateOpen(m) PROVE Moves(queue, queue') /\ Moves(tail, tail') /\ Moves(inbox, inbox')
    BY <1>0, <1>4 DEF Route!GateOpen, Route!hostVars, Moves
  <1>5. ASSUME NEW m \in Msg, Route!Enqueue(m) PROVE Moves(queue, queue') /\ Moves(tail, tail') /\ Moves(inbox, inbox')
    BY <1>0, <1>5 DEF Route!Enqueue, Route!hostVars, Moves
  <1>6. ASSUME NEW m \in Msg, Route!EnqueueRefused(m) \/ Route!Verify(m) PROVE Moves(queue, queue') /\ Moves(tail, tail') /\ Moves(inbox, inbox')
    BY <1>0, <1>6 DEF Route!EnqueueRefused, Route!Verify, Route!hostVars, Route!Reply, Moves
  <1>7. ASSUME NEW m \in Msg, Route!WakeBoot(m) \/ Route!BootReady(m) PROVE Moves(queue, queue') /\ Moves(tail, tail') /\ Moves(inbox, inbox')
    BY <1>0, <1>7 DEF Route!WakeBoot, Route!BootReady, Moves
  <1>8. ASSUME NEW m \in Msg, Route!WakeFails(m) PROVE Moves(queue, queue') /\ Moves(tail, tail') /\ Moves(inbox, inbox')
    BY <1>0, <1>8 DEF Route!WakeFails, Route!Reply, Moves
  <1>9. ASSUME NEW m \in Msg, Route!WakeLost(m) PROVE Moves(queue, queue') /\ Moves(tail, tail') /\ Moves(inbox, inbox')
    BY <1>0, <1>9 DEF Route!WakeLost, Route!Reply, Route!hostVars, Moves
  <1>10. CASE Route!Paste
    BY <1>0, <1>10 DEF Route!Paste, Moves
  <1>11. CASE Route!Settle
    BY <1>0, <1>11 DEF Route!Settle, Route!Reply, Route!hostVars, Moves
  <1>12. CASE Route!DrainEmpty \/ Route!DrainLeft \/ Route!DrainWait
    BY <1>0, <1>12 DEF Route!DrainEmpty, Route!DrainLeft, Route!DrainWait, Route!hostVars, Route!DrainAt, Moves
  <1>13. CASE Route!DrainAsk
    BY <1>0, <1>13 DEF Route!DrainAsk, Route!hostVars, Route!DrainAt, Moves
  <1>14. CASE Route!DrainStale
    BY <1>0, <1>14 DEF Route!DrainStale, Route!hostVars, Route!DrainAt, Moves
  <1>15. CASE Route!DrainCommit
    BY <1>0, <1>15 DEF Route!DrainCommit, Route!hostVars, Route!DrainAt, Route!Commit, Moves
  <1>16. CASE Route!DrainForce
    BY <1>0, <1>16 DEF Route!DrainForce, Route!hostVars, Route!DrainAt, Route!Commit, Moves
  <1>17. CASE Route!DrainNotify
    BY <1>0, <1>17 DEF Route!DrainNotify, Route!hostVars, Route!DrainAt, Moves
  <1>18. CASE Route!Close
    BY <1>0, <1>18 DEF Route!Close, Route!hostVars, Moves
  <1>19. ASSUME NEW m \in Msg, Route!FailOne(m) PROVE Moves(queue, queue') /\ Moves(tail, tail') /\ Moves(inbox, inbox')
    BY <1>0, <1>19 DEF Route!FailOne, Route!hostVars, Moves
  <1>20. CASE Route!Exit
    BY <1>0, <1>20 DEF Route!Exit, Route!hostVars, Moves
  <1>21. CASE UNCHANGED Route!vars
    BY <1>0, <1>21 DEF Route!vars, Moves
  <1> QED BY <1>1, <1>2, <1>3, <1>4, <1>5, <1>6, <1>7, <1>8, <1>9, <1>10, <1>11, <1>12, <1>13, <1>14,
     <1>15, <1>16, <1>17, <1>18, <1>19, <1>20, <1>21 DEF Route!Next, Route!Delivery, Route!DrainStep

LEMMA QueuesTypeNext == ASSUME Route!RoutingAssumption, RoutingTypes, [Route!Next]_Route!vars PROVE QueuesTyped'
  BY QueuesMove, MovesTyped DEF RoutingTypes, QueuesTyped

LEMMA DrainTypeNext ==
  ASSUME Route!RoutingAssumption, RoutingTypes, [Route!Next]_Route!vars
  PROVE  DrainTyped'
  <1>0. /\ drain \in [at : {"off", "top", "hold", "deliver", "notify", "left"}, job : Msg \cup {None}, orphan : BOOLEAN]
        /\ drain.at \in {"hold", "deliver", "notify"} => drain.job \in Msg
        /\ drain.at = "hold" /\ ~drain.orphan => queue # <<>>
        /\ queue # <<>> => Head(queue) \in Msg
        /\ \A m \in Msg : Append(queue, m) # <<>>
        /\ tail # <<>> /\ path[Head(tail)] = "queued" => drain.at = "deliver"
    <2>1. tail # <<>> => 1 \in DOMAIN tail /\ Head(tail) = tail[1]
      BY DEF RoutingTypes, QueuesTyped
    <2>2. tail # <<>> /\ path[Head(tail)] = "queued" => drain.at = "deliver"
      BY <2>1 DEF RoutingTypes, Chain, Queued
    <2>3. \A m \in Msg : Append(queue, m) # <<>>
      BY AppendRange DEF RoutingTypes, QueuesTyped
    <2> QED BY <2>2, <2>3, Ends DEF RoutingTypes, QueuesTyped, DrainTyped
  <1>1. CASE Route!Start \/ Route!Die \/ Route!Type
    BY <1>0, <1>1 DEF Route!Start, Route!Die, Route!Type, DrainTyped
  <1>2. ASSUME NEW m \in Msg, Route!Land(m) PROVE DrainTyped'
    BY <1>0, <1>2 DEF Route!Land, DrainTyped
  <1>3. ASSUME NEW m \in Msg, Route!Route(m) PROVE DrainTyped'
    BY <1>0, <1>3 DEF Route!Route, Route!Reply, Route!hostVars, DrainTyped
  <1>4. ASSUME NEW m \in Msg, Route!GateOpen(m) PROVE DrainTyped'
    BY <1>0, <1>4 DEF Route!GateOpen, Route!hostVars, DrainTyped
  <1>5. ASSUME NEW m \in Msg, Route!Enqueue(m) PROVE DrainTyped'
    BY <1>0, <1>5 DEF Route!Enqueue, Route!hostVars, Route!Kick, DrainTyped
  <1>6. ASSUME NEW m \in Msg, Route!EnqueueRefused(m) \/ Route!Verify(m) PROVE DrainTyped'
    BY <1>0, <1>6 DEF Route!EnqueueRefused, Route!Verify, Route!hostVars, Route!Reply, DrainTyped
  <1>7. ASSUME NEW m \in Msg, Route!WakeBoot(m) \/ Route!BootReady(m) PROVE DrainTyped'
    BY <1>0, <1>7 DEF Route!WakeBoot, Route!BootReady, DrainTyped
  <1>8. ASSUME NEW m \in Msg, Route!WakeFails(m) PROVE DrainTyped'
    BY <1>0, <1>8 DEF Route!WakeFails, Route!Reply, DrainTyped
  <1>9. ASSUME NEW m \in Msg, Route!WakeLost(m) PROVE DrainTyped'
    BY <1>0, <1>9 DEF Route!WakeLost, Route!Reply, Route!hostVars, DrainTyped
  <1>10. CASE Route!Paste
    BY <1>0, <1>10 DEF Route!Paste, DrainTyped
  <1>11. CASE Route!Settle
    BY <1>0, <1>11 DEF Route!Settle, Route!Reply, Route!hostVars, DrainTyped
  <1>12. CASE Route!DrainEmpty \/ Route!DrainLeft \/ Route!DrainWait
    <2>1. CASE Route!DrainEmpty \/ Route!DrainWait
      <3>1. \E x \in {"left", "top"} : drain' = [at |-> x, job |-> None, orphan |-> FALSE]
        BY <2>1 DEF Route!DrainEmpty, Route!DrainWait
      <3> QED BY <3>1 DEF DrainTyped
    <2>2. CASE Route!DrainLeft
      BY <1>0, <2>2 DEF Route!DrainLeft, Route!hostVars, Route!DrainAt, DrainTyped
    <2> QED BY <1>12, <2>1, <2>2
  <1>13. CASE Route!DrainAsk
    BY <1>0, <1>13 DEF Route!DrainAsk, Route!hostVars, Route!DrainAt, DrainTyped
  <1>14. CASE Route!DrainStale
    BY <1>0, <1>14 DEF Route!DrainStale, Route!hostVars, Route!DrainAt, DrainTyped
  <1>15. CASE Route!DrainCommit
    BY <1>0, <1>15 DEF Route!DrainCommit, Route!hostVars, Route!DrainAt, Route!Commit, DrainTyped
  <1>16. CASE Route!DrainForce
    BY <1>0, <1>16 DEF Route!DrainForce, Route!hostVars, Route!DrainAt, Route!Commit, DrainTyped
  <1>17. CASE Route!DrainNotify
    BY <1>0, <1>17 DEF Route!DrainNotify, Route!hostVars, Route!DrainAt, DrainTyped
  <1>18. CASE Route!Close
    BY <1>0, <1>18 DEF Route!Close, Route!hostVars, DrainTyped
  <1>19. ASSUME NEW m \in Msg, Route!FailOne(m) PROVE DrainTyped'
    BY <1>0, <1>19 DEF Route!FailOne, Route!hostVars, DrainTyped
  <1>20. CASE Route!Exit
    BY <1>0, <1>20 DEF Route!Exit, Route!hostVars, DrainTyped
  <1>21. CASE UNCHANGED Route!vars
    BY <1>0, <1>21 DEF Route!vars, DrainTyped
  <1> QED BY <1>1, <1>2, <1>3, <1>4, <1>5, <1>6, <1>7, <1>8, <1>9, <1>10, <1>11, <1>12, <1>13, <1>14,
     <1>15, <1>16, <1>17, <1>18, <1>19, <1>20, <1>21 DEF Route!Next, Route!Delivery, Route!DrainStep

LEMMA SendsTypeNext ==
  ASSUME Route!RoutingAssumption, RoutingTypes, [Route!Next]_Route!vars
  PROVE  SendsTyped'
  <1>0. SendsTyped
    BY DEF RoutingTypes
  <1>1. CASE Route!Start \/ Route!Die \/ Route!Type
    BY <1>0, <1>1 DEF Route!Start, Route!Die, Route!Type, Route!sendVars, SendsTyped, Route!Answers
  <1>2. ASSUME NEW m \in Msg, Route!Land(m) PROVE SendsTyped'
    BY <1>0, <1>2 DEF Route!Land, Route!sendVars, SendsTyped, Route!Answers
  <1>3. ASSUME NEW m \in Msg, Route!Route(m) PROVE SendsTyped'
    BY <1>0, <1>3 DEF Route!Route, Route!TryLive, Route!Reply, Route!hostVars, SendsTyped, Route!Answers
  <1>4. ASSUME NEW m \in Msg, Route!GateOpen(m) PROVE SendsTyped'
    BY <1>0, <1>4 DEF Route!GateOpen, Route!hostVars, SendsTyped, Route!Answers
  <1>5. ASSUME NEW m \in Msg, Route!Enqueue(m) PROVE SendsTyped'
    BY <1>0, <1>5 DEF Route!Enqueue, Route!hostVars, SendsTyped, Route!Answers
  <1>6. ASSUME NEW m \in Msg, Route!EnqueueRefused(m) \/ Route!Verify(m) PROVE SendsTyped'
    BY <1>0, <1>6 DEF Route!EnqueueRefused, Route!Verify, Route!hostVars, Route!Reply, SendsTyped, Route!Answers
  <1>7. ASSUME NEW m \in Msg, Route!WakeBoot(m) \/ Route!BootReady(m) PROVE SendsTyped'
    BY <1>0, <1>7 DEF Route!WakeBoot, Route!BootReady, SendsTyped, Route!Answers
  <1>8. ASSUME NEW m \in Msg, Route!WakeFails(m) PROVE SendsTyped'
    BY <1>0, <1>8 DEF Route!WakeFails, Route!Reply, SendsTyped, Route!Answers
  <1>9. ASSUME NEW m \in Msg, Route!WakeLost(m) PROVE SendsTyped'
    BY <1>0, <1>9 DEF Route!WakeLost, Route!TryLive, Route!Reply, Route!hostVars, SendsTyped, Route!Answers
  <1>10. CASE Route!Paste
    BY <1>0, <1>10 DEF Route!Paste, Route!sendVars, SendsTyped, Route!Answers
  <1>11. CASE Route!Settle
    BY <1>0, <1>11 DEF Route!Settle, Route!Outcomes, Route!Reply, Route!hostVars, SendsTyped, Route!Answers
  <1>12. CASE Route!DrainEmpty \/ Route!DrainLeft \/ Route!DrainWait
    BY <1>0, <1>12 DEF Route!DrainEmpty, Route!DrainLeft, Route!DrainWait, Route!hostVars, Route!sendVars, Route!DrainAt,
       SendsTyped, Route!Answers
  <1>13. CASE Route!DrainAsk
    BY <1>0, <1>13 DEF Route!DrainAsk, Route!hostVars, Route!sendVars, Route!DrainAt, SendsTyped, Route!Answers
  <1>14. CASE Route!DrainStale
    BY <1>0, <1>14 DEF Route!DrainStale, Route!hostVars, Route!DrainAt, SendsTyped, Route!Answers
  <1>15. CASE Route!DrainCommit
    BY <1>0, <1>15 DEF Route!DrainCommit, Route!hostVars, Route!DrainAt, Route!Commit, SendsTyped, Route!Answers
  <1>16. CASE Route!DrainForce
    BY <1>0, <1>16 DEF Route!DrainForce, Route!hostVars, Route!DrainAt, Route!Commit, SendsTyped, Route!Answers
  <1>17. CASE Route!DrainNotify
    BY <1>0, <1>17 DEF Route!DrainNotify, Route!hostVars, Route!sendVars, Route!DrainAt, SendsTyped, Route!Answers
  <1>18. CASE Route!Close
    BY <1>0, <1>18 DEF Route!Close, Route!hostVars, Route!sendVars, SendsTyped, Route!Answers
  <1>19. ASSUME NEW m \in Msg, Route!FailOne(m) PROVE SendsTyped'
    BY <1>0, <1>19 DEF Route!FailOne, Route!hostVars, Route!sendVars, SendsTyped, Route!Answers
  <1>20. CASE Route!Exit
    BY <1>0, <1>20 DEF Route!Exit, Route!hostVars, SendsTyped, Route!Answers
  <1>21. CASE UNCHANGED Route!vars
    BY <1>0, <1>21 DEF Route!vars, SendsTyped, Route!Answers
  <1> QED BY <1>1, <1>2, <1>3, <1>4, <1>5, <1>6, <1>7, <1>8, <1>9, <1>10, <1>11, <1>12, <1>13, <1>14,
     <1>15, <1>16, <1>17, <1>18, <1>19, <1>20, <1>21 DEF Route!Next, Route!Delivery, Route!DrainStep

LEMMA SessionTypeNext ==
  ASSUME Route!RoutingAssumption, RoutingTypes, [Route!Next]_Route!vars
  PROVE  RoutingSessionTyped'
  <1>0. RoutingSessionTyped /\ MaxGen \in Nat /\ QueuesTyped
    BY DEF RoutingTypes, Route!RoutingAssumption
  <1>1. CASE Route!Start \/ Route!Die \/ Route!Type
    <2>1. host.gen \in 0 .. MaxGen /\ host.gen < MaxGen => host.gen + 1 \in 0 .. MaxGen
      BY <1>0
    <2>2. CASE Route!Start
      BY <1>0, <2>1, <2>2 DEF Route!Start, RoutingSessionTyped
    <2>3. CASE Route!Die \/ Route!Type
      BY <1>0, <2>3 DEF Route!Die, Route!Type, RoutingSessionTyped
    <2> QED BY <1>1, <2>2, <2>3
  <1>2. ASSUME NEW m \in Msg, Route!Land(m) PROVE RoutingSessionTyped'
    BY <1>0, <1>2 DEF Route!Land, RoutingSessionTyped
  <1>3. ASSUME NEW m \in Msg, Route!Route(m) PROVE RoutingSessionTyped'
    BY <1>0, <1>3 DEF Route!Route, Route!hostVars, RoutingSessionTyped
  <1>4. ASSUME NEW m \in Msg, Route!GateOpen(m) PROVE RoutingSessionTyped'
    BY <1>0, <1>4 DEF Route!GateOpen, Route!hostVars, RoutingSessionTyped
  <1>5. ASSUME NEW m \in Msg, Route!Enqueue(m) PROVE RoutingSessionTyped'
    BY <1>0, <1>5 DEF Route!Enqueue, Route!hostVars, RoutingSessionTyped
  <1>6. ASSUME NEW m \in Msg, Route!EnqueueRefused(m) \/ Route!Verify(m) PROVE RoutingSessionTyped'
    BY <1>0, <1>6 DEF Route!EnqueueRefused, Route!Verify, Route!hostVars, RoutingSessionTyped
  <1>7. ASSUME NEW m \in Msg, Route!WakeBoot(m) \/ Route!BootReady(m) PROVE RoutingSessionTyped'
    <2>1. host.gen \in 0 .. MaxGen /\ host.gen < MaxGen => host.gen + 1 \in 0 .. MaxGen
      BY <1>0
    <2>2. CASE Route!WakeBoot(m)
      BY <1>0, <2>1, <2>2 DEF Route!WakeBoot, RoutingSessionTyped
    <2>3. CASE Route!BootReady(m)
      <3>1. host' = [host EXCEPT !.up = "ready"] /\ pasted' = [pasted EXCEPT ![m] = host.gen] /\ token' = token
        BY <2>3 DEF Route!BootReady
      <3>2. host.gen \in 0 .. MaxGen
        BY <1>0 DEF RoutingSessionTyped
      <3> QED BY <1>0, <3>1, <3>2 DEF RoutingSessionTyped
    <2> QED BY <1>7, <2>2, <2>3
  <1>8. ASSUME NEW m \in Msg, Route!WakeFails(m) PROVE RoutingSessionTyped'
    BY <1>0, <1>8 DEF Route!WakeFails, RoutingSessionTyped
  <1>9. ASSUME NEW m \in Msg, Route!WakeLost(m) PROVE RoutingSessionTyped'
    BY <1>0, <1>9 DEF Route!WakeLost, Route!hostVars, RoutingSessionTyped
  <1>10. CASE Route!Paste
    BY <1>0, <1>10 DEF Route!Paste, RoutingSessionTyped
  <1>11. CASE Route!Settle
    BY <1>0, <1>11 DEF Route!Settle, Route!hostVars, RoutingSessionTyped
  <1>12. CASE Route!DrainEmpty \/ Route!DrainLeft \/ Route!DrainWait
    BY <1>0, <1>12 DEF Route!DrainEmpty, Route!DrainLeft, Route!DrainWait, Route!hostVars, RoutingSessionTyped
  <1>13. CASE Route!DrainAsk
    BY <1>0, <1>13 DEF Route!DrainAsk, Route!hostVars, RoutingSessionTyped
  <1>14. CASE Route!DrainStale
    BY <1>0, <1>14 DEF Route!DrainStale, Route!hostVars, RoutingSessionTyped
  <1>15. CASE Route!DrainCommit
    BY <1>0, <1>15 DEF Route!DrainCommit, Route!hostVars, Route!Commit, RoutingSessionTyped
  <1>16. CASE Route!DrainForce
    BY <1>0, <1>16 DEF Route!DrainForce, Route!hostVars, Route!Commit, RoutingSessionTyped
  <1>17. CASE Route!DrainNotify
    BY <1>0, <1>17 DEF Route!DrainNotify, Route!hostVars, RoutingSessionTyped
  <1>18. CASE Route!Close
    BY <1>0, <1>18 DEF Route!Close, Route!hostVars, RoutingSessionTyped
  <1>19. ASSUME NEW m \in Msg, Route!FailOne(m) PROVE RoutingSessionTyped'
    BY <1>0, <1>19 DEF Route!FailOne, Route!hostVars, RoutingSessionTyped
  <1>20. CASE Route!Exit
    BY <1>0, <1>20 DEF Route!Exit, Route!hostVars, RoutingSessionTyped
  <1>21. CASE UNCHANGED Route!vars
    BY <1>0, <1>21 DEF Route!vars, RoutingSessionTyped
  <1> QED BY <1>1, <1>2, <1>3, <1>4, <1>5, <1>6, <1>7, <1>8, <1>9, <1>10, <1>11, <1>12, <1>13, <1>14,
     <1>15, <1>16, <1>17, <1>18, <1>19, <1>20, <1>21 DEF Route!Next, Route!Delivery, Route!DrainStep

LEMMA ClosingTypeNext ==
  ASSUME Route!RoutingAssumption, RoutingTypes, [Route!Next]_Route!vars
  PROVE  ClosingTyped'
  <1>0. ClosingTyped /\ Route!Range(queue) \subseteq Msg /\ (drain.at = "notify" => drain.job \in Msg)
    BY Ends DEF RoutingTypes, QueuesTyped, DrainTyped
  <1>1. CASE Route!Start \/ Route!Die \/ Route!Type
    BY <1>0, <1>1 DEF Route!Start, Route!Die, Route!Type, ClosingTyped
  <1>2. ASSUME NEW m \in Msg, Route!Land(m) PROVE ClosingTyped'
    BY <1>0, <1>2 DEF Route!Land, ClosingTyped
  <1>3. ASSUME NEW m \in Msg, Route!Route(m) PROVE ClosingTyped'
    BY <1>0, <1>3 DEF Route!Route, ClosingTyped
  <1>4. ASSUME NEW m \in Msg, Route!GateOpen(m) PROVE ClosingTyped'
    BY <1>0, <1>4 DEF Route!GateOpen, ClosingTyped
  <1>5. ASSUME NEW m \in Msg, Route!Enqueue(m) PROVE ClosingTyped'
    BY <1>0, <1>5 DEF Route!Enqueue, ClosingTyped
  <1>6. ASSUME NEW m \in Msg, Route!EnqueueRefused(m) \/ Route!Verify(m) PROVE ClosingTyped'
    BY <1>0, <1>6 DEF Route!EnqueueRefused, Route!Verify, ClosingTyped
  <1>7. ASSUME NEW m \in Msg, Route!WakeBoot(m) \/ Route!BootReady(m) PROVE ClosingTyped'
    BY <1>0, <1>7 DEF Route!WakeBoot, Route!BootReady, ClosingTyped
  <1>8. ASSUME NEW m \in Msg, Route!WakeFails(m) PROVE ClosingTyped'
    BY <1>0, <1>8 DEF Route!WakeFails, ClosingTyped
  <1>9. ASSUME NEW m \in Msg, Route!WakeLost(m) PROVE ClosingTyped'
    BY <1>0, <1>9 DEF Route!WakeLost, ClosingTyped
  <1>10. CASE Route!Paste
    BY <1>0, <1>10 DEF Route!Paste, ClosingTyped
  <1>11. CASE Route!Settle
    BY <1>0, <1>11 DEF Route!Settle, ClosingTyped
  <1>12. CASE Route!DrainEmpty \/ Route!DrainLeft \/ Route!DrainWait
    BY <1>0, <1>12 DEF Route!DrainEmpty, Route!DrainLeft, Route!DrainWait, Route!DrainAt, ClosingTyped
  <1>13. CASE Route!DrainAsk
    BY <1>0, <1>13 DEF Route!DrainAsk, Route!DrainAt, ClosingTyped
  <1>14. CASE Route!DrainStale
    BY <1>0, <1>14 DEF Route!DrainStale, Route!DrainAt, ClosingTyped
  <1>15. CASE Route!DrainCommit
    BY <1>0, <1>15 DEF Route!DrainCommit, Route!DrainAt, Route!Commit, ClosingTyped
  <1>16. CASE Route!DrainForce
    BY <1>0, <1>16 DEF Route!DrainForce, Route!DrainAt, Route!Commit, ClosingTyped
  <1>17. CASE Route!DrainNotify
    BY <1>0, <1>17 DEF Route!DrainNotify, Route!DrainAt, ClosingTyped
  <1>18. CASE Route!Close
    BY <1>0, <1>18 DEF Route!Close, ClosingTyped
  <1>19. ASSUME NEW m \in Msg, Route!FailOne(m) PROVE ClosingTyped'
    BY <1>0, <1>19 DEF Route!FailOne, ClosingTyped
  <1>20. CASE Route!Exit
    BY <1>0, <1>20 DEF Route!Exit, ClosingTyped
  <1>21. CASE UNCHANGED Route!vars
    BY <1>0, <1>21 DEF Route!vars, ClosingTyped
  <1> QED BY <1>1, <1>2, <1>3, <1>4, <1>5, <1>6, <1>7, <1>8, <1>9, <1>10, <1>11, <1>12, <1>13, <1>14,
     <1>15, <1>16, <1>17, <1>18, <1>19, <1>20, <1>21 DEF Route!Next, Route!Delivery, Route!DrainStep

(* A message goes into the chain behind those that are there. *)
LEMMA ChainAppends ==
  ASSUME RoutingTypes, NEW m \in Msg, tail' = Append(tail, m), pc' = [pc EXCEPT ![m] = "tail"], UNCHANGED path,
         IF path[m] = "queued" THEN drain.at # "deliver" /\ drain'.at = "deliver"
         ELSE drain.at = "deliver" => drain'.at = "deliver"
  PROVE  Chain'
  <1>1. /\ DOMAIN tail = 1 .. Len(tail) /\ Len(tail) \in Nat /\ DOMAIN tail' = 1 .. Len(tail) + 1
        /\ tail'[Len(tail) + 1] = m /\ \A i \in DOMAIN tail : tail'[i] = tail[i] /\ tail[i] \in Msg
    BY DEF RoutingTypes, QueuesTyped
  <1>2. \A x \in Msg : pc'[x] = IF x = m THEN "tail" ELSE pc[x]
    BY DEF RoutingTypes, SendsTyped
  <1>3. \A i \in DOMAIN tail' : i \in DOMAIN tail \/ i = Len(tail) + 1
    BY <1>1
  <1> QED BY <1>1, <1>2, <1>3 DEF RoutingTypes, Chain, Queued

(* A step that leaves the chain: no message in it becomes a queued one. *)
LEMMA ChainStays ==
  ASSUME RoutingTypes, UNCHANGED tail, drain.at = "deliver" => drain'.at = "deliver",
         \A m \in Msg : \/ pc'[m] \in {pc[m], "tail", "done"} /\ path'[m] = path[m]
                        \/ pc[m] \notin {"tail", "done"} /\ (path'[m] = "queued" => pc'[m] \in {"queued", "tail", "done"})
  PROVE  Chain'
  <1>1. \A i \in DOMAIN tail : tail[i] \in Msg
    BY DEF RoutingTypes, QueuesTyped
  <1> QED BY <1>1 DEF RoutingTypes, Chain, Queued

LEMMA ChainTypeNext ==
  ASSUME Route!RoutingAssumption, RoutingTypes, [Route!Next]_Route!vars
  PROVE  Chain'
  <1>0. /\ SendsTyped /\ DrainTyped /\ Chain
        /\ \A m \in Msg : path[m] = "queued" => pc[m] \in {"queued", "tail", "done"}
        /\ queue # <<>> => Head(queue) \in Msg
    BY Ends DEF RoutingTypes, QueuesTyped, Chain
  <1>1. CASE Route!Start \/ Route!Die \/ Route!Type \/ Route!Paste
    BY <1>0, <1>1, ChainStays DEF Route!Start, Route!Die, Route!Type, Route!Paste, Route!sendVars, SendsTyped, DrainTyped
  <1>2. ASSUME NEW m \in Msg, Route!Land(m) \/ Route!FailOne(m) PROVE Chain'
    BY <1>0, <1>2, ChainStays DEF Route!Land, Route!FailOne, Route!hostVars, Route!sendVars, SendsTyped, DrainTyped
  <1>3. ASSUME NEW m \in Msg, Route!Route(m) PROVE Chain'
    BY <1>0, <1>3, ChainStays DEF Route!Route, Route!TryLive, Route!Reply, Route!hostVars, SendsTyped, DrainTyped
  <1>4. ASSUME NEW m \in Msg, Route!GateOpen(m) PROVE Chain'
    BY <1>0, <1>4, ChainAppends DEF Route!GateOpen, Route!hostVars
  <1>5. ASSUME NEW m \in Msg, Route!Enqueue(m) PROVE Chain'
    BY <1>0, <1>5, ChainStays DEF Route!Enqueue, Route!hostVars, Route!Kick, SendsTyped, DrainTyped
  <1>6. ASSUME NEW m \in Msg, Route!EnqueueRefused(m) \/ Route!Verify(m) PROVE Chain'
    BY <1>0, <1>6, ChainStays DEF Route!EnqueueRefused, Route!Verify, Route!hostVars, Route!Reply, SendsTyped,
       DrainTyped
  <1>7. ASSUME NEW m \in Msg, Route!WakeBoot(m) \/ Route!BootReady(m) PROVE Chain'
    BY <1>0, <1>7, ChainStays DEF Route!WakeBoot, Route!BootReady, SendsTyped, DrainTyped
  <1>8. ASSUME NEW m \in Msg, Route!WakeFails(m) PROVE Chain'
    BY <1>0, <1>8, ChainStays DEF Route!WakeFails, Route!Reply, SendsTyped, DrainTyped
  <1>9. ASSUME NEW m \in Msg, Route!WakeLost(m) PROVE Chain'
    BY <1>0, <1>9, ChainStays DEF Route!WakeLost, Route!TryLive, Route!Reply, Route!hostVars, SendsTyped, DrainTyped
  <1>10. CASE Route!Settle
    <2> DEFINE m == Head(tail)
    <2>1. /\ tail # <<>> /\ tail' = Tail(tail) /\ path' = path /\ pc' = [pc EXCEPT ![m] = "done"]
          /\ path[m] # "queued" => drain' = drain
      BY <1>10 DEF Route!Settle, Route!Reply
    <2>2. /\ DOMAIN tail = 1 .. Len(tail) /\ Len(tail) \in Nat /\ DOMAIN tail' = 1 .. Len(tail) - 1
          /\ m = tail[1] /\ \A i \in DOMAIN tail' : tail'[i] = tail[i + 1] /\ tail[i + 1] \in Msg
      BY <2>1 DEF RoutingTypes, QueuesTyped
    <2> HIDE DEF m
    <2>3. /\ 1 \in DOMAIN tail
          /\ \A i \in DOMAIN tail' : i + 1 \in DOMAIN tail /\ i + 1 # 1
          /\ \A i, j \in DOMAIN tail' : i + 1 = j + 1 => i = j
      BY <2>1, <2>2 DEF RoutingTypes, QueuesTyped
    <2>4. \A x \in Msg : pc'[x] \in {pc[x], "done"}
      BY <2>1 DEF RoutingTypes, SendsTyped
    <2>5. path[m] = "queued" => \A i \in DOMAIN tail' : path'[tail'[i]] # "queued"
      BY <2>1, <2>2, <2>3 DEF RoutingTypes, Chain, Queued
    <2> QED BY <1>0, <2>1, <2>2, <2>3, <2>4, <2>5 DEF Chain, Queued
  <1>11. CASE Route!DrainEmpty \/ Route!DrainLeft \/ Route!DrainWait \/ Route!DrainAsk \/ Route!DrainNotify
    BY <1>0, <1>11, ChainStays DEF Route!DrainEmpty, Route!DrainLeft, Route!DrainWait, Route!DrainAsk, Route!DrainNotify,
       Route!hostVars, Route!sendVars, Route!DrainAt, SendsTyped, DrainTyped
  <1>12. CASE Route!DrainStale
    BY <1>0, <1>12, ChainStays DEF Route!DrainStale, Route!hostVars, Route!DrainAt, SendsTyped, DrainTyped
  <1>13. CASE Route!DrainCommit
    BY <1>0, <1>13, ChainAppends DEF Route!DrainCommit, Route!hostVars, Route!DrainAt, Route!Commit, DrainTyped
  <1>14. CASE Route!DrainForce
    BY <1>0, <1>14, ChainAppends DEF Route!DrainForce, Route!hostVars, Route!DrainAt, Route!Commit
  <1>15. CASE Route!Close
    BY <1>0, <1>15, ChainStays DEF Route!Close, Route!hostVars, Route!sendVars, SendsTyped, DrainTyped
  <1>16. CASE Route!Exit
    BY <1>0, <1>16, ChainStays DEF Route!Exit, Route!hostVars, SendsTyped, DrainTyped
  <1>17. CASE UNCHANGED Route!vars
    BY <1>0, <1>17, ChainStays DEF Route!vars, SendsTyped, DrainTyped
  <1> QED BY <1>1, <1>2, <1>3, <1>4, <1>5, <1>6, <1>7, <1>8, <1>9, <1>10, <1>11, <1>12, <1>13, <1>14,
     <1>15, <1>16, <1>17 DEF Route!Next, Route!Delivery, Route!DrainStep

LEMMA RoutingTypeNext == ASSUME Route!RoutingAssumption, RoutingTypes, [Route!Next]_Route!vars PROVE RoutingTypes'
  BY QueuesTypeNext, DrainTypeNext, SendsTypeNext, SessionTypeNext, ClosingTypeNext, ChainTypeNext DEF RoutingTypes

LEMMA RoutingSafe == ASSUME RoutingInv PROVE Route!QueuedHasAFate
  BY DEF RoutingInv, Open, Fated, Route!QueuedHasAFate

(* A message whose sender was answered "queued" is never dropped: while the       *)
(* daemon is open it is queued, on its way, delivered, or its sender was told     *)
(* (transport/index.ts, tryEnqueue and the drain loop).                         *)
THEOREM QueuedIsKept == ASSUME Route!RoutingAssumption PROVE Route!Spec => []Route!QueuedHasAFate
  <1>1. Route!Init => RoutingInv
    BY RoutingInit
  <1>2. RoutingInv /\ [Route!Next]_Route!vars => RoutingInv'
    BY RoutingNext
  <1>3. RoutingInv => Route!QueuedHasAFate
    BY RoutingSafe
  <1> QED BY <1>1, <1>2, <1>3, PTL DEF Route!Spec

-----------------------------------------------------------------------------
(* No stall of the thread a peer is on is missed, for any threads, folders     *)
(* and number of failed reads.  A window overlaps the one before it, so what   *)
(* the sweep under way has not told yet it has in hand; and a thread that      *)
(* stalls is its folder's latest, so it was excused when another became it.   *)
GoalRow == [thread : Thread, status : Stall, at : Nat]
GoalTyped ==
  /\ now \in Nat /\ since \in 1 .. now
  /\ row \in [Thread -> [status : Stall \cup {"active"}, at : Nat]]
  /\ latest \in [Goal!Cwd -> SUBSET Thread]
  /\ sweep \in [step : {"idle", "cwds", "current"}, began : Nat, found : SUBSET GoalRow,
                known : SUBSET GoalRow]

Waits(t) == row[t].status # "active"

(* Every stall is on record, and one whose thread is not the latest is excused. *)
OnRecord ==
  \A t \in Thread : Waits(t) =>
    /\ <<t, row[t].at>> \in stalls
    /\ t \notin latest[CwdOf[t]] => <<t, row[t].at>> \in excused

(* The sweep under way has read each stall since the last one began. *)
Read ==
  sweep.step # "idle" =>
    /\ sweep.began \in 1 .. now
    /\ \A t \in Thread : Waits(t) /\ since <= row[t].at /\ row[t].at < sweep.began =>
         \E g \in sweep.found : /\ g.thread = t /\ g.at = row[t].at
                                /\ CwdOf[t] \in PeerCwd /\ sweep.step = "current" => g \in sweep.known

GoalInv == GoalTyped /\ OnRecord /\ Read /\ Goal!NoStallMissed

LEMMA GoalInit == ASSUME Goal!Init PROVE GoalInv
  BY DEF Goal!Init, GoalInv, GoalTyped, OnRecord, Read, Goal!NoStallMissed, Goal!NoSweep, Waits

LEMMA CwdTyped == ASSUME GoalTyped, NEW t \in Thread PROVE CwdOf[t] \in Goal!Cwd /\ latest[CwdOf[t]] \subseteq Thread
  BY DEF GoalTyped, Goal!Cwd

LEMMA UseKeeps == ASSUME GoalInv, NEW u \in Thread, Goal!Use(u) PROVE GoalInv'
  <1>1. GoalTyped'
    BY CwdTyped DEF GoalInv, GoalTyped, Goal!Use
  <1>2. \A t \in Thread : latest'[CwdOf[t]] = IF CwdOf[t] = CwdOf[u] THEN {u} ELSE latest[CwdOf[t]]
    BY CwdTyped DEF GoalInv, GoalTyped, Goal!Use
  <1>3. OnRecord'
    <2> SUFFICES ASSUME NEW t \in Thread, Waits(t) PROVE
                 t \notin latest'[CwdOf[t]] => <<t, row[t].at>> \in excused'
      BY DEF OnRecord, Waits, GoalInv, Goal!Use
    <2>1. <<t, row[t].at>> \in stalls
      BY DEF OnRecord, GoalInv
    <2> QED BY <1>2, <2>1 DEF OnRecord, GoalInv, Goal!Use
  <1>4. Read'
    BY DEF Read, GoalInv, Goal!Use, Waits
  <1>5. Goal!NoStallMissed'
    BY <1>2 DEF Goal!NoStallMissed, OnRecord, GoalInv, Goal!Use, Waits
  <1> QED BY <1>1, <1>3, <1>4, <1>5 DEF GoalInv

(* codex writes a row: at the present moment, so after the sweep began. *)
LEMMA RowKeeps ==
  ASSUME GoalInv, NEW u \in Thread, Goal!StallGoal(u) \/ Goal!Resume(u) PROVE GoalInv'
  <1>1. PICK s \in Stall \cup {"active"} :
           /\ row' = [row EXCEPT ![u] = [status |-> s, at |-> now]]
           /\ s # "active" => u \in latest[CwdOf[u]] /\ stalls' = stalls \cup {<<u, now>>}
           /\ stalls \subseteq stalls'
    BY DEF Goal!StallGoal, Goal!Resume
  <1>2. /\ UNCHANGED <<now, latest, since, sweep, heard, excused>>
        /\ \A t \in Thread : t # u => row'[t] = row[t]
        /\ row'[u] = [status |-> s, at |-> now]
    BY <1>1 DEF Goal!StallGoal, Goal!Resume, GoalInv, GoalTyped
  <1>3. GoalTyped'
    BY <1>1, <1>2 DEF GoalInv, GoalTyped
  <1>4. OnRecord'
    BY <1>1, <1>2 DEF GoalInv, OnRecord, Waits
  <1>5. Read'
    BY <1>2 DEF GoalInv, GoalTyped, Read, Waits
  <1> QED BY <1>2, <1>3, <1>4, <1>5 DEF GoalInv, Goal!NoStallMissed, GoalTyped

(* The first read finds every stall since the last sweep began. *)
LEMMA ReadsAll ==
  ASSUME Goal!GoalWatchAssumption, GoalInv, NEW t \in Thread, Waits(t), since <= row[t].at
  PROVE  [thread |-> t, status |-> row[t].status, at |-> row[t].at] \in Goal!Stalled
  <1>1. Goal!Floor \in Nat /\ Goal!Floor < since
    BY DEF Goal!Floor, Goal!GoalWatchAssumption, GoalInv, GoalTyped
  <1> QED BY <1>1 DEF Goal!Stalled, Waits, GoalInv, GoalTyped

LEMMA StalledTyped == ASSUME GoalInv PROVE Goal!Stalled \subseteq GoalRow
  BY DEF Goal!Stalled, GoalRow, GoalInv, GoalTyped

(* The window is over: all of it was told, or is excused. *)
LEMMA FinishKeeps ==
  ASSUME GoalInv, NEW began \in 1 .. now, Goal!Finish(began), UNCHANGED <<now, row, latest, stalls>>,
         heard \subseteq heard',
         \A t \in Thread : Waits(t) /\ <<t, row[t].at>> \in excused => <<t, row[t].at>> \in excused',
         \A t \in Thread :
           Waits(t) /\ since <= row[t].at /\ row[t].at < began /\ CwdOf[t] \in PeerCwd
                    /\ t \in latest[CwdOf[t]] => <<t, row[t].at>> \in heard' \cup excused'
  PROVE  GoalInv'
  <1>1. since' = began /\ sweep' = Goal!NoSweep
    BY DEF Goal!Finish, Goal!NextSince
  <1>2. GoalTyped' /\ OnRecord' /\ Read'
    BY <1>1 DEF GoalInv, GoalTyped, OnRecord, Read, Goal!NoSweep, Waits
  <1>3. Goal!NoStallMissed'
    <2> SUFFICES ASSUME NEW t \in Thread, Waits(t), row[t].at < began, CwdOf[t] \in PeerCwd,
                        t \in latest[CwdOf[t]]
                 PROVE  <<t, row[t].at>> \in heard' \cup excused'
      BY <1>1 DEF Goal!NoStallMissed, Waits, GoalInv, GoalTyped
    <2>1. CASE since <= row[t].at
      BY <2>1
    <2>2. CASE row[t].at < since
      BY <2>2 DEF GoalInv, GoalTyped, Goal!NoStallMissed, Waits
    <2> QED BY <2>1, <2>2 DEF GoalInv, GoalTyped
  <1> QED BY <1>2, <1>3 DEF GoalInv

LEMMA ReadGoalsKeeps == ASSUME Goal!GoalWatchAssumption, GoalInv, Goal!ReadGoals PROVE GoalInv'
  <1>1. UNCHANGED <<now, row, latest, stalls, heard, excused>>
    BY DEF Goal!ReadGoals, Goal!db
  <1>2. CASE Goal!Stalled = {}
    <2>1. Goal!Finish(now) /\ now \in 1 .. now
      BY <1>2 DEF Goal!ReadGoals, GoalInv, GoalTyped
    <2> QED BY <1>1, <1>2, <2>1, ReadsAll, FinishKeeps
  <1>3. CASE Goal!Stalled # {}
    <2>1. /\ sweep' = [step |-> "cwds", began |-> now, found |-> Goal!Stalled, known |-> {}]
          /\ since' = since
      BY <1>3 DEF Goal!ReadGoals
    <2>2. GoalTyped'
      BY <1>1, <2>1, StalledTyped DEF GoalInv, GoalTyped
    <2>3. Read'
      <3> SUFFICES ASSUME NEW t \in Thread, Waits(t), since <= row[t].at
                   PROVE  \E g \in Goal!Stalled : g.thread = t /\ g.at = row[t].at
        BY <1>1, <2>1 DEF Read, Waits, GoalInv, GoalTyped
      <3> QED BY ReadsAll
    <2> QED BY <1>1, <2>1, <2>2, <2>3 DEF GoalInv, OnRecord, Goal!NoStallMissed, Waits
  <1> QED BY <1>2, <1>3

LEMMA ReadCwdsKeeps == ASSUME GoalInv, Goal!ReadCwds PROVE GoalInv'
  <1>1. /\ UNCHANGED <<now, row, latest, stalls, since, heard, excused>>
        /\ sweep.step = "cwds"
        /\ sweep' = [sweep EXCEPT !.step = "current",
                                  !.known = {g \in sweep.found : CwdOf[g.thread] \in PeerCwd}]
    BY DEF Goal!ReadCwds, Goal!db
  <1>2. /\ sweep'.step = "current" /\ sweep'.began = sweep.began /\ sweep'.found = sweep.found
        /\ sweep'.known = {g \in sweep.found : CwdOf[g.thread] \in PeerCwd}
    BY <1>1 DEF GoalInv, GoalTyped
  <1>3. GoalTyped'
    BY <1>1 DEF GoalInv, GoalTyped
  <1>4. Read'
    BY <1>1, <1>2 DEF GoalInv, Read, Waits
  <1> QED BY <1>1, <1>3, <1>4 DEF GoalInv, OnRecord, Goal!NoStallMissed, Waits

(* What it told: all that it had in hand of a thread that is the latest. *)
LEMMA ReadCurrentKeeps == ASSUME GoalInv, Goal!ReadCurrent PROVE GoalInv'
  <1>1. /\ sweep.step = "current" /\ Goal!Finish(sweep.began)
        /\ UNCHANGED <<now, row, latest, stalls, excused>>
        /\ heard' = heard \cup {<<g.thread, g.at>> : g \in {h \in sweep.known : Goal!Current(h)}}
    BY DEF Goal!ReadCurrent, Goal!db
  <1>2. ASSUME NEW t \in Thread, Waits(t), since <= row[t].at, row[t].at < sweep.began,
               CwdOf[t] \in PeerCwd, t \in latest[CwdOf[t]]
        PROVE  <<t, row[t].at>> \in heard'
    BY <1>1, <1>2 DEF GoalInv, Read, Goal!Current
  <1>3. sweep.began \in 1 .. now
    BY <1>1 DEF GoalInv, Read
  <1> QED BY <1>1, <1>2, <1>3, FinishKeeps

LEMMA FaultKeeps == ASSUME GoalInv, Goal!ReadFails \/ Goal!RestartDaemon PROVE GoalInv'
  <1>1. UNCHANGED <<now, row, latest, stalls, heard>> /\ excused' = stalls
    BY DEF Goal!ReadFails, Goal!RestartDaemon, Goal!db
  <1>2. PICK began \in 1 .. now : Goal!Finish(began)
    BY DEF Goal!ReadFails, Goal!RestartDaemon, Goal!Finish, Goal!NextSince, GoalInv, GoalTyped, Read
  <1>3. \A t \in Thread : Waits(t) => <<t, row[t].at>> \in excused'
    BY <1>1 DEF GoalInv, OnRecord
  <1> QED BY <1>1, <1>2, <1>3, FinishKeeps

LEMMA GoalNext == ASSUME Goal!GoalWatchAssumption, GoalInv, [Goal!Next]_Goal!vars PROVE GoalInv'
  <1>1. CASE UNCHANGED Goal!vars
    BY <1>1 DEF Goal!vars, GoalInv, GoalTyped, OnRecord, Read, Goal!NoStallMissed, Waits
  <1>2. CASE Goal!Clock
    BY <1>2 DEF Goal!Clock, GoalInv, GoalTyped, OnRecord, Read, Goal!NoStallMissed, Waits, Goal!GoalWatchAssumption
  <1> QED BY <1>1, <1>2, UseKeeps, RowKeeps, ReadGoalsKeeps, ReadCwdsKeeps, ReadCurrentKeeps, FaultKeeps
          DEF Goal!Next, Goal!Sweep

(* The values of the variables.  What the sweep has in hand is a finite part of    *)
(* the stalls there were, so that its notices can be raised one after the other.   *)
TimesTyped ==
  /\ now \in 1 .. MaxTime /\ since \in 1 .. MaxTime /\ faults \in 0 .. MaxFault
  /\ row \in [Thread -> Goal!Rows]
StallsTyped == heard \subseteq stalls /\ excused \subseteq stalls /\ stalls \subseteq Thread \X (1 .. MaxTime)
FoundRows == {[thread |-> t, status |-> s, at |-> x] : t \in Thread, s \in Stall, x \in 0 .. MaxTime}
FoundTyped ==
  /\ sweep.began \in 0 .. MaxTime /\ sweep.found \subseteq FoundRows /\ sweep.known \subseteq sweep.found
  /\ IsFiniteSet(sweep.found)
  /\ \A g \in sweep.found : <<g.thread, g.at>> \in stalls
LiveNotice == [count : Nat, expires : Nat, event : 0 .. MaxTime]
Boards == [Stall -> LiveNotice]

GoalTypes == TimesTyped /\ StallsTyped /\ FoundTyped /\ board \in Boards

(* Finite and how many mean here what they mean in the module. *)
LEMMA GoalCounts == ASSUME NEW S PROVE (Goal!IsFiniteSet(S) <=> IsFiniteSet(S)) /\ Goal!Cardinality(S) = Cardinality(S)
  BY DEF Goal!IsFiniteSet, IsFiniteSet, Goal!Cardinality, Cardinality

LEMMA GoalIsTyped == ASSUME GoalInv, GoalTypes PROVE Goal!TypeOK
  BY DEF GoalInv, GoalTyped, GoalTypes, TimesTyped, StallsTyped, FoundTyped, FoundRows, Boards, LiveNotice, Goal!TypeOK

LEMMA GoalTypeInit == ASSUME Goal!GoalWatchAssumption, Goal!Init PROVE GoalTypes
  <1>1. TimesTyped
    BY DEF Goal!GoalWatchAssumption, Goal!Init, TimesTyped, Goal!Rows
  <1>2. Goal!NoNotice \in LiveNotice
    BY DEF Goal!GoalWatchAssumption, Goal!NoNotice, LiveNotice
  <1>3. FoundTyped
    BY GoalCounts, FS_EmptySet DEF Goal!GoalWatchAssumption, Goal!Init, FoundTyped, Goal!NoSweep
  <1> QED BY <1>1, <1>2, <1>3 DEF Goal!Init, GoalTypes, StallsTyped, Boards

LEMMA TimesTypeNext ==
  ASSUME Goal!GoalWatchAssumption, GoalInv, GoalTypes, [Goal!Next]_Goal!vars
  PROVE  TimesTyped'
  <1>0. /\ TimesTyped /\ now \in 0 .. MaxTime /\ MaxTime \in Nat /\ MaxFault \in Nat
        /\ sweep.step # "idle" => sweep.began \in 1 .. MaxTime
    BY DEF GoalTypes, TimesTyped, Goal!GoalWatchAssumption, GoalInv, Read
  <1>1. ASSUME NEW t \in Thread, Goal!Use(t) PROVE TimesTyped'
    BY <1>0, <1>1 DEF Goal!Use, TimesTyped, Goal!Rows, Goal!db
  <1>2. ASSUME NEW t \in Thread, Goal!StallGoal(t) PROVE TimesTyped'
    BY <1>0, <1>2 DEF Goal!StallGoal, TimesTyped, Goal!Rows, Goal!db
  <1>3. ASSUME NEW t \in Thread, Goal!Resume(t) PROVE TimesTyped'
    BY <1>0, <1>3 DEF Goal!Resume, TimesTyped, Goal!Rows, Goal!db
  <1>4. CASE Goal!Clock
    BY <1>0, <1>4 DEF Goal!Clock, TimesTyped, Goal!Rows, Goal!db
  <1>5. CASE Goal!ReadGoals
    BY <1>0, <1>5 DEF Goal!ReadGoals, Goal!Finish, Goal!NextSince, TimesTyped, Goal!Rows, Goal!db
  <1>6. CASE Goal!ReadCwds
    BY <1>0, <1>6 DEF Goal!ReadCwds, TimesTyped, Goal!Rows, Goal!db
  <1>7. CASE Goal!ReadCurrent
    BY <1>0, <1>7 DEF Goal!ReadCurrent, Goal!Finish, Goal!NextSince, TimesTyped, Goal!Rows, Goal!db
  <1>8. CASE Goal!ReadFails
    BY <1>0, <1>8 DEF Goal!ReadFails, Goal!Finish, Goal!NextSince, TimesTyped, Goal!Rows, Goal!db
  <1>9. CASE Goal!RestartDaemon
    BY <1>0, <1>9 DEF Goal!RestartDaemon, TimesTyped, Goal!Rows, Goal!db
  <1>10. CASE UNCHANGED Goal!vars
    BY <1>0, <1>10 DEF Goal!vars, TimesTyped, Goal!Rows, Goal!db
  <1> QED BY <1>1, <1>2, <1>3, <1>4, <1>5, <1>6, <1>7, <1>8, <1>9, <1>10 DEF Goal!Next, Goal!Sweep

(* A stalled row was a stall, at its time. *)
LEMMA StalledWas ==
  ASSUME Goal!GoalWatchAssumption, GoalInv, GoalTypes
  PROVE  Goal!Stalled \subseteq FoundRows /\ \A g \in Goal!Stalled : g.thread \in Thread /\ <<g.thread, g.at>> \in stalls
  <1>1. \A u \in Thread : row[u].at \in 0 .. MaxTime
    BY DEF GoalTypes, TimesTyped, Goal!Rows
  <1>2. \A u \in Thread : row[u].status # "active" => <<u, row[u].at>> \in stalls
    BY DEF GoalInv, OnRecord, Waits
  <1>3. ASSUME NEW u \in Thread, row[u].status \in Stall
        PROVE  /\ [thread |-> u, status |-> row[u].status, at |-> row[u].at] \in FoundRows
               /\ <<u, row[u].at>> \in stalls
    BY <1>1, <1>2, <1>3 DEF FoundRows, Goal!GoalWatchAssumption
  <1>4. ASSUME NEW g \in Goal!Stalled
        PROVE  g \in FoundRows /\ g.thread \in Thread /\ <<g.thread, g.at>> \in stalls
    <2>1. PICK u \in Thread : /\ row[u].status \in Stall
                              /\ g = [thread |-> u, status |-> row[u].status, at |-> row[u].at]
      BY DEF Goal!Stalled
    <2> QED BY <1>3, <2>1
  <1> QED BY <1>4

LEMMA StallsTypeNext ==
  ASSUME Goal!GoalWatchAssumption, GoalInv, GoalTypes, [Goal!Next]_Goal!vars
  PROVE  StallsTyped'
  <1>0. /\ StallsTyped /\ now \in 1 .. MaxTime
        /\ \A g \in sweep.known : <<g.thread, g.at>> \in stalls
    BY DEF GoalTypes, TimesTyped, FoundTyped
  <1>1. ASSUME NEW t \in Thread, Goal!Use(t) PROVE StallsTyped'
    BY <1>0, <1>1 DEF Goal!Use, StallsTyped, Goal!db
  <1>2. ASSUME NEW t \in Thread, Goal!StallGoal(t) PROVE StallsTyped'
    BY <1>0, <1>2 DEF Goal!StallGoal, StallsTyped, Goal!db
  <1>3. ASSUME NEW t \in Thread, Goal!Resume(t) PROVE StallsTyped'
    BY <1>0, <1>3 DEF Goal!Resume, StallsTyped, Goal!db
  <1>4. CASE Goal!Clock
    BY <1>0, <1>4 DEF Goal!Clock, StallsTyped, Goal!db
  <1>5. CASE Goal!ReadGoals
    BY <1>0, <1>5 DEF Goal!ReadGoals, StallsTyped, Goal!db
  <1>6. CASE Goal!ReadCwds
    BY <1>0, <1>6 DEF Goal!ReadCwds, StallsTyped, Goal!db
  <1>7. CASE Goal!ReadCurrent
    BY <1>0, <1>7 DEF Goal!ReadCurrent, StallsTyped, Goal!db
  <1>8. CASE Goal!ReadFails
    BY <1>0, <1>8 DEF Goal!ReadFails, StallsTyped, Goal!db
  <1>9. CASE Goal!RestartDaemon
    BY <1>0, <1>9 DEF Goal!RestartDaemon, StallsTyped, Goal!db
  <1>10. CASE UNCHANGED Goal!vars
    BY <1>0, <1>10 DEF Goal!vars, StallsTyped, Goal!db
  <1> QED BY <1>1, <1>2, <1>3, <1>4, <1>5, <1>6, <1>7, <1>8, <1>9, <1>10 DEF Goal!Next, Goal!Sweep

LEMMA FoundFinite == ASSUME Goal!GoalWatchAssumption PROVE IsFiniteSet(Goal!Stalled)
  <1> DEFINE U == {u \in Thread : row[u].status \in Stall /\ row[u].at > Goal!Floor}
             R(t) == [thread |-> t, status |-> row[t].status, at |-> row[t].at]
  <1>1. IsFiniteSet(U)
    BY GoalCounts, FS_Subset DEF Goal!GoalWatchAssumption
  <1>2. IsFiniteSet({R(t) : t \in U})
    <2> HIDE DEF U, R
    <2> DEFINE f == [t \in U |-> R(t)]
    <2>1. f \in Surjection(U, {R(t) : t \in U})
      BY DEF Surjection
    <2> QED BY <1>1, <2>1, FS_Surjection
  <1> QED BY <1>2 DEF Goal!Stalled

LEMMA FoundTypeNext ==
  ASSUME Goal!GoalWatchAssumption, GoalInv, GoalTypes, [Goal!Next]_Goal!vars
  PROVE  FoundTyped'
  <1>0. /\ FoundTyped /\ now \in 0 .. MaxTime /\ 0 \in 0 .. MaxTime /\ IsFiniteSet({})
    BY GoalCounts, FS_EmptySet DEF GoalTypes, TimesTyped, Goal!GoalWatchAssumption
  <1>1. ASSUME NEW t \in Thread, Goal!Use(t) PROVE FoundTyped'
    BY <1>0, <1>1 DEF Goal!Use, FoundTyped, Goal!db, Goal!NoSweep
  <1>2. ASSUME NEW t \in Thread, Goal!StallGoal(t) PROVE FoundTyped'
    BY <1>0, <1>2 DEF Goal!StallGoal, FoundTyped, Goal!db, Goal!NoSweep
  <1>3. ASSUME NEW t \in Thread, Goal!Resume(t) PROVE FoundTyped'
    BY <1>0, <1>3 DEF Goal!Resume, FoundTyped, Goal!db, Goal!NoSweep
  <1>4. CASE Goal!Clock
    BY <1>0, <1>4 DEF Goal!Clock, FoundTyped, Goal!db, Goal!NoSweep
  <1>5. CASE Goal!ReadGoals
    BY <1>0, <1>5, StalledWas, FoundFinite DEF Goal!ReadGoals, Goal!Finish, FoundTyped, Goal!db, Goal!NoSweep
  <1>6. CASE Goal!ReadCwds
    BY <1>0, <1>6 DEF Goal!ReadCwds, FoundTyped, Goal!db, GoalInv, GoalTyped
  <1>7. CASE Goal!ReadCurrent
    BY <1>0, <1>7 DEF Goal!ReadCurrent, Goal!Finish, FoundTyped, Goal!db, Goal!NoSweep
  <1>8. CASE Goal!ReadFails
    BY <1>0, <1>8 DEF Goal!ReadFails, Goal!Finish, FoundTyped, Goal!db, Goal!NoSweep
  <1>9. CASE Goal!RestartDaemon
    BY <1>0, <1>9 DEF Goal!RestartDaemon, FoundTyped, Goal!db, Goal!NoSweep
  <1>10. CASE UNCHANGED Goal!vars
    BY <1>0, <1>10 DEF Goal!vars, FoundTyped, Goal!db, Goal!NoSweep
  <1> QED BY <1>1, <1>2, <1>3, <1>4, <1>5, <1>6, <1>7, <1>8, <1>9, <1>10 DEF Goal!Next, Goal!Sweep

(* NoticeBoard.raise leaves a board, whatever is raised. *)
LEMMA RaiseIs ==
  ASSUME Goal!GoalWatchAssumption, GoalTypes, NEW b \in Boards, NEW s, NEW x \in 0 .. MaxTime
  PROVE  Goal!Raise(b, s, x) \in Boards
  <1>1. CASE s \in Stall
    <2> DEFINE n == b[s]
    <2>1. n \in LiveNotice /\ now + Ttl \in Nat
      BY <1>1 DEF Boards, Goal!GoalWatchAssumption, GoalTypes, TimesTyped
    <2> HIDE DEF n
    <2>2. [count |-> 1, expires |-> now + Ttl, event |-> x] \in LiveNotice
      BY <2>1 DEF LiveNotice
    <2>3. [count |-> n.count + 1, expires |-> n.expires, event |-> x] \in LiveNotice
      BY <2>1 DEF LiveNotice
    <2> QED BY <1>1, <2>1, <2>2, <2>3 DEF Goal!Raise, Boards, n
  <1>2. CASE s \notin Stall
    BY <1>2 DEF Goal!Raise, Boards
  <1> QED BY <1>1, <1>2

LEMMA RaisedIs ==
  ASSUME Goal!GoalWatchAssumption, GoalTypes, NEW order, Len(order) \in Nat, order \in [1 .. Len(order) -> FoundRows]
  PROVE  Goal!Raised(order) \in Boards
  <1> DEFINE n == Len(order)
             R(b, i) == Goal!Raise(b, order[i].status, order[i].at)
             F == [p \in Boards \X (1 .. n) |-> R(p[1], p[2])]
             Def(g) == g = [i \in 0 .. n |-> IF i = 0 THEN board ELSE R(g[i - 1], i)]
  <1>1. n \in Nat /\ \A b \in Boards, i \in 1 .. n : R(b, i) \in Boards
    <2>1. \A i \in 1 .. n : order[i].at \in 0 .. MaxTime
      BY DEF FoundRows
    <2> QED BY <2>1, RaiseIs
  <1>2. F \in [Boards \X (1 .. n) -> Boards] /\ \A v \in Boards, i \in 1 .. n : F[<<v, i>>] = R(v, i)
    BY <1>1
  <1> HIDE DEF F, n, R
  <1>3. PICK h \in [0 .. n -> Boards] : IsFold(h, F, board, n)
    BY <1>1, <1>2, FoldExists DEF GoalTypes
  <1>4. Def(h)
    <2>1. ASSUME NEW i \in 0 .. n PROVE h[i] = IF i = 0 THEN board ELSE R(h[i - 1], i)
      <3>1. i # 0 => i - 1 \in 0 .. n /\ i \in 1 .. n
        BY <1>1
      <3> QED BY <1>2, <1>3, <3>1 DEF IsFold
    <2> QED BY <1>3, <2>1
  <1>5. PICK g : Def(g) /\ Goal!Raised(order) = g[n]
    BY <1>4 DEF Goal!Raised, n, R
  <1> DEFINE K == {k \in Nat : k <= n => g[k] \in Boards}
  <1>6. 0 \in K
    BY <1>1, <1>5 DEF GoalTypes
  <1>7. ASSUME NEW k \in Nat, k \in K PROVE k + 1 \in K
    <2>1. k + 1 <= n => k + 1 \in 0 .. n /\ k + 1 # 0 /\ k + 1 \in 1 .. n /\ (k + 1) - 1 = k /\ k <= n
      BY <1>1
    <2>2. k + 1 <= n => g[k + 1] = R(g[k], k + 1)
      BY <1>5, <2>1
    <2> QED BY <1>1, <1>7, <2>1, <2>2
  <1> HIDE DEF K
  <1>8. \A k \in Nat : k \in K
    BY <1>6, <1>7, AllNats
  <1> QED BY <1>1, <1>5, <1>8 DEF K

LEMMA BoardTypeNext ==
  ASSUME Goal!GoalWatchAssumption, GoalInv, GoalTypes, [Goal!Next]_Goal!vars
  PROVE  board' \in Boards
  <1>0. board \in Boards /\ Goal!NoNotice \in LiveNotice
    BY DEF GoalTypes, Goal!GoalWatchAssumption, Goal!NoNotice, LiveNotice
  <1>1. ASSUME NEW t \in Thread, Goal!Use(t) PROVE board' \in Boards
    BY <1>0, <1>1 DEF Goal!Use
  <1>2. ASSUME NEW t \in Thread, Goal!StallGoal(t) PROVE board' \in Boards
    BY <1>0, <1>2 DEF Goal!StallGoal
  <1>3. ASSUME NEW t \in Thread, Goal!Resume(t) PROVE board' \in Boards
    BY <1>0, <1>3 DEF Goal!Resume
  <1>4. CASE Goal!Clock
    BY <1>0, <1>4 DEF Goal!Clock
  <1>5. CASE Goal!ReadGoals
    BY <1>0, <1>5 DEF Goal!ReadGoals
  <1>6. CASE Goal!ReadCwds
    BY <1>0, <1>6 DEF Goal!ReadCwds
  <1>7. CASE Goal!ReadCurrent
    <2> DEFINE C == {g \in sweep.known : Goal!Current(g)}
    <2>1. PICK order \in Goal!SetToSeqs(C) : board' = Goal!Raised(order)
      BY <1>7 DEF Goal!ReadCurrent
    <2>2. IsFiniteSet(C) /\ C \subseteq FoundRows
      BY FS_Subset DEF GoalTypes, FoundTyped
    <2> HIDE DEF C
    <2>3. Cardinality(C) \in Nat /\ order \in [1 .. Cardinality(C) -> C]
      BY GoalCounts, <2>1, <2>2, FS_CardinalityType DEF Goal!SetToSeqs
    <2>4. Len(order) = Cardinality(C) /\ order \in [1 .. Cardinality(C) -> FoundRows]
      BY <2>2, <2>3
    <2> QED BY <2>1, <2>3, <2>4, RaisedIs
  <1>8. CASE Goal!ReadFails
    BY <1>0, <1>8 DEF Goal!ReadFails
  <1>9. CASE Goal!RestartDaemon
    BY <1>0, <1>9 DEF Goal!RestartDaemon, Boards
  <1>10. CASE UNCHANGED Goal!vars
    BY <1>0, <1>10 DEF Goal!vars
  <1> QED BY <1>1, <1>2, <1>3, <1>4, <1>5, <1>6, <1>7, <1>8, <1>9, <1>10 DEF Goal!Next, Goal!Sweep

LEMMA GoalTypeNext == ASSUME Goal!GoalWatchAssumption, GoalInv, GoalTypes, [Goal!Next]_Goal!vars PROVE GoalTypes'
  BY TimesTypeNext, StallsTypeNext, FoundTypeNext, BoardTypeNext DEF GoalTypes

LEMMA GoalSafe == ASSUME GoalInv PROVE Goal!NoStallMissed
  BY DEF GoalInv

(* A stall older than the last complete sweep, of the thread its peer is on,   *)
(* was told, unless a read failed or the daemon restarted.                    *)
THEOREM EveryStallIsTold == ASSUME Goal!GoalWatchAssumption PROVE Goal!Spec => []Goal!NoStallMissed
  <1>1. Goal!Init => GoalInv
    BY GoalInit
  <1>2. GoalInv /\ [Goal!Next]_Goal!vars => GoalInv'
    BY GoalNext
  <1>3. GoalInv => Goal!NoStallMissed
    BY GoalSafe
  <1> QED BY <1>1, <1>2, <1>3, PTL DEF Goal!Spec

-----------------------------------------------------------------------------
(* What holds of LimitPark for any number of limit events: the values of its     *)
(* variables, for any passes; and when passes never overlap, each event earns     *)
(* at most one continuation.                                                     *)
Park == [event : 0 .. MaxEvent, attempts : 0 .. Limit!LIMIT_MAX_NUDGE_ATTEMPTS]

ParkTyped == park \in Park /\ copy \in [Pass -> Park]
WorldTyped == event \in 0 .. MaxEvent /\ session \in Limit!Sessions /\ due \in BOOLEAN /\ halted \in BOOLEAN
PassTyped == at \in [Pass -> {"idle", "look", "sending", "nudged"}]
CountTyped == nudges \in [1 .. MaxEvent -> Nat]

\* A park and what a pass read of it are of an event that was; what a pass
\* goes on with is one.
OfAnEvent == /\ park.event <= event /\ (park.event = 0 => park = Limit!NoPark)
             /\ \A p \in Pass : copy[p].event <= event /\ (at[p] # "idle" => copy[p].event # 0)

LimitInv == WorldTyped /\ ParkTyped /\ PassTyped /\ CountTyped /\ OfAnEvent

LEMMA LimitIsTyped == ASSUME LimitInv PROVE Limit!TypeOK
  BY DEF LimitInv, ParkTyped, WorldTyped, PassTyped, CountTyped, Park, Limit!TypeOK

LEMMA NoParkIs == ASSUME Limit!LimitParkAssumption PROVE Limit!NoPark \in Park /\ Limit!NoPark.event = 0
  BY DEF Limit!LimitParkAssumption, Limit!NoPark, Park, Limit!LIMIT_MAX_NUDGE_ATTEMPTS

LEMMA LimitInit == ASSUME Limit!LimitParkAssumption, Limit!Init PROVE LimitInv
  <1>1. ParkTyped /\ OfAnEvent
    BY NoParkIs DEF Limit!Init, ParkTyped, OfAnEvent
  <1>2. WorldTyped
    <2>1. event \in 0 .. MaxEvent
      BY DEF Limit!Init, Limit!LimitParkAssumption
    <2> QED BY <2>1 DEF Limit!Init, WorldTyped, Limit!Sessions
  <1>3. PassTyped /\ CountTyped
    BY DEF Limit!Init, PassTyped, CountTyped
  <1> QED BY <1>1, <1>2, <1>3 DEF LimitInv

\* A step of a pass that lets go of its copy.
LEMMA DoneKeeps ==
  ASSUME Limit!LimitParkAssumption, LimitInv, NEW p \in Pass, Limit!Done(p), park' \in Park, park'.event <= event,
         park'.event = 0 => park' = Limit!NoPark,
         UNCHANGED <<event, session, due, halted, nudges>>
  PROVE  LimitInv'
  <1>1. copy' \in [Pass -> Park] /\ PassTyped'
    BY NoParkIs DEF Limit!Done, LimitInv, ParkTyped, PassTyped
  <1>2. OfAnEvent'
    <2>1. event \in Nat
      BY DEF Limit!LimitParkAssumption, LimitInv, WorldTyped
    <2> SUFFICES ASSUME NEW q \in Pass PROVE copy'[q].event <= event /\ (at'[q] # "idle" => copy'[q].event # 0)
      BY DEF OfAnEvent
    <2>2. CASE q = p
      BY <2>1, <2>2, NoParkIs DEF Limit!Done, LimitInv, ParkTyped, PassTyped
    <2>3. CASE q # p
      BY <2>3 DEF Limit!Done, LimitInv, OfAnEvent, ParkTyped, PassTyped
    <2> QED BY <2>2, <2>3
  <1> QED BY <1>1, <1>2 DEF LimitInv, WorldTyped, ParkTyped, CountTyped

\* A step of a pass that goes on with what it read.
LEMMA PassKeeps ==
  ASSUME Limit!LimitParkAssumption, LimitInv, NEW p \in Pass, NEW q \in {"look", "sending", "nudged"},
         at' = [at EXCEPT ![p] = q],
         \/ copy' = copy /\ at[p] # "idle"
         \/ copy' = [copy EXCEPT ![p] = park] /\ park.event # 0,
         session' \in Limit!Sessions, CountTyped', UNCHANGED <<event, due, halted, park>>
  PROVE  LimitInv'
  <1>1. PassTyped'
    BY DEF LimitInv, PassTyped
  <1>2. ParkTyped'
    BY DEF LimitInv, ParkTyped
  <1>3. OfAnEvent'
    BY DEF LimitInv, OfAnEvent, ParkTyped, PassTyped
  <1> QED BY <1>1, <1>2, <1>3 DEF LimitInv, WorldTyped

LEMMA PassStepKeeps == ASSUME Limit!LimitParkAssumption, LimitInv, NEW p \in Pass, Limit!PassStep(p) PROVE LimitInv'
  <1>0. event \in Nat /\ park \in Park /\ copy[p] \in Park /\ copy[p].event <= event /\ Limit!NoPark \in Park /\ Limit!NoPark.event = 0
    BY NoParkIs DEF Limit!LimitParkAssumption, LimitInv, WorldTyped, ParkTyped, OfAnEvent
  <1>1. CASE Limit!Read(p)
    BY <1>1, <1>0, PassKeeps DEF Limit!Read, Limit!world, LimitInv, WorldTyped, CountTyped, OfAnEvent
  <1>2. CASE Limit!Look(p)
    <2>1. UNCHANGED <<event, session, due, halted, nudges>>
      BY <1>2 DEF Limit!Look, Limit!world
    <2>2. CASE Limit!Done(p) /\ (UNCHANGED park \/ park' = Limit!NoPark)
      BY <1>0, <2>1, <2>2, DoneKeeps DEF LimitInv, OfAnEvent
    <2>3. CASE at' = [at EXCEPT ![p] = "sending"] /\ UNCHANGED <<copy, park>>
      BY <1>2, <2>1, <2>3, PassKeeps DEF Limit!Look, LimitInv, WorldTyped, CountTyped
    <2> QED BY <1>2, <2>2, <2>3 DEF Limit!Look, Limit!Dropped
  <1>3. CASE Limit!Nudge(p)
    <2>1. copy[p].event # 0 /\ at[p] = "sending"
      BY <1>3 DEF Limit!Nudge, LimitInv, OfAnEvent
    <2>2. copy[p].event \in 1 .. MaxEvent
      BY <1>0, <2>1 DEF Park, Limit!LimitParkAssumption
    <2>3. CountTyped'
      <3>1. nudges[copy[p].event] + 1 \in Nat
        BY <2>2 DEF LimitInv, CountTyped
      <3> QED BY <1>3, <3>1 DEF Limit!Nudge, LimitInv, CountTyped
    <2>4. session' \in Limit!Sessions
      BY <1>3 DEF Limit!Nudge, LimitInv, WorldTyped, Limit!Sessions
    <2> QED BY <1>3, <2>1, <2>3, <2>4, PassKeeps DEF Limit!Nudge
  <1>4. CASE Limit!NudgeAnswered(p)
    BY <1>0, <1>4, DoneKeeps DEF Limit!NudgeAnswered, Limit!world
  <1>5. CASE Limit!SendFails(p)
    <2>1. at[p] = "sending" /\ copy[p].event # 0 /\ copy[p].attempts \in Nat
      BY <1>0, <1>5 DEF Limit!SendFails, LimitInv, OfAnEvent, Park
    <2>2. park' = Limit!NoPark \/ (park' = [copy[p] EXCEPT !.attempts = copy[p].attempts + 1] /\ copy[p].attempts + 1 < Limit!LIMIT_MAX_NUDGE_ATTEMPTS)
      BY <1>5, <2>1 DEF Limit!SendFails, Limit!LIMIT_MAX_NUDGE_ATTEMPTS
    <2>3. park' \in Park /\ park'.event <= event /\ (park'.event = 0 => park' = Limit!NoPark)
      BY <1>0, <2>1, <2>2 DEF Park, Limit!LIMIT_MAX_NUDGE_ATTEMPTS
    <2> QED BY <1>5, <2>3, DoneKeeps DEF Limit!SendFails, Limit!world
  <1> QED BY <1>1, <1>2, <1>3, <1>4, <1>5 DEF Limit!PassStep

LEMMA LimitNext == ASSUME Limit!LimitParkAssumption, LimitInv, [Limit!Next]_Limit!vars PROVE LimitInv'
  <1>0. event \in Nat /\ MaxEvent \in Nat
    BY DEF Limit!LimitParkAssumption, LimitInv, WorldTyped
  <1>1. CASE Limit!Limited
    <2>1. WorldTyped'
      <3>1. event' \in 0 .. MaxEvent
        BY <1>0, <1>1 DEF Limit!Limited
      <3> QED BY <1>1, <3>1 DEF Limit!Limited, LimitInv, WorldTyped, Limit!Sessions
    <2>2. OfAnEvent'
      <3>1. event' = event + 1 /\ UNCHANGED <<park, at, copy>>
        BY <1>1 DEF Limit!Limited
      <3>2. park.event \in Nat /\ \A p \in Pass : copy[p].event \in Nat
        BY DEF LimitInv, ParkTyped, Park
      <3> QED BY <1>0, <3>1, <3>2 DEF LimitInv, OfAnEvent
    <2> QED BY <1>1, <2>1, <2>2 DEF Limit!Limited, LimitInv, ParkTyped, PassTyped, CountTyped
  <1>2. CASE Limit!ResetPasses \/ Limit!ContinuesItself \/ Limit!Reap \/ Limit!Halt \/ UNCHANGED Limit!vars
    <2>1. UNCHANGED <<event, park, at, copy, nudges>> /\ WorldTyped'
      BY <1>2 DEF Limit!ResetPasses, Limit!ContinuesItself, Limit!Reap, Limit!Halt, Limit!vars, LimitInv, WorldTyped, Limit!Sessions
    <2> QED BY <2>1 DEF LimitInv, ParkTyped, PassTyped, CountTyped, OfAnEvent
  <1>3. CASE Limit!RecordPark
    <2>1. park' = [event |-> event, attempts |-> 0] /\ event > 0 /\ UNCHANGED <<event, session, due, halted, at, copy, nudges>>
      BY <1>3 DEF Limit!RecordPark, Limit!world
    <2>2. park' \in Park /\ park'.event = event /\ event # 0
      BY <1>0, <2>1 DEF Park, LimitInv, WorldTyped, Limit!LIMIT_MAX_NUDGE_ATTEMPTS
    <2> QED BY <1>0, <2>1, <2>2 DEF LimitInv, WorldTyped, ParkTyped, PassTyped, CountTyped, OfAnEvent
  <1>4. CASE \E p \in Pass : Limit!PassStep(p)
    BY <1>4, PassStepKeeps
  <1> QED BY <1>1, <1>2, <1>3, <1>4 DEF Limit!Next

-----------------------------------------------------------------------------
(* One continuation for an event: the pass sends it when the reset has come, the  *)
(* watch records the park of an event only before, and the park on disk is not    *)
(* of an event that was continued unless a pass is about to take it away.        *)
PassesAlone == \A p, q \in Pass : p = q

SentWhenDue ==
  /\ \A p \in Pass : at[p] \in {"sending", "nudged"} => copy[p].event < event \/ due
  /\ \A e \in 1 .. MaxEvent : nudges[e] # 0 => e < event \/ (e = event /\ due)
Fresh ==
  /\ (\A p \in Pass : at[p] # "nudged") => \A e \in 1 .. MaxEvent : park.event = e => nudges[e] = 0
  /\ \A p \in Pass : at[p] \in {"look", "sending"} => \A e \in 1 .. MaxEvent : copy[p].event = e => nudges[e] = 0

AloneInv == LimitInv /\ SentWhenDue /\ Fresh /\ Limit!OneNudge

LEMMA AloneInit == ASSUME Limit!LimitParkAssumption, Limit!Init PROVE AloneInv
  <1>1. \A e \in 1 .. MaxEvent : nudges[e] = 0
    BY DEF Limit!Init
  <1>2. \A p \in Pass : at[p] = "idle"
    BY DEF Limit!Init
  <1> QED BY <1>1, <1>2, LimitInit DEF AloneInv, SentWhenDue, Fresh, Limit!OneNudge

LEMMA AloneNext == ASSUME Limit!LimitParkAssumption, PassesAlone, AloneInv, [Limit!Next]_Limit!vars PROVE AloneInv'
  <1>0. /\ LimitInv /\ LimitInv' /\ event \in Nat /\ MaxEvent \in Nat
        /\ \A e \in 1 .. MaxEvent : nudges[e] \in Nat
    BY LimitNext DEF AloneInv, Limit!LimitParkAssumption, LimitInv, WorldTyped, CountTyped
  <1>1. CASE Limit!Limited
    <2>1. event' = event + 1 /\ UNCHANGED <<park, at, copy, nudges>>
      BY <1>1 DEF Limit!Limited
    <2>2. \A p \in Pass : copy[p].event \in Nat /\ copy[p].event <= event
      BY <1>0 DEF LimitInv, ParkTyped, Park, OfAnEvent
    <2>3. SentWhenDue'
      BY <1>0, <2>1, <2>2 DEF AloneInv, SentWhenDue
    <2> QED BY <1>0, <2>1, <2>3 DEF AloneInv, Fresh, Limit!OneNudge
  <1>2. CASE Limit!ResetPasses \/ Limit!ContinuesItself \/ Limit!Reap \/ Limit!Halt \/ UNCHANGED Limit!vars
    <2>1. UNCHANGED <<event, park, at, copy, nudges>> /\ (due => due')
      BY <1>2 DEF Limit!ResetPasses, Limit!ContinuesItself, Limit!Reap, Limit!Halt, Limit!vars
    <2> QED BY <1>0, <2>1 DEF AloneInv, SentWhenDue, Fresh, Limit!OneNudge
  <1>3. CASE Limit!RecordPark
    <2>1. ~due /\ park'.event = event /\ UNCHANGED <<event, due, at, copy, nudges>>
      BY <1>3 DEF Limit!RecordPark, Limit!world
    <2>2. \A e \in 1 .. MaxEvent : e = event => nudges[e] = 0
      BY <1>0, <2>1 DEF AloneInv, SentWhenDue
    <2>3. Fresh'
      BY <2>1, <2>2 DEF AloneInv, Fresh
    <2> QED BY <1>0, <2>1, <2>3 DEF AloneInv, SentWhenDue, Limit!OneNudge
  <1>4. ASSUME NEW p \in Pass, Limit!PassStep(p) PROVE AloneInv'
    <2>0. Pass = {p} /\ at \in [Pass -> {"idle", "look", "sending", "nudged"}] /\ copy \in [Pass -> Park]
          /\ event' = event /\ due' = due
      BY <1>0, <1>4 DEF PassesAlone, LimitInv, PassTyped, ParkTyped, Limit!PassStep, Limit!Read, Limit!Look, Limit!Nudge, Limit!NudgeAnswered, Limit!SendFails, Limit!world
    <2>1. CASE Limit!Read(p)
      <3>1. at'[p] = "look" /\ copy'[p] = park /\ at[p] = "idle" /\ UNCHANGED <<park, nudges>>
        BY <2>0, <2>1 DEF Limit!Read
      <3> QED BY <1>0, <2>0, <3>1 DEF AloneInv, SentWhenDue, Fresh, Limit!OneNudge
    <2>2. CASE Limit!Look(p)
      <3>1. nudges' = nudges /\ at[p] = "look"
        BY <2>2 DEF Limit!Look
      <3>2. CASE Limit!Done(p) /\ (UNCHANGED park \/ park' = Limit!NoPark)
        <4>1. at'[p] = "idle" /\ (park' = park \/ park'.event = 0)
          BY <2>0, <3>2, NoParkIs DEF Limit!Done
        <4> QED BY <1>0, <2>0, <3>1, <4>1 DEF AloneInv, SentWhenDue, Fresh, Limit!OneNudge
      <3>3. CASE ~Limit!TooEarly(p) /\ ~Limit!Progressed(p) /\ at' = [at EXCEPT ![p] = "sending"] /\ UNCHANGED <<copy, park>>
        <4>1. copy[p].event \in Nat /\ copy[p].event <= event
          BY <1>0, <2>0 DEF LimitInv, OfAnEvent, Park
        <4>2. due \/ copy[p].event < event
          BY <1>0, <3>3, <4>1 DEF Limit!TooEarly
        <4>3. at'[p] = "sending"
          BY <2>0, <3>3
        <4> QED BY <1>0, <2>0, <3>1, <3>3, <4>2, <4>3 DEF AloneInv, SentWhenDue, Fresh, Limit!OneNudge
      <3> QED BY <2>2, <3>2, <3>3 DEF Limit!Look, Limit!Dropped
    <2>3. CASE Limit!Nudge(p)
      <3> DEFINE e == copy[p].event
      <3>1. at[p] = "sending" /\ at'[p] = "nudged" /\ UNCHANGED <<park, copy>> /\ nudges' = [nudges EXCEPT ![e] = @ + 1]
        BY <2>0, <2>3 DEF Limit!Nudge
      <3>2. e \in 1 .. MaxEvent /\ e <= event
        BY <1>0, <2>0, <3>1 DEF LimitInv, OfAnEvent, Park
      <3>3. nudges'[e] = 1 /\ \A f \in 1 .. MaxEvent : f # e => nudges'[f] = nudges[f]
        BY <1>0, <3>1, <3>2 DEF AloneInv, Fresh, LimitInv, CountTyped
      <3>4. e < event \/ (e = event /\ due)
        BY <1>0, <3>1, <3>2 DEF AloneInv, SentWhenDue
      <3> HIDE DEF e
      <3>5. SentWhenDue'
        BY <2>0, <3>1, <3>3, <3>4 DEF AloneInv, SentWhenDue
      <3>6. Fresh'
        BY <2>0, <3>1 DEF Fresh
      <3>7. Limit!OneNudge'
        BY <3>3 DEF AloneInv, Limit!OneNudge
      <3> QED BY <1>0, <3>5, <3>6, <3>7 DEF AloneInv
    <2>4. CASE Limit!NudgeAnswered(p)
      <3>1. at'[p] = "idle" /\ park'.event = 0 /\ nudges' = nudges
        BY <2>0, <2>4, NoParkIs DEF Limit!NudgeAnswered, Limit!Done, Limit!world
      <3> QED BY <1>0, <2>0, <3>1 DEF AloneInv, SentWhenDue, Fresh, Limit!OneNudge
    <2>5. CASE Limit!SendFails(p)
      <3>1. at'[p] = "idle" /\ at[p] = "sending" /\ nudges' = nudges
        BY <2>0, <2>5 DEF Limit!SendFails, Limit!Done, Limit!world
      <3>2. park'.event = 0 \/ park'.event = copy[p].event
        BY <2>0, <2>5, NoParkIs DEF Limit!SendFails, Park
      <3> QED BY <1>0, <2>0, <3>1, <3>2 DEF AloneInv, SentWhenDue, Fresh, Limit!OneNudge
    <2> QED BY <1>4, <2>1, <2>2, <2>3, <2>4, <2>5 DEF Limit!PassStep
  <1> QED BY <1>1, <1>2, <1>3, <1>4 DEF Limit!Next

(* limitpark.ts: each event earns exactly one nudge.  At most one, for any number *)
(* of events, as long as no two passes overlap: the daemon sends a continuation    *)
(* only after the reset, and the park of its event is not written again then.     *)
THEOREM OneNudgeAlone == ASSUME Limit!LimitParkAssumption, PassesAlone PROVE Limit!Spec => []Limit!OneNudge
  <1>1. Limit!Init => AloneInv
    BY AloneInit
  <1>2. AloneInv /\ [Limit!Next]_Limit!vars => AloneInv'
    BY AloneNext
  <1>3. AloneInv => Limit!OneNudge
    BY DEF AloneInv
  <1> QED BY <1>1, <1>2, <1>3, PTL DEF Limit!Spec

-----------------------------------------------------------------------------
(* What holds of Membership for any names, folders, runtimes and verbs: every    *)
(* profile and every record is whole, whatever verbs and sweeps come between.    *)
(* The rename that patched a profile finds the record it began with.            *)
Jobs == UNION {{Mem!Idle},
               [verb : {"create"}, at : {"profile", "record", "reindex"}, path : Mem!Path, rt : Rt],
               [verb : {"default", "reindex"}, at : {"reindex"}],
               [verb : {"detach"}, at : {"detach", "reindex"}, name : Name, rt : Rt],
               [verb : {"rename"}, at : {"register", "index"}, name : Name, to : Name, from : Mem!Path, path : Mem!Path]}

FolderTyped == profile \in [Mem!Path -> Mem!Profile \cup {None}] /\ marks \in [Mem!Path -> SUBSET Rt]
IndexTyped == index \in [Name -> Mem!Record \cup {None}]
LiveTyped == live \subseteq Name \X Rt /\ retiring \subseteq Name \X Rt
FlagTyped == changed \in BOOLEAN /\ sync \in {"idle", "reindex", "done"} /\ killed \in BOOLEAN
JobTyped == job \in [Proc -> Jobs]

\* Who holds the peers lock between the two writes of a rename is one, and its
\* record is there.
OneWrites == \A p \in Proc : job[p].at = "index" => /\ Mem!Registered(job[p].name)
                                                    /\ \A q \in Proc : job[q].at = "index" => q = p

MemInv == FolderTyped /\ IndexTyped /\ LiveTyped /\ FlagTyped /\ JobTyped /\ verbs \in 0 .. MaxVerb /\ OneWrites

LEMMA MemIsTyped == ASSUME MemInv PROVE Mem!TypeOK
  <1>1. \A p \in Proc : job[p] = Mem!Idle \/ job[p].verb \in Mem!Verbs
    BY DEF MemInv, JobTyped, Jobs, Mem!Verbs
  <1> QED BY <1>1 DEF MemInv, FolderTyped, IndexTyped, LiveTyped, FlagTyped, Mem!TypeOK

LEMMA MemInit == ASSUME Mem!MembershipAssumption, Mem!Init PROVE MemInv
  <1>1. FolderTyped /\ IndexTyped /\ LiveTyped /\ FlagTyped
    BY DEF Mem!Init, FolderTyped, IndexTyped, LiveTyped, FlagTyped
  <1>2. JobTyped /\ OneWrites
    BY DEF Mem!Init, JobTyped, Jobs, OneWrites, Mem!Idle
  <1>3. verbs \in 0 .. MaxVerb
    BY DEF Mem!Init, Mem!MembershipAssumption
  <1> QED BY <1>1, <1>2, <1>3 DEF MemInv

-----------------------------------------------------------------------------
(* What a profile and a record give. *)
LEMMA PathParts == ASSUME NEW f \in Mem!Path PROVE Mem!BaseName(f) \in Name /\ \A n \in Name : Mem!Sibling(f, n) \in Mem!Path
  BY DEF Mem!Path, Mem!BaseName, Mem!Sibling

LEMMA ProfileParts ==
  ASSUME FolderTyped, NEW f \in Mem!Path, profile[f] # None
  PROVE  /\ profile[f] \in Mem!Profile /\ profile[f].name \in Name /\ profile[f].default \in Rt /\ profile[f].rts \subseteq Rt
         /\ Mem!ReadAt(f).name \in Name /\ Mem!ReadAt(f).default \in Rt /\ Mem!ReadAt(f).rts \subseteq Rt
         /\ Mem!Seen(profile[f]).rts \subseteq Rt
  BY DEF FolderTyped, Mem!Profile, Mem!ReadAt, Mem!Seen

LEMMA RecordParts ==
  ASSUME IndexTyped, NEW n \in Name, Mem!Registered(n)
  PROVE  index[n] \in Mem!Record /\ index[n].cwd \in Mem!Path /\ index[n].default \in Rt /\ index[n].rts \subseteq Rt
  BY DEF IndexTyped, Mem!Registered, Mem!Record

LEMMA ReindexTyped == ASSUME FolderTyped, IndexTyped, Mem!Reindex PROVE IndexTyped'
  <1>1. ASSUME NEW m \in Name PROVE Mem!Projected[m] \in Mem!Record \cup {None}
    <2>1. CASE \E n \in Name : Mem!Registered(n) /\ Mem!Projects(n) = m
      <3> DEFINE k == CHOOSE n \in Name : Mem!Registered(n) /\ Mem!Projects(n) = m
      <3>1. k \in Name /\ Mem!Registered(k)
        BY <2>1
      <3>2. Mem!Projected[m] = IF profile[index[k].cwd] = None THEN index[k]
                               ELSE [cwd |-> index[k].cwd, default |-> Mem!ReadAt(index[k].cwd).default,
                                     rts |-> Mem!ReadAt(index[k].cwd).rts]
        BY <2>1 DEF Mem!Projected
      <3> HIDE DEF k
      <3>3. index[k] \in Mem!Record /\ index[k].cwd \in Mem!Path
        BY <3>1, RecordParts
      <3>4. CASE profile[index[k].cwd] = None
        BY <3>2, <3>3, <3>4
      <3>5. CASE profile[index[k].cwd] # None
        BY <3>2, <3>3, <3>5, ProfileParts DEF Mem!Record
      <3> QED BY <3>4, <3>5
    <2>2. CASE ~\E n \in Name : Mem!Registered(n) /\ Mem!Projects(n) = m
      BY <2>2 DEF Mem!Projected
    <2> QED BY <2>1, <2>2
  <1>2. Mem!Projected \in [Name -> Mem!Record \cup {None}]
    <2>1. Mem!Projected = [m \in Name |-> Mem!Projected[m]]
      BY DEF Mem!Projected
    <2> QED BY <1>1, <2>1
  <1> QED BY <1>2 DEF Mem!Reindex, IndexTyped

-----------------------------------------------------------------------------
(* The verbs: what a step of a job leaves, while nobody is between the two       *)
(* writes of a rename.                                                          *)
LEMMA JobMoves ==
  ASSUME JobTyped, OneWrites, NEW p \in Proc, NEW j \in Jobs, job' = [job EXCEPT ![p] = j], j.at # "index",
         index' = index \/ Mem!LockFree
  PROVE  JobTyped' /\ OneWrites'
  <1>1. JobTyped'
    BY DEF JobTyped
  <1>2. \A q \in Proc : q # p => job'[q] = job[q]
    BY DEF JobTyped
  <1>3. job'[p] = j
    BY DEF JobTyped
  <1>4. \A q \in Proc : job'[q].at = "index" => q # p /\ job[q].at = "index" /\ index' = index
    BY <1>2, <1>3 DEF Mem!LockFree
  <1> QED BY <1>1, <1>2, <1>4 DEF OneWrites, Mem!Registered

LEMMA IdleIs == Mem!Idle \in Jobs /\ Mem!Idle.at # "index"
  BY DEF Mem!Idle, Jobs

LEMMA BeginTyped == ASSUME Mem!MembershipAssumption, verbs \in 0 .. MaxVerb, verbs < MaxVerb, verbs' = verbs + 1 PROVE verbs' \in 0 .. MaxVerb
  BY DEF Mem!MembershipAssumption

\* What a job holds.
LEMMA JobParts ==
  ASSUME JobTyped, NEW p \in Proc
  PROVE  /\ job[p].verb = "create" => job[p].path \in Mem!Path /\ job[p].rt \in Rt
         /\ job[p].verb = "detach" => job[p].name \in Name /\ job[p].rt \in Rt
         /\ job[p].verb = "rename" => /\ job[p].name \in Name /\ job[p].to \in Name
                                      /\ job[p].from \in Mem!Path /\ job[p].path \in Mem!Path
         /\ job[p].verb = "create" => [job[p] EXCEPT !.at = "record"] \in Jobs /\ [job[p] EXCEPT !.at = "reindex"] \in Jobs
         /\ job[p].verb = "detach" => [job[p] EXCEPT !.at = "reindex"] \in Jobs
         /\ job[p].verb = "rename" => [job[p] EXCEPT !.at = "index"] \in Jobs
  <1>1. job[p] \in Jobs
    BY DEF JobTyped
  <1>2. CASE job[p] \in [verb : {"create"}, at : {"profile", "record", "reindex"}, path : Mem!Path, rt : Rt]
    BY <1>2 DEF Jobs
  <1>3. CASE job[p] \in [verb : {"detach"}, at : {"detach", "reindex"}, name : Name, rt : Rt]
    BY <1>3 DEF Jobs
  <1>4. CASE job[p] \in [verb : {"rename"}, at : {"register", "index"}, name : Name, to : Name, from : Mem!Path, path : Mem!Path]
    BY <1>4 DEF Jobs
  <1>5. CASE job[p] = Mem!Idle \/ job[p] \in [verb : {"default", "reindex"}, at : {"reindex"}]
    BY <1>5 DEF Mem!Idle
  <1> QED BY <1>1, <1>2, <1>3, <1>4, <1>5 DEF Jobs

LEMMA DetachedKeeps ==
  ASSUME FolderTyped, IndexTyped, changed \in BOOLEAN, NEW n \in Name, NEW rt \in Rt, Mem!Detached(n, rt)
  PROVE  FolderTyped' /\ changed' \in BOOLEAN
  <1>1. CASE UNCHANGED <<profile, marks, changed>>
    BY <1>1 DEF FolderTyped
  <1>2. CASE Mem!Registered(n) /\ ~UNCHANGED <<profile, marks, changed>>
    <2> DEFINE f == index[n].cwd
    <2>1. f \in Mem!Path
      BY <1>2, RecordParts
    <2>2. /\ marks' = [marks EXCEPT ![f] = @ \ {rt}] /\ changed' = TRUE
          /\ profile' = IF profile[f] = None THEN profile ELSE [profile EXCEPT ![f].rts = Mem!Seen(profile[f]).rts \ {rt}]
      BY <1>2 DEF Mem!Detached
    <2> HIDE DEF f
    <2>3. marks' \in [Mem!Path -> SUBSET Rt]
      BY <2>1, <2>2 DEF FolderTyped
    <2>4. profile[f] # None => [profile[f] EXCEPT !.rts = Mem!Seen(profile[f]).rts \ {rt}] \in Mem!Profile
      BY <2>1, ProfileParts DEF Mem!Profile
    <2>5. profile' \in [Mem!Path -> Mem!Profile \cup {None}]
      <3>1. CASE profile[f] = None
        BY <2>2, <3>1 DEF FolderTyped
      <3>2. CASE profile[f] # None
        <4>1. profile' = [profile EXCEPT ![f] = [profile[f] EXCEPT !.rts = Mem!Seen(profile[f]).rts \ {rt}]]
          BY <2>2, <3>2
        <4> QED BY <2>1, <2>4, <3>2, <4>1 DEF FolderTyped
      <3> QED BY <3>1, <3>2
    <2> QED BY <2>2, <2>3, <2>5 DEF FolderTyped
  <1> QED BY <1>1, <1>2 DEF Mem!Detached

LEMMA MovedKeeps ==
  ASSUME FolderTyped, NEW from \in Mem!Path, NEW to \in Mem!Path, Mem!Moved(from, to)
  PROVE  FolderTyped' /\ changed' \in BOOLEAN
  BY DEF FolderTyped, Mem!Moved

-----------------------------------------------------------------------------
LEMMA ProfileStep ==
  ASSUME MemInv, NEW p \in Proc, Mem!EnsureProfile(p)
  PROVE  MemInv'
  <1> DEFINE f == job[p].path
             rt == job[p].rt
             found == marks[f] \cup {rt}
  <1>1. f \in Mem!Path /\ rt \in Rt /\ [job[p] EXCEPT !.at = "record"] \in Jobs
    BY JobParts DEF MemInv, Mem!EnsureProfile
  <1>2. found \subseteq Rt
    BY <1>1 DEF MemInv, FolderTyped
  <1>3. FolderTyped' /\ changed' \in BOOLEAN
    <2>1. CASE Mem!Collides(f)
      BY <2>1 DEF Mem!EnsureProfile, MemInv, FolderTyped, FlagTyped
    <2>2. CASE ~Mem!Collides(f)
      <3>1. /\ profile' = [profile EXCEPT ![f] = IF profile[f] = None THEN [name |-> Mem!BaseName(f), default |-> rt, rts |-> found]
                                                 ELSE [profile[f] EXCEPT !.rts = profile[f].rts \cup found]]
            /\ marks' = [marks EXCEPT ![f] = found] /\ changed' = TRUE
        BY <2>2 DEF Mem!EnsureProfile
      <3>2. [name |-> Mem!BaseName(f), default |-> rt, rts |-> found] \in Mem!Profile
        BY <1>1, <1>2, PathParts DEF Mem!Profile
      <3>3. profile[f] # None => [profile[f] EXCEPT !.rts = profile[f].rts \cup found] \in Mem!Profile
        BY <1>1, <1>2, ProfileParts DEF Mem!Profile, MemInv
      <3> HIDE DEF f, found, rt
      <3> QED BY <1>1, <1>2, <3>1, <3>2, <3>3 DEF MemInv, FolderTyped
    <2> QED BY <2>1, <2>2
  <1>4. JobTyped' /\ OneWrites'
    <2>1. job' = [job EXCEPT ![p] = Mem!Idle] \/ job' = [job EXCEPT ![p] = [job[p] EXCEPT !.at = "record"]]
      BY DEF Mem!EnsureProfile, Mem!End, Mem!Goto
    <2>2. index' = index /\ [job[p] EXCEPT !.at = "record"].at = "record"
      BY <1>1 DEF Mem!EnsureProfile, Jobs, Mem!Idle
    <2> QED BY <1>1, <2>1, <2>2, IdleIs, JobMoves DEF MemInv
  <1> QED BY <1>3, <1>4 DEF Mem!EnsureProfile, MemInv, IndexTyped, LiveTyped, FlagTyped

LEMMA RecordStep == ASSUME MemInv, NEW p \in Proc, Mem!RecordPeer(p) PROVE MemInv'
  <1> DEFINE f == job[p].path
             rt == job[p].rt
             n == IF profile[f] = None THEN Mem!BaseName(f) ELSE profile[f].name
  <1>1. f \in Mem!Path /\ rt \in Rt /\ [job[p] EXCEPT !.at = "reindex"] \in Jobs /\ [job[p] EXCEPT !.at = "reindex"].at = "reindex"
    BY JobParts DEF MemInv, Mem!RecordPeer, JobTyped, Jobs, Mem!Idle
  <1>2. n \in Name
    BY <1>1, PathParts, ProfileParts DEF MemInv
  <1>3. (index' = index \/ index' = Mem!Upserted(n, f, rt)) /\ changed' \in BOOLEAN
    BY DEF Mem!RecordPeer, MemInv, FlagTyped
  <1>4. job' = [job EXCEPT ![p] = Mem!Idle] \/ job' = [job EXCEPT ![p] = [job[p] EXCEPT !.at = "reindex"]]
    BY DEF Mem!RecordPeer, Mem!End, Mem!Goto
  <1>5. Mem!LockFree /\ UNCHANGED <<profile, marks, live, retiring, sync, verbs, killed>>
    BY DEF Mem!RecordPeer
  <1> HIDE DEF f, rt, n
  <1>6. IndexTyped'
    <2>1. CASE Mem!Registered(n)
      <3>1. [index[n] EXCEPT !.cwd = f, !.rts = @ \cup {rt}] \in Mem!Record
        BY <1>1, <1>2, <2>1, RecordParts DEF MemInv, Mem!Record
      <3>2. Mem!Upserted(n, f, rt) = [index EXCEPT ![n] = [index[n] EXCEPT !.cwd = f, !.rts = @ \cup {rt}]]
        BY <1>2, <2>1 DEF Mem!Upserted, MemInv, IndexTyped
      <3> QED BY <1>2, <1>3, <3>1, <3>2 DEF MemInv, IndexTyped
    <2>2. CASE ~Mem!Registered(n)
      BY <1>1, <1>2, <1>3, <2>2 DEF MemInv, IndexTyped, Mem!Upserted, Mem!Record
    <2> QED BY <2>1, <2>2
  <1>7. JobTyped' /\ OneWrites'
    BY <1>1, <1>4, <1>5, IdleIs, JobMoves DEF MemInv
  <1> QED BY <1>3, <1>5, <1>6, <1>7 DEF MemInv, FolderTyped, LiveTyped, FlagTyped

LEMMA ReindexStep == ASSUME MemInv, NEW p \in Proc, Mem!ReindexVerb(p) PROVE MemInv'
  <1>1. IndexTyped'
    BY ReindexTyped DEF Mem!ReindexVerb, MemInv
  <1>2. JobTyped' /\ OneWrites'
    BY IdleIs, JobMoves DEF Mem!ReindexVerb, Mem!End, MemInv
  <1> QED BY <1>1, <1>2 DEF Mem!ReindexVerb, MemInv, FolderTyped, LiveTyped, FlagTyped

LEMMA DetachStep == ASSUME MemInv, NEW p \in Proc, Mem!Detach(p) PROVE MemInv'
  <1>1. job[p].name \in Name /\ job[p].rt \in Rt /\ [job[p] EXCEPT !.at = "reindex"] \in Jobs /\ [job[p] EXCEPT !.at = "reindex"].at = "reindex"
    BY JobParts DEF MemInv, Mem!Detach, JobTyped, Jobs, Mem!Idle
  <1>2. FolderTyped' /\ changed' \in BOOLEAN
    BY <1>1, DetachedKeeps DEF Mem!Detach, MemInv, FlagTyped
  <1>3. JobTyped' /\ OneWrites'
    BY <1>1, JobMoves DEF Mem!Detach, Mem!Goto, MemInv
  <1> QED BY <1>2, <1>3 DEF Mem!Detach, MemInv, IndexTyped, LiveTyped, FlagTyped

LEMMA PatchStep == ASSUME MemInv, NEW p \in Proc, Mem!PatchName(p) PROVE MemInv'
  <1> DEFINE j == job[p]
  <1>1. j.name \in Name /\ j.to \in Name /\ j.path \in Mem!Path /\ [j EXCEPT !.at = "index"] \in Jobs
    BY JobParts DEF MemInv, Mem!PatchName
  <1>2. /\ Mem!LockFree /\ Mem!Registered(j.name) /\ profile[j.path] # None
        /\ profile' = [profile EXCEPT ![j.path] = [profile[j.path] EXCEPT !.name = j.to]]
        /\ job' = [job EXCEPT ![p] = [j EXCEPT !.at = "index"]] /\ changed' = TRUE
        /\ UNCHANGED <<marks, index, live, retiring, sync, verbs, killed>>
    BY DEF Mem!PatchName, Mem!Renamable, Mem!Goto
  <1>3. [j EXCEPT !.at = "index"].name = j.name
    BY <1>1 DEF MemInv, JobTyped, Jobs, Mem!Idle, Mem!PatchName
  <1> HIDE DEF j
  <1>4. FolderTyped'
    <2>1. [profile[j.path] EXCEPT !.name = j.to] \in Mem!Profile
      BY <1>1, <1>2, ProfileParts DEF MemInv, Mem!Profile
    <2> QED BY <1>1, <1>2, <2>1 DEF MemInv, FolderTyped
  <1>5. JobTyped'
    BY <1>1, <1>2 DEF MemInv, JobTyped
  <1>6. OneWrites'
    <2>1. job'[p] = [j EXCEPT !.at = "index"] /\ \A q \in Proc : q # p => job'[q] = job[q]
      BY <1>2 DEF MemInv, JobTyped
    <2>2. \A q \in Proc : q # p => job'[q].at # "index"
      BY <1>2, <2>1 DEF Mem!LockFree
    <2> QED BY <1>2, <1>3, <2>1, <2>2 DEF OneWrites, Mem!Registered
  <1> QED BY <1>2, <1>4, <1>5, <1>6 DEF MemInv, IndexTyped, LiveTyped, FlagTyped

LEMMA RenameStep == ASSUME MemInv, NEW p \in Proc, Mem!RenameRecord(p) PROVE MemInv'
  <1> DEFINE j == job[p]
  <1>1. j.name \in Name /\ j.to \in Name /\ j.path \in Mem!Path
    BY JobParts DEF MemInv, Mem!RenameRecord
  <1>2. /\ index' = [index EXCEPT ![j.to] = [index[j.name] EXCEPT !.cwd = j.path], ![j.name] = None]
        /\ changed' = TRUE /\ job' = [job EXCEPT ![p] = Mem!Idle] /\ j.at = "index"
        /\ UNCHANGED <<profile, marks, live, retiring, sync, verbs, killed>>
    BY DEF Mem!RenameRecord, Mem!End
  <1>3. Mem!Registered(j.name) /\ \A q \in Proc : job[q].at = "index" => q = p
    BY <1>2 DEF MemInv, OneWrites
  <1> HIDE DEF j
  <1>4. IndexTyped'
    <2>1. [index[j.name] EXCEPT !.cwd = j.path] \in Mem!Record
      BY <1>1, <1>3, RecordParts DEF MemInv, Mem!Record
    <2> QED BY <1>1, <1>2, <2>1 DEF MemInv, IndexTyped
  <1>5. JobTyped' /\ OneWrites'
    <2>1. job'[p] = Mem!Idle /\ (\A q \in Proc : q # p => job'[q] = job[q]) /\ JobTyped'
      BY <1>2, IdleIs DEF MemInv, JobTyped
    <2>2. \A q \in Proc : job'[q].at # "index"
      BY <1>3, <2>1, IdleIs
    <2> QED BY <2>1, <2>2 DEF OneWrites
  <1> QED BY <1>2, <1>4, <1>5 DEF MemInv, FolderTyped, LiveTyped, FlagTyped

LEMMA RefusedStep == ASSUME MemInv, NEW p \in Proc, Mem!RenameRefused(p) PROVE MemInv'
  <1>1. job[p].from \in Mem!Path /\ job[p].path \in Mem!Path
    BY JobParts DEF MemInv, Mem!RenameRefused
  <1>2. FolderTyped' /\ changed' \in BOOLEAN
    <2>1. CASE Mem!Moved(job[p].path, job[p].from)
      BY <1>1, <2>1, MovedKeeps DEF MemInv
    <2>2. CASE UNCHANGED <<profile, marks, changed>>
      BY <2>2 DEF MemInv, FolderTyped, FlagTyped
    <2> QED BY <2>1, <2>2 DEF Mem!RenameRefused, Mem!MoveBack
  <1>3. JobTyped' /\ OneWrites'
    BY IdleIs, JobMoves DEF Mem!RenameRefused, Mem!End, MemInv
  <1> QED BY <1>2, <1>3 DEF Mem!RenameRefused, MemInv, IndexTyped, LiveTyped, FlagTyped

\* A verb begins, or a step of the daemon or the operator is all of one.
LEMMA BeginStep ==
  ASSUME Mem!MembershipAssumption, MemInv, NEW p \in Proc, NEW n \in Name, NEW rt \in Rt,
         \/ \E d \in Dir : Mem!BeginCreate(p, n, d, rt)
         \/ Mem!BeginAdd(p, n, rt) \/ Mem!FlipDefault(p, n, rt) \/ Mem!BeginDetach(p, n, rt) \/ Mem!Retire(p, n, rt)
         \/ Mem!RemovePeer(p, n) \/ \E m \in Name : Mem!BeginRename(p, n, m)
  PROVE  MemInv'
  <1>1. CASE \E d \in Dir : Mem!BeginCreate(p, n, d, rt)
    <2>1. PICK d \in Dir : Mem!BeginCreate(p, n, d, rt)
      BY <1>1
    <2> DEFINE j == [verb |-> "create", at |-> "profile", path |-> <<d, n>>, rt |-> rt]
    <2>2. j \in Jobs /\ j.at = "profile"
      BY DEF Jobs, Mem!Path
    <2>3. job' = [job EXCEPT ![p] = j] /\ verbs' \in 0 .. MaxVerb
      BY <2>1, BeginTyped DEF Mem!BeginCreate, Mem!Begin, MemInv
    <2>4. UNCHANGED <<profile, marks, index, live, retiring, changed, sync, killed>>
      BY <2>1 DEF Mem!BeginCreate
    <2> HIDE DEF j
    <2>5. JobTyped' /\ OneWrites'
      BY <2>2, <2>3, <2>4, JobMoves DEF MemInv
    <2> QED BY <2>3, <2>4, <2>5 DEF MemInv, FolderTyped, IndexTyped, LiveTyped, FlagTyped
  <1>2. CASE Mem!BeginAdd(p, n, rt)
    <2> DEFINE j == [verb |-> "create", at |-> "profile", path |-> index[n].cwd, rt |-> rt]
    <2>1. index[n].cwd \in Mem!Path
      BY <1>2, RecordParts DEF Mem!BeginAdd, MemInv
    <2>2. j \in Jobs /\ j.at = "profile"
      BY <2>1 DEF Jobs
    <2>3. job' = [job EXCEPT ![p] = j] /\ verbs' \in 0 .. MaxVerb
      BY <1>2, BeginTyped DEF Mem!BeginAdd, Mem!Begin, MemInv
    <2>4. UNCHANGED <<profile, marks, index, live, retiring, changed, sync, killed>>
      BY <1>2 DEF Mem!BeginAdd
    <2> HIDE DEF j
    <2>5. JobTyped' /\ OneWrites'
      BY <2>2, <2>3, <2>4, JobMoves DEF MemInv
    <2> QED BY <2>3, <2>4, <2>5 DEF MemInv, FolderTyped, IndexTyped, LiveTyped, FlagTyped
  <1>3. CASE Mem!FlipDefault(p, n, rt)
    <2> DEFINE j == [verb |-> "default", at |-> "reindex"]
               f == index[n].cwd
    <2>1. /\ f \in Mem!Path /\ profile[f] # None /\ changed' = TRUE
          /\ profile' = [profile EXCEPT ![f] = [profile[f] EXCEPT !.default = rt]]
          /\ UNCHANGED <<marks, index, live, retiring, sync, killed>>
      BY <1>3, RecordParts DEF Mem!FlipDefault, MemInv
    <2>2. j \in Jobs /\ j.at = "reindex"
      BY DEF Jobs
    <2>3. job' = [job EXCEPT ![p] = j] /\ verbs' \in 0 .. MaxVerb
      BY <1>3, BeginTyped DEF Mem!FlipDefault, Mem!Begin, MemInv
    <2> HIDE DEF f, j
    <2>4. [profile[f] EXCEPT !.default = rt] \in Mem!Profile
      BY <2>1, ProfileParts DEF MemInv, Mem!Profile
    <2>5. FolderTyped'
      BY <2>1, <2>4 DEF MemInv, FolderTyped
    <2>6. JobTyped' /\ OneWrites'
      BY <2>1, <2>2, <2>3, JobMoves DEF MemInv
    <2> QED BY <2>1, <2>3, <2>5, <2>6 DEF MemInv, IndexTyped, LiveTyped, FlagTyped
  <1>4. CASE Mem!BeginDetach(p, n, rt)
    <2> DEFINE j == [verb |-> "detach", at |-> "detach", name |-> n, rt |-> rt]
    <2>1. j \in Jobs /\ j.at = "detach"
      BY DEF Jobs
    <2>2. (job' = job \/ job' = [job EXCEPT ![p] = j]) /\ verbs' \in 0 .. MaxVerb
      BY <1>4, BeginTyped DEF Mem!BeginDetach, Mem!Begin, MemInv
    <2>3. UNCHANGED <<profile, marks, index, live, changed, sync, killed>> /\ retiring' \subseteq Name \X Rt
      BY <1>4 DEF Mem!BeginDetach, MemInv, LiveTyped
    <2> HIDE DEF j
    <2>4. JobTyped' /\ OneWrites'
      <3>1. CASE job' = job
        BY <2>3, <3>1 DEF MemInv, JobTyped, OneWrites, Mem!Registered
      <3>2. CASE job' = [job EXCEPT ![p] = j]
        BY <2>1, <2>3, <3>2, JobMoves DEF MemInv
      <3> QED BY <2>2, <3>1, <3>2
    <2> QED BY <2>2, <2>3, <2>4 DEF MemInv, FolderTyped, IndexTyped, LiveTyped, FlagTyped
  <1>5. CASE Mem!Retire(p, n, rt)
    <2> DEFINE j == [verb |-> "reindex", at |-> "reindex"]
    <2>1. j \in Jobs /\ j.at = "reindex"
      BY DEF Jobs
    <2>2. /\ job' = [job EXCEPT ![p] = j] /\ live' = live \ {<<n, rt>>} /\ retiring' = retiring \ {<<n, rt>>}
          /\ Mem!Detached(n, rt) /\ UNCHANGED <<index, sync, verbs, killed>>
      BY <1>5 DEF Mem!Retire
    <2>3. FolderTyped' /\ changed' \in BOOLEAN
      BY <2>2, DetachedKeeps DEF MemInv, FlagTyped
    <2> HIDE DEF j
    <2>4. JobTyped' /\ OneWrites'
      BY <2>1, <2>2, JobMoves DEF MemInv
    <2>5. LiveTyped'
      BY <2>2 DEF MemInv, LiveTyped
    <2> QED BY <2>2, <2>3, <2>4, <2>5 DEF MemInv, IndexTyped, FlagTyped
  <1>6. CASE Mem!RemovePeer(p, n)
    <2>1. /\ Mem!LockFree /\ verbs < MaxVerb /\ verbs' = verbs + 1 /\ job' = job /\ changed' = TRUE
          /\ index' = [index EXCEPT ![n] = None] /\ UNCHANGED <<profile, marks, live, retiring, sync, killed>>
      BY <1>6 DEF Mem!RemovePeer
    <2>2. OneWrites' /\ JobTyped'
      BY <2>1 DEF MemInv, JobTyped, OneWrites, Mem!LockFree
    <2>3. IndexTyped' /\ verbs' \in 0 .. MaxVerb
      BY <2>1, BeginTyped DEF MemInv, IndexTyped
    <2> QED BY <2>1, <2>2, <2>3 DEF MemInv, FolderTyped, LiveTyped, FlagTyped
  <1>7. ASSUME NEW m \in Name, Mem!BeginRename(p, n, m) PROVE MemInv'
    <2> DEFINE from == index[n].cwd
               to == Mem!Sibling(from, m)
               j == [verb |-> "rename", at |-> "register", name |-> n, to |-> m, from |-> from, path |-> to]
    <2>1. from \in Mem!Path /\ to \in Mem!Path
      BY <1>7, RecordParts, PathParts DEF Mem!BeginRename, MemInv
    <2>2. j \in Jobs /\ j.at = "register"
      BY <2>1 DEF Jobs
    <2>3. /\ job' = [job EXCEPT ![p] = j] /\ verbs' \in 0 .. MaxVerb /\ Mem!Moved(from, to)
          /\ UNCHANGED <<index, live, retiring, sync, killed>>
      BY <1>7, BeginTyped DEF Mem!BeginRename, Mem!Begin, MemInv
    <2> HIDE DEF j, from, to
    <2>4. FolderTyped' /\ changed' \in BOOLEAN
      BY <2>1, <2>3, MovedKeeps DEF MemInv
    <2>5. JobTyped' /\ OneWrites'
      BY <2>2, <2>3, JobMoves DEF MemInv
    <2> QED BY <2>3, <2>4, <2>5 DEF MemInv, IndexTyped, LiveTyped, FlagTyped
  <1> QED BY <1>1, <1>2, <1>3, <1>4, <1>5, <1>6, <1>7

LEMMA MemNext == ASSUME Mem!MembershipAssumption, MemInv, [Mem!Next]_Mem!vars PROVE MemInv'
  <1>1. ASSUME NEW p \in Proc, Mem!Step(p) PROVE MemInv'
    BY <1>1, ProfileStep, RecordStep, ReindexStep, DetachStep, PatchStep, RenameStep, RefusedStep DEF Mem!Step
  <1>2. ASSUME NEW p \in Proc, Mem!Killed(p) PROVE MemInv'
    <2>1. JobTyped' /\ OneWrites'
      BY <1>2, IdleIs, JobMoves DEF Mem!Killed, Mem!End, MemInv
    <2> QED BY <1>2, <2>1 DEF Mem!Killed, MemInv, FolderTyped, IndexTyped, LiveTyped, FlagTyped
  <1>3. ASSUME NEW p \in Proc, NEW n \in Name, Mem!RemovePeer(p, n) \/ \E m \in Name : Mem!BeginRename(p, n, m) PROVE MemInv'
    BY <1>3, BeginStep DEF Mem!MembershipAssumption
  <1>4. ASSUME NEW p \in Proc, NEW n \in Name, NEW rt \in Rt,
               \/ \E d \in Dir : Mem!BeginCreate(p, n, d, rt)
               \/ Mem!BeginAdd(p, n, rt) \/ Mem!FlipDefault(p, n, rt) \/ Mem!BeginDetach(p, n, rt) \/ Mem!Retire(p, n, rt)
        PROVE  MemInv'
    BY <1>4, BeginStep
  <1>5. ASSUME NEW n \in Name, NEW rt \in Rt, Mem!Wake(n, rt) \/ Mem!Sleep(n, rt) PROVE MemInv'
    BY <1>5 DEF Mem!Wake, Mem!Sleep, MemInv, FolderTyped, IndexTyped, LiveTyped, FlagTyped, JobTyped, OneWrites, Mem!Registered
  <1>6. CASE Mem!SyncTick \/ Mem!SyncDone \/ UNCHANGED Mem!vars
    BY <1>6 DEF Mem!SyncTick, Mem!SyncDone, Mem!KeepGate, Mem!vars, MemInv, FolderTyped, IndexTyped, LiveTyped, FlagTyped, JobTyped,
                OneWrites, Mem!Registered
  <1>7. CASE Mem!SyncReindex
    <2>1. IndexTyped'
      BY <1>7, ReindexTyped DEF Mem!SyncReindex, MemInv
    <2>2. OneWrites' /\ JobTyped'
      BY <1>7 DEF Mem!SyncReindex, MemInv, JobTyped, OneWrites, Mem!LockFree
    <2>3. changed' \in BOOLEAN
      BY <1>7 DEF Mem!SyncReindex
    <2> QED BY <1>7, <2>1, <2>2, <2>3 DEF Mem!SyncReindex, MemInv, FolderTyped, LiveTyped, FlagTyped
  <1> QED BY <1>1, <1>2, <1>3, <1>4, <1>5, <1>6, <1>7 DEF Mem!Next

(* The record a rename began with is there when it is replaced, and no other verb  *)
(* is between its two writes, whatever the daemon's sweep does meanwhile.        *)
THEOREM RenameFindsItsRecord == ASSUME Mem!MembershipAssumption PROVE Mem!Spec => []OneWrites
  <1>1. Mem!Init => MemInv
    BY MemInit
  <1>2. MemInv /\ [Mem!Next]_Mem!vars => MemInv'
    BY MemNext
  <1>3. MemInv => OneWrites
    BY DEF MemInv
  <1> QED BY <1>1, <1>2, <1>3, PTL DEF Mem!Spec

-----------------------------------------------------------------------------
(* The router runs with the token on disk when a connect says so, for any number *)
(* of connects, tokens, restarts and faults.                                     *)
ConFlags == {installed, human, router, face, seen} \subseteq BOOLEAN
ConCounts == faults \in 0 .. MaxFault /\ restarts \in 0 .. ConnectRestart
ConTables == /\ {loaded, stored} \subseteq Token \cup {None}
             /\ pc \in [Verb -> {"new", "add", "face", "project", "gate", "stop", "start", "done"}]
             /\ tok \in [Verb -> Token] /\ before \in [Verb -> Token \cup {None}]
             /\ ans \in [Verb -> {"none", "refused", "failed", "noop", "connected", "no-router", "restart-failed"}]

LEMMA ConTypes == Con!TypeOK <=> ConFlags /\ ConCounts /\ ConTables
  BY DEF Con!TypeOK, ConFlags, ConCounts, ConTables

LEMMA ConTypeInit == ASSUME Con!ConnectAssumption, Con!Init PROVE Con!TypeOK
  <1>1. ConFlags
    BY DEF Con!Init, ConFlags
  <1>2. ConCounts
    BY DEF Con!Init, ConCounts, Con!ConnectAssumption
  <1>3. ConTables
    BY DEF Con!Init, ConTables
  <1> QED BY <1>1, <1>2, <1>3, ConTypes

LEMMA FaultCounted == ASSUME Con!ConnectAssumption, ConCounts, Con!Fault \/ UNCHANGED faults PROVE faults' \in 0 .. MaxFault
  BY DEF Con!ConnectAssumption, ConCounts, Con!Fault

LEMMA ConTypeNext == ASSUME Con!ConnectAssumption, Con!TypeOK, [Con!Next]_Con!vars PROVE Con!TypeOK'
  <1> USE ConTypes
  <1>1. CASE Con!InstallRuntime \/ Con!CreateHuman
    <2>1. ConFlags'
      BY <1>1 DEF Con!InstallRuntime, Con!CreateHuman, ConFlags
    <2>2. ConCounts' /\ ConTables'
      BY <1>1 DEF Con!InstallRuntime, Con!CreateHuman, ConCounts, ConTables
    <2> QED BY <2>1, <2>2 DEF Con!TypeOK, ConFlags, ConCounts, ConTables
  <1>2. CASE Con!RouterRestarts
    <2>1. ConFlags'
      BY <1>2 DEF Con!RouterRestarts, ConFlags
    <2>2. ConCounts' /\ ConTables'
      BY <1>2 DEF Con!RouterRestarts, ConCounts, ConTables, Con!ConnectAssumption
    <2> QED BY <2>1, <2>2 DEF Con!TypeOK, ConFlags, ConCounts, ConTables
  <1>3. ASSUME NEW v \in Verb, Con!Run(v) PROVE Con!TypeOK'
    <2>1. ConFlags'
      BY <1>3 DEF Con!Run, Con!Begin, Con!AddBot, Con!GiveFace, Con!Project, Con!Gate, Con!Stop, Con!StopRouter, Con!StartRouter, Con!host, ConFlags
    <2>2. restarts' = restarts /\ (Con!Fault \/ UNCHANGED faults)
      BY <1>3 DEF Con!Run, Con!Begin, Con!AddBot, Con!GiveFace, Con!Project, Con!Gate, Con!Stop, Con!StopRouter, Con!StartRouter
    <2>3. ConCounts'
      BY <2>2, FaultCounted DEF ConCounts
    <2>4. ConTables'
      BY <1>3 DEF Con!Run, Con!Begin, Con!AddBot, Con!GiveFace, Con!Project, Con!Gate, Con!Stop, Con!StopRouter, Con!StartRouter, Con!host, ConTables, Con!Goto, Con!Answer
    <2> QED BY <2>1, <2>3, <2>4 DEF Con!TypeOK, ConFlags, ConCounts, ConTables
  <1>4. CASE UNCHANGED Con!vars
    BY <1>4 DEF Con!vars, Con!TypeOK
  <1> QED BY <1>1, <1>2, <1>3, <1>4 DEF Con!Next, Con!Onboard

(* From its own write on there is a token; and from its stop on, a router that   *)
(* runs has the one on disk, if that is its own.                                *)
Wrote(v) == pc[v] \in {"face", "project", "gate", "stop", "start"} => stored # None
FreshToken(v) == pc[v] = "start" /\ router /\ stored = tok[v] /\ ~Con!TakenAndPutBack(v) => loaded = stored

TokenLive == Con!TypeOK /\ \A v \in Verb : Wrote(v) /\ FreshToken(v)

(* Whose token is on disk, if only one's or all the others' may be there. *)
FromVerb == stored = None \/ \E v \in Verb : stored = tok[v]

ConInv == TokenLive /\ FromVerb

LEMMA ConInit == ASSUME Con!ConnectAssumption, Con!Init PROVE ConInv
  <1>1. Con!TypeOK
    BY ConTypeInit
  <1> QED BY <1>1 DEF Con!Init, ConInv, TokenLive, Wrote, FreshToken, FromVerb

LEMMA ConNext == ASSUME Con!ConnectAssumption, ConInv, [Con!Next]_Con!vars PROVE ConInv'
  <1>1. Con!TypeOK'
    BY ConTypeNext DEF ConInv, TokenLive
  <1>2. ConTables /\ ConTables'
    BY <1>1, ConTypes DEF ConInv, TokenLive, Con!TypeOK, ConTables
  <1>3. tok' = tok
    BY DEF Con!Next, Con!Onboard, Con!InstallRuntime, Con!CreateHuman, Con!RouterRestarts, Con!Run, Con!Begin, Con!AddBot, Con!GiveFace, Con!Project, Con!Gate,
           Con!Stop, Con!StopRouter, Con!StartRouter, Con!vars
  <1>4. \A v \in Verb : Con!TakenAndPutBack(v)' <=> Con!TakenAndPutBack(v)
    BY <1>3 DEF Con!TakenAndPutBack
  <1>5. CASE Con!InstallRuntime \/ Con!CreateHuman \/ Con!RouterRestarts \/ UNCHANGED Con!vars
    BY <1>1, <1>3, <1>4, <1>5 DEF Con!InstallRuntime, Con!CreateHuman, Con!RouterRestarts, Con!vars, ConInv, TokenLive, Wrote, FreshToken, FromVerb
  <1>6. ASSUME NEW w \in Verb, Con!Begin(w) \/ Con!GiveFace(w) \/ Con!Project(w) \/ Con!Gate(w) PROVE ConInv'
    <2>1. UNCHANGED <<router, loaded, stored>> /\ \A v \in Verb : v # w => pc'[v] = pc[v]
      BY <1>2, <1>6 DEF Con!Begin, Con!GiveFace, Con!Project, Con!Gate, Con!Goto, Con!Answer, Con!host, ConTables
    <2>2. pc'[w] # "start" /\ (pc'[w] \in {"face", "project", "gate", "stop"} => pc[w] \in {"face", "project", "gate"})
      BY <1>2, <1>6 DEF Con!Begin, Con!GiveFace, Con!Project, Con!Gate, Con!Goto, Con!Answer, ConTables
    <2> QED BY <1>1, <1>3, <1>4, <2>1, <2>2 DEF ConInv, TokenLive, Wrote, FreshToken, FromVerb
  <1>7. ASSUME NEW w \in Verb, Con!AddBot(w) PROVE ConInv'
    <2>1. UNCHANGED <<router, loaded>> /\ \A v \in Verb : v # w => pc'[v] = pc[v]
      BY <1>2, <1>7 DEF Con!AddBot, Con!Goto, Con!Answer, Con!host, ConTables
    <2>2. \/ stored' = tok[w] /\ pc'[w] = "face"
          \/ stored' = stored /\ pc'[w] = "done"
      BY <1>2, <1>7 DEF Con!AddBot, Con!Goto, Con!Answer, ConTables
    <2>3. tok[w] # None
      BY <1>2 DEF ConTables, Con!ConnectAssumption
    <2>4. ASSUME NEW v \in Verb PROVE Wrote(v)'
      BY <2>1, <2>2, <2>3 DEF Wrote, ConInv, TokenLive
    <2>5. ASSUME NEW v \in Verb PROVE FreshToken(v)'
      <3>1. SUFFICES ASSUME pc'[v] = "start", router, stored' = tok[v], ~Con!TakenAndPutBack(v) PROVE loaded = stored'
        BY <1>3, <1>4, <2>1 DEF FreshToken
      <3>2. v # w /\ pc[v] = "start"
        BY <2>1, <2>2, <3>1
      <3>3. stored # None
        BY <3>2 DEF Wrote, ConInv, TokenLive
      <3>4. stored = tok[v]
        <4>1. CASE stored' = stored
          BY <3>1, <4>1
        <4>2. CASE stored' = tok[w]
          <5>1. \A u \in Verb \ {v} : tok[u] = tok[v]
            BY <3>1, <3>2, <4>2 DEF Con!TakenAndPutBack
          <5> QED BY <3>3, <5>1 DEF ConInv, FromVerb
        <4> QED BY <2>2, <4>1, <4>2
      <3> QED BY <3>1, <3>2, <3>4 DEF FreshToken, ConInv, TokenLive
    <2>6. FromVerb'
      BY <1>3, <2>2 DEF ConInv, FromVerb
    <2> QED BY <1>1, <2>4, <2>5, <2>6 DEF ConInv, TokenLive
  <1>8. ASSUME NEW w \in Verb, Con!Stop(w) \/ Con!StartRouter(w) PROVE ConInv'
    <2>1. stored' = stored /\ \A v \in Verb : v # w => pc'[v] = pc[v]
      BY <1>2, <1>8 DEF Con!Stop, Con!StopRouter, Con!StartRouter, Con!Goto, Con!Answer, Con!host, ConTables
    <2>2. /\ pc'[w] \in {"start", "done"} /\ pc[w] \in {"stop", "start"} /\ (pc'[w] = "start" => ~router')
          /\ \/ ~router'
             \/ router' = router /\ loaded' = loaded
             \/ router' /\ loaded' = IF router THEN loaded ELSE stored
      BY <1>2, <1>8 DEF Con!Stop, Con!StopRouter, Con!StartRouter, Con!Goto, Con!Answer, ConTables
    <2>3. ASSUME NEW v \in Verb PROVE Wrote(v)'
      BY <2>1, <2>2 DEF Wrote, ConInv, TokenLive
    <2>4. ASSUME NEW v \in Verb PROVE FreshToken(v)'
      BY <1>3, <1>4, <2>1, <2>2 DEF FreshToken, ConInv, TokenLive
    <2> QED BY <1>1, <1>3, <2>1, <2>3, <2>4 DEF ConInv, TokenLive, FromVerb
  <1> QED BY <1>5, <1>6, <1>7, <1>8 DEF Con!Next, Con!Onboard, Con!Run

LEMMA ConStep ==
  ASSUME ConInv, [Con!Next]_Con!vars, NEW v \in Verb, ans[v] # "connected", ans'[v] = "connected", ~Con!TakenAndPutBack(v)
  PROVE  router' /\ (loaded' = stored' \/ stored' # tok[v])
  <1>1. ConTables
    BY ConTypes DEF ConInv, TokenLive
  <1>2. Con!StartRouter(v)
    BY <1>1 DEF Con!Next, Con!Onboard, Con!InstallRuntime, Con!CreateHuman, Con!RouterRestarts, Con!Run, Con!Begin, Con!AddBot, Con!GiveFace, Con!Project, Con!Gate,
           Con!Stop, Con!StopRouter, Con!StartRouter, Con!vars, Con!Answer, Con!Goto, ConTables
  <1> QED BY <1>1, <1>2 DEF Con!StartRouter, Con!Answer, Con!Goto, ConTables, ConInv, TokenLive, FreshToken

LEMMA ConnectTyped == ASSUME ConInv PROVE Con!TypeOK
  BY DEF ConInv, TokenLive

(* A connect that says connected leaves a router that runs with the token on     *)
(* disk, whatever connects overlap and whenever launchd restarts it, unless two  *)
(* others take its token away and put it back (defaultRestart).                 *)
THEOREM ConnectedRuns == ASSUME Con!ConnectAssumption PROVE Con!Spec => Con!ConnectedIsLive
  <1>1. Con!Init => ConInv
    BY ConInit
  <1>2. ConInv /\ [Con!Next]_Con!vars => ConInv'
    BY ConNext
  <1>3. ConInv /\ [Con!Next]_Con!vars => \A v \in Verb : ans[v] # "connected" /\ ans'[v] = "connected" /\ ~Con!TakenAndPutBack(v)
                                           => router' /\ (loaded' = stored' \/ stored' # tok[v])
    BY ConStep
  <1> QED BY <1>1, <1>2, <1>3, PTL DEF Con!Spec, Con!ConnectedIsLive

-----------------------------------------------------------------------------
(* The tree goes last: what holds of Uninstall for any jobs, sessions, faults   *)
(* and runs.                                                                    *)
UnFlags == {foreign, binary, tree, lines, planned, stuckJob} \subseteq BOOLEAN
UnCounts == faults \in 0 .. MaxFault /\ wakes \in 0 .. MaxWake /\ runs \in 0 .. MaxRun
UnSets == /\ loaded \subseteq Job /\ plists \subseteq Job /\ live \subseteq Session
        /\ pc \in {"none", "jobs", "sessions", "wait", "binary", "tree", "lines"}
        /\ todo \subseteq Job /\ term \subseteq Session

LEMMA UnTypes == Un!TypeOK <=> UnFlags /\ UnCounts /\ UnSets
  BY DEF Un!TypeOK, UnFlags, UnCounts, UnSets

LEMMA UnTypeInit == ASSUME Un!UninstallAssumption, Un!Init PROVE Un!TypeOK
  <1>1. UnFlags
    BY DEF Un!Init, UnFlags
  <1>2. UnCounts
    BY DEF Un!Init, UnCounts, Un!UninstallAssumption
  <1>3. UnSets
    BY DEF Un!Init, UnSets
  <1> QED BY <1>1, <1>2, <1>3, UnTypes

LEMMA UnTypeNext == ASSUME Un!UninstallAssumption, Un!TypeOK, [Un!Next]_Un!vars PROVE Un!TypeOK'
  <1> USE DEF Un!left, Un!run
  <1>1. CASE Un!Begin
    <2>1. UnFlags'
      BY <1>1, UnTypes DEF Un!Begin, UnFlags
    <2>2. UnCounts'
      BY <1>1, UnTypes DEF Un!Begin, UnCounts, Un!UninstallAssumption
    <2>3. UnSets'
      BY <1>1, UnTypes DEF Un!Begin, UnSets
    <2> QED BY <2>1, <2>2, <2>3 DEF Un!TypeOK, UnFlags, UnCounts, UnSets
  <1>2. ASSUME NEW j \in Job, Un!Unload(j) PROVE Un!TypeOK'
    <2>1. UnFlags'
      BY <1>2, UnTypes DEF Un!Unload, UnFlags
    <2>2. UnCounts'
      BY <1>2, UnTypes DEF Un!Unload, Un!Fault, UnCounts, Un!UninstallAssumption
    <2>3. UnSets'
      BY <1>2, UnTypes DEF Un!Unload, UnSets
    <2> QED BY <2>1, <2>2, <2>3 DEF Un!TypeOK, UnFlags, UnCounts, UnSets
  <1>3. CASE Un!JobsDone \/ Un!StopSessions \/ Un!RemoveBinary \/ Un!RemoveTree \/ Un!StripLines \/ Un!Reinstall
    BY <1>3 DEF Un!TypeOK, Un!JobsDone, Un!StopSessions, Un!RemoveBinary, Un!RemoveTree, Un!MayRemoveTree, Un!StripLines, Un!Reinstall
  <1>4. CASE Un!SessionsDone
    BY <1>4 DEF Un!UninstallAssumption, Un!TypeOK, Un!SessionsDone, Un!Fault
  <1>5. ASSUME NEW s \in Session, Un!Wake(s) \/ Un!SessionEnds(s) PROVE Un!TypeOK'
    BY <1>5 DEF Un!UninstallAssumption, Un!TypeOK, Un!Wake, Un!SessionEnds
  <1>6. CASE UNCHANGED Un!vars
    BY <1>6 DEF Un!TypeOK, Un!vars
  <1> QED BY <1>1, <1>2, <1>3, <1>4, <1>5, <1>6 DEF Un!Next, Un!Execute

(* A job that launchd has got a plist, so it is in the plan of every run: it is *)
(* still to be unloaded, or it would not go and keeps the tree.  None of the    *)
(* two changes behind the jobs of a run.                                        *)
Planned == loaded \subseteq plists
Counted == pc # "none" => \/ stuckJob \/ loaded = {} \/ (pc = "jobs" /\ loaded \subseteq todo)

TreeLast == Planned /\ Counted /\ Un!TreeOutlivesJobs /\ Un!TypeOK

LEMMA TreeLastNext == ASSUME Un!UninstallAssumption, TreeLast, [Un!Next]_Un!vars PROVE TreeLast'
  <1>0. Un!TypeOK'
    BY UnTypeNext DEF TreeLast
  <1> USE DEF Un!left, Un!run, Planned, Counted, Un!TreeOutlivesJobs, TreeLast
  <1>1. CASE Un!Begin
    BY <1>0, <1>1 DEF Un!Begin
  <1>2. ASSUME NEW j \in Job, Un!Unload(j) PROVE TreeLast'
    BY <1>0, <1>2 DEF Un!Unload, Un!TypeOK
  <1>3. CASE Un!JobsDone \/ Un!StopSessions \/ Un!RemoveBinary \/ Un!RemoveTree \/ Un!StripLines \/ Un!Reinstall
    BY <1>0, <1>3 DEF Un!JobsDone, Un!StopSessions, Un!RemoveBinary, Un!RemoveTree, Un!MayRemoveTree, Un!StripLines, Un!Reinstall, Un!TypeOK
  <1>4. CASE Un!SessionsDone
    BY <1>0, <1>4 DEF Un!SessionsDone
  <1>5. ASSUME NEW s \in Session, Un!Wake(s) \/ Un!SessionEnds(s) PROVE TreeLast'
    BY <1>0, <1>5 DEF Un!Wake, Un!SessionEnds
  <1>6. CASE UNCHANGED Un!vars
    BY <1>0, <1>6 DEF Un!vars
  <1> QED BY <1>1, <1>2, <1>3, <1>4, <1>5, <1>6 DEF Un!Next, Un!Execute

LEMMA TreeLastInit == ASSUME Un!UninstallAssumption, Un!Init PROVE TreeLast
  BY UnTypeInit DEF Un!Init, TreeLast, Planned, Counted, Un!TreeOutlivesJobs

LEMMA TreeLastSafe == ASSUME TreeLast PROVE Un!TreeOutlivesJobs
  BY DEF TreeLast

LEMMA TreeLastTyped == ASSUME TreeLast PROVE Un!TypeOK
  BY DEF TreeLast

(* The tree is not deleted from under a job that launchd would start again in  *)
(* it, over runs that failed half way and were run again (uninstall).          *)
THEOREM TheTreeGoesLast == ASSUME Un!UninstallAssumption PROVE Un!Spec => []Un!TreeOutlivesJobs
  <1>1. Un!Init => TreeLast
    BY TreeLastInit
  <1>2. TreeLast /\ [Un!Next]_Un!vars => TreeLast'
    BY TreeLastNext
  <1>3. TreeLast => Un!TreeOutlivesJobs
    BY TreeLastSafe
  <1> QED BY <1>1, <1>2, <1>3, PTL DEF Un!Spec

-----------------------------------------------------------------------------
(* What holds of Voice for any number of verbs and faults: what a verb answers   *)
(* of the microphone, and, while nobody else is at the session and no verb is     *)
(* killed, that the verbs' keys never undo each other.                          *)
Key == {"toggle", "stop", "hand"}
TuiTyped == live \in BOOLEAN /\ idle \in BOOLEAN /\ helper \in {"none", "ours", "hand"} /\ keys \in Seq(Key)
Ranks == rank \in Nat /\ started \in 0 .. rank /\ closed \in 0 .. rank /\ intent.at \in 0 .. rank
IntentTyped == intent \in [op : {"none", "open", "close"}, at : Nat, session : Nat, young : BOOLEAN]
ProcTyped == /\ lock \in Vo!Proc \cup {Vo!Free}
             /\ pc \in [Vo!Proc -> {"idle", "take", "look", "type", "await", "close", "stop", "gone", "dead"}]
             /\ asked \in [Vo!Proc -> {"none", "open", "close", "idle"}]
             /\ receipt \in [Vo!Proc -> {"none", "open", "closed", "closing", "failed"}]
VoiceCounts == verbs \in 0 .. VoiceVerb /\ hands \in 0 .. MaxHand /\ faults \in 0 .. VoiceFault

VoiceTyped == TuiTyped /\ Ranks /\ IntentTyped /\ ProcTyped /\ VoiceCounts

LEMMA KeyIs == ASSUME NEW S, NEW s \in Seq(S), NEW i \in DOMAIN s PROVE s[i] \in S
  OBVIOUS

LEMMA VoiceIsTyped == ASSUME VoiceTyped PROVE Vo!TypeOK
  <1>1. \A i \in DOMAIN keys : keys[i] \in {"toggle", "stop", "hand"}
    BY KeyIs DEF VoiceTyped, TuiTyped, Key
  <1> QED BY <1>1 DEF VoiceTyped, TuiTyped, Ranks, IntentTyped, ProcTyped, VoiceCounts, Vo!TypeOK

LEMMA SweepIs == Vo!Sweep \in Vo!Proc
  BY DEF Vo!Proc

LEMMA VoiceInit == ASSUME Vo!VoiceAssumption, Vo!Init PROVE VoiceTyped
  <1>1. TuiTyped /\ ProcTyped
    <2>1. keys \in Seq(Key)
      BY DEF Vo!Init
    <2> QED BY <2>1 DEF Vo!Init, TuiTyped, ProcTyped
  <1>2. Ranks /\ IntentTyped
    BY DEF Vo!Init, Vo!NoIntent, Ranks, IntentTyped
  <1>3. VoiceCounts
    BY DEF Vo!VoiceAssumption, Vo!Init, VoiceCounts
  <1> QED BY <1>1, <1>2, <1>3 DEF VoiceTyped

-----------------------------------------------------------------------------
(* What the pieces of a step leave. *)
LEMMA RankMoves ==
  ASSUME Ranks, rank' = rank + 1, started' \in {started, rank'}, closed' \in {closed, rank'}, intent'.at \in {intent.at, rank'}
  PROVE  Ranks'
  BY DEF Ranks

LEMMA IntentMoves ==
  ASSUME Ranks, NEW op \in {"open", "close"}, NEW k \in Nat, Vo!Intent(op, k), UNCHANGED <<started, closed>>
  PROVE  Ranks' /\ IntentTyped'
  <1>1. rank' = rank + 1 /\ intent' = [op |-> op, at |-> rank', session |-> k, young |-> op = "open"]
    BY DEF Vo!Intent
  <1>2. Ranks'
    BY <1>1, RankMoves
  <1>3. IntentTyped'
    <2>1. rank' \in Nat
      BY <1>1 DEF Ranks
    <2> QED BY <1>1, <2>1 DEF IntentTyped
  <1> QED BY <1>2, <1>3

LEMMA AnswerTyped ==
  ASSUME ProcTyped, NEW p \in Vo!Proc, NEW r \in {"none", "open", "closed", "closing", "failed"}, Vo!Answer(p, r)
  PROVE  ProcTyped'
  BY DEF ProcTyped, Vo!Answer, Vo!Goto

LEMMA GotoTyped ==
  ASSUME ProcTyped, NEW p \in Vo!Proc, NEW s \in {"take", "look", "type", "await", "close", "stop", "gone", "dead"},
         Vo!Goto(p, s), lock' \in {lock, p}, UNCHANGED receipt,
         \/ UNCHANGED asked
         \/ \E a \in {"none", "open", "close", "idle"} : asked' = [asked EXCEPT ![p] = a]
  PROVE  ProcTyped'
  BY DEF ProcTyped, Vo!Goto

LEMMA KeyTyped ==
  ASSUME TuiTyped, NEW k \in Key, keys' = Append(keys, k), UNCHANGED <<live, idle, helper>>
  PROVE  TuiTyped'
  BY DEF TuiTyped

LEMMA OneMore == ASSUME Vo!VoiceAssumption, VoiceCounts
  PROVE /\ verbs < VoiceVerb => verbs + 1 \in 0 .. VoiceVerb
        /\ hands < MaxHand => hands + 1 \in 0 .. MaxHand
        /\ faults < VoiceFault => faults + 1 \in 0 .. VoiceFault
  BY DEF Vo!VoiceAssumption, VoiceCounts

LEMMA SessionTyped ==
  ASSUME Vo!VoiceAssumption, VoiceTyped, Vo!Tui \/ Vo!FallSilent \/ Vo!HandToggle \/ Vo!SessionDies PROVE VoiceTyped'
  <1>0. UNCHANGED <<intent, lock, pc, asked, receipt>>
    BY DEF Vo!Tui, Vo!ActOnKey, Vo!Connect, Vo!FallSilent, Vo!HandToggle, Vo!SessionDies, Vo!EngineOnly
  <1>1. CASE Vo!ActOnKey
    <2>1. TuiTyped'
      <3>1. keys' \in Seq(Key)
        BY <1>1 DEF Vo!ActOnKey, VoiceTyped, TuiTyped
      <3>2. helper' \in {"none", "ours", "hand"}
        BY <1>1 DEF Vo!ActOnKey
      <3> QED BY <1>1, <3>1, <3>2 DEF Vo!ActOnKey, VoiceTyped, TuiTyped
    <2>2. Ranks'
      BY <1>0, <1>1 DEF Vo!ActOnKey, VoiceTyped, Ranks
    <2> QED BY <1>0, <1>1, <2>1, <2>2 DEF Vo!ActOnKey, VoiceTyped, IntentTyped, ProcTyped, VoiceCounts
  <1>2. CASE Vo!Connect
    <2>1. Ranks'
      BY <1>0, <1>2 DEF Vo!Connect, VoiceTyped, Ranks
    <2> QED BY <1>0, <1>2, <2>1 DEF Vo!Connect, VoiceTyped, TuiTyped, IntentTyped, ProcTyped, VoiceCounts
  <1>3. CASE Vo!FallSilent
    BY <1>0, <1>3 DEF Vo!FallSilent, Vo!count, VoiceTyped, TuiTyped, Ranks, IntentTyped, ProcTyped, VoiceCounts
  <1>4. CASE Vo!HandToggle
    <2>1. TuiTyped'
      BY <1>4, KeyTyped DEF Vo!HandToggle, VoiceTyped, Key
    <2>2. VoiceCounts'
      BY <1>4, OneMore DEF Vo!HandToggle, VoiceTyped, VoiceCounts
    <2> QED BY <1>0, <1>4, <2>1, <2>2 DEF Vo!HandToggle, VoiceTyped, Ranks, IntentTyped, ProcTyped
  <1>5. CASE Vo!SessionDies
    <2>1. TuiTyped'
      <3>1. keys' \in Seq(Key)
        BY <1>5 DEF Vo!SessionDies
      <3> QED BY <1>5, <3>1 DEF Vo!SessionDies, VoiceTyped, TuiTyped
    <2>2. VoiceCounts'
      BY <1>5, OneMore DEF Vo!SessionDies, VoiceTyped, VoiceCounts
    <2> QED BY <1>0, <1>5, <2>1, <2>2 DEF Vo!SessionDies, VoiceTyped, Ranks, IntentTyped, ProcTyped
  <1> QED BY <1>1, <1>2, <1>3, <1>4, <1>5 DEF Vo!Tui

LEMMA OpenTyped ==
  ASSUME Vo!VoiceAssumption, VoiceTyped, NEW p \in Vo!Proc, Vo!OpenLook(p) \/ Vo!OpenType(p) \/ Vo!OpenDone(p) \/ Vo!OpenTimesOut(p)
  PROVE  VoiceTyped'
  <1>1. CASE Vo!OpenLook(p)
    <2>1. UNCHANGED <<Vo!tui, verbs, hands, faults>>
      BY <1>1 DEF Vo!OpenLook
    <2>2. ProcTyped'
      BY <1>1, AnswerTyped, GotoTyped DEF Vo!OpenLook, VoiceTyped
    <2>3. Ranks' /\ IntentTyped'
      <3>1. CASE UNCHANGED <<intent, rank>>
        BY <2>1, <3>1 DEF Vo!tui, VoiceTyped, Ranks, IntentTyped
      <3>2. CASE Vo!Intent("open", 0)
        BY <2>1, <3>2, IntentMoves DEF Vo!tui, VoiceTyped
      <3> QED BY <1>1, <3>1, <3>2 DEF Vo!OpenLook
    <2> QED BY <2>1, <2>2, <2>3 DEF Vo!tui, VoiceTyped, TuiTyped, VoiceCounts
  <1>2. CASE Vo!OpenType(p)
    <2>1. UNCHANGED <<live, helper, started, closed, idle, verbs, hands>>
      BY <1>2 DEF Vo!OpenType
    <2>2. CASE /\ live /\ keys' = Append(keys, "toggle") /\ Vo!Goto(p, "await")
               /\ UNCHANGED <<intent, rank, lock, asked, receipt, faults>>
      <3>1. ProcTyped' /\ TuiTyped'
        BY <2>1, <2>2, GotoTyped, KeyTyped DEF VoiceTyped, Key
      <3> QED BY <2>1, <2>2, <3>1 DEF VoiceTyped, Ranks, IntentTyped, VoiceCounts
    <2>3. CASE /\ ~live \/ faults < VoiceFault
               /\ faults' = IF live THEN faults + 1 ELSE faults
               /\ Vo!Intent("close", 0) /\ Vo!Answer(p, "failed") /\ UNCHANGED keys
      <3>1. ProcTyped' /\ Ranks' /\ IntentTyped'
        BY <2>1, <2>3, AnswerTyped, IntentMoves DEF VoiceTyped
      <3>2. VoiceCounts'
        BY <2>1, <2>3, OneMore DEF VoiceTyped, VoiceCounts
      <3> QED BY <2>1, <2>3, <3>1, <3>2 DEF VoiceTyped, TuiTyped
    <2> QED BY <1>2, <2>2, <2>3 DEF Vo!OpenType
  <1>3. CASE Vo!OpenDone(p)
    <2>1. UNCHANGED <<Vo!tui, Vo!count>> /\ ProcTyped'
      BY <1>3, AnswerTyped DEF Vo!OpenDone, VoiceTyped
    <2>2. IntentTyped' /\ intent'.at = intent.at
      <3>1. started \in Nat
        BY DEF VoiceTyped, Ranks
      <3> QED BY <1>3, <3>1 DEF Vo!OpenDone, VoiceTyped, IntentTyped
    <2> QED BY <2>1, <2>2 DEF Vo!tui, Vo!count, VoiceTyped, TuiTyped, Ranks, VoiceCounts
  <1>4. CASE Vo!OpenTimesOut(p)
    <2>1. UNCHANGED <<Vo!tui, Vo!count, intent>> /\ ProcTyped'
      BY <1>4, GotoTyped DEF Vo!OpenTimesOut, VoiceTyped
    <2> QED BY <2>1 DEF Vo!tui, Vo!count, VoiceTyped, TuiTyped, Ranks, IntentTyped, VoiceCounts
  <1> QED BY <1>1, <1>2, <1>3, <1>4

LEMMA CloseTyped ==
  ASSUME Vo!VoiceAssumption, VoiceTyped, NEW p \in Vo!Proc, Vo!CloseLook(p) \/ Vo!CloseType(p) \/ Vo!CloseDone(p) \/ Vo!CloseTimesOut(p)
  PROVE  VoiceTyped'
  <1>0. started \in Nat
    BY DEF VoiceTyped, Ranks
  <1>1. CASE Vo!CloseLook(p)
    <2>1. UNCHANGED <<Vo!tui, verbs, hands, faults>>
      BY <1>1 DEF Vo!CloseLook
    <2>2. ProcTyped'
      BY <1>1, AnswerTyped, GotoTyped DEF Vo!CloseLook, VoiceTyped
    <2>3. Ranks' /\ IntentTyped'
      <3>1. CASE UNCHANGED <<intent, rank>>
        BY <2>1, <3>1 DEF Vo!tui, VoiceTyped, Ranks, IntentTyped
      <3>2. CASE Vo!Intent("close", 0) \/ Vo!Intent("close", started)
        BY <1>0, <2>1, <3>2, IntentMoves DEF Vo!tui, VoiceTyped
      <3> QED BY <1>1, <3>1, <3>2 DEF Vo!CloseLook
    <2> QED BY <2>1, <2>2, <2>3 DEF Vo!tui, VoiceTyped, TuiTyped, VoiceCounts
  <1>2. CASE Vo!CloseType(p)
    <2>1. UNCHANGED <<live, helper, started, closed, idle, intent, rank, verbs, hands>>
      BY <1>2 DEF Vo!CloseType
    <2>2. ProcTyped'
      BY <1>2, AnswerTyped, GotoTyped DEF Vo!CloseType, VoiceTyped
    <2>3. TuiTyped'
      <3>1. CASE UNCHANGED keys
        BY <2>1, <3>1 DEF VoiceTyped, TuiTyped
      <3>2. CASE keys' = Append(keys, "stop")
        BY <2>1, <3>2, KeyTyped DEF VoiceTyped, Key
      <3> QED BY <1>2, <3>1, <3>2 DEF Vo!CloseType
    <2>4. VoiceCounts'
      BY <1>2, <2>1, OneMore DEF Vo!CloseType, VoiceTyped, VoiceCounts
    <2> QED BY <2>1, <2>2, <2>3, <2>4 DEF VoiceTyped, Ranks, IntentTyped
  <1>3. CASE Vo!CloseDone(p)
    <2>1. UNCHANGED <<Vo!tui, verbs, hands, faults>> /\ ProcTyped'
      BY <1>3, AnswerTyped DEF Vo!CloseDone, VoiceTyped
    <2>2. Ranks' /\ IntentTyped'
      BY <1>3, <2>1, IntentMoves DEF Vo!CloseDone, Vo!tui, VoiceTyped
    <2> QED BY <2>1, <2>2 DEF Vo!tui, VoiceTyped, TuiTyped, VoiceCounts
  <1>4. CASE Vo!CloseTimesOut(p)
    <2>1. UNCHANGED <<Vo!tui, Vo!count, intent>> /\ ProcTyped'
      BY <1>4, AnswerTyped DEF Vo!CloseTimesOut, VoiceTyped
    <2> QED BY <2>1 DEF Vo!tui, Vo!count, VoiceTyped, TuiTyped, Ranks, IntentTyped, VoiceCounts
  <1> QED BY <1>1, <1>2, <1>3, <1>4

LEMMA VerbTyped ==
  ASSUME Vo!VoiceAssumption, VoiceTyped, NEW p \in Vo!Proc,
         \/ \E what \in {"open", "close"} : Vo!Ask(p, what)
         \/ Vo!TakeLock(p) \/ Vo!Busy(p) \/ Vo!Killed(p)
  PROVE  VoiceTyped'
  <1>1. UNCHANGED <<Vo!tui, intent, rank, hands>>
    BY DEF Vo!Ask, Vo!TakeLock, Vo!Busy, Vo!Killed, Vo!count
  <1>2. ProcTyped'
    <2>1. CASE \E what \in {"open", "close"} : Vo!Ask(p, what)
      BY <2>1, GotoTyped DEF Vo!Ask, VoiceTyped
    <2>2. CASE Vo!TakeLock(p) \/ Vo!Killed(p)
      BY <2>2, GotoTyped DEF Vo!TakeLock, Vo!Killed, VoiceTyped
    <2>3. CASE Vo!Busy(p)
      BY <2>3 DEF Vo!Busy, Vo!Goto, VoiceTyped, ProcTyped
    <2> QED BY <2>1, <2>2, <2>3
  <1>3. VoiceCounts'
    BY <1>1, OneMore DEF Vo!Ask, Vo!TakeLock, Vo!Busy, Vo!Killed, Vo!count, VoiceTyped, VoiceCounts
  <1> QED BY <1>1, <1>2, <1>3 DEF Vo!tui, VoiceTyped, TuiTyped, Ranks, IntentTyped

LEMMA SweepTyped == ASSUME Vo!VoiceAssumption, VoiceTyped, Vo!SweepLook \/ Vo!SweepAct \/ Vo!GraceEnds PROVE VoiceTyped'
  <1>1. CASE Vo!SweepLook
    <2>1. UNCHANGED <<Vo!tui, Vo!count, intent>> /\ ProcTyped'
      BY <1>1, SweepIs, GotoTyped DEF Vo!SweepLook, VoiceTyped
    <2> QED BY <2>1 DEF Vo!tui, Vo!count, VoiceTyped, TuiTyped, Ranks, IntentTyped, VoiceCounts
  <1>2. CASE Vo!SweepAct
    <2>1. UNCHANGED <<Vo!tui, verbs, hands, faults>> /\ ProcTyped'
      BY <1>2, SweepIs, AnswerTyped, GotoTyped DEF Vo!SweepAct, VoiceTyped
    <2>2. Ranks' /\ IntentTyped'
      <3>1. CASE UNCHANGED <<intent, rank>>
        BY <2>1, <3>1 DEF Vo!tui, VoiceTyped, Ranks, IntentTyped
      <3>2. CASE Vo!Intent("close", intent.session)
        <4>1. intent.session \in Nat
          BY DEF VoiceTyped, IntentTyped
        <4> QED BY <2>1, <3>2, <4>1, IntentMoves DEF Vo!tui, VoiceTyped
      <3> QED BY <1>2, <3>1, <3>2 DEF Vo!SweepAct
    <2> QED BY <2>1, <2>2 DEF Vo!tui, VoiceTyped, TuiTyped, VoiceCounts
  <1>3. CASE Vo!GraceEnds
    <2>1. UNCHANGED <<Vo!tui, Vo!count, lock, pc, asked, receipt>> /\ IntentTyped' /\ intent'.at = intent.at
      BY <1>3 DEF Vo!GraceEnds, VoiceTyped, IntentTyped
    <2> QED BY <2>1 DEF Vo!tui, Vo!count, VoiceTyped, TuiTyped, Ranks, ProcTyped, VoiceCounts
  <1> QED BY <1>1, <1>2, <1>3

LEMMA VoiceNext == ASSUME Vo!VoiceAssumption, VoiceTyped, [Vo!Next]_Vo!vars PROVE VoiceTyped'
  <1>1. ASSUME NEW p \in Vo!Proc, Vo!Step(p) PROVE VoiceTyped'
    BY <1>1, VerbTyped, OpenTyped, CloseTyped DEF Vo!Step
  <1>2. ASSUME NEW p \in Verb, Vo!Ask(p, "open") \/ Vo!Ask(p, "close") \/ Vo!Busy(p) \/ Vo!Killed(p) PROVE VoiceTyped'
    BY <1>2, VerbTyped DEF Vo!Proc
  <1>3. CASE UNCHANGED Vo!vars
    BY <1>3 DEF Vo!vars, VoiceTyped, TuiTyped, Ranks, IntentTyped, ProcTyped, VoiceCounts
  <1> QED BY <1>1, <1>2, <1>3, SessionTyped, SweepTyped DEF Vo!Next

-----------------------------------------------------------------------------
(* A step that answers "closed" found the microphone free. *)
ReleasedStep == \A p \in Vo!Proc : receipt'[p] = "closed" /\ pc[p] # "idle" /\ pc'[p] = "idle" => helper = "none"

LEMMA StatusClosed == Vo!Status = "closed" => helper = "none"
  BY DEF Vo!Status

\* A process that answers something else, or goes elsewhere.
LEMMA AnswerOther ==
  ASSUME VoiceTyped, NEW p \in Vo!Proc, NEW r \in {"none", "open", "closed", "closing", "failed"},
         Vo!Answer(p, r), r = "closed" => helper = "none"
  PROVE  ReleasedStep
  BY DEF VoiceTyped, ProcTyped, Vo!Answer, Vo!Goto, ReleasedStep

LEMMA GotoOther ==
  ASSUME VoiceTyped, NEW p \in Vo!Proc, NEW s \in {"take", "look", "type", "await", "close", "stop", "gone", "dead"},
         Vo!Goto(p, s)
  PROVE  ReleasedStep
  BY DEF VoiceTyped, ProcTyped, Vo!Goto, ReleasedStep

LEMMA NobodyAnswers == ASSUME pc' = pc PROVE ReleasedStep
  BY DEF ReleasedStep

LEMMA ReleasedNext == ASSUME VoiceTyped, [Vo!Next]_Vo!vars PROVE ReleasedStep
  <1>1. CASE Vo!Tui \/ Vo!FallSilent \/ Vo!HandToggle \/ Vo!SessionDies \/ Vo!GraceEnds \/ UNCHANGED Vo!vars
    <2>1. pc' = pc
      BY <1>1 DEF Vo!Tui, Vo!ActOnKey, Vo!Connect, Vo!FallSilent, Vo!HandToggle, Vo!SessionDies, Vo!GraceEnds, Vo!EngineOnly, Vo!vars
    <2> QED BY <2>1, NobodyAnswers
  <1>2. ASSUME NEW p \in Verb, Vo!Ask(p, "open") \/ Vo!Ask(p, "close") \/ Vo!Busy(p) \/ Vo!Killed(p) PROVE ReleasedStep
    <2>1. CASE Vo!Ask(p, "open") \/ Vo!Ask(p, "close") \/ Vo!Killed(p)
      BY <2>1, GotoOther DEF Vo!Ask, Vo!Killed, Vo!Proc
    <2>2. CASE Vo!Busy(p)
      BY <2>2 DEF Vo!Busy, Vo!Goto, VoiceTyped, ProcTyped, ReleasedStep, Vo!Proc
    <2> QED BY <1>2, <2>1, <2>2
  <1>3. ASSUME NEW p \in Vo!Proc, Vo!TakeLock(p) \/ Vo!OpenLook(p) \/ Vo!OpenType(p) \/ Vo!OpenDone(p) \/ Vo!OpenTimesOut(p) PROVE ReleasedStep
    BY <1>3, AnswerOther, GotoOther DEF Vo!TakeLock, Vo!OpenLook, Vo!OpenType, Vo!OpenDone, Vo!OpenTimesOut
  <1>4. ASSUME NEW p \in Vo!Proc, Vo!CloseLook(p) \/ Vo!CloseType(p) \/ Vo!CloseDone(p) \/ Vo!CloseTimesOut(p) PROVE ReleasedStep
    <2>1. CASE Vo!CloseLook(p)
      BY <2>1, StatusClosed, AnswerOther, GotoOther DEF Vo!CloseLook
    <2>2. CASE Vo!CloseType(p)
      BY <2>2, AnswerOther, GotoOther DEF Vo!CloseType
    <2>3. CASE Vo!CloseDone(p) \/ Vo!CloseTimesOut(p)
      BY <2>3, AnswerOther DEF Vo!CloseDone, Vo!CloseTimesOut, Vo!Released
    <2> QED BY <1>4, <2>1, <2>2, <2>3
  <1>5. CASE Vo!SweepLook \/ Vo!SweepAct
    BY <1>5, SweepIs, AnswerOther, GotoOther DEF Vo!SweepLook, Vo!SweepAct
  <1> QED BY <1>1, <1>2, <1>3, <1>4, <1>5 DEF Vo!Next, Vo!Step

(* Who is told "closed" may take the microphone back, whatever verbs overlap and   *)
(* are killed.                                                                    *)
THEOREM ClosedIsFree == ASSUME Vo!VoiceAssumption PROVE Vo!Spec => Vo!ClosedIsReleased
  <1>1. Vo!Init => VoiceTyped
    BY VoiceInit
  <1>2. VoiceTyped /\ [Vo!Next]_Vo!vars => VoiceTyped'
    BY VoiceNext
  <1>3. VoiceTyped /\ [Vo!Next]_Vo!vars => [ReleasedStep]_Vo!vars
    BY ReleasedNext
  <1> QED BY <1>1, <1>2, <1>3, PTL DEF Vo!Spec, Vo!ClosedIsReleased, ReleasedStep

-----------------------------------------------------------------------------
(* Who is inside the lock is alone.  A key is out only while the verb that typed   *)
(* it waits for it, a toggle is out only while there is no conversation, and an    *)
(* attempt is young only while its verb is at it.                               *)
Inside == {"look", "type", "await", "close", "stop", "gone"}
Held == \A p \in Vo!Proc : pc[p] \in Inside => lock = p
KeyOut == keys # <<>> => \E p \in Vo!Proc : \/ pc[p] = "await" /\ keys = <<"toggle">> /\ helper = "none"
                                            \/ pc[p] = "gone" /\ keys = <<"stop">> /\ helper = "ours"
Seen == \A p \in Vo!Proc : /\ pc[p] = "type" => helper = "none"
                           /\ pc[p] = "stop" => helper = "ours" \/ ~live
                           /\ pc[p] = "gone" => keys # <<>> \/ helper = "none"
Attempt == intent.op = "open" /\ intent.young => \E p \in Vo!Proc : pc[p] \in {"type", "await"}
Only == helper # "hand" /\ (~live => keys = <<>>)

Quiet == Held /\ KeyOut /\ Seen /\ Attempt /\ Only
CalmInv == VoiceTyped /\ (Vo!Calm => Quiet)

LEMMA CalmInit == ASSUME Vo!VoiceAssumption, Vo!Init PROVE CalmInv
  <1>1. Quiet
    BY DEF Vo!Init, Quiet, Held, KeyOut, Seen, Attempt, Only, Inside, Vo!NoIntent
  <1> QED BY <1>1, VoiceInit DEF CalmInv

LEMMA CalmStays == ASSUME VoiceTyped, [Vo!Next]_Vo!vars, Vo!Calm' PROVE Vo!Calm
  <1>1. hands = 0
    <2>1. hands \in Nat
      BY DEF VoiceTyped, VoiceCounts
    <2>2. hands' = hands \/ hands' = hands + 1
      BY DEF Vo!Next, Vo!Tui, Vo!ActOnKey, Vo!Connect, Vo!FallSilent, Vo!HandToggle, Vo!SessionDies, Vo!GraceEnds, Vo!Ask, Vo!Busy, Vo!Killed, Vo!Step,
             Vo!TakeLock, Vo!OpenLook, Vo!OpenType, Vo!OpenDone, Vo!OpenTimesOut, Vo!CloseLook, Vo!CloseType, Vo!CloseDone, Vo!CloseTimesOut,
             Vo!SweepLook, Vo!SweepAct, Vo!count, Vo!vars
    <2> QED BY <2>1, <2>2 DEF Vo!Calm
  <1>2. ASSUME NEW p \in Vo!Proc, pc[p] = "dead" PROVE pc'[p] = "dead"
    <2>1. CASE pc' = pc
      BY <1>2, <2>1
    <2>2. ASSUME NEW q \in Vo!Proc, NEW s, Vo!Goto(q, s), pc[q] # "dead" PROVE pc'[p] = "dead"
      BY <1>2, <2>2 DEF Vo!Goto, VoiceTyped, ProcTyped
    <2>3. CASE \E q \in Vo!Proc : Vo!Step(q)
      BY <2>2, <2>3 DEF Vo!Step, Vo!TakeLock, Vo!OpenLook, Vo!OpenType, Vo!OpenDone, Vo!OpenTimesOut, Vo!CloseLook, Vo!CloseType,
             Vo!CloseDone, Vo!CloseTimesOut, Vo!Answer
    <2>4. CASE \E q \in Verb : Vo!Ask(q, "open") \/ Vo!Ask(q, "close") \/ Vo!Busy(q) \/ Vo!Killed(q)
      BY <2>2, <2>4 DEF Vo!Ask, Vo!Busy, Vo!Killed, Vo!Proc
    <2>5. CASE Vo!SweepLook \/ Vo!SweepAct
      BY <2>2, <2>5, SweepIs DEF Vo!SweepLook, Vo!SweepAct, Vo!Answer
    <2>6. CASE Vo!Tui \/ Vo!FallSilent \/ Vo!HandToggle \/ Vo!SessionDies \/ Vo!GraceEnds \/ UNCHANGED Vo!vars
      BY <2>1, <2>6 DEF Vo!Tui, Vo!ActOnKey, Vo!Connect, Vo!FallSilent, Vo!HandToggle, Vo!SessionDies, Vo!GraceEnds, Vo!EngineOnly, Vo!vars
    <2> QED BY <2>3, <2>4, <2>5, <2>6 DEF Vo!Next
  <1> QED BY <1>1, <1>2 DEF Vo!Calm

\* While a process is inside, no other is.
LEMMA Lone == ASSUME Held, NEW p \in Vo!Proc, pc[p] \in Inside PROVE lock = p /\ \A q \in Vo!Proc : q # p => pc[q] \notin Inside
  BY DEF Held

LEMMA NobodyInside == ASSUME Vo!VoiceAssumption, Held, Vo!Calm, Vo!Takeable PROVE \A q \in Vo!Proc : pc[q] \notin Inside
  <1>1. lock = Vo!Free
    BY DEF Vo!Takeable, Vo!Calm
  <1>2. Vo!Free \notin Vo!Proc
    BY DEF Vo!VoiceAssumption, Vo!Proc, Vo!Free, Vo!Sweep
  <1> QED BY <1>1, <1>2 DEF Held

\* A process goes where no key is waited for.
LEMMA QuietMoves ==
  ASSUME VoiceTyped, Quiet, NEW p \in Vo!Proc, NEW s, pc' = [pc EXCEPT ![p] = s],
         s \in Inside => lock' = p, \A q \in Vo!Proc : q # p => pc[q] \notin Inside,
         keys' = <<>>, keys = <<>>, UNCHANGED <<live, helper>>,
         s = "type" => helper = "none", s = "stop" => helper = "ours" \/ ~live, s = "gone" => helper = "none",
         intent'.op = "open" /\ intent'.young => s \in {"type", "await"}
  PROVE  Quiet'
  <1>1. pc'[p] = s /\ \A q \in Vo!Proc : q # p => pc'[q] = pc[q]
    BY DEF VoiceTyped, ProcTyped
  <1>2. \A q \in Vo!Proc : q # p => pc'[q] \notin Inside
    BY <1>1
  <1>3. Held'
    BY <1>1, <1>2 DEF Held
  <1>4. KeyOut' /\ Only'
    BY DEF KeyOut, Only, Quiet
  <1>5. Seen'
    BY <1>1, <1>2 DEF Seen, Inside
  <1>6. Attempt'
    BY <1>1 DEF Attempt
  <1> QED BY <1>3, <1>4, <1>5, <1>6 DEF Quiet

\* No key is out while a process looks or is about to type.
LEMMA NoKeyOut ==
  ASSUME Quiet, NEW p \in Vo!Proc, pc[p] \in {"look", "type", "close", "stop"}
  PROVE  keys = <<>> /\ \A q \in Vo!Proc : q # p => pc[q] \notin Inside
  <1>1. pc[p] \in Inside /\ pc[p] \notin {"await", "gone"}
    BY DEF Inside
  <1>2. \A q \in Vo!Proc : q # p => pc[q] \notin Inside
    BY <1>1, Lone DEF Quiet
  <1>3. \A q \in Vo!Proc : pc[q] \notin {"await", "gone"}
    BY <1>1, <1>2 DEF Inside
  <1> QED BY <1>2, <1>3 DEF Quiet, KeyOut

\* An attempt is not young, then.
LEMMA NoAttempt ==
  ASSUME Quiet, NEW p \in Vo!Proc, pc[p] \in {"look", "close", "stop", "gone"}
  PROVE  ~(intent.op = "open" /\ intent.young)
  <1>1. pc[p] \in Inside /\ pc[p] \notin {"type", "await"}
    BY DEF Inside
  <1>2. \A q \in Vo!Proc : pc[q] \notin {"type", "await"}
    BY <1>1, Lone DEF Quiet, Inside
  <1> QED BY <1>2 DEF Quiet, Attempt

LEMMA NoYoung == ASSUME NEW k, Vo!Intent("close", k) PROVE ~(intent'.op = "open" /\ intent'.young)
  BY DEF Vo!Intent

LEMMA OpenQuiet ==
  ASSUME Vo!VoiceAssumption, ~Late, VoiceTyped, Quiet, NEW p \in Vo!Proc,
         Vo!OpenLook(p) \/ Vo!OpenType(p) \/ Vo!OpenDone(p) \/ Vo!OpenTimesOut(p)
  PROVE  Quiet'
  <1>1. CASE Vo!OpenLook(p)
    <2>1. keys = <<>> /\ (\A q \in Vo!Proc : q # p => pc[q] \notin Inside) /\ UNCHANGED <<keys, live, helper>> /\ lock = p
      BY <1>1, NoKeyOut, Lone DEF Vo!OpenLook, Vo!tui, Quiet, Inside
    <2>2. CASE \E r : Vo!Answer(p, r) /\ UNCHANGED intent
      <3>1. ~(intent'.op = "open" /\ intent'.young)
        BY <1>1, <2>2, NoAttempt DEF Vo!OpenLook
      <3> QED BY <2>1, <2>2, <3>1, QuietMoves DEF Vo!Answer, Vo!Goto, Inside
    <2>3. CASE Vo!Status = "closed" /\ Vo!Goto(p, "type") /\ lock' = lock
      BY <2>1, <2>3, StatusClosed, QuietMoves DEF Vo!Goto
    <2> QED BY <1>1, <2>2, <2>3 DEF Vo!OpenLook, Vo!MayToggle
  <1>2. CASE Vo!OpenType(p)
    <2>1. keys = <<>> /\ (\A q \in Vo!Proc : q # p => pc[q] \notin Inside) /\ UNCHANGED <<live, helper>> /\ lock = p
          /\ helper = "none"
      BY <1>2, NoKeyOut, Lone DEF Vo!OpenType, Quiet, Seen, Inside
    <2>2. CASE live /\ keys' = Append(keys, "toggle") /\ Vo!Goto(p, "await") /\ UNCHANGED <<intent, lock>>
      <3>1. keys' = <<"toggle">>
        BY <2>1, <2>2
      <3>2. pc'[p] = "await" /\ \A q \in Vo!Proc : q # p => pc'[q] = pc[q]
        BY <2>2 DEF Vo!Goto, VoiceTyped, ProcTyped
      <3>3. Held' /\ KeyOut' /\ Attempt' /\ Only'
        BY <2>1, <2>2, <3>1, <3>2 DEF Held, KeyOut, Attempt, Only, Quiet
      <3>4. Seen'
        BY <2>1, <3>2 DEF Seen, Inside
      <3> QED BY <3>3, <3>4 DEF Quiet
    <2>3. CASE Vo!Intent("close", 0) /\ Vo!Answer(p, "failed") /\ UNCHANGED keys
      BY <2>1, <2>3, NoYoung, QuietMoves DEF Vo!Answer, Vo!Goto, Inside
    <2> QED BY <1>2, <2>2, <2>3 DEF Vo!OpenType
  <1>3. CASE Vo!OpenDone(p)
    <2>1. helper # "none" /\ pc[p] = "await"
      BY <1>3 DEF Vo!OpenDone, Vo!Status
    <2>2. \A q \in Vo!Proc : q # p => pc[q] \notin Inside
      BY <2>1, Lone DEF Quiet, Inside
    <2>3. keys = <<>>
      BY <2>1, <2>2 DEF Quiet, KeyOut, Inside
    <2>4. UNCHANGED <<keys, live, helper>> /\ ~(intent'.op = "open" /\ intent'.young)
      BY <1>3 DEF Vo!OpenDone, Vo!tui, VoiceTyped, IntentTyped
    <2> QED BY <1>3, <2>2, <2>3, <2>4, QuietMoves DEF Vo!OpenDone, Vo!Answer, Vo!Goto, Inside
  <1>4. CASE Vo!OpenTimesOut(p)
    <2>1. keys = <<>> /\ pc[p] = "await" /\ ~intent.young /\ UNCHANGED <<keys, live, helper, intent, lock>> /\ Vo!Goto(p, "close")
      BY <1>4 DEF Vo!OpenTimesOut, Vo!tui
    <2>2. lock = p /\ \A q \in Vo!Proc : q # p => pc[q] \notin Inside
      BY <2>1, Lone DEF Quiet, Inside
    <2> QED BY <2>1, <2>2, QuietMoves DEF Vo!Goto
  <1> QED BY <1>1, <1>2, <1>3, <1>4

LEMMA CloseQuiet ==
  ASSUME Vo!VoiceAssumption, ~Late, VoiceTyped, Quiet, NEW p \in Vo!Proc,
         Vo!CloseLook(p) \/ Vo!CloseType(p) \/ Vo!CloseDone(p) \/ Vo!CloseTimesOut(p)
  PROVE  Quiet'
  <1>1. CASE Vo!CloseLook(p)
    <2>1. /\ keys = <<>> /\ (\A q \in Vo!Proc : q # p => pc[q] \notin Inside) /\ UNCHANGED <<keys, live, helper>> /\ lock = p
          /\ ~(intent.op = "open" /\ intent.young)
      BY <1>1, NoKeyOut, NoAttempt, Lone DEF Vo!CloseLook, Vo!tui, Quiet, Inside
    <2>2. CASE Vo!Status = "closed"
      <3>1. Vo!Answer(p, "closed") /\ ~(intent'.op = "open" /\ intent'.young)
        BY <1>1, <2>1, <2>2, NoYoung DEF Vo!CloseLook
      <3> QED BY <2>1, <3>1, QuietMoves DEF Vo!Answer, Vo!Goto, Inside
    <2>3. CASE Vo!Status # "closed"
      <3>1. Vo!Intent("close", started) /\ Vo!Goto(p, "stop") /\ lock' = lock
        BY <1>1, <2>3 DEF Vo!CloseLook
      <3>2. helper = "ours"
        BY <2>1, <2>3 DEF Vo!Status, Quiet, Only, VoiceTyped, TuiTyped
      <3> QED BY <2>1, <3>1, <3>2, NoYoung, QuietMoves DEF Vo!Goto
    <2> QED BY <2>2, <2>3
  <1>2. CASE Vo!CloseType(p)
    <2>1. /\ keys = <<>> /\ (\A q \in Vo!Proc : q # p => pc[q] \notin Inside) /\ UNCHANGED <<live, helper, intent>> /\ lock = p
          /\ ~(intent.op = "open" /\ intent.young) /\ (helper = "ours" \/ ~live)
      BY <1>2, NoKeyOut, NoAttempt, Lone DEF Vo!CloseType, Quiet, Seen, Inside
    <2>2. CASE live /\ keys' = Append(keys, "stop") /\ Vo!Goto(p, "gone") /\ UNCHANGED lock
      <3>1. keys' = <<"stop">> /\ keys' # <<>>
        BY <2>1, <2>2
      <3>2. pc'[p] = "gone" /\ \A q \in Vo!Proc : q # p => pc'[q] = pc[q]
        BY <2>2 DEF Vo!Goto, VoiceTyped, ProcTyped
      <3>3. Held' /\ KeyOut' /\ Attempt' /\ Only'
        BY <2>1, <2>2, <3>1, <3>2 DEF Held, KeyOut, Attempt, Only, Quiet
      <3>4. Seen'
        BY <2>1, <3>1, <3>2 DEF Seen, Inside
      <3> QED BY <3>3, <3>4 DEF Quiet
    <2>3. CASE Vo!Answer(p, "failed") /\ UNCHANGED keys
      BY <2>1, <2>3, QuietMoves DEF Vo!Answer, Vo!Goto, Inside
    <2> QED BY <1>2, <2>2, <2>3 DEF Vo!CloseType
  <1>3. CASE Vo!CloseDone(p)
    <2>1. helper = "none" /\ pc[p] = "gone" /\ UNCHANGED <<keys, live, helper>> /\ Vo!Intent("close", 0) /\ Vo!Answer(p, "closed")
      BY <1>3 DEF Vo!CloseDone, Vo!Released, Vo!tui
    <2>2. \A q \in Vo!Proc : q # p => pc[q] \notin Inside
      BY <2>1, Lone DEF Quiet, Inside
    <2>3. keys = <<>>
      BY <2>1, <2>2 DEF Quiet, KeyOut, Inside
    <2> QED BY <2>1, <2>2, <2>3, NoYoung, QuietMoves DEF Vo!Answer, Vo!Goto, Inside
  <1>4. CASE Vo!CloseTimesOut(p)
    BY <1>4 DEF Vo!CloseTimesOut
  <1> QED BY <1>1, <1>2, <1>3, <1>4

LEMMA SessionQuiet ==
  ASSUME VoiceTyped, Quiet, Vo!Tui \/ Vo!FallSilent \/ Vo!SessionDies \/ Vo!GraceEnds \/ UNCHANGED Vo!vars PROVE Quiet'
  <1>0. UNCHANGED <<lock, pc>> /\ (intent' = intent \/ ~intent'.young)
    BY DEF Vo!Tui, Vo!ActOnKey, Vo!Connect, Vo!FallSilent, Vo!SessionDies, Vo!GraceEnds, Vo!EngineOnly, Vo!vars, VoiceTyped, IntentTyped
  <1>1. Held' /\ Attempt'
    BY <1>0 DEF Quiet, Held, Attempt
  <1>2. CASE Vo!ActOnKey
    <2>1. PICK p \in Vo!Proc : \/ pc[p] = "await" /\ keys = <<"toggle">> /\ helper = "none"
                               \/ pc[p] = "gone" /\ keys = <<"stop">> /\ helper = "ours"
      BY <1>2 DEF Vo!ActOnKey, Quiet, KeyOut
    <2>2. \A q \in Vo!Proc : q # p => pc[q] \notin Inside
      BY <2>1, Lone DEF Quiet, Inside
    <2>3. keys' = <<>> /\ live' = live
      BY <1>2, <2>1 DEF Vo!ActOnKey
    <2>4. CASE pc[p] = "await" /\ keys = <<"toggle">> /\ helper = "none"
      <3>1. helper' = "ours"
        BY <1>2, <2>4 DEF Vo!ActOnKey
      <3> QED BY <1>0, <1>1, <2>2, <2>3, <2>4, <3>1 DEF Quiet, KeyOut, Seen, Only, Inside
    <2>5. CASE pc[p] = "gone" /\ keys = <<"stop">>
      <3>1. helper' = "none"
        BY <1>2, <2>5 DEF Vo!ActOnKey
      <3> QED BY <1>0, <1>1, <2>2, <2>3, <2>5, <3>1 DEF Quiet, KeyOut, Seen, Only, Inside
    <2> QED BY <2>1, <2>4, <2>5
  <1>3. CASE Vo!Connect \/ Vo!FallSilent \/ Vo!GraceEnds \/ UNCHANGED Vo!vars
    <2>1. UNCHANGED <<keys, helper, live>>
      BY <1>3 DEF Vo!Connect, Vo!FallSilent, Vo!GraceEnds, Vo!tui, Vo!vars
    <2> QED BY <1>0, <1>1, <2>1 DEF Quiet, KeyOut, Seen, Only
  <1>4. CASE Vo!SessionDies
    BY <1>0, <1>1, <1>4 DEF Vo!SessionDies, Quiet, KeyOut, Seen, Only
  <1> QED BY <1>2, <1>3, <1>4 DEF Vo!Tui

LEMMA ElseQuiet ==
  ASSUME Vo!VoiceAssumption, VoiceTyped, Quiet, Vo!Calm, NEW p \in Vo!Proc,
         \/ \E what \in {"open", "close"} : Vo!Ask(p, what)
         \/ Vo!TakeLock(p) \/ Vo!Busy(p) \/ (p = Vo!Sweep /\ Vo!SweepLook)
  PROVE  Quiet'
  <1>0. UNCHANGED <<Vo!tui, intent>>
    BY DEF Vo!Ask, Vo!TakeLock, Vo!Busy, Vo!SweepLook
  <1>1. pc[p] \in {"idle", "take"} /\ \E s \in {"idle", "take", "look"} : pc' = [pc EXCEPT ![p] = s] /\ (s # "look" => lock' = lock)
    BY DEF Vo!Ask, Vo!TakeLock, Vo!Busy, Vo!SweepLook, Vo!Goto
  <1>2. PICK s \in {"idle", "take", "look"} : pc' = [pc EXCEPT ![p] = s] /\ (s # "look" => lock' = lock)
    BY <1>1
  <1>3. pc'[p] = s /\ \A q \in Vo!Proc : q # p => pc'[q] = pc[q]
    BY <1>2 DEF VoiceTyped, ProcTyped
  <1>4. Held'
    <2>1. CASE s # "look"
      BY <1>2, <1>3, <2>1 DEF Held, Quiet, Inside
    <2>2. CASE s = "look"
      <3>1. Vo!Takeable /\ lock' = p
        BY <1>3, <2>2 DEF Vo!Ask, Vo!TakeLock, Vo!Busy, Vo!SweepLook, Vo!Goto, VoiceTyped, ProcTyped
      <3> QED BY <1>3, <3>1, NobodyInside DEF Held, Quiet
    <2> QED BY <2>1, <2>2
  <1>5. KeyOut'
    BY <1>0, <1>1, <1>3 DEF Vo!tui, KeyOut, Quiet
  <1>6. Seen' /\ Only'
    BY <1>0, <1>3 DEF Vo!tui, Seen, Only, Quiet
  <1>7. Attempt'
    BY <1>0, <1>1, <1>3 DEF Vo!tui, Attempt, Quiet
  <1> QED BY <1>4, <1>5, <1>6, <1>7 DEF Quiet

LEMMA SweepQuiet == ASSUME Vo!VoiceAssumption, VoiceTyped, Quiet, Vo!SweepAct PROVE Quiet'
  <1>1. /\ keys = <<>> /\ (\A q \in Vo!Proc : q # Vo!Sweep => pc[q] \notin Inside) /\ UNCHANGED <<keys, live, helper>>
        /\ lock = Vo!Sweep /\ ~(intent.op = "open" /\ intent.young)
    BY SweepIs, NoKeyOut, NoAttempt, Lone DEF Vo!SweepAct, Vo!tui, Quiet, Inside
  <1>2. CASE \E r : Vo!Answer(Vo!Sweep, r)
    <2>1. ~(intent'.op = "open" /\ intent'.young)
      BY <1>1, NoYoung DEF Vo!SweepAct
    <2> QED BY <1>1, <1>2, <2>1, SweepIs, QuietMoves DEF Vo!Answer, Vo!Goto, Inside
  <1>3. CASE Vo!Goto(Vo!Sweep, "close") /\ UNCHANGED <<intent, lock>>
    BY <1>1, <1>3, SweepIs, QuietMoves DEF Vo!Goto
  <1> QED BY <1>2, <1>3 DEF Vo!SweepAct

LEMMA CalmNext == ASSUME Vo!VoiceAssumption, ~Late, CalmInv, [Vo!Next]_Vo!vars PROVE CalmInv'
  <1>1. VoiceTyped /\ VoiceTyped'
    BY VoiceNext DEF CalmInv
  <1> SUFFICES ASSUME Vo!Calm' PROVE Quiet'
    BY <1>1 DEF CalmInv
  <1>2. Vo!Calm /\ Quiet
    BY <1>1, CalmStays DEF CalmInv
  <1>3. ~Vo!HandToggle
    <2>1. Vo!HandToggle => hands' # 0
      BY <1>1 DEF Vo!HandToggle, VoiceTyped, VoiceCounts
    <2> QED BY <2>1 DEF Vo!Calm
  <1>4. ASSUME NEW p \in Vo!Proc PROVE ~Vo!Killed(p)
    <2>1. Vo!Killed(p) => pc'[p] = "dead"
      BY <1>1 DEF Vo!Killed, Vo!Goto, VoiceTyped, ProcTyped
    <2> QED BY <2>1 DEF Vo!Calm
  <1>5. CASE Vo!Tui \/ Vo!FallSilent \/ Vo!SessionDies \/ Vo!GraceEnds \/ UNCHANGED Vo!vars
    BY <1>1, <1>2, <1>5, SessionQuiet
  <1>6. ASSUME NEW p \in Verb, Vo!Ask(p, "open") \/ Vo!Ask(p, "close") \/ Vo!Busy(p) PROVE Quiet'
    <2>1. p \in Vo!Proc /\ ((\E what \in {"open", "close"} : Vo!Ask(p, what)) \/ Vo!Busy(p))
      BY <1>6 DEF Vo!Proc
    <2> QED BY <1>1, <1>2, <2>1, ElseQuiet
  <1>7. ASSUME NEW p \in Vo!Proc, Vo!Step(p) PROVE Quiet'
    <2>1. CASE Vo!TakeLock(p)
      BY <1>1, <1>2, <2>1, ElseQuiet
    <2>2. CASE Vo!OpenLook(p) \/ Vo!OpenType(p) \/ Vo!OpenDone(p) \/ Vo!OpenTimesOut(p)
      BY <1>1, <1>2, <2>2, OpenQuiet
    <2>3. CASE Vo!CloseLook(p) \/ Vo!CloseType(p) \/ Vo!CloseDone(p) \/ Vo!CloseTimesOut(p)
      BY <1>1, <1>2, <2>3, CloseQuiet
    <2> QED BY <1>7, <2>1, <2>2, <2>3 DEF Vo!Step
  <1>8. CASE Vo!SweepLook \/ Vo!SweepAct
    BY <1>1, <1>2, <1>8, SweepIs, ElseQuiet, SweepQuiet
  <1> QED BY <1>3, <1>4, <1>5, <1>6, <1>7, <1>8 DEF Vo!Next, Vo!Proc

OwnStep == Vo!Calm /\ live' /\ helper = "ours" /\ helper' = "none" => Head(keys) # "toggle"

LEMMA OwnNext == ASSUME CalmInv, [Vo!Next]_Vo!vars PROVE OwnStep
  <1> SUFFICES ASSUME Vo!Calm, live', helper = "ours", helper' = "none" PROVE Head(keys) # "toggle"
    BY DEF OwnStep
  <1>1. Vo!ActOnKey
    BY DEF Vo!Next, Vo!Tui, Vo!Connect, Vo!FallSilent, Vo!HandToggle, Vo!SessionDies, Vo!GraceEnds, Vo!Ask, Vo!Busy, Vo!Killed, Vo!Step, Vo!TakeLock,
           Vo!OpenLook, Vo!OpenType, Vo!OpenDone, Vo!OpenTimesOut, Vo!CloseLook, Vo!CloseType, Vo!CloseDone, Vo!CloseTimesOut, Vo!SweepLook,
           Vo!SweepAct, Vo!tui, Vo!vars
  <1>2. keys = <<"stop">>
    BY <1>1 DEF Vo!ActOnKey, CalmInv, Quiet, KeyOut
  <1> QED BY <1>2

(* Two opens never undo each other, for any number of verbs: a toggle is typed     *)
(* into a session that has no conversation, and acted on before the next.         *)
THEOREM TogglesOpen == ASSUME Vo!VoiceAssumption, ~Late PROVE Vo!Spec => Vo!NeverTogglesOff
  <1>1. Vo!Init => CalmInv
    BY CalmInit
  <1>2. CalmInv /\ [Vo!Next]_Vo!vars => CalmInv'
    BY CalmNext
  <1>3. CalmInv /\ [Vo!Next]_Vo!vars => [OwnStep]_Vo!vars
    BY OwnNext
  <1> QED BY <1>1, <1>2, <1>3, PTL DEF Vo!Spec, Vo!NeverTogglesOff, OwnStep

-----------------------------------------------------------------------------
(* What is about to be verified, and what was answered ok, was taken. *)
Taken ==
  /\ \A m \in Msg : pc[m] = "verify" => m \in Route!Landed
  /\ \A m \in Msg : answer[m] = "ok" => m \in Route!Landed

LEMMA TakesMore == ASSUME RoutingTypes, NEW m \in Msg, inbox' = Append(inbox, m)
                   PROVE Route!Landed \subseteq Route!Landed' /\ m \in Route!Landed'
  BY AppendRange DEF RoutingTypes, QueuesTyped, Route!Landed

(* A send that goes on, to no verification, with an answer that is no ok. *)
LEMMA SendGoesOn ==
  ASSUME RoutingTypes, Taken, UNCHANGED inbox, NEW m \in Msg, NEW p, NEW a,
         p # "verify", a # "ok" \/ m \in Route!Landed,
         pc' = pc \/ pc' = [pc EXCEPT ![m] = p],
         answer' = answer \/ answer' = [answer EXCEPT ![m] = a]
  PROVE  Taken'
  <1>1. Route!Landed' = Route!Landed
    BY DEF Route!Landed
  <1>2. \A x \in Msg : pc'[x] \in {pc[x], p} /\ (answer'[x] = answer[x] \/ (x = m /\ answer'[x] = a))
    BY DEF RoutingTypes, SendsTyped
  <1> QED BY <1>1, <1>2 DEF Taken

LEMMA TakenNext == ASSUME Route!RoutingAssumption, RoutingTypes, Taken, [Route!Next]_Route!vars PROVE Taken'
  <1>0. ASSUME UNCHANGED <<inbox, pc, answer>> PROVE Taken'
    BY <1>0 DEF Taken, Route!Landed
  <1>1. CASE Route!Start \/ Route!Die \/ Route!Type \/ UNCHANGED Route!vars
    BY <1>0, <1>1 DEF Route!Start, Route!Die, Route!Type, Route!sendVars, Route!vars
  <1>2. ASSUME NEW m \in Msg, Route!Land(m) PROVE Taken'
    <2>1. inbox' = Append(inbox, m) /\ UNCHANGED <<pc, answer>>
      BY <1>2 DEF Route!Land, Route!sendVars
    <2> QED BY <2>1, TakesMore DEF Taken
  <1>3. ASSUME NEW m \in Msg, Route!Route(m) \/ Route!WakeLost(m) PROVE Taken'
    <2>1. UNCHANGED inbox /\ \E p \in {"wake", "gate", "done"} : pc' = [pc EXCEPT ![m] = p]
      BY <1>3 DEF Route!Route, Route!WakeLost, Route!TryLive, Route!Reply, Route!hostVars
    <2>2. answer' = answer \/ answer' = [answer EXCEPT ![m] = "error"]
      BY <1>3 DEF Route!Route, Route!WakeLost, Route!TryLive, Route!Reply
    <2> QED BY <2>1, <2>2, SendGoesOn
  <1>4. ASSUME NEW m \in Msg, Route!GateOpen(m) \/ Route!Enqueue(m) \/ Route!EnqueueRefused(m) PROVE Taken'
    <2>1. UNCHANGED inbox /\ \E p \in {"tail", "queued", "done"} : pc' = [pc EXCEPT ![m] = p]
      BY <1>4 DEF Route!GateOpen, Route!Enqueue, Route!EnqueueRefused, Route!Reply, Route!hostVars
    <2>2. answer' = answer \/ \E a \in {"queued", "error"} : answer' = [answer EXCEPT ![m] = a]
      BY <1>4 DEF Route!GateOpen, Route!Enqueue, Route!EnqueueRefused, Route!Reply
    <2> QED BY <2>1, <2>2, SendGoesOn
  <1>5. ASSUME NEW m \in Msg, Route!WakeBoot(m) \/ Route!WakeFails(m) PROVE Taken'
    <2>1. UNCHANGED inbox /\ \E p \in {"boot", "done"} : pc' = [pc EXCEPT ![m] = p]
      BY <1>5 DEF Route!WakeBoot, Route!WakeFails, Route!Reply
    <2>2. answer' = answer \/ answer' = [answer EXCEPT ![m] = "error"]
      BY <1>5 DEF Route!WakeBoot, Route!WakeFails, Route!Reply
    <2> QED BY <2>1, <2>2, SendGoesOn
  <1>6. ASSUME NEW m \in Msg, Route!BootReady(m) PROVE Taken'
    <2>1. inbox' = Append(inbox, m) /\ pc' = [pc EXCEPT ![m] = "verify"] /\ UNCHANGED answer
      BY <1>6 DEF Route!BootReady
    <2>2. \A x \in Msg : x # m => pc'[x] = pc[x]
      BY <2>1 DEF RoutingTypes, SendsTyped
    <2> QED BY <2>1, <2>2, TakesMore DEF Taken
  <1>7. ASSUME NEW m \in Msg, Route!Verify(m) PROVE Taken'
    <2>1. UNCHANGED inbox /\ pc' = [pc EXCEPT ![m] = "done"] /\ m \in Route!Landed
      BY <1>7 DEF Route!Verify, Route!Reply, Route!hostVars, Taken
    <2>2. \E a : answer' = [answer EXCEPT ![m] = a]
      BY <1>7 DEF Route!Verify, Route!Reply
    <2> QED BY <2>1, <2>2, SendGoesOn
  <1>8. CASE Route!Paste \/ Route!DrainEmpty \/ Route!DrainLeft \/ Route!DrainAsk \/ Route!DrainWait \/ Route!DrainNotify \/ Route!Close
    BY <1>0, <1>8 DEF Route!Paste, Route!DrainEmpty, Route!DrainLeft, Route!DrainAsk, Route!DrainWait, Route!DrainNotify,
                      Route!Close, Route!hostVars, Route!sendVars
  <1>9. CASE Route!Settle
    <2>1. PICK o : /\ o \in Route!Outcomes(Head(tail)) /\ tail # <<>>
                   /\ UNCHANGED inbox /\ pc' = [pc EXCEPT ![Head(tail)] = "done"]
                   /\ answer' = answer \/ answer' = [answer EXCEPT ![Head(tail)] = o]
      BY <1>9 DEF Route!Settle, Route!Reply, Route!hostVars
    <2>2. Head(tail) \in Msg
      BY <2>1, TailRange DEF RoutingTypes, QueuesTyped
    <2>3. o # "ok" \/ Head(tail) \in Route!Landed
      BY <2>1 DEF Route!Outcomes
    <2> QED BY <2>1, <2>2, <2>3, SendGoesOn
  <1>10. CASE Route!DrainStale \/ Route!DrainCommit \/ Route!DrainForce
    <2>1. UNCHANGED <<inbox, answer>> /\ \E m : \E p \in {"done", "tail"} : pc' = [pc EXCEPT ![m] = p]
      BY <1>10 DEF Route!DrainStale, Route!DrainCommit, Route!DrainForce, Route!Commit, Route!hostVars
    <2>2. \A x \in Msg : pc'[x] \in {pc[x], "done", "tail"}
      BY <2>1 DEF RoutingTypes, SendsTyped
    <2> QED BY <2>1, <2>2 DEF Taken, Route!Landed
  <1>11. ASSUME NEW m \in Msg, Route!FailOne(m) PROVE Taken'
    BY <1>0, <1>11 DEF Route!FailOne, Route!hostVars, Route!sendVars
  <1>12. CASE Route!Exit
    <2>1. UNCHANGED <<inbox, pc>> /\ \A m \in Msg : answer'[m] \in {answer[m], "error"}
      BY <1>12 DEF Route!Exit, Route!hostVars
    <2> QED BY <2>1 DEF Taken, Route!Landed
  <1> QED BY <1>1, <1>2, <1>3, <1>4, <1>5, <1>6, <1>7, <1>8, <1>9, <1>10, <1>11, <1>12
          DEF Route!Next, Route!Delivery, Route!DrainStep

(* An ok is never a false one: the message was taken by a session, also when the *)
(* sender lost the race for the wake, for any number of sends, sessions and      *)
(* deaths, and while the daemon closes (routeSend, deliverWarm).                 *)
THEOREM OkIsTrue == ASSUME Route!RoutingAssumption PROVE Route!Spec => []Route!NoFalseOk
  <1>1. Route!Init => RoutingTypes /\ Taken
    <2>1. Route!Init => \A m \in Msg : pc[m] = "new" /\ answer[m] = "none"
      BY DEF Route!Init
    <2> QED BY <2>1, RoutingTypeInit DEF Taken
  <1>2. RoutingTypes /\ Taken /\ [Route!Next]_Route!vars => (RoutingTypes /\ Taken)'
    BY RoutingTypeNext, TakenNext
  <1>3. Taken => Route!NoFalseOk
    BY DEF Taken, Route!NoFalseOk
  <1> QED BY <1>1, <1>2, <1>3, PTL DEF Route!Spec

=============================================================================
