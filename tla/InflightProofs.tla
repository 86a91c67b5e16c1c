--------------------------- MODULE InflightProofs ---------------------------
(* No message is worked twice, for any number of messages, sessions,         *)
(* overlapping passes and deaths of the daemon.  A second delivery is made   *)
(* from an orphan.  An orphan's session is gone, and the numbers of sessions *)
(* do not return, so what it had not answered when it was taken for an       *)
(* orphan it never answers.                                                  *)
EXTENDS Inflight, FiniteSetTheorems, TLAPS

First == Msg \X {1}

Received(i) == at[i] # 0
Gone(i) == Received(i) /\ at[i] # token
Unstarted(i) == Gone(i) /\ ~Processed(i)

Shaped ==
  /\ token \in Nat /\ sessions \in Nat
  /\ at \in [Copy -> Nat]
  /\ DOMAIN native = Copy /\ native = [i \in Copy |-> native[i]]
  /\ ledger \subseteq Copy /\ orphans \subseteq Copy /\ interrupted \subseteq Copy
  /\ step \in [Pass -> {"idle", "flush", "sweep", "append", "take", "notify", "redeliver"}]
  /\ cur \in [Pass -> Nat]
  /\ base \in [Pass -> SUBSET Copy] /\ hand \in [Pass -> SUBSET Copy]

(* Sessions are numbered in turn. *)
Numbered == token <= sessions /\ \A i \in Copy : at[i] <= sessions

(* What is in the ledger was received, *)
LedgerReceived == \A i \in First : i \in ledger => Received(i)

(* what a pass will find without its session has lost it, however long ago the *)
(* pass read which session is live,                                          *)
SweepReads ==
  \A p \in Pass : step[p] = "sweep" =>
    \A i \in First : i \in base[p] => Received(i) /\ (cur[p] # at[i] => at[i] # token)
SweptGone ==
  \A p \in Pass : step[p] = "append" => \A i \in First : i \in hand[p] => Gone(i)

(* and an orphan was never answered, in the file or in a hand. *)
OrphansUnstarted == \A i \in First : i \in orphans => Unstarted(i)
HandUnstarted ==
  \A p \in Pass : step[p] = "redeliver" => \A i \in First : i \in hand[p] => Unstarted(i)

(* Nor was what was sent again. *)
AgainUnstarted ==
  \A m \in Msg : at[<<m, 2>>] # 0 => Unstarted(<<m, 1>>) /\ <<m, 1>> \notin Uncertain

OnceInv ==
  /\ Shaped /\ Numbered /\ LedgerReceived /\ SweepReads /\ SweptGone
  /\ OrphansUnstarted /\ HandUnstarted /\ AgainUnstarted

LEMMA CopiesAreReceived == First \subseteq Copy /\ \A m \in Msg : <<m, 1>> \in First /\ <<m, 2>> \in Copy
  BY DEF First, Copy

LEMMA OnceInit == ASSUME Init PROVE OnceInv
  <1>1. Shaped
    BY DEF Init, Shaped
  <1>2. Numbered
    BY DEF Init, Numbered
  <1> QED BY <1>1, <1>2, CopiesAreReceived
          DEF Init, OnceInv, LedgerReceived, SweepReads, SweptGone, OrphansUnstarted,
              HandUnstarted, AgainUnstarted, First, Copy

(* What a step may do to a first copy: it is received once, a session that is *)
(* gone stays gone, and what it did not answer stays unanswered.             *)
Stays(i) ==
  /\ Received(i) => at'[i] = at[i]
  /\ Gone(i) => Gone(i)'
  /\ Unstarted(i) => Unstarted(i)'

(* A step of a session or a sender. *)
LEMMA NewNumber == \A n \in Nat : n + 1 \in Nat /\ n + 1 # 0 /\ \A k \in Nat : k <= n => k # n + 1 /\ k <= n + 1
  OBVIOUS

LEMMA SessionStays ==
  ASSUME OnceInv, SessionStep
  PROVE  /\ Shaped' /\ Numbered'
         /\ \A i \in First : Stays(i)
         /\ at' = at /\ UNCHANGED <<ledger, orphans, interrupted, passVars>>
  <1>1. CASE NewSession
    <2>1. token' = sessions + 1 /\ sessions' = sessions + 1 /\ token = 0
          /\ UNCHANGED <<at, native, ledger, orphans, interrupted, passVars>>
      BY <1>1 DEF NewSession, fileVars
    <2>2. token' \in Nat /\ sessions' \in Nat
      BY <2>1 DEF OnceInv, Shaped
    <2>3. \A i \in Copy : at[i] # token' /\ at[i] <= sessions'
      BY <2>1, NewNumber DEF OnceInv, Shaped, Numbered
    <2>4. Shaped'
      BY <2>1, <2>2 DEF OnceInv, Shaped, passVars
    <2>5. Numbered'
      BY <2>1, <2>2, <2>3 DEF Numbered
    <2>6. \A i \in First : Stays(i)
      BY <2>1, <2>3, CopiesAreReceived DEF Stays, Received, Gone, Unstarted, Processed
    <2> QED BY <2>1, <2>4, <2>5, <2>6
  <1>2. CASE SessionDies \/ SelfEnd
    <2>1. token' = 0
          /\ UNCHANGED <<sessions, at, native, ledger, orphans, interrupted, passVars>>
      BY <1>2 DEF SessionDies, SelfEnd, fileVars
    <2>2. Shaped' /\ Numbered'
      BY <2>1 DEF OnceInv, Shaped, Numbered, passVars
    <2>3. \A i \in First : Stays(i)
      BY <2>1 DEF Stays, Received, Gone, Unstarted, Processed
    <2> QED BY <2>1, <2>2, <2>3
  <1>3. ASSUME NEW j \in Copy, Answer(j) \/ FinishTurn(j)
        PROVE  /\ Shaped' /\ Numbered' /\ \A i \in First : Stays(i)
               /\ at' = at /\ UNCHANGED <<ledger, orphans, interrupted, passVars>>
    <2>1. PICK n : native' = [native EXCEPT ![j] = n]
      BY <1>3 DEF Answer, FinishTurn
    <2>2. at[j] = token
          /\ UNCHANGED <<token, sessions, at, ledger, orphans, interrupted, passVars>>
      BY <1>3 DEF Answer, FinishTurn, InTurn, fileVars
    <2>3. Shaped' /\ Numbered'
      BY <2>1, <2>2 DEF OnceInv, Shaped, Numbered, passVars
    <2>4. ASSUME NEW i \in First PROVE Stays(i)
      <3>1. i \in Copy
        BY CopiesAreReceived
      <3>2. i # j => native'[i] = native[i]
        BY <2>1, <3>1 DEF OnceInv, Shaped
      <3>3. Gone(i) => i # j
        BY <2>2 DEF Gone
      <3> QED BY <2>2, <3>2, <3>3 DEF Stays, Received, Gone, Unstarted, Processed
    <2> QED BY <2>2, <2>3, <2>4
  <1> QED BY <1>1, <1>2, <1>3 DEF SessionStep

(* Receiving a copy: its number is a session's, and only it is touched. *)
LEMMA ReceiveStays ==
  ASSUME OnceInv, NEW j \in Copy, Receive(j, token'),
         token' \in Nat, token' # 0, sessions' \in Nat, token' <= sessions',
         \/ UNCHANGED <<token, sessions>>
         \/ token' = sessions + 1 /\ sessions' = sessions + 1,
         ledger' = ledger \cup {j}, UNCHANGED <<orphans, interrupted>>,
         UNCHANGED <<step, base, cur>>, hand' \in [Pass -> SUBSET Copy],
         j \in First => at[j] = 0
  PROVE  /\ Shaped' /\ Numbered'
         /\ \A i \in First : Stays(i)
         /\ at'[j] = token' /\ \A i \in Copy : i # j => at'[i] = at[i]
  <1>1. /\ at' = [at EXCEPT ![j] = token']
        /\ \E n : native' = [native EXCEPT ![j] = n]
    BY DEF Receive
  <1>2. /\ at' \in [Copy -> Nat] /\ at'[j] = token'
        /\ \A i \in Copy : i # j => at'[i] = at[i] /\ native'[i] = native[i]
        /\ DOMAIN native' = Copy /\ native' = [i \in Copy |-> native'[i]]
    BY <1>1 DEF OnceInv, Shaped
  <1>3. Shaped'
    BY <1>2 DEF OnceInv, Shaped
  <1>4. \A i \in Copy : at[i] <= sessions' /\ (token' # token => at[i] # token')
    <2>1. CASE UNCHANGED <<token, sessions>>
      BY <2>1 DEF OnceInv, Shaped, Numbered
    <2>2. CASE token' = sessions + 1 /\ sessions' = sessions + 1
      BY <2>2, NewNumber DEF OnceInv, Shaped, Numbered
    <2> QED BY <2>1, <2>2
  <1>5. Numbered'
    BY <1>2, <1>4 DEF Numbered
  <1>6. ASSUME NEW i \in First PROVE Stays(i)
    <2>1. i \in Copy /\ (Received(i) => i # j)
      BY CopiesAreReceived DEF Received
    <2> QED BY <1>2, <1>4, <2>1 DEF Stays, Received, Gone, Unstarted, Processed
  <1> QED BY <1>2, <1>3, <1>5, <1>6

LEMMA SendStays ==
  ASSUME OnceInv, NEW m \in Msg, SendFirst(m)
  PROVE  /\ Shaped' /\ Numbered'
         /\ \A i \in First : Stays(i)
         /\ LedgerReceived'
         /\ \A k \in Msg : at'[<<k, 2>>] = at[<<k, 2>>]
         /\ UNCHANGED <<orphans, passVars>>
  <1> DEFINE j == <<m, 1>>
  <1>0. \A k \in Msg : <<k, 2>> # j
    OBVIOUS
  <1>1. /\ j \in Copy /\ token \in Nat /\ token # 0 /\ sessions \in Nat /\ token <= sessions
        /\ Receive(j, token) /\ at[j] = 0 /\ ledger' = ledger \cup {j}
        /\ UNCHANGED <<token, orphans, interrupted, passVars>>
    BY CopiesAreReceived DEF SendFirst, OnceInv, Shaped, Numbered
  <1>2. sessions' = sessions
    BY DEF SendFirst
  <1>3. UNCHANGED <<step, base, cur>> /\ hand' \in [Pass -> SUBSET Copy]
    BY <1>1 DEF passVars, OnceInv, Shaped
  <1> HIDE DEF j
  <1>4. /\ Shaped' /\ Numbered' /\ \A i \in First : Stays(i)
        /\ at'[j] = token' /\ \A i \in Copy : i # j => at'[i] = at[i]
    BY <1>1, <1>2, <1>3, ReceiveStays
  <1>5. LedgerReceived'
    BY <1>1, <1>4, CopiesAreReceived DEF LedgerReceived, OnceInv, Received, Stays
  <1>6. \A k \in Msg : at'[<<k, 2>>] = at[<<k, 2>>]
    BY <1>0, <1>4, CopiesAreReceived
  <1> QED BY <1>1, <1>4, <1>5, <1>6

LEMMA InheritStays ==
  ASSUME OnceInv, NEW m \in Msg, InheritOrphan(m)
  PROVE  /\ Shaped' /\ Numbered'
         /\ \A i \in First : Stays(i)
         /\ LedgerReceived' /\ OrphansUnstarted'
         /\ \A k \in Msg : at'[<<k, 2>>] = at[<<k, 2>>]
         /\ UNCHANGED passVars
  <1> DEFINE j == <<m, 1>>
  <1>0. \A k \in Msg : <<k, 2>> # j
    OBVIOUS
  <1>1. /\ sessions = 0 /\ sessions' = 1 /\ at[j] = 0 /\ at' = [at EXCEPT ![j] = 1]
        /\ native' = [native EXCEPT ![j] = "swallowed"] /\ orphans' = {j}
        /\ UNCHANGED <<token, ledger, interrupted, passVars>>
    BY DEF InheritOrphan
  <1>2. j \in Copy
    BY CopiesAreReceived
  <1> HIDE DEF j
  <1>3. token = 0 /\ \A i \in Copy : at[i] <= 0
    BY <1>1 DEF OnceInv, Shaped, Numbered
  <1>4. /\ at' \in [Copy -> Nat] /\ at'[j] = 1 /\ native'[j] = "swallowed"
        /\ \A i \in Copy : i # j => at'[i] = at[i] /\ native'[i] = native[i]
    BY <1>1, <1>2 DEF OnceInv, Shaped
  <1>5. Shaped'
    <2>1. DOMAIN native' = Copy /\ native' = [i \in Copy |-> native'[i]]
      BY <1>1, <1>2 DEF OnceInv, Shaped
    <2>2. token' \in Nat /\ sessions' \in Nat /\ orphans' \subseteq Copy
      BY <1>1, <1>2 DEF OnceInv, Shaped
    <2> QED BY <1>1, <1>4, <2>1, <2>2 DEF OnceInv, Shaped, passVars
  <1>6. Numbered'
    BY <1>1, <1>3, <1>4 DEF Numbered, OnceInv, Shaped
  <1>7. \A i \in First : Stays(i)
    BY <1>1, <1>4, CopiesAreReceived DEF Stays, Received, Gone, Unstarted, Processed
  <1>8. LedgerReceived'
    BY <1>1, <1>4, CopiesAreReceived DEF LedgerReceived, OnceInv, Received
  <1>9. OrphansUnstarted'
    BY <1>1, <1>3, <1>4 DEF OrphansUnstarted, Unstarted, Gone, Received, Processed
  <1>10. \A k \in Msg : at'[<<k, 2>>] = at[<<k, 2>>]
    BY <1>0, <1>4, CopiesAreReceived
  <1> QED BY <1>1, <1>5, <1>6, <1>7, <1>8, <1>9, <1>10

(* What the passes read and hold stays true while they only put things down. *)
LEMMA HandsKeep ==
  ASSUME OnceInv, \A i \in First : Stays(i), UNCHANGED <<step, base, cur>>,
         \A q \in Pass : hand'[q] \subseteq hand[q]
  PROVE  SweepReads' /\ SweptGone' /\ HandUnstarted'
  <1>1. SweepReads'
    <2> SUFFICES ASSUME NEW p \in Pass, step[p] = "sweep", NEW i \in First, i \in base[p]
                 PROVE  at'[i] # 0 /\ (cur[p] # at'[i] => at'[i] # token')
      BY DEF SweepReads, Received
    <2>1. Received(i) /\ (cur[p] # at[i] => Gone(i))
      BY DEF OnceInv, SweepReads, Gone
    <2> QED BY <2>1 DEF Stays, Received, Gone
  <1>2. SweptGone'
    BY DEF OnceInv, SweptGone, Stays
  <1>3. HandUnstarted'
    BY DEF OnceInv, HandUnstarted, Stays
  <1> QED BY <1>1, <1>2, <1>3

(* Nor does what was sent again begin in its first session. *)
LEMMA AgainKeeps ==
  ASSUME OnceInv, \A i \in First : Stays(i), NEW m \in Msg, at'[<<m, 2>>] = at[<<m, 2>>],
         at'[<<m, 2>>] # 0
  PROVE  Unstarted(<<m, 1>>)' /\ <<m, 1>> \notin Uncertain
  BY CopiesAreReceived DEF OnceInv, AgainUnstarted, Stays

(* Outside the passes, nothing is taken for an orphan that was answered. *)
LEMMA WorldKeeps ==
  ASSUME OnceInv,
         SessionStep \/ (\E m \in Msg : InheritOrphan(m) \/ SendFirst(m)) \/ \E i \in Copy : Reconcile(i)
  PROVE  OnceInv'
  <1> DEFINE Effect == /\ Shaped' /\ Numbered' /\ \A i \in First : Stays(i)
                       /\ LedgerReceived' /\ OrphansUnstarted'
                       /\ \A k \in Msg : at'[<<k, 2>>] = at[<<k, 2>>]
                       /\ UNCHANGED passVars
  <1>1. Effect
    <2>1. CASE SessionStep
      BY <2>1, SessionStays DEF OnceInv, LedgerReceived, OrphansUnstarted, Stays, Received
    <2>2. ASSUME NEW m \in Msg, SendFirst(m) PROVE Effect
      BY <2>2, SendStays DEF OnceInv, OrphansUnstarted, Stays
    <2>3. ASSUME NEW m \in Msg, InheritOrphan(m) PROVE Effect
      BY <2>3, InheritStays
    <2>4. CASE \E i \in Copy : Reconcile(i)
      <3>1. UNCHANGED <<token, sessions, at, native, ledger, orphans, interrupted, passVars>>
        BY <2>4 DEF Reconcile, fileVars
      <3> QED BY <3>1 DEF OnceInv, Shaped, Numbered, LedgerReceived, OrphansUnstarted, Stays,
                          Received, Gone, Unstarted, Processed, passVars
    <2> QED BY <2>1, <2>2, <2>3, <2>4
  <1>2. UNCHANGED <<step, base, cur, hand>>
    BY <1>1 DEF passVars
  <1>3. SweepReads' /\ SweptGone' /\ HandUnstarted'
    BY <1>1, <1>2, HandsKeep
  <1>4. AgainUnstarted'
    BY <1>1, AgainKeeps DEF AgainUnstarted
  <1> QED BY <1>1, <1>3, <1>4 DEF OnceInv

(* A step of one pass that leaves the sessions alone, and may leave behind what *)
(* its next place asks for.                                                  *)
LEMMA PassMoves ==
  ASSUME OnceInv, NEW p \in Pass,
         NEW s \in {"idle", "flush", "sweep", "append", "take", "notify", "redeliver"},
         step' = [step EXCEPT ![p] = s], UNCHANGED <<token, sessions, at, native>>,
         ledger' \subseteq Copy, orphans' \subseteq Copy, interrupted' \subseteq Copy,
         cur' \in [Pass -> Nat], base' \in [Pass -> SUBSET Copy], hand' \in [Pass -> SUBSET Copy],
         \A q \in Pass : q # p => cur'[q] = cur[q] /\ base'[q] = base[q] /\ hand'[q] = hand[q],
         \A i \in First : i \in ledger' => Received(i),
         \A i \in First : i \in orphans' => Unstarted(i),
         s = "sweep" => \A i \in First : i \in base'[p] =>
                          Received(i) /\ (cur'[p] # at[i] => at[i] # token),
         s = "append" => \A i \in First : i \in hand'[p] => Gone(i),
         s = "redeliver" => \A i \in First : i \in hand'[p] => Unstarted(i)
  PROVE  OnceInv'
  <1>1. /\ step' \in [Pass -> {"idle", "flush", "sweep", "append", "take", "notify", "redeliver"}]
        /\ step'[p] = s /\ \A q \in Pass : q # p => step'[q] = step[q]
    BY DEF OnceInv, Shaped
  <1>2. Shaped' /\ Numbered'
    BY <1>1 DEF OnceInv, Shaped, Numbered
  <1>3. LedgerReceived' /\ OrphansUnstarted' /\ AgainUnstarted'
    BY DEF OnceInv, LedgerReceived, OrphansUnstarted, AgainUnstarted, Received, Gone, Unstarted,
           Processed
  <1>4. SweepReads'
    BY <1>1 DEF OnceInv, SweepReads, Received
  <1>5. SweptGone' /\ HandUnstarted'
    BY <1>1 DEF OnceInv, SweptGone, HandUnstarted, Received, Gone, Unstarted, Processed
  <1> QED BY <1>2, <1>3, <1>4, <1>5 DEF OnceInv

(* The parts of a pass that take nothing for an orphan. *)
LEMMA PlainStepKeeps ==
  ASSUME OnceInv, NEW p \in Pass,
         FlushRead(p) \/ FlushSend(p) \/ TakeInterrupted(p) \/ Notify(p) \/ EndPass(p)
  PROVE  OnceInv'
  <1>1. /\ UNCHANGED <<token, sessions, at, native, ledger, orphans, base, cur>>
        /\ interrupted' \subseteq interrupted
    BY DEF FlushRead, FlushSend, TakeInterrupted, Notify, EndPass, sessionVars, fileVars
  <1>2. PICK s \in {"flush", "notify", "idle"} : step' = [step EXCEPT ![p] = s]
    BY DEF FlushRead, FlushSend, TakeInterrupted, Notify, EndPass, Goto, OnceInv, Shaped
  <1>3. hand' \in [Pass -> SUBSET Copy] /\ \A q \in Pass : q # p => hand'[q] = hand[q]
    <2>1. CASE UNCHANGED hand
      BY <2>1 DEF OnceInv, Shaped
    <2>2. CASE TakeInterrupted(p)
      BY <2>2 DEF TakeInterrupted, OnceInv, Shaped
    <2>3. CASE Notify(p)
      BY <2>3 DEF Notify, OnceInv, Shaped
    <2> QED BY <2>1, <2>2, <2>3 DEF FlushRead, FlushSend, EndPass
  <1>4. /\ ledger' \subseteq Copy /\ orphans' \subseteq Copy /\ interrupted' \subseteq Copy
        /\ cur' \in [Pass -> Nat] /\ base' \in [Pass -> SUBSET Copy]
    BY <1>1 DEF OnceInv, Shaped
  <1>5. /\ \A i \in First : i \in ledger' => Received(i)
        /\ \A i \in First : i \in orphans' => Unstarted(i)
    BY <1>1 DEF OnceInv, LedgerReceived, OrphansUnstarted
  <1> QED BY <1>1, <1>2, <1>3, <1>4, <1>5, PassMoves

(* The sweep reads the ledger and the live session together, *)
LEMMA ReadKeeps == ASSUME OnceInv, NEW p \in Pass, FlushWrite(p) PROVE OnceInv'
  <1>1. /\ UNCHANGED <<token, sessions, at, native, ledger, orphans, interrupted, hand>>
        /\ step' = [step EXCEPT ![p] = "sweep"]
        /\ base' = [base EXCEPT ![p] = ledger] /\ cur' = [cur EXCEPT ![p] = token]
    BY DEF FlushWrite, Goto
  <1>2. /\ ledger' \subseteq Copy /\ orphans' \subseteq Copy /\ interrupted' \subseteq Copy
        /\ cur' \in [Pass -> Nat] /\ base' \in [Pass -> SUBSET Copy] /\ hand' \in [Pass -> SUBSET Copy]
        /\ \A q \in Pass : q # p => cur'[q] = cur[q] /\ base'[q] = base[q] /\ hand'[q] = hand[q]
        /\ base'[p] = ledger /\ cur'[p] = token
    BY <1>1 DEF OnceInv, Shaped
  <1>3. /\ \A i \in First : i \in ledger' => Received(i)
        /\ \A i \in First : i \in orphans' => Unstarted(i)
    BY <1>1 DEF OnceInv, LedgerReceived, OrphansUnstarted
  <1>4. \A i \in First : i \in base'[p] => Received(i) /\ (cur'[p] # at[i] => at[i] # token)
    BY <1>1, <1>2, <1>3
  <1> QED BY <1>1, <1>2, <1>3, <1>4, PassMoves

(* so what it takes out has lost its session; *)
LEMMA SweepKeeps == ASSUME OnceInv, NEW p \in Pass, SweepWrite(p) PROVE OnceInv'
  <1>1. /\ UNCHANGED <<token, sessions, at, native, orphans, interrupted, cur>>
        /\ step[p] = "sweep" /\ step' = [step EXCEPT ![p] = "append"]
        /\ ledger' \subseteq base[p] /\ base' = [base EXCEPT ![p] = {}]
    BY DEF SweepWrite, Goto, sessionVars
  <1> DEFINE H == {i \in base[p] : Leaves(p, i) /\ ~SelfSettled(p, i)}
  <1>2. hand' = [hand EXCEPT ![p] = H] /\ H \subseteq base[p] /\ \A i \in H : Leaves(p, i)
    BY DEF SweepWrite
  <1> HIDE DEF H
  <1>3. /\ ledger' \subseteq Copy /\ orphans' \subseteq Copy /\ interrupted' \subseteq Copy
        /\ cur' \in [Pass -> Nat] /\ base' \in [Pass -> SUBSET Copy] /\ hand' \in [Pass -> SUBSET Copy]
        /\ \A q \in Pass : q # p => cur'[q] = cur[q] /\ base'[q] = base[q] /\ hand'[q] = hand[q]
        /\ hand'[p] = H
    BY <1>1, <1>2 DEF OnceInv, Shaped
  <1>4. /\ \A i \in First : i \in ledger' => Received(i)
        /\ \A i \in First : i \in orphans' => Unstarted(i)
    BY <1>1 DEF OnceInv, SweepReads, OrphansUnstarted
  <1>5. \A i \in First : i \in hand'[p] => Gone(i)
    BY <1>1, <1>2, <1>3 DEF OnceInv, SweepReads, Gone, Leaves, Keeps
  <1> QED BY <1>1, <1>3, <1>4, <1>5, PassMoves

(* of that, what its session never answered is an orphan. *)
LEMMA AppendKeeps == ASSUME OnceInv, NEW p \in Pass, SweepAppend(p) PROVE OnceInv'
  <1>1. /\ UNCHANGED <<token, sessions, at, native, ledger, base, cur>>
        /\ step[p] = "append" /\ step' = [step EXCEPT ![p] = "take"]
        /\ orphans' = orphans \cup {i \in hand[p] : Replayable(i)}
        /\ interrupted' = interrupted \cup {i \in hand[p] : ~Replayable(i)}
        /\ hand' = [hand EXCEPT ![p] = {}]
    BY DEF SweepAppend, Goto, sessionVars
  <1>2. /\ ledger' \subseteq Copy /\ orphans' \subseteq Copy /\ interrupted' \subseteq Copy
        /\ cur' \in [Pass -> Nat] /\ base' \in [Pass -> SUBSET Copy] /\ hand' \in [Pass -> SUBSET Copy]
        /\ \A q \in Pass : q # p => cur'[q] = cur[q] /\ base'[q] = base[q] /\ hand'[q] = hand[q]
    BY <1>1 DEF OnceInv, Shaped
  <1>3. /\ \A i \in First : i \in ledger' => Received(i)
        /\ \A i \in First : i \in orphans' => Unstarted(i)
    BY <1>1 DEF OnceInv, LedgerReceived, OrphansUnstarted, SweptGone, Unstarted, Replayable
  <1> QED BY <1>1, <1>2, <1>3, PassMoves

LEMMA TakeKeeps == ASSUME OnceInv, NEW p \in Pass, TakeOrphans(p) PROVE OnceInv'
  <1>1. /\ UNCHANGED <<token, sessions, at, native, ledger, interrupted, base, cur>>
        /\ step' = [step EXCEPT ![p] = "redeliver"]
        /\ hand' = [hand EXCEPT ![p] = orphans] /\ orphans' = {}
    BY DEF TakeOrphans, Goto, sessionVars
  <1>2. /\ ledger' \subseteq Copy /\ orphans' \subseteq Copy /\ interrupted' \subseteq Copy
        /\ cur' \in [Pass -> Nat] /\ base' \in [Pass -> SUBSET Copy] /\ hand' \in [Pass -> SUBSET Copy]
        /\ \A q \in Pass : q # p => cur'[q] = cur[q] /\ base'[q] = base[q] /\ hand'[q] = hand[q]
        /\ hand'[p] = orphans
    BY <1>1 DEF OnceInv, Shaped
  <1>3. /\ \A i \in First : i \in ledger' => Received(i)
        /\ \A i \in First : i \in orphans' => Unstarted(i)
        /\ \A i \in First : i \in hand'[p] => Unstarted(i)
    BY <1>1, <1>2 DEF OnceInv, LedgerReceived, OrphansUnstarted
  <1> QED BY <1>1, <1>2, <1>3, PassMoves

(* Whatever is sent again comes from an orphan: its first session is gone and  *)
(* never answered it, and its delivery was proved.                           *)
LEMMA RedeliverKeeps ==
  ASSUME OnceInv, InflightAssumption, NEW p \in Pass, Redeliver(p) PROVE OnceInv'
  <1>1. PICK i \in hand[p] :
          /\ ReturnUnknown(i) \/ SendAgain(i) \/ TellUndelivered(i)
          /\ hand' = [hand EXCEPT ![p] = hand[p] \ {i}]
    BY DEF Redeliver
  <1>2. /\ step[p] = "redeliver" /\ UNCHANGED <<orphans, interrupted, step, base, cur>>
        /\ i \in Copy /\ (i \in First => Unstarted(i))
        /\ hand' \in [Pass -> SUBSET Copy] /\ \A q \in Pass : hand'[q] \subseteq hand[q]
    BY <1>1 DEF Redeliver, OnceInv, Shaped, HandUnstarted
  <1>3. CASE ReturnUnknown(i) \/ TellUndelivered(i)
    <2>1. /\ UNCHANGED <<token, sessions, at, native>>
          /\ ledger' = ledger \/ ledger' = ledger \cup {i}
      BY <1>3 DEF ReturnUnknown, TellUndelivered, sessionVars
    <2>2. /\ ledger' \subseteq Copy
          /\ \A j \in First : j \in ledger' => Received(j)
      BY <1>2, <2>1 DEF OnceInv, Shaped, LedgerReceived, Unstarted, Gone
    <2>3. step' = [step EXCEPT ![p] = "redeliver"]
      BY <1>2 DEF OnceInv, Shaped
    <2>4. /\ orphans' \subseteq Copy /\ interrupted' \subseteq Copy
          /\ cur' \in [Pass -> Nat] /\ base' \in [Pass -> SUBSET Copy]
          /\ \A q \in Pass : q # p => cur'[q] = cur[q] /\ base'[q] = base[q] /\ hand'[q] = hand[q]
          /\ hand'[p] \subseteq hand[p]
      BY <1>1, <1>2 DEF OnceInv, Shaped
    <2>5. /\ \A j \in First : j \in orphans' => Unstarted(j)
          /\ \A j \in First : j \in hand'[p] => Unstarted(j)
      BY <1>2, <2>4 DEF OnceInv, OrphansUnstarted, HandUnstarted
    <2> QED BY <1>2, <2>1, <2>2, <2>3, <2>4, <2>5, PassMoves
  <1>4. CASE SendAgain(i)
    <2> DEFINE j == <<i[1], 2>>
    <2>1. i[1] \in Msg /\ i = <<i[1], 1>> /\ i \in First /\ j \in Copy /\ j \notin First
      BY <1>2, <1>4 DEF SendAgain, Copy, First
    <2>2. i \notin Uncertain
      BY <1>4 DEF SendAgain, Returned
    <2>3. /\ Receive(j, token') /\ ledger' = ledger \cup {j}
          /\ \/ token # 0 /\ UNCHANGED <<token, sessions>>
             \/ token = 0 /\ token' = sessions + 1 /\ sessions' = sessions + 1
      BY <1>4 DEF SendAgain
    <2> HIDE DEF j
    <2>4. token' \in Nat /\ token' # 0 /\ sessions' \in Nat /\ token' <= sessions'
      BY <2>3 DEF OnceInv, Shaped, Numbered
    <2>5. /\ Shaped' /\ Numbered' /\ \A k \in First : Stays(k)
          /\ at'[j] = token' /\ \A k \in Copy : k # j => at'[k] = at[k]
      BY <1>2, <2>1, <2>3, <2>4, ReceiveStays
    <2>6. SweepReads' /\ SweptGone' /\ HandUnstarted'
      BY <1>2, <2>5, HandsKeep
    <2>7. LedgerReceived' /\ OrphansUnstarted'
      BY <1>2, <2>1, <2>3, <2>5
         DEF OnceInv, LedgerReceived, OrphansUnstarted, Stays, Unstarted, Gone, Received
    <2>8. ASSUME NEW m \in Msg, at'[<<m, 2>>] # 0
          PROVE  Unstarted(<<m, 1>>)' /\ <<m, 1>> \notin Uncertain
      <3>1. CASE <<m, 1>> = i
        <4>1. Unstarted(i)'
          BY <1>2, <2>1, <2>5 DEF Stays
        <4> QED BY <2>2, <3>1, <4>1
      <3>2. CASE <<m, 1>> # i
        <4>1. <<m, 2>> # j
          BY <2>1, <3>2 DEF j
        <4>2. at'[<<m, 2>>] = at[<<m, 2>>]
          BY <2>5, <4>1, CopiesAreReceived
        <4> QED BY <2>5, <2>8, <4>2, AgainKeeps
      <3> QED BY <3>1, <3>2
    <2> QED BY <2>5, <2>6, <2>7, <2>8 DEF OnceInv, AgainUnstarted
  <1> QED BY <1>1, <1>3, <1>4

(* A death of the daemon empties the hands. *)
LEMMA CrashKeeps == ASSUME OnceInv, Crash PROVE OnceInv'
  <1>1. /\ step' = [q \in Pass |-> "idle"] /\ cur' = [q \in Pass |-> 0]
        /\ base' = [q \in Pass |-> {}] /\ hand' = [q \in Pass |-> {}]
        /\ UNCHANGED <<token, sessions, at, native, ledger, orphans, interrupted>>
    BY DEF Crash, sessionVars, fileVars
  <1>2. Shaped' /\ Numbered'
    BY <1>1 DEF OnceInv, Shaped, Numbered
  <1>3. SweepReads' /\ SweptGone' /\ HandUnstarted'
    BY <1>1 DEF SweepReads, SweptGone, HandUnstarted
  <1>4. LedgerReceived' /\ OrphansUnstarted' /\ AgainUnstarted'
    BY <1>1 DEF OnceInv, LedgerReceived, OrphansUnstarted, AgainUnstarted, Received, Gone,
                Unstarted, Processed
  <1> QED BY <1>2, <1>3, <1>4 DEF OnceInv

LEMMA OnceNext == ASSUME OnceInv, InflightAssumption, [Next]_vars PROVE OnceInv'
  <1>1. CASE UNCHANGED vars
    <2>1. UNCHANGED <<token, sessions, at, native, ledger, orphans, interrupted, step, base, cur, hand>>
      BY <1>1 DEF vars, sessionVars, fileVars, passVars
    <2> QED BY <2>1 DEF OnceInv, Shaped, Numbered, LedgerReceived, SweepReads, SweptGone,
                        OrphansUnstarted, HandUnstarted, AgainUnstarted, Received, Gone, Unstarted,
                        Processed
  <1>2. ASSUME NEW p \in Pass, PassStep(p) PROVE OnceInv'
    BY <1>2, PlainStepKeeps, ReadKeeps, SweepKeeps, AppendKeeps, TakeKeeps, RedeliverKeeps DEF PassStep
  <1> QED BY <1>1, <1>2, WorldKeeps, CrashKeeps DEF Next

LEMMA OnceSafe == ASSUME OnceInv PROVE NothingRunsTwice
  BY DEF OnceInv, AgainUnstarted, Unstarted, NothingRunsTwice, Acknowledged

(* A message is delivered a second time only if its first session never        *)
(* answered it, never will, and its delivery was proved: whatever passes      *)
(* overlap, whichever sessions end and wherever the daemon dies.             *)
THEOREM NoMessageRunsTwice ==
  ASSUME InflightAssumption PROVE Spec => []NothingRunsTwice
  <1>1. Init => OnceInv
    BY OnceInit
  <1>2. OnceInv /\ [Next]_vars => OnceInv'
    BY OnceNext
  <1>3. OnceInv => NothingRunsTwice
    BY OnceSafe
  <1> QED BY <1>1, <1>2, <1>3, PTL DEF Spec

-----------------------------------------------------------------------------
(* A pass that flushes still has every notice it read, or saw it off. *)
FlushKeeps ==
  /\ held \subseteq Notices /\ seen \in [Pass -> SUBSET Notices]
  /\ todo \in [Pass -> SUBSET Notices] /\ kept \in [Pass -> SUBSET Notices]
  /\ \A p \in Pass : step[p] = "flush" =>
       \A n \in seen[p] : n \in todo[p] \cup kept[p] \/ n \subseteq told \cup closed

HoldInv == OnceInv /\ FlushKeeps

(* A step that leaves the flushes alone, but may hold a notice or send one. *)
LEMMA FlushFrame ==
  ASSUME HoldInv, NEW n \in Notices, held' \subseteq held \cup {n}, UNCHANGED <<seen, todo, kept>>,
         \A q \in Pass : step'[q] = "flush" => step[q] = "flush",
         told \subseteq told', closed \subseteq closed'
  PROVE  FlushKeeps'
  BY DEF HoldInv, FlushKeeps

LEMMA EmptyNotice == {} \in Notices
  BY DEF Notices

(* The flush of a pass, action by action. *)
LEMMA FlushSteps ==
  ASSUME HoldInv, NEW p \in Pass, FlushRead(p) \/ FlushSend(p) \/ FlushWrite(p)
  PROVE  FlushKeeps'
  <1> USE DEF HoldInv, FlushKeeps, OnceInv, Shaped, Goto
  <1>1. CASE FlushRead(p)
    <2>1. PICK due \in SUBSET held :
            /\ todo' = [todo EXCEPT ![p] = due] /\ kept' = [kept EXCEPT ![p] = held \ due]
            /\ seen' = [seen EXCEPT ![p] = held] /\ step' = [step EXCEPT ![p] = "flush"]
            /\ UNCHANGED <<held, told, closed>>
      BY <1>1 DEF FlushRead, fileVars, pastVars
    <2> QED BY <2>1
  <1>2. CASE FlushSend(p)
    <2>1. PICK n \in todo[p] :
            /\ todo' = [todo EXCEPT ![p] = @ \ {n}]
            /\ \/ told' = told \cup n /\ UNCHANGED <<kept, closed>>
               \/ kept' = [kept EXCEPT ![p] = @ \cup {n}] /\ UNCHANGED <<told, closed>>
               \/ closed' = closed \cup n /\ UNCHANGED <<kept, told>>
      BY <1>2 DEF FlushSend
    <2>2. UNCHANGED <<held, seen, step>>
      BY <1>2 DEF FlushSend, fileVars
    <2>3. /\ todo' \in [Pass -> SUBSET Notices] /\ kept' \in [Pass -> SUBSET Notices]
          /\ told \subseteq told' /\ closed \subseteq closed'
          /\ \A q \in Pass : q # p => todo'[q] = todo[q] /\ kept'[q] = kept[q]
          /\ \A k \in todo[p] \cup kept[p] : k \in todo'[p] \cup kept'[p] \/ k \subseteq told' \cup closed'
      BY <2>1
    <2> QED BY <2>2, <2>3
  <1>3. CASE FlushWrite(p)
    <2>1. /\ held' = kept[p] \cup (held \ seen[p]) /\ step' = [step EXCEPT ![p] = "sweep"]
          /\ seen' = [seen EXCEPT ![p] = {}] /\ kept' = [kept EXCEPT ![p] = {}]
          /\ UNCHANGED <<todo, told, closed>>
      BY <1>3 DEF FlushWrite, pastVars
    <2> QED BY <2>1
  <1> QED BY <1>1, <1>2, <1>3

LEMMA HoldNext == ASSUME HoldInv, InflightAssumption, [Next]_vars PROVE HoldInv'
  <1>0. OnceInv'
    BY OnceNext DEF HoldInv
  <1> SUFFICES FlushKeeps'
    BY <1>0 DEF HoldInv
  <1>1. CASE UNCHANGED vars
    BY <1>1, EmptyNotice, FlushFrame DEF vars, fileVars, passVars, pastVars
  <1>2. CASE SessionStep \/ (\E m \in Msg : InheritOrphan(m) \/ SendFirst(m)) \/ \E i \in Copy : Reconcile(i)
    <2>1. UNCHANGED <<held, passVars, pastVars>>
      BY <1>2 DEF SessionStep, NewSession, SessionDies, SelfEnd, Answer, FinishTurn, InheritOrphan,
                  SendFirst, Reconcile, fileVars
    <2> QED BY <2>1, EmptyNotice, FlushFrame DEF passVars, pastVars
  <1>3. ASSUME NEW p \in Pass, PassStep(p) PROVE FlushKeeps'
    <2>1. CASE FlushRead(p) \/ FlushSend(p) \/ FlushWrite(p)
      BY <2>1, FlushSteps
    <2>2. CASE SweepWrite(p) \/ SweepAppend(p) \/ TakeInterrupted(p) \/ TakeOrphans(p) \/ EndPass(p)
      <3>1. PICK s \in {"append", "take", "notify", "redeliver", "idle"} : step' = [step EXCEPT ![p] = s]
        BY <2>2 DEF SweepWrite, SweepAppend, TakeInterrupted, TakeOrphans, EndPass, Goto
      <3>2. \A q \in Pass : step'[q] = "flush" => step[q] = "flush"
        BY <3>1 DEF HoldInv, OnceInv, Shaped
      <3>3. UNCHANGED <<held, seen, todo, kept, told>> /\ closed \subseteq closed'
        BY <2>2 DEF SweepWrite, SweepAppend, TakeInterrupted, TakeOrphans, EndPass, fileVars, pastVars
      <3> QED BY <3>2, <3>3, EmptyNotice, FlushFrame
    <2>3. CASE Notify(p) \/ Redeliver(p)
      <3>1. PICK n \in Notices : held' \subseteq held \cup {n} /\ told \subseteq told'
        <4>1. CASE Notify(p)
          <5>1. PICK i \in hand[p] :
                  NotifySender({j \in hand[p] : at[j] = at[i] /\ CallerOf[j[1]] = CallerOf[i[1]]})
            BY <4>1 DEF Notify
          <5> DEFINE group == {j \in hand[p] : at[j] = at[i] /\ CallerOf[j[1]] = CallerOf[i[1]]}
          <5>2. group \in Notices
            BY DEF Notices, HoldInv, OnceInv, Shaped
          <5>3. NotifySender(group)
            BY <5>1
          <5> HIDE DEF group
          <5>4. held' \subseteq held \cup {group} /\ told \subseteq told'
            BY <5>3 DEF NotifySender
          <5> QED BY <5>2, <5>4
        <4>2. CASE Redeliver(p)
          <5>1. PICK i \in hand[p] : ReturnUnknown(i) \/ SendAgain(i) \/ TellUndelivered(i)
            BY <4>2 DEF Redeliver
          <5>2. {i} \in Notices /\ held' \subseteq held \cup {{i}} /\ told \subseteq told'
            BY <5>1 DEF ReturnUnknown, SendAgain, TellUndelivered, NotifySender, Notices, HoldInv,
                        OnceInv, Shaped
          <5> QED BY <5>2
        <4> QED BY <2>3, <4>1, <4>2
      <3>2. UNCHANGED <<step, seen, todo, kept, closed>>
        BY <2>3 DEF Notify, Redeliver
      <3> QED BY <3>1, <3>2, FlushFrame
    <2> QED BY <1>3, <2>1, <2>2, <2>3 DEF PassStep
  <1>4. CASE Crash
    <2>1. /\ step' = [q \in Pass |-> "idle"] /\ UNCHANGED <<held, told, closed>>
          /\ seen' = [q \in Pass |-> {}] /\ todo' = [q \in Pass |-> {}] /\ kept' = [q \in Pass |-> {}]
      BY <1>4 DEF Crash, fileVars
    <2> QED BY <2>1 DEF HoldInv, FlushKeeps
  <1> QED BY <1>1, <1>2, <1>3, <1>4 DEF Next

(* Only the end of a flush takes a notice out of the file, *)
LEMMA OthersHold ==
  ASSUME Next, ~\E p \in Pass : FlushWrite(p)
  PROVE  held \subseteq held'
  BY DEF Next, SessionStep, NewSession, SessionDies, SelfEnd, Answer, FinishTurn, InheritOrphan,
         SendFirst, Reconcile, PassStep, FlushRead, FlushSend, SweepWrite, SweepAppend,
         TakeInterrupted, Notify, NotifySender, TakeOrphans, Redeliver, ReturnUnknown, SendAgain,
         TellUndelivered, EndPass, Crash, fileVars

(* and by then it was delivered, dropped by the rules, or is written back. *)
LEMMA FlushHolds ==
  ASSUME HoldInv, NEW p \in Pass, FlushWrite(p), NEW n \in held
  PROVE  n \in held' \/ n \subseteq told' \cup closed'
  BY DEF HoldInv, FlushKeeps, FlushWrite, pastVars

LEMMA HoldInit == ASSUME Init PROVE HoldInv
  BY OnceInit DEF Init, HoldInv, FlushKeeps

LEMMA HoldStep == ASSUME HoldInv, [Next]_vars PROVE KeepsHeld
  <1>1. CASE UNCHANGED vars
    BY <1>1 DEF vars, fileVars, KeepsHeld
  <1> QED BY <1>1, OthersHold, FlushHolds DEF KeepsHeld

(* A held notice leaves the file only when its sender was told or the rules    *)
(* dropped it: overlapping flushes never write an older file over a newer.    *)
THEOREM NoHeldNoticeIsLost ==
  ASSUME InflightAssumption PROVE Spec => HeldUntilTold
  <1>1. Init => HoldInv
    BY HoldInit
  <1>2. HoldInv /\ [Next]_vars => HoldInv'
    BY HoldNext
  <1>3. HoldInv /\ [Next]_vars => [KeepsHeld]_vars
    BY HoldStep
  <1> QED BY <1>1, <1>2, <1>3, PTL DEF Spec, HeldUntilTold

-----------------------------------------------------------------------------
(* An entry is in one place at a time: a pass takes what it holds out of a     *)
(* file first, and from the read of the ledger to the end of its appends it is *)
(* alone in the daemon, so only a CLI process can add to what it has read.     *)
Placed == ledger \cup orphans \cup interrupted \cup InHands

PlacedReceived == \A i \in Placed : Received(i)

HandsEmpty == \A p \in Pass : step[p] \in {"idle", "flush", "sweep", "take"} => hand[p] = {}

SweepsAlone ==
  \A p \in Pass : /\ step[p] \in {"sweep", "append", "take"} => busy = p
                  /\ step[p] = "sweep" => base[p] \subseteq ledger

OnePlace ==
  \A i \in First :
    /\ i \in ledger => i \notin orphans \cup interrupted \cup InHands
    /\ i \in orphans => i \notin interrupted \cup InHands
    /\ i \in interrupted => i \notin InHands
    /\ \A p, q \in Pass : i \in hand[p] /\ i \in hand[q] => p = q

(* What was sent again is in no file and no hand, so it is not received anew. *)
AgainLeft == \A m \in Msg : at[<<m, 2>>] # 0 => <<m, 1>> \notin Placed

OrderTyped == order \in [Copy -> Nat] /\ IsFiniteSet({i \in Copy : Received(i)})

CustodyInv ==
  /\ HoldInv /\ PlacedReceived /\ HandsEmpty /\ SweepsAlone /\ OnePlace /\ AgainLeft
  /\ OrderTyped /\ Accounted

LEMMA CustodyInit == ASSUME Init PROVE CustodyInv
  <1>1. {i \in Copy : Received(i)} = {} /\ InHands = {}
    BY DEF Init, Received, InHands
  <1>2. OrderTyped
    BY <1>1, FS_EmptySet DEF Init, OrderTyped
  <1> QED BY <1>1, <1>2, HoldInit, CopiesAreReceived
          DEF Init, CustodyInv, PlacedReceived, Placed, HandsEmpty, SweepsAlone, OnePlace, AgainLeft,
              Accounted, Acknowledged

(* Where an acknowledged entry stays accounted for whatever else happens: what *)
(* a finished turn covers, what was sent again, what its sender knows.        *)
Settled(i) == TurnCovers(i) \/ Again(i) \/ SenderKnows(i)

(* Of what was received the number, the order and a finished turn stay.        *)
LEMMA PlacedCopies == ASSUME CustodyInv PROVE Placed \subseteq Copy
  BY DEF CustodyInv, HoldInv, OnceInv, Shaped, Placed, InHands

RecordStays ==
  \A i \in Copy : Received(i) => /\ at'[i] = at[i] /\ order'[i] = order[i]
                                 /\ Completed(i) => Completed(i)'

LEMMA SettledStays ==
  ASSUME CustodyInv, InflightAssumption, [Next]_vars, RecordStays, told \subseteq told', closed \subseteq closed',
         NEW i \in Copy, Acknowledged(i), Settled(i)
  PROVE  Settled(i)'
  <1>1. CASE TurnCovers(i)
    <2>1. PICK j \in Copy : at[j] = at[i] /\ Completed(j) /\ order[i] <= order[j]
      BY <1>1 DEF TurnCovers
    <2>2. Received(i) /\ Received(j)
      BY <2>1 DEF Acknowledged, Received
    <2>3. at'[j] = at'[i] /\ Completed(j)' /\ order'[i] <= order'[j]
      BY <2>1, <2>2 DEF RecordStays
    <2> QED BY <2>3 DEF Settled, TurnCovers
  <1>2. CASE Again(i)
    <2>1. <<i[1], 2>> \in Copy /\ Received(<<i[1], 2>>)
      BY <1>2 DEF Again, Acknowledged, Received, Copy
    <2> QED BY <1>2, <2>1 DEF RecordStays, Received, Settled, Again, Acknowledged
  <1>3. CASE SenderKnows(i)
    <2>1. \A n \in held : n \in held' \/ n \subseteq told' \cup closed'
      BY HoldStep DEF CustodyInv, KeepsHeld
    <2> QED BY <1>3, <2>1 DEF Settled, SenderKnows
  <1> QED BY <1>1, <1>2, <1>3 DEF Settled

LEMMA AccountedKept ==
  ASSUME CustodyInv, InflightAssumption, [Next]_vars, RecordStays,
         told \subseteq told', closed \subseteq closed',
         \A i \in Copy : Received(i)' /\ ~Received(i) => i \in Placed',
         \A i \in Copy : i \in Placed \cup lost => i \in Placed' \cup lost' \/ Settled(i)'
  PROVE  Accounted'
  <1> SUFFICES ASSUME NEW i \in Copy, Acknowledged(i)'
               PROVE  i \in Placed' \cup lost' \/ Settled(i)'
    BY DEF Accounted, Placed, Settled
  <1>1. CASE ~Received(i)
    BY <1>1 DEF Acknowledged, Received
  <1>2. CASE Received(i)
    <2>1. Acknowledged(i) /\ (i \in Placed \cup lost \/ Settled(i))
      BY <1>2 DEF CustodyInv, Accounted, Acknowledged, Received, Placed, Settled
    <2> QED BY <2>1, SettledStays
  <1> QED BY <1>1, <1>2

(* The hands of the other passes, *)
Others(p) == UNION {hand[q] : q \in Pass \ {p}}

LEMMA HandsSplit ==
  ASSUME NEW p \in Pass, \A q \in Pass : q # p => hand'[q] = hand[q]
  PROVE  InHands = hand[p] \cup Others(p) /\ InHands' = hand'[p] \cup Others(p)
  BY DEF InHands, Others

(* and where an entry is, seen from one of them. *)
Apart(i, l, o, n, h, r) ==
  /\ i \in l => i \notin o /\ i \notin n /\ i \notin h /\ i \notin r
  /\ i \in o => i \notin n /\ i \notin h /\ i \notin r
  /\ i \in n => i \notin h /\ i \notin r
  /\ i \in h => i \notin r

LEMMA ApartFrom ==
  ASSUME OnePlace, NEW p \in Pass, NEW i \in First
  PROVE  Apart(i, ledger, orphans, interrupted, hand[p], Others(p))
  <1>1. i \in hand[p] \/ i \in Others(p) => i \in InHands
    BY DEF InHands, Others
  <1>2. i \in hand[p] => i \notin Others(p)
    BY DEF OnePlace, Others
  <1> QED BY <1>1, <1>2 DEF OnePlace, Apart

LEMMA OnePlaceKept ==
  ASSUME OnePlace, NEW p \in Pass, \A q \in Pass : q # p => hand'[q] = hand[q],
         \A i \in First : Apart(i, ledger', orphans', interrupted', hand'[p], Others(p))
  PROVE  OnePlace'
  <1> SUFFICES ASSUME NEW i \in First
               PROVE  /\ i \in ledger' => i \notin orphans' \cup interrupted' \cup InHands'
                      /\ i \in orphans' => i \notin interrupted' \cup InHands'
                      /\ i \in interrupted' => i \notin InHands'
                      /\ \A q, r \in Pass : i \in hand'[q] /\ i \in hand'[r] => q = r
    BY DEF OnePlace
  <1>1. InHands' = hand'[p] \cup Others(p)
    BY HandsSplit
  <1>2. ASSUME NEW q \in Pass, NEW r \in Pass, i \in hand'[q], i \in hand'[r] PROVE q = r
    <2>1. CASE q # p /\ r # p
      BY <1>2, <2>1 DEF OnePlace
    <2>2. q # p => i \in Others(p)
      BY <1>2 DEF Others
    <2>3. r # p => i \in Others(p)
      BY <1>2 DEF Others
    <2>4. i \in hand'[p] => i \notin Others(p)
      BY DEF Apart
    <2> QED BY <1>2, <2>1, <2>2, <2>3, <2>4
  <1> QED BY <1>1, <1>2 DEF Apart

(* A step of one pass that moves entries and receives none. *)
LEMMA CustodyMoves ==
  ASSUME CustodyInv, InflightAssumption, [Next]_vars, NEW p \in Pass,
         NEW s \in {"idle", "flush", "sweep", "append", "take", "notify", "redeliver"},
         step' = [step EXCEPT ![p] = s], UNCHANGED <<at, order, native>>,
         told \subseteq told', closed \subseteq closed',
         \A q \in Pass : q # p => hand'[q] = hand[q],
         \A q \in Pass : q # p /\ step[q] \in {"sweep", "append", "take"} =>
           busy' = busy /\ base'[q] = base[q] /\ ledger \subseteq ledger',
         s \in {"sweep", "append", "take"} => busy' = p,
         s = "sweep" => base'[p] \subseteq ledger',
         s \in {"idle", "flush", "sweep", "take"} => hand'[p] = {},
         \A i \in First : Apart(i, ledger', orphans', interrupted', hand'[p], Others(p)),
         ledger' \cup orphans' \cup interrupted' \cup hand'[p] \subseteq Placed,
         \A i \in Copy : i \in ledger \cup orphans \cup interrupted \cup hand[p] \cup lost =>
           i \in ledger' \cup orphans' \cup interrupted' \cup hand'[p] \cup lost' \/ Settled(i)'
  PROVE  CustodyInv'
  <1>1. /\ step'[p] = s /\ \A q \in Pass : q # p => step'[q] = step[q]
    BY DEF CustodyInv, HoldInv, OnceInv, Shaped
  <1>2. InHands = hand[p] \cup Others(p) /\ InHands' = hand'[p] \cup Others(p)
    BY HandsSplit
  <1>3. Placed' \subseteq Placed
    BY <1>2 DEF Placed
  <1>4. HoldInv'
    BY HoldNext DEF CustodyInv
  <1>5. PlacedReceived'
    BY <1>3 DEF CustodyInv, PlacedReceived, Received
  <1>6. HandsEmpty'
    BY <1>1 DEF CustodyInv, HandsEmpty
  <1>7. SweepsAlone'
    BY <1>1 DEF CustodyInv, SweepsAlone
  <1>8. OnePlace'
    BY OnePlaceKept DEF CustodyInv
  <1>9. AgainLeft'
    BY <1>3 DEF CustodyInv, AgainLeft
  <1>10. OrderTyped'
    BY DEF CustodyInv, OrderTyped, Received
  <1>11. RecordStays
    BY DEF RecordStays, Completed
  <1>12. \A i \in Copy : i \in Placed \cup lost => i \in Placed' \cup lost' \/ Settled(i)'
    BY <1>2 DEF Placed
  <1>13. Accounted'
    <2>1. \A i \in Copy : Received(i)' /\ ~Received(i) => i \in Placed'
      BY DEF Received
    <2> QED BY <1>11, <1>12, <2>1, AccountedKept
  <1> QED BY <1>4, <1>5, <1>6, <1>7, <1>8, <1>9, <1>10, <1>13 DEF CustodyInv

(* The flush leaves every entry where it is. *)
LEMMA FlushCustody ==
  ASSUME CustodyInv, InflightAssumption, [Next]_vars, NEW p \in Pass,
         FlushRead(p) \/ FlushSend(p) \/ FlushWrite(p) \/ EndPass(p)
  PROVE  CustodyInv'
  <1>1. /\ UNCHANGED <<at, order, native, ledger, orphans, interrupted, hand, lost>>
        /\ told \subseteq told' /\ closed \subseteq closed'
    BY DEF FlushRead, FlushSend, FlushWrite, EndPass, sessionVars, fileVars, pastVars
  <1>2. PICK s \in {"flush", "sweep", "idle"} :
          /\ step' = [step EXCEPT ![p] = s]
          /\ s = "sweep" => busy' = p /\ base'[p] = ledger
          /\ hand[p] = {}
    BY DEF FlushRead, FlushSend, FlushWrite, EndPass, Goto, CustodyInv, HandsEmpty, HoldInv, OnceInv, Shaped
  <1>3. \A q \in Pass : q # p /\ step[q] \in {"sweep", "append", "take"} => busy' = busy /\ base'[q] = base[q]
    BY DEF FlushRead, FlushSend, FlushWrite, EndPass, CustodyInv, SweepsAlone, InflightAssumption
  <1>4. \A i \in First : Apart(i, ledger', orphans', interrupted', hand'[p], Others(p))
    BY <1>1, ApartFrom DEF CustodyInv
  <1>5. ledger' \cup orphans' \cup interrupted' \cup hand'[p] \subseteq Placed
    BY <1>1, <1>2 DEF Placed
  <1> QED BY <1>1, <1>2, <1>3, <1>4, <1>5, CustodyMoves

(* The sweep keeps an entry, hands it on, finds it covered, or takes it in hand; *)
(* what a CLI process has added meanwhile is overwritten.                       *)
LEMMA SweepCustody ==
  ASSUME CustodyInv, InflightAssumption, [Next]_vars, NEW p \in Pass, SweepWrite(p)
  PROVE  CustodyInv'
  <1> DEFINE L == {i \in base[p] : Keeps(p, i)}
             H == {i \in base[p] : Leaves(p, i) /\ ~SelfSettled(p, i)}
             C == {i \in base[p] : ~Keeps(p, i) /\ ToReconciler(i)}
                  \cup {i \in base[p] : Leaves(p, i) /\ SelfSettled(p, i)}
  <1>1. /\ step[p] = "sweep" /\ step' = [step EXCEPT ![p] = "append"]
        /\ UNCHANGED <<at, order, native, orphans, interrupted, busy, told, held>>
        /\ ledger' = L /\ hand' = [hand EXCEPT ![p] = H] /\ closed' = closed \cup C
        /\ lost' = lost \cup (ledger \ base[p]) /\ base' = [base EXCEPT ![p] = {}]
    BY DEF SweepWrite, Goto, sessionVars
  <1>2. /\ L \subseteq base[p] /\ H \subseteq base[p]
        /\ \A i \in H : i \notin L
        /\ \A i \in base[p] : i \in L \/ i \in H \/ i \in C \/ Handled(base[p], i)
    BY DEF Leaves
  <1> HIDE DEF L, H, C
  <1>3. /\ base[p] \subseteq ledger /\ base[p] \subseteq Copy /\ hand[p] = {} /\ busy = p
        /\ hand'[p] = H /\ \A q \in Pass : q # p => hand'[q] = hand[q]
    BY <1>1 DEF CustodyInv, SweepsAlone, HandsEmpty, HoldInv, OnceInv, Shaped
  <1>4. \A q \in Pass : q # p => step[q] \notin {"sweep", "append", "take"}
    BY <1>3 DEF CustodyInv, SweepsAlone
  <1>5. ASSUME NEW i \in First PROVE Apart(i, ledger', orphans', interrupted', hand'[p], Others(p))
    BY <1>1, <1>2, <1>3, ApartFrom DEF CustodyInv, Apart
  <1>6. ledger' \cup orphans' \cup interrupted' \cup hand'[p] \subseteq Placed
    BY <1>1, <1>2, <1>3 DEF Placed
  <1>7. ASSUME NEW i \in base[p], Handled(base[p], i) PROVE Settled(i)'
    <2>1. PICK j \in base[p] : Completed(j) /\ at[j] = at[i] /\ (j = i \/ order[i] < order[j])
      BY <1>7 DEF Handled
    <2>2. order[i] \in Nat /\ order[j] \in Nat /\ j \in Copy
      BY <1>3 DEF CustodyInv, OrderTyped
    <2>3. order[i] <= order[j]
      BY <2>1, <2>2
    <2> QED BY <1>1, <2>1, <2>2, <2>3 DEF Settled, TurnCovers, Completed
  <1>8. ASSUME NEW i \in C PROVE Settled(i)'
    BY <1>1, <1>8 DEF Settled, SenderKnows
  <1>9. \A i \in Copy : i \in ledger \cup orphans \cup interrupted \cup hand[p] \cup lost =>
          i \in ledger' \cup orphans' \cup interrupted' \cup hand'[p] \cup lost' \/ Settled(i)'
    BY <1>1, <1>2, <1>3, <1>7, <1>8
  <1> QED BY <1>1, <1>3, <1>4, <1>5, <1>6, <1>9, CustodyMoves

LEMMA AppendCustody ==
  ASSUME CustodyInv, InflightAssumption, [Next]_vars, NEW p \in Pass, SweepAppend(p)
  PROVE  CustodyInv'
  <1>1. /\ step[p] = "append" /\ step' = [step EXCEPT ![p] = "take"]
        /\ UNCHANGED <<at, order, native, ledger, busy, told, closed, lost, base>>
        /\ orphans' = orphans \cup {i \in hand[p] : Replayable(i)}
        /\ interrupted' = interrupted \cup {i \in hand[p] : ~Replayable(i)}
        /\ hand' = [hand EXCEPT ![p] = {}]
    BY DEF SweepAppend, Goto, sessionVars, pastVars
  <1>2. busy = p /\ hand'[p] = {} /\ \A q \in Pass : q # p => hand'[q] = hand[q]
    BY <1>1 DEF CustodyInv, SweepsAlone, HoldInv, OnceInv, Shaped
  <1>3. ASSUME NEW i \in First PROVE Apart(i, ledger', orphans', interrupted', hand'[p], Others(p))
    BY <1>1, <1>2, ApartFrom DEF CustodyInv, Apart
  <1>4. ledger' \cup orphans' \cup interrupted' \cup hand'[p] \subseteq Placed
    BY <1>1, <1>2, HandsSplit DEF Placed
  <1>5. \A i \in Copy : i \in ledger \cup orphans \cup interrupted \cup hand[p] \cup lost =>
          i \in ledger' \cup orphans' \cup interrupted' \cup hand'[p] \cup lost'
    BY <1>1
  <1> QED BY <1>1, <1>2, <1>3, <1>4, <1>5, CustodyMoves

(* A file is taken whole, into an empty hand. *)
LEMMA TakeCustody ==
  ASSUME CustodyInv, InflightAssumption, [Next]_vars, NEW p \in Pass, TakeInterrupted(p) \/ TakeOrphans(p)
  PROVE  CustodyInv'
  <1>1. /\ UNCHANGED <<at, order, native, ledger, told, closed, lost, base>>
        /\ hand[p] = {}
        /\ \/ orphans' = {} /\ interrupted' = interrupted /\ hand' = [hand EXCEPT ![p] = orphans]
           \/ interrupted' = {} /\ orphans' = orphans /\ hand' = [hand EXCEPT ![p] = interrupted]
    BY DEF TakeInterrupted, TakeOrphans, sessionVars, pastVars, CustodyInv, HandsEmpty
  <1>2. PICK s \in {"notify", "redeliver"} : step' = [step EXCEPT ![p] = s]
    BY DEF TakeInterrupted, TakeOrphans, Goto
  <1>3. \A q \in Pass : q # p => step[q] \notin {"sweep", "append", "take"}
    BY DEF TakeInterrupted, TakeOrphans, CustodyInv, SweepsAlone, InflightAssumption
  <1>4. /\ \A q \in Pass : q # p => hand'[q] = hand[q]
        /\ hand'[p] = IF orphans' = {} /\ interrupted' = interrupted /\ hand' = [hand EXCEPT ![p] = orphans]
                      THEN orphans ELSE interrupted
    BY <1>1 DEF CustodyInv, HoldInv, OnceInv, Shaped
  <1>5. ASSUME NEW i \in First PROVE Apart(i, ledger', orphans', interrupted', hand'[p], Others(p))
    BY <1>1, <1>4, ApartFrom DEF CustodyInv, Apart
  <1>6. ledger' \cup orphans' \cup interrupted' \cup hand'[p] \subseteq Placed
    BY <1>1, <1>4 DEF Placed
  <1>7. \A i \in Copy : i \in ledger \cup orphans \cup interrupted \cup hand[p] \cup lost =>
          i \in ledger' \cup orphans' \cup interrupted' \cup hand'[p] \cup lost'
    BY <1>1, <1>4
  <1> QED BY <1>1, <1>2, <1>3, <1>4, <1>5, <1>6, <1>7, CustodyMoves

(* A notice that does not arrive is held. *)
LEMMA ToldOrHeld ==
  ASSUME CustodyInv, NEW n \in Notices, NotifySender(n), NEW i \in n
  PROVE  Settled(i)'
  BY DEF NotifySender, Settled, SenderKnows

LEMMA NotifyCustody ==
  ASSUME CustodyInv, InflightAssumption, [Next]_vars, NEW p \in Pass, Notify(p)
  PROVE  CustodyInv'
  <1>1. PICK n \in SUBSET hand[p] : NotifySender(n) /\ hand' = [hand EXCEPT ![p] = @ \ n]
    BY DEF Notify
  <1>2. /\ UNCHANGED <<at, order, native, ledger, orphans, interrupted, closed, lost, base, busy>>
        /\ step[p] = "notify" /\ busy = Free /\ step' = step
    BY DEF Notify, sessionVars
  <1>3. n \in Notices /\ told \subseteq told'
    BY <1>1 DEF NotifySender, Notices, CustodyInv, HoldInv, OnceInv, Shaped
  <1>4. /\ hand'[p] = hand[p] \ n /\ \A q \in Pass : q # p => hand'[q] = hand[q]
        /\ step' = [step EXCEPT ![p] = "notify"]
    BY <1>1, <1>2 DEF CustodyInv, HoldInv, OnceInv, Shaped
  <1>5. \A q \in Pass : q # p => step[q] \notin {"sweep", "append", "take"}
    BY <1>2 DEF CustodyInv, SweepsAlone, InflightAssumption
  <1>6. ASSUME NEW i \in First PROVE Apart(i, ledger', orphans', interrupted', hand'[p], Others(p))
    BY <1>2, <1>4, ApartFrom DEF CustodyInv, Apart
  <1>7. ledger' \cup orphans' \cup interrupted' \cup hand'[p] \subseteq Placed
    BY <1>2, <1>4, HandsSplit DEF Placed
  <1>8. \A i \in Copy : i \in ledger \cup orphans \cup interrupted \cup hand[p] \cup lost =>
          i \in ledger' \cup orphans' \cup interrupted' \cup hand'[p] \cup lost' \/ Settled(i)'
    BY <1>1, <1>2, <1>3, <1>4, ToldOrHeld
  <1> QED BY <1>2, <1>3, <1>4, <1>5, <1>6, <1>7, <1>8, CustodyMoves

(* A copy is received once: the records of the others stay. *)
LEMMA ReceiptStays ==
  ASSUME CustodyInv, NEW j \in Copy, ~Received(j), NEW s \in Nat, NEW t \in Nat, NEW n,
         at' = [at EXCEPT ![j] = s], order' = [order EXCEPT ![j] = t], native' = [native EXCEPT ![j] = n]
  PROVE  /\ RecordStays /\ OrderTyped'
         /\ at'[j] = s /\ \A i \in Copy : i # j => at'[i] = at[i]
  <1>1. /\ at \in [Copy -> Nat] /\ order \in [Copy -> Nat] /\ DOMAIN native = Copy
        /\ IsFiniteSet({i \in Copy : Received(i)})
    BY DEF CustodyInv, HoldInv, OnceInv, Shaped, OrderTyped
  <1>2. at'[j] = s /\ \A i \in Copy : i # j => at'[i] = at[i] /\ order'[i] = order[i] /\ native'[i] = native[i]
    BY <1>1
  <1>3. RecordStays
    BY <1>2 DEF RecordStays, Completed
  <1>4. IsFiniteSet({i \in Copy : Received(i)}')
    <2>1. IsFiniteSet({i \in Copy : Received(i)} \cup {j})
      BY <1>1, FS_AddElement
    <2>2. {i \in Copy : Received(i)}' \subseteq {i \in Copy : Received(i)} \cup {j}
      BY <1>2 DEF Received
    <2> QED BY <2>1, <2>2, FS_Subset
  <1>5. OrderTyped'
    BY <1>1, <1>4 DEF OrderTyped
  <1> QED BY <1>2, <1>3, <1>5

LEMMA ReceiveIs ==
  ASSUME CustodyInv, NEW j \in Copy, NEW s, Receive(j, s)
  PROVE  \E t \in Nat : \E n : /\ at' = [at EXCEPT ![j] = s] /\ order' = [order EXCEPT ![j] = t]
                               /\ native' = [native EXCEPT ![j] = n]
  <1>1. {i \in Copy : at[i] # 0} = {i \in Copy : Received(i)}
    BY DEF Received
  <1>2. Cardinality({i \in Copy : at[i] # 0}) + 1 \in Nat
    <2>1. IsFiniteSet({i \in Copy : at[i] # 0})
      BY <1>1 DEF CustodyInv, OrderTyped
    <2>2. Cardinality({i \in Copy : at[i] # 0}) \in Nat
      BY <2>1, FS_CardinalityType
    <2> QED BY <2>2
  <1> QED BY <1>2 DEF Receive

(* An orphan leaves a hand for the reconciler, for its sender, *)
LEMMA GiveUpCustody ==
  ASSUME CustodyInv, InflightAssumption, [Next]_vars, NEW p \in Pass, Redeliver(p),
         NEW i \in hand[p], ReturnUnknown(i) \/ TellUndelivered(i), hand' = [hand EXCEPT ![p] = @ \ {i}]
  PROVE  CustodyInv'
  <1>1. /\ UNCHANGED <<at, order, native, orphans, interrupted, closed, lost, base, busy>>
        /\ step[p] = "redeliver" /\ busy = Free /\ step' = step
    BY DEF Redeliver, ReturnUnknown, TellUndelivered, sessionVars
  <1>2. \/ ledger' = ledger \cup {i} /\ told' = told
        \/ ledger' = ledger /\ Settled(i)' /\ told \subseteq told'
    <2>1. {i} \in Notices
      BY DEF Notices, CustodyInv, HoldInv, OnceInv, Shaped
    <2>2. CASE ReturnUnknown(i)
      BY <2>2 DEF ReturnUnknown
    <2>3. CASE TellUndelivered(i)
      BY <2>1, <2>3, ToldOrHeld DEF TellUndelivered, NotifySender
    <2> QED BY <2>2, <2>3
  <1>3. /\ hand'[p] = hand[p] \ {i} /\ \A q \in Pass : q # p => hand'[q] = hand[q]
        /\ step' = [step EXCEPT ![p] = "redeliver"]
    BY <1>1 DEF CustodyInv, HoldInv, OnceInv, Shaped
  <1>4. \A q \in Pass : q # p => step[q] \notin {"sweep", "append", "take"}
    BY <1>1 DEF CustodyInv, SweepsAlone, InflightAssumption
  <1>5. ASSUME NEW k \in First PROVE Apart(k, ledger', orphans', interrupted', hand'[p], Others(p))
    BY <1>1, <1>2, <1>3, ApartFrom DEF CustodyInv, Apart
  <1>6. ledger' \cup orphans' \cup interrupted' \cup hand'[p] \subseteq Placed
    BY <1>1, <1>2, <1>3, HandsSplit DEF Placed
  <1>7. \A k \in Copy : k \in ledger \cup orphans \cup interrupted \cup hand[p] \cup lost =>
          k \in ledger' \cup orphans' \cup interrupted' \cup hand'[p] \cup lost' \/ Settled(k)'
    BY <1>1, <1>2, <1>3
  <1>8. told \subseteq told' /\ closed \subseteq closed'
    BY <1>1, <1>2
  <1> QED BY <1>1, <1>3, <1>4, <1>5, <1>6, <1>7, <1>8, CustodyMoves

(* or to be sent again, once. *)
LEMMA AgainCustody ==
  ASSUME CustodyInv, InflightAssumption, [Next]_vars, NEW p \in Pass, Redeliver(p),
         NEW i \in hand[p], SendAgain(i), hand' = [hand EXCEPT ![p] = @ \ {i}]
  PROVE  CustodyInv'
  <1> DEFINE j == <<i[1], 2>>
  <1>1. i[1] \in Msg /\ i = <<i[1], 1>> /\ i \in First /\ j \in Copy /\ j \notin First
    BY DEF SendAgain, Copy, First, CustodyInv, HoldInv, OnceInv, Shaped
  <1>2. /\ Receive(j, token') /\ ledger' = ledger \cup {j}
        /\ \/ token # 0 /\ token' = token
           \/ token' = sessions + 1
        /\ UNCHANGED <<held, told>>
    BY DEF SendAgain
  <1>3. \A m \in Msg : <<m, 1>> # i => <<m, 2>> # j
    BY <1>1
  <1>4. i \in Placed
    BY HandsSplit DEF Placed, InHands
  <1>5. ~Received(j)
    BY <1>1, <1>4 DEF CustodyInv, AgainLeft, Received
  <1> HIDE DEF j
  <1>6. /\ UNCHANGED <<orphans, interrupted, closed, lost, base, busy, step>>
        /\ step[p] = "redeliver" /\ busy = Free
    BY DEF Redeliver
  <1>7. token' \in Nat /\ token' # 0
    BY <1>2 DEF CustodyInv, HoldInv, OnceInv, Shaped
  <1>8. /\ RecordStays /\ OrderTyped'
        /\ at'[j] = token' /\ \A k \in Copy : k # j => at'[k] = at[k]
    <2>1. PICK t \in Nat : \E n : /\ at' = [at EXCEPT ![j] = token'] /\ order' = [order EXCEPT ![j] = t]
                                  /\ native' = [native EXCEPT ![j] = n]
      BY <1>1, <1>2, ReceiveIs
    <2> QED BY <1>1, <1>5, <1>7, <2>1, ReceiptStays
  <1>9. hand'[p] = hand[p] \ {i} /\ \A q \in Pass : q # p => hand'[q] = hand[q]
    BY DEF CustodyInv, HoldInv, OnceInv, Shaped
  <1>10. InHands = hand[p] \cup Others(p) /\ InHands' = hand'[p] \cup Others(p)
    BY <1>9, HandsSplit
  <1>11. /\ Placed' \subseteq Placed \cup {j} /\ j \in Placed'
         /\ \A k \in Placed : k # i => k \in Placed'
    BY <1>2, <1>6, <1>9, <1>10 DEF Placed
  <1>12. i \notin Placed'
    <2>1. Apart(i, ledger, orphans, interrupted, hand[p], Others(p))
      BY <1>1, ApartFrom DEF CustodyInv
    <2>2. i # j
      BY <1>1
    <2> QED BY <1>2, <1>6, <1>9, <1>10, <2>1, <2>2 DEF Placed, Apart
  <1>13. HoldInv'
    BY HoldNext DEF CustodyInv
  <1>14. PlacedReceived'
    <2> SUFFICES ASSUME NEW k \in Placed' PROVE at'[k] # 0
      BY DEF PlacedReceived, Received
    <2>1. CASE k = j
      BY <1>7, <1>8, <2>1
    <2>2. CASE k \in Placed
      <3>1. k \in Copy /\ Received(k)
        BY <2>2, PlacedCopies DEF CustodyInv, PlacedReceived
      <3> QED BY <1>8, <3>1 DEF RecordStays, Received
    <2> QED BY <1>11, <2>1, <2>2
  <1>15. HandsEmpty'
    BY <1>6, <1>9 DEF CustodyInv, HandsEmpty
  <1>16. SweepsAlone'
    BY <1>2, <1>6 DEF CustodyInv, SweepsAlone, InflightAssumption
  <1>17. OnePlace'
    <2>1. ASSUME NEW k \in First PROVE Apart(k, ledger', orphans', interrupted', hand'[p], Others(p))
      BY <1>1, <1>2, <1>6, <1>9, ApartFrom DEF CustodyInv, Apart
    <2> QED BY <1>9, <2>1, OnePlaceKept DEF CustodyInv
  <1>18. AgainLeft'
    <2> SUFFICES ASSUME NEW m \in Msg, at'[<<m, 2>>] # 0 PROVE <<m, 1>> \notin Placed'
      BY DEF AgainLeft
    <2>1. <<m, 1>> # i => <<m, 1>> \notin Placed
      BY <1>3, <1>8, CopiesAreReceived DEF CustodyInv, AgainLeft
    <2>2. <<m, 1>> # j
      BY <1>1, CopiesAreReceived
    <2> QED BY <1>11, <1>12, <2>1, <2>2
  <1>19. Accounted'
    <2>1. Settled(i)'
      BY <1>1, <1>7, <1>8 DEF Settled, Again, Acknowledged, j
    <2>2. \A k \in Copy : Received(k)' /\ ~Received(k) => k \in Placed'
      BY <1>8, <1>11 DEF Received
    <2>3. \A k \in Copy : k \in Placed \cup lost => k \in Placed' \cup lost' \/ Settled(k)'
      BY <1>6, <1>11, <2>1
    <2>4. told \subseteq told' /\ closed \subseteq closed'
      BY <1>2, <1>6
    <2> QED BY <1>8, <2>2, <2>3, <2>4, AccountedKept
  <1> QED BY <1>8, <1>13, <1>14, <1>15, <1>16, <1>17, <1>18, <1>19 DEF CustodyInv

(* A first copy that arrives from its sender, or that an older daemon left. *)
LEMMA ArriveCustody ==
  ASSUME CustodyInv, InflightAssumption, [Next]_vars, NEW m \in Msg, SendFirst(m) \/ InheritOrphan(m)
  PROVE  CustodyInv'
  <1> DEFINE j == <<m, 1>>
  <1>1. /\ j \in Copy /\ j \in First /\ ~Received(j) /\ \A k \in Msg : <<k, 2>> # j
        /\ \A k \in Msg : k # m => <<k, 1>> # j
    <2>1. j \in Copy /\ j \in First
      BY CopiesAreReceived
    <2>2. ~Received(j)
      BY DEF SendFirst, InheritOrphan, Received
    <2> QED BY <2>1, <2>2
  <1>2. UNCHANGED <<interrupted, passVars, pastVars>>
    BY DEF SendFirst, InheritOrphan
  <1>3. /\ \/ ledger' = ledger \cup {j} /\ orphans' = orphans
           \/ ledger' = ledger /\ orphans' = orphans \cup {j}
        /\ \E s \in Nat \ {0} : \E t \in Nat : \E n :
             /\ at' = [at EXCEPT ![j] = s] /\ order' = [order EXCEPT ![j] = t]
             /\ native' = [native EXCEPT ![j] = n]
    <2>1. CASE SendFirst(m)
      <3>1. token \in Nat \ {0} /\ Receive(j, token) /\ ledger' = ledger \cup {j} /\ orphans' = orphans
        BY <2>1 DEF SendFirst, CustodyInv, HoldInv, OnceInv, Shaped
      <3> HIDE DEF j
      <3> QED BY <1>1, <3>1, ReceiveIs
    <2>2. CASE InheritOrphan(m)
      <3>1. \A i \in Copy : ~Received(i)
        BY <2>2 DEF InheritOrphan, Received, CustodyInv, HoldInv, OnceInv, Shaped, Numbered
      <3>2. orphans = {}
        BY <3>1 DEF CustodyInv, PlacedReceived, Placed, HoldInv, OnceInv, Shaped
      <3>3. /\ at' = [at EXCEPT ![j] = 1] /\ order' = [order EXCEPT ![j] = 1]
            /\ native' = [native EXCEPT ![j] = "swallowed"] /\ orphans' = {j} /\ ledger' = ledger
        BY <2>2 DEF InheritOrphan
      <3> HIDE DEF j
      <3>4. orphans' = orphans \cup {j}
        BY <3>2, <3>3
      <3>5. 1 \in Nat \ {0}
        OBVIOUS
      <3> QED BY <3>3, <3>4, <3>5
    <2> QED BY <2>1, <2>2
  <1> HIDE DEF j
  <1>4. PICK s \in Nat \ {0} : \E t \in Nat : \E n :
             /\ at' = [at EXCEPT ![j] = s] /\ order' = [order EXCEPT ![j] = t]
             /\ native' = [native EXCEPT ![j] = n]
    BY <1>3
  <1>5. /\ RecordStays /\ OrderTyped'
        /\ at'[j] = s /\ \A k \in Copy : k # j => at'[k] = at[k]
    BY <1>1, <1>4, ReceiptStays
  <1>6. UNCHANGED <<step, base, hand, busy, told, closed, lost>> /\ InHands' = InHands
    BY <1>2 DEF passVars, pastVars, InHands
  <1>7. Placed' = Placed \cup {j} /\ j \notin Placed
    BY <1>1, <1>2, <1>3, <1>6 DEF Placed, CustodyInv, PlacedReceived
  <1>8. HoldInv'
    BY HoldNext DEF CustodyInv
  <1>9. PlacedReceived'
    <2> SUFFICES ASSUME NEW k \in Placed' PROVE at'[k] # 0
      BY DEF PlacedReceived, Received
    <2>1. CASE k \in Placed
      <3>1. k \in Copy /\ Received(k)
        BY <2>1, PlacedCopies DEF CustodyInv, PlacedReceived
      <3> QED BY <1>5, <3>1 DEF RecordStays, Received
    <2> QED BY <1>5, <1>7, <2>1
  <1>10. HandsEmpty' /\ SweepsAlone'
    BY <1>3, <1>6 DEF CustodyInv, HandsEmpty, SweepsAlone
  <1>11. OnePlace'
    BY <1>2, <1>3, <1>6, <1>7 DEF CustodyInv, OnePlace, Placed
  <1>12. AgainLeft'
    <2> SUFFICES ASSUME NEW k \in Msg, at'[<<k, 2>>] # 0 PROVE <<k, 1>> \notin Placed'
      BY DEF AgainLeft
    <2>1. at[<<k, 2>>] # 0
      BY <1>1, <1>5, CopiesAreReceived
    <2>2. <<k, 1>> \notin Placed /\ Received(<<k, 1>>)
      BY <2>1 DEF CustodyInv, AgainLeft, HoldInv, OnceInv, AgainUnstarted, Unstarted, Gone
    <2> QED BY <1>1, <1>7, <2>2
  <1>13. Accounted'
    <2>1. \A k \in Copy : Received(k)' /\ ~Received(k) => k \in Placed'
      BY <1>5, <1>7 DEF Received
    <2>2. \A k \in Copy : k \in Placed \cup lost => k \in Placed' \cup lost'
      BY <1>6, <1>7
    <2> QED BY <1>5, <1>6, <2>1, <2>2, AccountedKept
  <1> QED BY <1>5, <1>8, <1>9, <1>10, <1>11, <1>12, <1>13 DEF CustodyInv

(* The session works on, the reconciler decides: no entry moves. *)
LEMMA QuietCustody ==
  ASSUME CustodyInv, InflightAssumption, [Next]_vars,
         UNCHANGED <<at, order, ledger, orphans, interrupted, passVars, pastVars>>,
         \A i \in Copy : Completed(i) => Completed(i)'
  PROVE  CustodyInv'
  <1>1. UNCHANGED <<step, base, hand, busy, told, closed, lost>> /\ InHands' = InHands
    BY DEF passVars, pastVars, InHands
  <1>2. HoldInv'
    BY HoldNext DEF CustodyInv
  <1>3. Placed' = Placed
    BY <1>1 DEF Placed
  <1>4. PlacedReceived' /\ HandsEmpty' /\ SweepsAlone' /\ AgainLeft' /\ OrderTyped'
    BY <1>1, <1>3 DEF CustodyInv, PlacedReceived, HandsEmpty, SweepsAlone, AgainLeft, OrderTyped, Received
  <1>5. OnePlace'
    BY <1>1 DEF CustodyInv, OnePlace
  <1>6. Accounted'
    BY <1>1, <1>3, AccountedKept DEF RecordStays, Received
  <1> QED BY <1>2, <1>4, <1>5, <1>6 DEF CustodyInv

LEMMA SessionCustody ==
  ASSUME CustodyInv, InflightAssumption, [Next]_vars,
         SessionStep \/ (\E i \in Copy : Reconcile(i)) \/ UNCHANGED vars
  PROVE  CustodyInv'
  <1>1. UNCHANGED <<at, order, ledger, orphans, interrupted, passVars, pastVars>>
    BY DEF SessionStep, NewSession, SessionDies, SelfEnd, Answer, FinishTurn, Reconcile, fileVars, vars,
           sessionVars
  <1>2. ASSUME NEW i \in Copy, Completed(i) PROVE Completed(i)'
    <2>1. CASE UNCHANGED native
      BY <1>2, <2>1 DEF Completed
    <2>2. ASSUME NEW j \in Copy, Answer(j) \/ FinishTurn(j) PROVE Completed(i)'
      <3>1. i # j
        BY <1>2, <2>2 DEF Answer, FinishTurn, Completed
      <3>2. \E n : native' = [native EXCEPT ![j] = n]
        BY <2>2 DEF Answer, FinishTurn
      <3>3. native'[i] = native[i]
        BY <3>1, <3>2 DEF CustodyInv, HoldInv, OnceInv, Shaped
      <3> QED BY <1>2, <3>3 DEF Completed
    <2> QED BY <2>1, <2>2 DEF SessionStep, NewSession, SessionDies, SelfEnd, Reconcile, vars, sessionVars
  <1> QED BY <1>1, <1>2, QuietCustody

(* What a dying daemon had in its hands is lost, and is said to be. *)
LEMMA CrashCustody == ASSUME CustodyInv, InflightAssumption, [Next]_vars, Crash PROVE CustodyInv'
  <1>1. /\ step' = [q \in Pass |-> "idle"] /\ base' = [q \in Pass |-> {}] /\ hand' = [q \in Pass |-> {}]
        /\ UNCHANGED <<at, order, native, ledger, orphans, interrupted, told, closed>>
        /\ lost' = lost \cup InHands
    BY DEF Crash, sessionVars, fileVars, InHands
  <1>2. InHands' = {}
    BY <1>1 DEF InHands
  <1>3. Placed' \subseteq Placed /\ Placed \cup lost \subseteq Placed' \cup lost'
    BY <1>1, <1>2 DEF Placed
  <1>4. HoldInv'
    BY HoldNext DEF CustodyInv
  <1>5. PlacedReceived' /\ HandsEmpty' /\ SweepsAlone' /\ AgainLeft' /\ OrderTyped'
    BY <1>1, <1>3 DEF CustodyInv, PlacedReceived, HandsEmpty, SweepsAlone, AgainLeft, OrderTyped, Received
  <1>6. OnePlace'
    BY <1>1, <1>2 DEF CustodyInv, OnePlace
  <1>7. Accounted'
    BY <1>1, <1>3, AccountedKept DEF RecordStays, Received, Completed
  <1> QED BY <1>4, <1>5, <1>6, <1>7 DEF CustodyInv

LEMMA CustodyNext == ASSUME CustodyInv, InflightAssumption, [Next]_vars PROVE CustodyInv'
  <1>1. ASSUME NEW p \in Pass, PassStep(p) PROVE CustodyInv'
    <2>1. CASE Redeliver(p)
      <3>1. PICK i \in hand[p] : /\ ReturnUnknown(i) \/ SendAgain(i) \/ TellUndelivered(i)
                                 /\ hand' = [hand EXCEPT ![p] = @ \ {i}]
        BY <2>1 DEF Redeliver
      <3> QED BY <2>1, <3>1, GiveUpCustody, AgainCustody
    <2> QED BY <1>1, <2>1, FlushCustody, SweepCustody, AppendCustody, TakeCustody, NotifyCustody DEF PassStep
  <1> QED BY <1>1, SessionCustody, ArriveCustody, CrashCustody DEF Next

LEMMA CustodySafe == ASSUME CustodyInv PROVE Accounted
  BY DEF CustodyInv

(* Types of what the custody argument leaves open: the numbers of sessions within *)
(* their bound, what became of each copy, and what is remembered.              *)
Fates == {"none", "swallowed", "queued", "answered", "finished", "unrecorded"}
Verdicts == {"none", "pending"} \cup Final

SessionsTyped ==
  sessions \in 0 .. MaxSession /\ selfEnded \in 0 .. MaxSession /\ cur \in [Pass -> 0 .. MaxSession]
FatesTyped == native \in [Copy -> Fates] /\ acc \in [Copy -> Verdicts]
PastTyped ==
  /\ told \subseteq Copy /\ closed \subseteq Copy /\ lost \subseteq Copy
  /\ busy \in Pass \cup {Free} /\ crashes \in 0 .. MaxCrash

InflightTypes == SessionsTyped /\ FatesTyped /\ PastTyped

LEMMA InflightIsTyped == ASSUME InflightAssumption, CustodyInv, InflightTypes PROVE TypeOK
  <1>1. /\ token \in Nat /\ at \in [Copy -> Nat] /\ order \in [Copy -> Nat]
        /\ token <= sessions /\ \A i \in Copy : at[i] <= sessions
        /\ ledger \subseteq Copy /\ orphans \subseteq Copy /\ interrupted \subseteq Copy
        /\ step \in [Pass -> {"idle", "flush", "sweep", "append", "take", "notify", "redeliver"}]
        /\ base \in [Pass -> SUBSET Copy] /\ hand \in [Pass -> SUBSET Copy]
        /\ held \subseteq Notices /\ seen \in [Pass -> SUBSET Notices]
        /\ todo \in [Pass -> SUBSET Notices] /\ kept \in [Pass -> SUBSET Notices]
    BY DEF CustodyInv, HoldInv, OnceInv, Shaped, Numbered, FlushKeeps, OrderTyped
  <1>2. token \in 0 .. MaxSession /\ \A i \in Copy : at[i] \in 0 .. MaxSession
    BY <1>1 DEF InflightTypes, SessionsTyped, InflightAssumption
  <1>3. at \in [Copy -> 0 .. MaxSession]
    BY <1>1, <1>2
  <1> QED BY <1>1, <1>2, <1>3
          DEF TypeOK, InflightTypes, SessionsTyped, FatesTyped, PastTyped, Fates, Verdicts

LEMMA InflightTypeInit == ASSUME InflightAssumption, Init PROVE InflightTypes
  <1>1. 0 \in 0 .. MaxSession /\ 0 \in 0 .. MaxCrash
    BY DEF InflightAssumption
  <1>2. SessionsTyped
    BY <1>1 DEF Init, SessionsTyped
  <1>3. FatesTyped
    BY DEF Init, FatesTyped, Fates, Verdicts
  <1>4. PastTyped
    BY <1>1 DEF Init, PastTyped
  <1> QED BY <1>2, <1>3, <1>4 DEF InflightTypes

(* A session gets the next number while there is one; the marker and a pass copy *)
(* the number of the live session.                                            *)
LEMMA NumbersMove ==
  ASSUME [Next]_vars
  PROVE  /\ \/ sessions' = sessions
            \/ sessions < MaxSession /\ sessions' = sessions + 1
            \/ MaxSession > 0 /\ sessions' = 1
         /\ selfEnded' \in {selfEnded, token, 0}
         /\ \/ cur' = cur
            \/ \E p \in Pass : cur' = [cur EXCEPT ![p] = token]
            \/ cur' = [p \in Pass |-> 0]
         /\ (crashes' = crashes) \/ (crashes < MaxCrash /\ crashes' = crashes + 1)
         /\ busy' \in Pass \cup {busy, Free}
  <1> DEFINE Effect ==
        /\ \/ sessions' = sessions
           \/ sessions < MaxSession /\ sessions' = sessions + 1
           \/ MaxSession > 0 /\ sessions' = 1
        /\ selfEnded' \in {selfEnded, token, 0}
        /\ \/ cur' = cur
           \/ \E p \in Pass : cur' = [cur EXCEPT ![p] = token]
           \/ cur' = [p \in Pass |-> 0]
        /\ (crashes' = crashes) \/ (crashes < MaxCrash /\ crashes' = crashes + 1)
        /\ busy' \in Pass \cup {busy, Free}
  <1>1. CASE SessionStep \/ UNCHANGED vars
    BY <1>1 DEF SessionStep, NewSession, SessionDies, SelfEnd, Answer, FinishTurn, vars, sessionVars,
                fileVars, passVars, pastVars
  <1>2. ASSUME NEW m \in Msg, InheritOrphan(m) \/ SendFirst(m) PROVE Effect
    BY <1>2 DEF InheritOrphan, SendFirst, fileVars, passVars, pastVars
  <1>3. ASSUME NEW i \in Copy, Reconcile(i) PROVE Effect
    BY <1>3 DEF Reconcile, fileVars, passVars, pastVars
  <1>4. ASSUME NEW p \in Pass, PassStep(p) PROVE Effect
    <2>1. CASE FlushRead(p) \/ FlushSend(p) \/ FlushWrite(p)
      BY <2>1 DEF FlushRead, FlushSend, FlushWrite, sessionVars, fileVars, pastVars
    <2>2. CASE SweepWrite(p) \/ SweepAppend(p) \/ TakeInterrupted(p)
      BY <2>2 DEF SweepWrite, SweepAppend, TakeInterrupted, sessionVars, pastVars
    <2>3. CASE Notify(p) \/ TakeOrphans(p) \/ EndPass(p)
      BY <2>3 DEF Notify, TakeOrphans, EndPass, sessionVars, fileVars, pastVars
    <2>4. CASE Redeliver(p)
      <3>1. UNCHANGED <<selfEnded, cur, crashes, busy>>
        BY <2>4 DEF Redeliver
      <3>2. (sessions' = sessions) \/ (sessions < MaxSession /\ sessions' = sessions + 1)
        BY <2>4 DEF Redeliver, ReturnUnknown, SendAgain, TellUndelivered, sessionVars
      <3> QED BY <3>1, <3>2
    <2> QED BY <1>4, <2>1, <2>2, <2>3, <2>4 DEF PassStep
  <1>5. CASE Crash
    BY <1>5 DEF Crash, sessionVars, fileVars
  <1> QED BY <1>1, <1>2, <1>3, <1>4, <1>5 DEF Next

LEMMA NumbersBounded ==
  ASSUME InflightAssumption, CustodyInv, SessionsTyped, [Next]_vars PROVE SessionsTyped'
  <1>1. 0 \in 0 .. MaxSession /\ token \in 0 .. MaxSession
    BY DEF InflightAssumption, CustodyInv, HoldInv, OnceInv, Shaped, Numbered, SessionsTyped
  <1>2. sessions' \in 0 .. MaxSession
    BY NumbersMove DEF InflightAssumption, SessionsTyped
  <1>3. selfEnded' \in 0 .. MaxSession
    BY NumbersMove, <1>1 DEF SessionsTyped
  <1>4. cur' \in [Pass -> 0 .. MaxSession]
    BY NumbersMove, <1>1 DEF SessionsTyped
  <1> QED BY <1>2, <1>3, <1>4 DEF SessionsTyped

(* What becomes of a copy, and of its acceptance record. *)
LEMMA FatesMove ==
  ASSUME CustodyInv, [Next]_vars
  PROVE  /\ \/ native' = native
            \/ \E i \in Copy : \E n \in Fates : native' = [native EXCEPT ![i] = n]
         /\ \/ acc' = acc
            \/ \E i \in Copy : \E s \in Verdicts : acc' = [acc EXCEPT ![i] = s]
            \/ \E E : EnsureCustody(E)
  <1> DEFINE Effect ==
         /\ \/ native' = native
            \/ \E i \in Copy : \E n \in Fates : native' = [native EXCEPT ![i] = n]
         /\ \/ acc' = acc
            \/ \E i \in Copy : \E s \in Verdicts : acc' = [acc EXCEPT ![i] = s]
            \/ \E E : EnsureCustody(E)
  <1>0. \A p \in Pass : \A i \in hand[p] : <<i[1], 2>> \in Copy
    <2>1. \A p \in Pass : hand[p] \subseteq Copy
      BY DEF CustodyInv, HoldInv, OnceInv, Shaped
    <2> QED BY <2>1 DEF Copy
  <1>1. CASE SessionStep
    <2>1. CASE NewSession \/ SessionDies \/ SelfEnd
      BY <2>1 DEF NewSession, SessionDies, SelfEnd
    <2>2. ASSUME NEW i \in Copy, Answer(i) \/ FinishTurn(i) PROVE Effect
      BY <2>2 DEF Answer, FinishTurn, Fates
    <2> QED BY <1>1, <2>1, <2>2 DEF SessionStep
  <1>2. ASSUME NEW i \in Copy, NEW s, Receive(i, s) PROVE Effect
    <2>1. FirstStatus(i) \in Verdicts
      BY DEF FirstStatus, Verdicts
    <2>2. \E n \in Fates : native' = [native EXCEPT ![i] = n]
      <3>1. {"queued"} \cup (IF i \in Uncertain THEN {"swallowed"} ELSE {}) \subseteq Fates
        BY DEF Fates
      <3> QED BY <1>2, <3>1 DEF Receive
    <2> QED BY <1>2, <2>1, <2>2 DEF Receive
  <1>3. ASSUME NEW m \in Msg, InheritOrphan(m) \/ SendFirst(m) PROVE Effect
    <2>1. <<m, 1>> \in Copy
      BY CopiesAreReceived
    <2>2. CASE SendFirst(m)
      BY <1>2, <2>1, <2>2 DEF SendFirst
    <2>3. CASE InheritOrphan(m)
      BY <2>1, <2>3 DEF InheritOrphan, FirstStatus, Fates, Verdicts
    <2> QED BY <1>3, <2>2, <2>3
  <1>4. ASSUME NEW i \in Copy, Reconcile(i) PROVE Effect
    BY <1>4 DEF Reconcile, Verdicts
  <1>5. ASSUME NEW p \in Pass, PassStep(p) PROVE Effect
    <2>1. CASE FlushWrite(p)
      BY <2>1 DEF FlushWrite
    <2>2. CASE Redeliver(p)
      <3>1. PICK i \in hand[p] : ReturnUnknown(i) \/ SendAgain(i) \/ TellUndelivered(i)
        BY <2>2 DEF Redeliver
      <3>2. CASE ReturnUnknown(i)
        BY <3>2 DEF ReturnUnknown
      <3>3. CASE SendAgain(i)
        <4>1. i[2] = 1 /\ Receive(<<i[1], 2>>, token')
          BY <3>3 DEF SendAgain
        <4>2. <<i[1], 2>> \in Copy
          BY <1>0, <2>2, <3>1
        <4> QED BY <1>2, <4>1, <4>2
      <3>4. CASE TellUndelivered(i)
        BY <3>4 DEF TellUndelivered, sessionVars
      <3> QED BY <3>1, <3>2, <3>3, <3>4
    <2>3. CASE ~FlushWrite(p) /\ ~Redeliver(p)
      BY <1>5, <2>3 DEF PassStep, FlushRead, FlushSend, SweepWrite, SweepAppend, TakeInterrupted, Notify,
                        TakeOrphans, EndPass, sessionVars
    <2> QED BY <2>1, <2>2, <2>3
  <1>6. CASE Crash \/ UNCHANGED vars
    BY <1>6 DEF Crash, vars, sessionVars
  <1> QED BY <1>1, <1>3, <1>4, <1>5, <1>6 DEF Next

LEMMA FatesStay == ASSUME CustodyInv, FatesTyped, [Next]_vars PROVE FatesTyped'
  <1>1. native' \in [Copy -> Fates]
    BY FatesMove DEF FatesTyped
  <1>2. acc' \in [Copy -> Verdicts]
    <2>1. ASSUME NEW E, EnsureCustody(E) PROVE acc' \in [Copy -> Verdicts]
      <3>1. "pending" \in Verdicts /\ \A i \in Copy : acc[i] \in Verdicts
        BY DEF FatesTyped, Verdicts
      <3> QED BY <2>1, <3>1 DEF EnsureCustody
    <2> QED BY FatesMove, <2>1 DEF FatesTyped
  <1> QED BY <1>1, <1>2 DEF FatesTyped

(* What senders were told of, what was closed and what was lost are copies. *)
LEMMA PastStays ==
  ASSUME InflightAssumption, CustodyInv, PastTyped, [Next]_vars PROVE PastTyped'
  <1>1. /\ ledger \subseteq Copy /\ \A p \in Pass : hand[p] \subseteq Copy /\ base[p] \subseteq Copy
        /\ \A p \in Pass : todo[p] \subseteq Notices
    BY DEF CustodyInv, HoldInv, OnceInv, Shaped, FlushKeeps
  <1>2. /\ told' \ told \subseteq Copy /\ closed' \ closed \subseteq Copy /\ lost' \ lost \subseteq Copy
    <2> DEFINE Effect == told' \ told \subseteq Copy /\ closed' \ closed \subseteq Copy /\ lost' \ lost \subseteq Copy
    <2>1. CASE SessionStep \/ UNCHANGED vars
      BY <2>1 DEF SessionStep, NewSession, SessionDies, SelfEnd, Answer, FinishTurn, vars, pastVars
    <2>2. ASSUME NEW m \in Msg, InheritOrphan(m) \/ SendFirst(m) PROVE Effect
      BY <2>2 DEF InheritOrphan, SendFirst, pastVars
    <2>3. ASSUME NEW i \in Copy, Reconcile(i) PROVE Effect
      BY <2>3 DEF Reconcile, pastVars
    <2>4. ASSUME NEW p \in Pass, PassStep(p) PROVE Effect
      <3>1. CASE FlushSend(p)
        <4>1. PICK n \in todo[p] : /\ told' = told \/ told' = told \cup n
                                   /\ closed' = closed \/ closed' = closed \cup n
          BY <3>1 DEF FlushSend
        <4>2. n \subseteq Copy
          BY <1>1 DEF Notices
        <4>3. lost' = lost
          BY <3>1 DEF FlushSend
        <4> QED BY <4>1, <4>2, <4>3
      <3>2. CASE SweepWrite(p)
        BY <1>1, <3>2 DEF SweepWrite
      <3>3. CASE Notify(p)
        BY <1>1, <3>3 DEF Notify, NotifySender
      <3>4. CASE Redeliver(p)
        BY <1>1, <3>4 DEF Redeliver, ReturnUnknown, SendAgain, TellUndelivered, NotifySender
      <3>5. CASE ~FlushSend(p) /\ ~SweepWrite(p) /\ ~Notify(p) /\ ~Redeliver(p)
        BY <2>4, <3>5 DEF PassStep, FlushRead, FlushWrite, SweepAppend, TakeInterrupted, TakeOrphans,
                          EndPass, pastVars
      <3> QED BY <3>1, <3>2, <3>3, <3>4, <3>5
    <2>5. CASE Crash
      <3>1. UNION {hand[p] : p \in Pass} \subseteq Copy
        BY <1>1
      <3> QED BY <2>5, <3>1 DEF Crash
    <2> QED BY <2>1, <2>2, <2>3, <2>4, <2>5 DEF Next
  <1>3. busy' \in Pass \cup {Free}
    BY NumbersMove DEF PastTyped
  <1>4. crashes' \in 0 .. MaxCrash
    BY NumbersMove DEF PastTyped, InflightAssumption
  <1> QED BY <1>2, <1>3, <1>4 DEF PastTyped

LEMMA InflightTypeNext ==
  ASSUME InflightAssumption, CustodyInv, InflightTypes, [Next]_vars PROVE InflightTypes'
  BY NumbersBounded, FatesStay, PastStays DEF InflightTypes

(* An acknowledged delivery is in a file, in the hand of a pass, covered by a  *)
(* finished turn, sent again, or its sender knows; only a death of the daemon  *)
(* with the entry in hand and a CLI append that a sweep overwrites lose one.   *)
THEOREM NoDeliveryForgotten ==
  ASSUME InflightAssumption PROVE Spec => []Accounted
  <1>1. Init => CustodyInv
    BY CustodyInit
  <1>2. CustodyInv /\ [Next]_vars => CustodyInv'
    BY CustodyNext
  <1>3. CustodyInv => Accounted
    BY CustodySafe
  <1> QED BY <1>1, <1>2, <1>3, PTL DEF Spec
=============================================================================
