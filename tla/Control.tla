-------------------------------- MODULE Control --------------------------------
(***************************************************************************)
(* The operator's verbs on a running dialogue (transport/index.ts: the     *)
(* control channel and the wait for a compaction; cli/index.ts:            *)
(* compactPeer, goalPeer): stop every running turn of a peer, compact a    *)
(* dialogue, move a codex goal.  Keys are only typed; what they did is     *)
(* read back from the runtime's transcript or goal store.                  *)
(*                                                                         *)
(* One peer.  A compaction leaves a mark in the transcripts of its folder; *)
(* the markers that decide a wake other than .idle-reaped are Lifecycle's. *)
(***************************************************************************)
EXTENDS Naturals, Sequences, FiniteSets, SequencesExt

CONSTANTS Rt, Default,   \* the declared runtimes, and the default one
          Stopper, Compacter, Goaler,   \* the processes that run a verb
          None, MaxTurn, MaxAuto, MaxFault

ControlAssumption == /\ IsFiniteSet(Rt) /\ Default \in Rt
                     /\ {MaxTurn, MaxAuto, MaxFault} \subseteq Nat
                     /\ None \notin Rt \cup Compacter

Verb == Stopper \cup Compacter \cup Goaler

VARIABLES up,        \* the runtimes with a session
          idle,      \* the runtimes whose dialogue was parked clean
          turn,      \* the number of the turn a session is in, 0 for none
          turns,     \* turns begun so far
          asked,     \* /compact in a session's composer or running, by whom
          marks,     \* the compactions in the runtime's transcripts, by whom
          goal,      \* the goal of the current thread: none, active, blocked
          autos, faults,
          pc, ans,   \* each verb
          tgt,       \* the runtime it acts on
          base,      \* its baseline: how many marks there were
          todo,      \* the runtimes it has still to interrupt
          begun,     \* the turns there were when it looked
          was        \* the goal it read

world == <<up, idle, turn, turns, asked, marks, goal, autos, faults>>
vars == <<world, pc, ans, tgt, base, todo, begun, was>>

Goal == {"none", "active", "blocked"}
TypeOK == /\ up \subseteq Rt /\ idle \subseteq Rt /\ turn \in [Rt -> 0 .. MaxTurn] /\ turns \in 0 .. MaxTurn
          /\ marks \in [Rt -> Seq(Compacter \cup {None})] /\ asked \in [Rt -> SUBSET (Compacter \cup {None})]
          /\ goal \in Goal /\ was \in [Verb -> Goal]
          /\ pc \in [Verb -> {"new", "wake", "base", "type", "wait", "act", "done"}]
          /\ tgt \in [Verb -> Rt \cup {None}] /\ base \in [Verb -> Nat]
          /\ todo \in [Verb -> SUBSET Rt] /\ begun \in [Verb -> [Rt -> 0 .. MaxTurn]]

Init == /\ up \in SUBSET Rt /\ idle = Rt \ up /\ turn = [r \in Rt |-> 0] /\ turns = 0
        /\ asked = [r \in Rt |-> {}] /\ marks = [r \in Rt |-> <<>>] /\ goal \in Goal
        /\ autos = 0 /\ faults = 0
        /\ pc = [v \in Verb |-> "new"] /\ ans = [v \in Verb |-> "none"] /\ tgt = [v \in Verb |-> None]
        /\ base = [v \in Verb |-> 0] /\ todo = [v \in Verb |-> {}]
        /\ begun = [v \in Verb |-> [r \in Rt |-> 0]] /\ was = [v \in Verb |-> "none"]

Goto(v, p) == pc' = [pc EXCEPT ![v] = p]
Answer(v, a) == Goto(v, "done") /\ ans' = [ans EXCEPT ![v] = a]
Fault == faults < MaxFault /\ faults' = faults + 1

-----------------------------------------------------------------------------
(***************************************************************************)
(* The sessions (external): turns, compactions, ends                       *)
(***************************************************************************)
World == UNCHANGED <<pc, ans, tgt, base, todo, begun, was>>

TurnBegins(r) == /\ r \in up /\ turn[r] = 0 /\ asked[r] = {} /\ turns < MaxTurn /\ turns' = turns + 1
                 /\ turn' = [turn EXCEPT ![r] = turns']
                 /\ UNCHANGED <<up, idle, asked, marks, goal, autos, faults>> /\ World

TurnEnds(r) == /\ turn[r] # 0 /\ turn' = [turn EXCEPT ![r] = 0] /\ goal' \in {goal, "active", "blocked"}
               /\ UNCHANGED <<up, idle, turns, asked, marks, autos, faults>> /\ World

\* A session compacts by itself too.
AutoCompacts(r) == /\ r \in up /\ None \notin asked[r] /\ autos < MaxAuto /\ autos' = autos + 1
                   /\ asked' = [asked EXCEPT ![r] = @ \cup {None}]
                   /\ UNCHANGED <<up, idle, turn, turns, marks, goal, faults>> /\ World

\* A compaction ends, and leaves its mark.
Compacts(r) == /\ turn[r] = 0
               /\ \E v \in asked[r] : /\ asked' = [asked EXCEPT ![r] = @ \ {v}]
                                      /\ marks' = [marks EXCEPT ![r] = Append(@, v)]
               /\ UNCHANGED <<up, idle, turn, turns, goal, autos, faults>> /\ World

Ends(r) == up' = up \ {r} /\ turn' = [turn EXCEPT ![r] = 0] /\ asked' = [asked EXCEPT ![r] = {}]

Dies(r) == /\ r \in up /\ Fault /\ Ends(r) /\ idle' = idle \ {r}
           /\ UNCHANGED <<turns, marks, goal, autos>> /\ World

\* The daemon parks it; idle for long, so not between two steps of a verb.
Reaped(r) == /\ r \in up /\ turn[r] = 0 /\ asked[r] = {} /\ \A v \in Verb : tgt[v] = r => pc[v] \in {"new", "done"}
             /\ Fault /\ Ends(r) /\ idle' = idle \cup {r}
             /\ UNCHANGED <<turns, marks, goal, autos>> /\ World

-----------------------------------------------------------------------------
(***************************************************************************)
(* Stop                                                                    *)
(***************************************************************************)
\* Mutant of Targets: one session stands for the peer.
TargetsDefault == IF Default \in up THEN {Default} ELSE up

\* interruptAllLive: every endpoint that is live, booting ones included.
Targets == up

StopLook(v) == /\ pc[v] = "new"
               /\ IF Targets = {} THEN Answer(v, "offline") /\ UNCHANGED <<todo, begun>>
                  ELSE /\ todo' = [todo EXCEPT ![v] = Targets] /\ begun' = [begun EXCEPT ![v] = turn]
                       /\ Goto(v, "act") /\ UNCHANGED ans
               /\ UNCHANGED <<world, tgt, base, was>>

\* The keys reach the session, or do not: that runtime is listed as failed.
Interrupt(v, r) == /\ pc[v] = "act" /\ r \in todo[v] /\ todo' = [todo EXCEPT ![v] = @ \ {r}]
                   /\ \/ /\ r \in up /\ turn' = [turn EXCEPT ![r] = 0] /\ UNCHANGED <<ans, faults>>
                      \/ /\ r \notin up /\ ans' = [ans EXCEPT ![v] = "partial"] /\ UNCHANGED <<turn, faults>>
                      \/ /\ r \in up /\ Fault /\ ans' = [ans EXCEPT ![v] = "partial"] /\ UNCHANGED turn
                   /\ UNCHANGED <<up, idle, turns, asked, marks, goal, autos, pc, tgt, base, begun, was>>

StopAnswers(v) == /\ pc[v] = "act" /\ todo[v] = {}
                  /\ Answer(v, IF ans[v] = "none" THEN "stopped" ELSE "partial")
                  /\ UNCHANGED <<world, tgt, base, todo, begun, was>>

-----------------------------------------------------------------------------
(***************************************************************************)
(* Compact                                                                 *)
(***************************************************************************)
\* resolvePeerRuntime: the default when live, else the only live one, else the default.
Resolved == IF Default \notin up /\ Cardinality(up) = 1 THEN CHOOSE r \in up : TRUE ELSE Default

CompactLook(v) == /\ pc[v] = "new"
                  /\ \/ /\ up # {} /\ (Default \in up \/ Cardinality(up) = 1)
                        /\ tgt' = [tgt EXCEPT ![v] = Resolved] /\ Goto(v, "base") /\ UNCHANGED ans
                     \/ up # {} /\ Default \notin up /\ Cardinality(up) > 1 /\ Answer(v, "ambiguous") /\ UNCHANGED tgt
                     \/ up = {} /\ Default \notin idle /\ Answer(v, "nothing") /\ UNCHANGED tgt
                     \/ /\ up = {} /\ Default \in idle /\ tgt' = [tgt EXCEPT ![v] = Default]
                        /\ Goto(v, "wake") /\ UNCHANGED ans
                  /\ UNCHANGED <<world, base, todo, begun, was>>

\* wakeOrSpawn with resume: the same dialogue, or nothing at all; .idle-reaped
\* goes once the session is ready.
CompactWake(v) == LET r == tgt[v] IN
  /\ pc[v] = "wake"
  /\ \/ /\ up' = up \cup {r} /\ idle' = idle \ {r} /\ Goto(v, "base") /\ UNCHANGED <<ans, faults>>
     \/ Fault /\ Answer(v, "failed") /\ UNCHANGED <<up, idle>>
  /\ UNCHANGED <<turn, turns, asked, marks, goal, autos, tgt, base, todo, begun, was>>

\* compactDoneBaseline: the sizes of the folder's transcripts.
Baseline(v) == base' = [base EXCEPT ![v] = Len(marks[tgt[v]])]

CompactBase(v) == /\ pc[v] = "base" /\ Baseline(v) /\ Goto(v, "type")
                  /\ UNCHANGED <<world, ans, tgt, todo, begun, was>>

\* The control keys: /compact waits in the composer of a session in a turn.
CompactType(v) == LET r == tgt[v] IN
  /\ pc[v] = "type"
  /\ \/ r \in up /\ asked' = [asked EXCEPT ![r] = @ \cup {v}] /\ Goto(v, "wait") /\ UNCHANGED <<ans, faults>>
     \/ r \notin up /\ Answer(v, "failed") /\ UNCHANGED <<asked, faults>>
     \/ Fault /\ Answer(v, "failed") /\ UNCHANGED asked
  /\ UNCHANGED <<up, idle, turn, turns, marks, goal, autos, tgt, base, todo, begun, was>>

\* Mutant of DoneIn: one mark is waited for, and no more.
DoneInLast(v) == Len(marks[tgt[v]]) = base[v] + 1

\* compactTranscriptHasDone: a mark past the baseline.
DoneIn(v) == Len(marks[tgt[v]]) > base[v]

\* waitForCompactDone: a session that is gone is a failure, looked at first.
CompactDone(v) == /\ pc[v] = "wait" /\ tgt[v] \in up /\ DoneIn(v) /\ Answer(v, "compacted")
                  /\ UNCHANGED <<world, tgt, base, todo, begun, was>>
CompactVanished(v) == /\ pc[v] = "wait" /\ tgt[v] \notin up /\ Answer(v, "vanished")
                      /\ UNCHANGED <<world, tgt, base, todo, begun, was>>
CompactTimesOut(v) == /\ pc[v] = "wait" /\ tgt[v] \in up /\ ~DoneIn(v) /\ Answer(v, "timeout")
                      /\ UNCHANGED <<world, tgt, base, todo, begun, was>>

-----------------------------------------------------------------------------
(***************************************************************************)
(* Goal                                                                    *)
(***************************************************************************)
\* What a read of the goal store gives: one that fails finds no goal.
Read == {[got |-> goal, flt |-> faults]} \cup
        (IF faults < MaxFault THEN {[got |-> "none", flt |-> faults + 1]} ELSE {})

GoalLook(v) == /\ pc[v] = "new"
               /\ \E x \in Read : /\ was' = [was EXCEPT ![v] = x.got] /\ faults' = x.flt
                                  /\ IF x.got = "none" THEN Answer(v, "no-goal") ELSE Goto(v, "type") /\ UNCHANGED ans
               /\ UNCHANGED <<up, idle, turn, turns, asked, marks, goal, autos, tgt, base, todo, begun>>

\* /goal resume or clear: nothing happens in a session that is in a turn.
GoalType(v) == /\ pc[v] = "type"
               /\ \/ Default \notin up /\ Answer(v, "offline") /\ UNCHANGED goal
                  \/ /\ Default \in up /\ Goto(v, "wait") /\ UNCHANGED ans
                     /\ goal' \in IF turn[Default] = 0 THEN {"active", "none"} ELSE {goal}
               /\ UNCHANGED <<up, idle, turn, turns, asked, marks, autos, faults, tgt, base, todo, begun, was>>

GoalPoll(v) == /\ pc[v] = "wait"
               /\ \E x \in Read : /\ x.got # was[v] /\ faults' = x.flt
                                  /\ Answer(v, IF x.got = "none" THEN "cleared" ELSE "changed")
               /\ UNCHANGED <<up, idle, turn, turns, asked, marks, goal, autos, tgt, base, todo, begun, was>>

GoalTimesOut(v) == /\ pc[v] = "wait" /\ goal = was[v] /\ Answer(v, "unchanged")
                   /\ UNCHANGED <<world, tgt, base, todo, begun, was>>

-----------------------------------------------------------------------------
Session(r) == TurnBegins(r) \/ TurnEnds(r) \/ AutoCompacts(r) \/ Compacts(r) \/ Dies(r) \/ Reaped(r)
Stop(v) == StopLook(v) \/ StopAnswers(v) \/ \E r \in Rt : Interrupt(v, r)
CompactVerb(v) == \/ CompactLook(v) \/ CompactWake(v) \/ CompactBase(v) \/ CompactType(v)
                  \/ CompactDone(v) \/ CompactVanished(v) \/ CompactTimesOut(v)
GoalVerb(v) == GoalLook(v) \/ GoalType(v) \/ GoalPoll(v) \/ GoalTimesOut(v)

Next == \/ \E r \in Rt : Session(r)
        \/ \E v \in Stopper : Stop(v)
        \/ \E v \in Compacter : CompactVerb(v)
        \/ \E v \in Goaler : GoalVerb(v)

Spec == Init /\ [][Next]_vars

-----------------------------------------------------------------------------
(***************************************************************************)
(* Properties                                                              *)
(***************************************************************************)
\* A stop that names no runtime and reports no failure has ended every turn that
\* the peer was in when it was given.
StopStops == \A v \in Stopper : ans[v] = "stopped"
             => \A r \in Rt : begun[v][r] # 0 => turn[r] # begun[v][r]

\* A compaction that its verb brought about is never reported as one that did
\* not come while the session lives.
DoneIsSeen == [][\A v \in Compacter : ans[v] # "timeout" /\ ans'[v] = "timeout"
                                      => \A i \in 1 .. Len(marks[tgt[v]]) : marks[tgt[v]][i] # v]_vars

\* A goal is reported cleared only when there is none.  The code does not keep
\* it: a goal store that cannot be read is taken for one without a goal.
ClearedIsGone == [][\A v \in Goaler : ans[v] # "cleared" /\ ans'[v] = "cleared" => goal = "none"]_vars
===============================================================================
