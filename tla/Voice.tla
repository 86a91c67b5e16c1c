-------------------------------- MODULE Voice --------------------------------
(***************************************************************************)
(* Codex voice (src/voice/, voicePeer in cli/index.ts): a verb or the      *)
(* daemon's sweep types "/voice" into the peer's session and watches what  *)
(* comes of it: the helper process that owns the microphone, and the       *)
(* started and closed lines of the thread's rollout.                       *)
(*                                                                         *)
(* "/voice" is a toggle: on an open conversation it closes it.  The verbs  *)
(* type it under a lock, and only when they see no conversation.  What     *)
(* they asked for is kept in an intent file, which the sweep reads.        *)
(*                                                                         *)
(* Times are ranks of the events they stamp.  An intent is young for its   *)
(* grace, which ends before the verb that wrote it gives up.               *)
(***************************************************************************)
EXTENDS Naturals, Sequences, FiniteSets

CONSTANTS Verb,       \* processes of the operator; the sweep is one more
          Late,       \* the session may act on a key after the verb gave up
          MaxVerb, MaxHand, MaxFault

Sweep == "sweep"
Free == "free"   \* nobody's
Proc == Verb \cup {Sweep}
VoiceAssumption == /\ Sweep \notin Verb /\ Free \notin Verb /\ Late \in BOOLEAN
                   /\ MaxVerb \in Nat /\ MaxHand \in Nat /\ MaxFault \in Nat

VARIABLES live,      \* the codex session
          keys,      \* keys typed and not acted on: toggle or stop, and by whom
          helper,    \* who owns the microphone: "none", "ours", "hand"
          started, closed,   \* ranks of the rollout's last such lines
          idle,      \* the conversation has been silent for long
          intent,    \* op, rank, session known, still in its grace
          lock,      \* holder
          pc, asked, \* each process: its step, its verb's kind
          receipt,   \* the last answer of each process
          rank, verbs, hands, faults

tui == <<live, keys, helper, started, closed, idle>>
count == <<rank, verbs, hands, faults>>
vars == <<live, keys, helper, started, closed, idle, intent, lock, pc, asked, receipt, rank, verbs, hands, faults>>

NoIntent == [op |-> "none", at |-> 0, session |-> 0, young |-> FALSE]

TypeOK == /\ live \in BOOLEAN /\ idle \in BOOLEAN
          /\ \A i \in DOMAIN keys : keys[i] \in {"toggle", "stop", "hand"}
          /\ helper \in {"none", "ours", "hand"}
          /\ started \in 0 .. rank /\ closed \in 0 .. rank
          /\ intent.op \in {"none", "open", "close"} /\ intent.at \in 0 .. rank
          /\ lock \in Proc \cup {Free}
          /\ pc \in [Proc -> {"idle", "take", "look", "type", "await", "close", "stop", "gone", "dead"}]
          /\ asked \in [Proc -> {"none", "open", "close", "idle"}]
          /\ receipt \in [Proc -> {"none", "open", "closed", "closing", "failed"}]
          /\ verbs \in 0 .. MaxVerb /\ hands \in 0 .. MaxHand /\ faults \in 0 .. MaxFault

Init == /\ live = TRUE /\ keys = <<>> /\ helper = "none" /\ started = 0 /\ closed = 0 /\ idle = FALSE
        /\ intent = NoIntent /\ lock = Free
        /\ pc = [p \in Proc |-> "idle"]
        /\ asked = [p \in Proc |-> "none"] /\ receipt = [p \in Proc |-> "none"]
        /\ rank = 0 /\ verbs = 0 /\ hands = 0 /\ faults = 0

-----------------------------------------------------------------------------
(***************************************************************************)
(* The codex session and the human at it (external)                        *)
(***************************************************************************)
EngineOnly == UNCHANGED <<intent, lock, pc, asked, receipt>>

\* The session takes its next key.  A toggle opens a conversation, or closes
\* the one there is; a stop closes it.  The helper goes before its line is written.
ActOnKey ==
  /\ live /\ keys # <<>> /\ keys' = Tail(keys)
  /\ helper' = IF helper # "none" \/ Head(keys) = "stop" THEN "none"
               ELSE IF Head(keys) = "hand" THEN "hand" ELSE "ours"
  /\ IF helper = "none" THEN UNCHANGED <<closed, rank>> ELSE rank' = rank + 1 /\ closed' = rank'
  /\ idle' = FALSE /\ UNCHANGED <<live, started, verbs, hands, faults>> /\ EngineOnly

\* The conversation comes up, and its line is written.
Connect == /\ helper # "none" /\ started <= closed
           /\ rank' = rank + 1 /\ started' = rank'
           /\ UNCHANGED <<live, keys, helper, closed, idle, verbs, hands, faults>> /\ EngineOnly

FallSilent == /\ helper # "none" /\ started > closed /\ ~idle /\ idle' = TRUE
              /\ UNCHANGED <<live, keys, helper, started, closed>> /\ UNCHANGED count /\ EngineOnly

HandToggle == /\ live /\ hands < MaxHand /\ hands' = hands + 1 /\ keys' = Append(keys, "hand")
              /\ UNCHANGED <<live, helper, started, closed, idle, rank, verbs, faults>> /\ EngineOnly

SessionDies == /\ live /\ faults < MaxFault /\ faults' = faults + 1
               /\ live' = FALSE /\ keys' = <<>> /\ helper' = "none" /\ idle' = FALSE
               /\ UNCHANGED <<started, closed, rank, verbs, hands>> /\ EngineOnly

-----------------------------------------------------------------------------
(***************************************************************************)
(* What the engine makes of it                                             *)
(***************************************************************************)
RolloutSessionOpen == started > closed

StartedForThis == RolloutSessionOpen /\ (intent.op = "open" => started >= intent.at)

\* deriveVoiceStatus
Status == IF helper # "none"
          THEN IF intent.op = "close" THEN "closing" ELSE IF StartedForThis THEN "open" ELSE "opening"
          ELSE IF /\ intent.op = "open" /\ intent.session = 0 /\ intent.young
                  /\ ~(RolloutSessionOpen /\ started >= intent.at)
               THEN "opening" ELSE "closed"

Intent(op, session) == /\ rank' = rank + 1
                       /\ intent' = [op |-> op, at |-> rank', session |-> session, young |-> op = "open"]

\* A session that is not late has acted on its keys by then.
GraceEnds == /\ intent.young /\ (Late \/ keys = <<>>) /\ intent' = [intent EXCEPT !.young = FALSE]
             /\ UNCHANGED <<lock, pc, asked, receipt>> /\ UNCHANGED tui /\ UNCHANGED count

Goto(p, s) == pc' = [pc EXCEPT ![p] = s]

\* The answer, and the lock let go of.
Answer(p, r) == /\ Goto(p, "idle") /\ receipt' = [receipt EXCEPT ![p] = r] /\ lock' = Free
                /\ asked' = [asked EXCEPT ![p] = "none"]

-----------------------------------------------------------------------------
(***************************************************************************)
(* The verbs                                                               *)
(***************************************************************************)
Ask(p, what) == /\ p \in Verb /\ pc[p] = "idle" /\ verbs < MaxVerb /\ verbs' = verbs + 1
                /\ asked' = [asked EXCEPT ![p] = what] /\ Goto(p, "take")
                /\ UNCHANGED <<intent, lock, receipt, rank, hands, faults>> /\ UNCHANGED tui

\* The lock file is not there, or its holder is dead.
Takeable == lock = Free \/ \E q \in Proc : lock = q /\ pc[q] = "dead"

\* withLock: a lock whose holder is dead is stolen; a verb gives up at its deadline.
TakeLock(p) == /\ pc[p] = "take"
               /\ Takeable
               /\ lock' = p /\ Goto(p, "look")
               /\ UNCHANGED <<intent, asked, receipt>> /\ UNCHANGED tui /\ UNCHANGED count

Busy(p) == /\ pc[p] = "take" /\ lock # Free
           /\ Goto(p, "idle") /\ receipt' = [receipt EXCEPT ![p] = "failed"]
           /\ asked' = [asked EXCEPT ![p] = "none"]
           /\ UNCHANGED <<intent, lock>> /\ UNCHANGED tui /\ UNCHANGED count

\* Mutant of MayToggle: typed without a look at what there is.
MayToggleBlind(s) == s \in {"closed", "open"}

\* "/voice" is typed only when no conversation is seen.
MayToggle(s) == s = "closed"

\* openVoice, first look: a dead session is refused, an open conversation is
\* the answer, a transition is waited out (no step until then) or given up.
OpenLook(p) ==
  /\ pc[p] = "look" /\ asked[p] = "open"
  /\ \/ ~live /\ Answer(p, "failed") /\ UNCHANGED <<intent, rank>>
     \/ live /\ Status = "open" /\ Answer(p, "open") /\ UNCHANGED <<intent, rank>>
     \/ live /\ Status \in {"opening", "closing"} /\ Answer(p, "failed") /\ UNCHANGED <<intent, rank>>
     \/ live /\ MayToggle(Status) /\ Intent("open", 0) /\ Goto(p, "type") /\ UNCHANGED <<lock, asked, receipt>>
  /\ UNCHANGED <<verbs, hands, faults>> /\ UNCHANGED tui

\* The key is typed; when it cannot be, the attempt is recorded as closed.
OpenType(p) ==
  /\ pc[p] = "type"
  /\ \/ live /\ keys' = Append(keys, "toggle") /\ Goto(p, "await")
        /\ UNCHANGED <<intent, rank, lock, asked, receipt, faults>>
     \/ /\ ~live \/ faults < MaxFault
        /\ faults' = IF live THEN faults + 1 ELSE faults
        /\ Intent("close", 0) /\ Answer(p, "failed") /\ UNCHANGED keys
  /\ UNCHANGED <<live, helper, started, closed, idle, verbs, hands>>

OpenDone(p) == /\ pc[p] = "await" /\ Status = "open"
               /\ intent' = [intent EXCEPT !.session = started, !.young = FALSE]
               /\ Answer(p, "open")
               /\ UNCHANGED tui /\ UNCHANGED count

\* The wait is over: the conversation is closed, under the same lock.
OpenTimesOut(p) == /\ pc[p] = "await" /\ Status # "open" /\ ~intent.young
                   /\ Late \/ (keys = <<>> /\ helper = "none")
                   /\ Goto(p, "close")
                   /\ UNCHANGED <<intent, lock, asked, receipt>> /\ UNCHANGED tui /\ UNCHANGED count

\* closeLocked, up to the typing: nothing to close is an answer; otherwise the
\* intent is written before the key.
CloseLook(p) ==
  /\ pc[p] = "close" \/ (pc[p] = "look" /\ asked[p] = "close")
  /\ IF Status = "closed"
     THEN /\ IF intent.op = "open" THEN Intent("close", 0) ELSE UNCHANGED <<intent, rank>>
          /\ Answer(p, "closed")
     ELSE /\ Intent("close", started) /\ Goto(p, "stop")
          /\ UNCHANGED <<lock, asked, receipt>>
  /\ UNCHANGED <<verbs, hands, faults>> /\ UNCHANGED tui

CloseType(p) ==
  /\ pc[p] = "stop"
  /\ \/ live /\ keys' = Append(keys, "stop") /\ Goto(p, "gone") /\ UNCHANGED <<lock, asked, receipt, faults>>
     \/ /\ ~live \/ faults < MaxFault
        /\ faults' = IF live THEN faults + 1 ELSE faults
        /\ Answer(p, "failed") /\ UNCHANGED keys
  /\ UNCHANGED <<live, helper, started, closed, idle, intent, rank, verbs, hands>>

\* Mutant of Released: the rollout's line is taken for the microphone's release.
ReleasedByLine == helper = "none" \/ ~RolloutSessionOpen

\* The microphone is free.
Released == helper = "none"

CloseDone(p) == /\ pc[p] = "gone" /\ Released
                /\ Intent("close", 0) /\ Answer(p, "closed")
                /\ UNCHANGED <<verbs, hands, faults>> /\ UNCHANGED tui

CloseTimesOut(p) == /\ pc[p] = "gone" /\ helper # "none" /\ Late
                    /\ Answer(p, "closing")
                    /\ UNCHANGED intent /\ UNCHANGED tui /\ UNCHANGED count

\* A verb's process is killed.
Killed(p) == /\ p \in Verb /\ pc[p] \notin {"idle", "dead"} /\ faults < MaxFault
             /\ faults' = faults + 1 /\ Goto(p, "dead")
             /\ UNCHANGED <<intent, lock, asked, receipt, rank, verbs, hands>> /\ UNCHANGED tui

-----------------------------------------------------------------------------
(***************************************************************************)
(* The sweep                                                               *)
(***************************************************************************)
\* Mutant of Swept: an intent past its grace is taken for a stale one.
SweptYoung == intent.op = "open" /\ intent.young

\* The sessions the sweep looks after.
Swept == intent.op = "open"

\* shouldIdleClose
IdleNow == Status = "open" /\ idle

\* A conversation closed outside is recorded, a silent one is closed.  A lock in
\* use is not waited for.
SweepLook == /\ pc[Sweep] = "idle" /\ Swept
             /\ Takeable
             /\ Status = "closed" \/ IdleNow
             /\ lock' = Sweep /\ Goto(Sweep, "look") /\ asked' = [asked EXCEPT ![Sweep] = "idle"]
             /\ UNCHANGED <<intent, receipt>> /\ UNCHANGED tui /\ UNCHANGED count

SweepAct == /\ pc[Sweep] = "look"
            /\ \/ /\ Status = "closed" /\ Intent("close", intent.session) /\ Answer(Sweep, "none")
               \/ /\ IdleNow /\ Goto(Sweep, "close") /\ UNCHANGED <<intent, rank, lock, asked, receipt>>
               \/ /\ Status # "closed" /\ ~IdleNow /\ Answer(Sweep, "none") /\ UNCHANGED <<intent, rank>>
            /\ UNCHANGED <<verbs, hands, faults>> /\ UNCHANGED tui

-----------------------------------------------------------------------------
Tui == ActOnKey \/ Connect
Step(p) == \/ TakeLock(p) \/ OpenLook(p) \/ OpenType(p) \/ OpenDone(p) \/ OpenTimesOut(p)
           \/ CloseLook(p) \/ CloseType(p) \/ CloseDone(p) \/ CloseTimesOut(p)
Next == \/ Tui \/ FallSilent \/ HandToggle \/ SessionDies \/ GraceEnds
        \/ \E p \in Verb : Ask(p, "open") \/ Ask(p, "close") \/ Busy(p) \/ Killed(p)
        \/ \E p \in Proc : Step(p)
        \/ SweepLook \/ SweepAct

Spec == Init /\ [][Next]_vars
FairSpec == /\ Spec /\ WF_vars(Tui) /\ WF_vars(GraceEnds) /\ WF_vars(FallSilent)
            /\ \A p \in Proc : WF_vars(Step(p))
            /\ SF_vars(SweepLook) /\ WF_vars(SweepAct)

-----------------------------------------------------------------------------
(***************************************************************************)
(* Properties                                                              *)
(***************************************************************************)
\* Nobody typed at the session, and no verb was killed.
Calm == hands = 0 /\ \A p \in Proc : pc[p] # "dead"

\* A verb's toggle never closes a conversation that a verb's toggle opened:
\* the lock and the look before the key keep two opens from undoing each other,
\* as long as every key is acted on in time.
NeverTogglesOff == [][Calm /\ live' /\ helper = "ours" /\ helper' = "none" => Head(keys) # "toggle"]_vars

\* The same whatever happens.  The code does not keep it: the look sees the
\* helper and the rollout, not a key that is typed and not yet acted on, and
\* the intent that covers for it ends with its grace, or with a conversation
\* that the human's own key brings up meanwhile.
NeverTogglesOffDisturbed == [][live' /\ helper = "ours" /\ helper' = "none" => Head(keys) # "toggle"]_vars

\* An answer "closed" is given with the microphone free: who waits for it may
\* take the microphone back.
ClosedIsReleased == [][\A p \in Proc : receipt'[p] = "closed" /\ pc[p] # "idle" /\ pc'[p] = "idle"
                                       => helper = "none"]_vars

\* A conversation that iapeer opened is closed once it has been silent for long,
\* as long as every key can be typed: the sweep does not repeat a close that failed.
SilenceEnds == []<>(~idle \/ helper # "ours")

\* docs/22-voice.md: a timed-out open is never reported as closed by itself;
\* the engine types the stop, so its own key does not open the microphone
\* after the answer.  The code does not keep it when the session acts on the
\* key late (Late): the look before the stop finds nothing open, and none is typed.
NoLateStart == [][helper = "none" /\ helper' = "ours" => \E p \in Proc : pc[p] \in {"await", "close", "stop", "gone", "dead"}]_vars
===============================================================================
