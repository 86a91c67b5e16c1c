------------------------------ MODULE Inflight ------------------------------
(***************************************************************************)
(* What happens to a message the core acknowledged when the session that    *)
(* received it ends: the inflight ledger of one identity, the sweep of the   *)
(* supervise tick, the redelivery of orphans, the notices to senders and the  *)
(* held notices that are retried.                                            *)
(*                                                                         *)
(* The timer does not wait for the previous tick, so passes overlap at their *)
(* awaits; between two awaits a pass is alone in the daemon (busy).  CLI      *)
(* sends append to the same ledger from another process at any time.  A       *)
(* message is delivered at most twice: copy 1 by its sender, copy 2 by a pass. *)
(*                                                                         *)
(* Left out: ephemeral targets (EphemeralQueue), the text of a notice, clocks  *)
(* (a backoff is over, or not, when a pass looks).                            *)
(***************************************************************************)
EXTENDS Naturals, FiniteSets

CONSTANTS
  Msg,          \* messages
  CallerOf,     \* CallerOf[m]: the endpoint that sent m
  CliSent,      \* messages a CLI process sends; the daemon sends the others
  Runtime,      \* "claude" or "codex": what the identity runs
  Uncertain,    \* copies whose delivery is acknowledged before its acceptance is proved
  Pass,         \* supervise ticks that may overlap
  Free,         \* nobody runs in the daemon
  MaxSession,   \* bound: sessions of the identity
  MaxCrash      \* bound: deaths of the daemon

InflightAssumption ==
  /\ Runtime \in {"claude", "codex"} /\ Free \notin Pass
  /\ Uncertain \subseteq Msg \X {1, 2} /\ CliSent \subseteq Msg
  /\ MaxSession \in Nat /\ MaxCrash \in Nat

VARIABLES
  token,        \* hosting token of the live session, 0 when there is none
  sessions,     \* sessions started so far, the next token is one more
  at,           \* at[i]: the token the entry of copy i records, 0 before
  order,        \* order[i]: the entry's ts
  native,       \* native[i]: what the receiving session did with it
  acc,          \* acc[i]: status of its acceptance record
  ledger,       \* <identity>.inflight.jsonl
  orphans,      \* <identity>.orphans.jsonl
  interrupted,  \* <identity>.interrupted.jsonl
  held,         \* held-notices.jsonl: each notice is the set of copies it tells of
  selfEnded,    \* the <identity>.self-ended marker, 0 when absent
  step,         \* step[p]: where pass p is
  seen,         \* seen[p]: the held notices it read
  base,         \* base[p]: the ledger it read
  cur,          \* cur[p]: the hosting token it saw
  todo,         \* todo[p]: held notices still to send
  kept,         \* kept[p]: held notices it will write back
  hand,         \* hand[p]: copies it has taken out of a file
  busy,         \* the pass that is between two awaits, or Free
  told,         \* history: copies whose sender got a notice
  closed,       \* history: copies handed on: reconciler, failover, expiry, self-end
  lost,         \* history: copies that were nowhere after a crash or an overwrite
  crashes       \* deaths of the daemon

sessionVars == <<token, sessions, at, order, native, acc>>
fileVars == <<ledger, orphans, interrupted, held, selfEnded>>
passVars == <<step, seen, base, cur, todo, kept, hand, busy>>
pastVars == <<told, closed, lost, crashes>>
vars == <<sessionVars, fileVars, passVars, pastVars>>

Copy == Msg \X {1, 2}
Notices == SUBSET Copy

Final == {"delivered", "failed", "rejected"}

TypeOK ==
  /\ token \in 0 .. MaxSession /\ sessions \in 0 .. MaxSession
  /\ at \in [Copy -> 0 .. MaxSession]
  /\ order \in [Copy -> Nat]
  /\ native \in [Copy -> {"none", "swallowed", "queued", "answered", "finished", "unrecorded"}]
  /\ acc \in [Copy -> {"none", "pending"} \cup Final]
  /\ ledger \subseteq Copy /\ orphans \subseteq Copy /\ interrupted \subseteq Copy
  /\ held \subseteq Notices
  /\ selfEnded \in 0 .. MaxSession
  /\ step \in [Pass -> {"idle", "flush", "sweep", "append", "take", "notify", "redeliver"}]
  /\ seen \in [Pass -> SUBSET Notices] /\ base \in [Pass -> SUBSET Copy]
  /\ cur \in [Pass -> 0 .. MaxSession]
  /\ todo \in [Pass -> SUBSET Notices] /\ kept \in [Pass -> SUBSET Notices]
  /\ hand \in [Pass -> SUBSET Copy]
  /\ busy \in Pass \cup {Free}
  /\ told \subseteq Copy /\ closed \subseteq Copy /\ lost \subseteq Copy
  /\ crashes \in 0 .. MaxCrash

Init ==
  /\ token = 0 /\ sessions = 0
  /\ at = [i \in Copy |-> 0] /\ order = [i \in Copy |-> 0]
  /\ native = [i \in Copy |-> "none"]
  /\ acc = [i \in Copy |-> "none"]
  /\ ledger = {} /\ orphans = {} /\ interrupted = {} /\ held = {} /\ selfEnded = 0
  /\ step = [p \in Pass |-> "idle"] /\ seen = [p \in Pass |-> {}] /\ base = [p \in Pass |-> {}]
  /\ cur = [p \in Pass |-> 0]
  /\ todo = [p \in Pass |-> {}] /\ kept = [p \in Pass |-> {}] /\ hand = [p \in Pass |-> {}]
  /\ busy = Free
  /\ told = {} /\ closed = {} /\ lost = {} /\ crashes = 0

-----------------------------------------------------------------------------
(* Evidence read from the transcripts of the session *)

Processed(i) == native[i] \in {"answered", "finished", "unrecorded"}
Completed(i) == native[i] = "finished"
Landed(i) == native[i] \notin {"none", "swallowed"}

(* Uncertain on claude: the confirm window ran out; on codex: the host reported  *)
(* a pending acceptance.  Either has an acceptance record that decides.          *)
Unknown(i) == i \in Uncertain /\ acc[i] \notin Final
ToReconciler(i) == i \in Uncertain /\ acc[i] \in {"failed", "rejected"}

\* Mutant of Handled: a finished turn covers the later entries as well.
HandledLater(E, i) == \E j \in E : ~Unknown(j) /\ Completed(j) /\ at[j] = at[i]

(* A finished turn covers the earlier entries of the same session.            *)
Handled(E, i) ==
  \E j \in E : /\ ~Unknown(j) /\ Completed(j) /\ at[j] = at[i]
               /\ j = i \/ order[i] < order[j]

\* Mutant of Replayable: only a finished turn forbids it.
ReplayableAnswered(i) == Runtime = "claude" /\ i \notin Uncertain /\ ~Completed(i)

(* No proof of acceptance forbids a second delivery.                          *)
Replayable(i) == Runtime = "claude" /\ i \notin Uncertain /\ ~Processed(i)

-----------------------------------------------------------------------------
(* The session *)

NewSession ==
  /\ token = 0 /\ sessions < MaxSession
  /\ token' = sessions + 1 /\ sessions' = sessions + 1
  /\ UNCHANGED <<at, order, native, acc, fileVars, passVars, pastVars>>

SessionDies ==
  /\ token # 0 /\ token' = 0
  /\ UNCHANGED <<sessions, at, order, native, acc, fileVars, passVars, pastVars>>

SelfEnd ==
  /\ token # 0 /\ selfEnded' = token /\ token' = 0
  /\ UNCHANGED <<sessions, at, order, native, acc, ledger, orphans, interrupted,
                 held, passVars, pastVars>>

InTurn(i) == at[i] = token /\ token # 0
Earlier(i) == {j \in Copy : at[j] = at[i] /\ order[j] < order[i]}

(* It works its input in order.                                               *)
Answer(i) ==
  /\ InTurn(i) /\ native[i] = "queued"
  /\ \A j \in Earlier(i) : native[j] # "queued"
  /\ native' = [native EXCEPT ![i] = "answered"]
  /\ UNCHANGED <<token, sessions, at, order, acc, fileVars, passVars, pastVars>>

(* The record of a turn's end may be missed.                                  *)
FinishTurn(i) ==
  /\ InTurn(i) /\ native[i] = "answered"
  /\ \A j \in Earlier(i) : native[j] \notin {"queued", "answered"}
  /\ \E n \in {"finished", "unrecorded"} : native' = [native EXCEPT ![i] = n]
  /\ UNCHANGED <<token, sessions, at, order, acc, fileVars, passVars, pastVars>>

-----------------------------------------------------------------------------
(* Delivery *)

(* Codex writes the record before it pastes; for claude a pass does.            *)
FirstStatus(i) == IF Runtime = "codex" /\ i \in Uncertain THEN "pending" ELSE "none"

(* The delivery of copy i to session s, and the note its acknowledgement       *)
(* leaves in the ledger; an unproved delivery may have been swallowed.         *)
Receive(i, s) ==
  /\ at' = [at EXCEPT ![i] = s]
  /\ order' = [order EXCEPT ![i] = Cardinality({j \in Copy : at[j] # 0}) + 1]
  /\ native' \in {[native EXCEPT ![i] = n] :
                    n \in {"queued"} \cup IF i \in Uncertain THEN {"swallowed"} ELSE {}}
  /\ acc' = [acc EXCEPT ![i] = FirstStatus(i)]

(* A send by the daemon waits for the pass that is between two awaits; one by   *)
(* a CLI process does not.                                                     *)
SendFirst(m) ==
  LET i == <<m, 1>> IN
  /\ token # 0 /\ at[i] = 0
  /\ m \in CliSent \/ busy = Free
  /\ Receive(i, token)
  /\ ledger' = ledger \cup {i}
  /\ UNCHANGED <<token, sessions, orphans, interrupted, held, selfEnded, passVars, pastVars>>

(* An orphan of a daemon that still replayed unproved deliveries.              *)
InheritOrphan(m) ==
  LET i == <<m, 1>> IN
  /\ sessions = 0 /\ MaxSession > 0
  /\ at[i] = 0
  /\ sessions' = 1
  /\ at' = [at EXCEPT ![i] = 1] /\ order' = [order EXCEPT ![i] = 1]
  /\ native' = [native EXCEPT ![i] = "swallowed"]
  /\ acc' = [acc EXCEPT ![i] = FirstStatus(i)]
  /\ orphans' = {i}
  /\ UNCHANGED <<token, ledger, interrupted, held, selfEnded, passVars, pastVars>>

(* The acceptance reconciler, or the operator, decides; Acceptance has the     *)
(* details.                                                                   *)
Reconcile(i) ==
  /\ acc[i] = "pending"
  /\ \E s \in Final : (s = "delivered" => Landed(i)) /\ acc' = [acc EXCEPT ![i] = s]
  /\ UNCHANGED <<token, sessions, at, order, native, fileVars, passVars, pastVars>>

-----------------------------------------------------------------------------
(* One pass of processInflight *)

Goto(p, s) == step' = [step EXCEPT ![p] = s]

FlushRead(p) ==
  /\ step[p] = "idle" /\ busy = Free
  /\ seen' = [seen EXCEPT ![p] = held]
  /\ \E due \in SUBSET held :
       todo' = [todo EXCEPT ![p] = due] /\ kept' = [kept EXCEPT ![p] = held \ due]
  /\ Goto(p, "flush")
  /\ UNCHANGED <<sessionVars, fileVars, base, cur, hand, busy, pastVars>>

(* Delivered, kept with a longer backoff, or dropped: expired or unregistered.  *)
FlushSend(p) ==
  /\ step[p] = "flush" /\ busy = Free
  /\ \E n \in todo[p] :
       /\ todo' = [todo EXCEPT ![p] = @ \ {n}]
       /\ \/ told' = told \cup n /\ UNCHANGED <<kept, closed>>
          \/ kept' = [kept EXCEPT ![p] = @ \cup {n}] /\ UNCHANGED <<told, closed>>
          \/ closed' = closed \cup n /\ UNCHANGED <<kept, told>>
  /\ UNCHANGED <<sessionVars, fileVars, step, seen, base, cur, hand, busy, lost, crashes>>

(* Notices held since the read are kept; then, with no await in between, the    *)
(* ledger is read for the sweep and unknown pastes get an acceptance record.    *)
EnsureCustody(E) ==
  acc' = [i \in Copy |-> IF i \in E \cap Uncertain /\ acc[i] = "none"
                         THEN "pending" ELSE acc[i]]

\* Mutant of FlushWrite: what it read is written back over what was added since.
FlushOverwrite(p) ==
  /\ step[p] = "flush" /\ busy = Free /\ todo[p] = {}
  /\ held' = kept[p]
  /\ EnsureCustody(ledger)
  /\ base' = [base EXCEPT ![p] = ledger]
  /\ cur' = [cur EXCEPT ![p] = token]
  /\ seen' = [seen EXCEPT ![p] = {}] /\ kept' = [kept EXCEPT ![p] = {}]
  /\ Goto(p, "sweep") /\ busy' = p
  /\ UNCHANGED <<token, sessions, at, order, native, ledger, orphans, interrupted,
                 selfEnded, todo, hand, pastVars>>

FlushWrite(p) ==
  /\ step[p] = "flush" /\ busy = Free /\ todo[p] = {}
  /\ held' = kept[p] \cup (held \ seen[p])
  /\ EnsureCustody(ledger)
  /\ base' = [base EXCEPT ![p] = ledger]
  /\ cur' = [cur EXCEPT ![p] = token]
  /\ seen' = [seen EXCEPT ![p] = {}] /\ kept' = [kept EXCEPT ![p] = {}]
  /\ Goto(p, "sweep") /\ busy' = p
  /\ UNCHANGED <<token, sessions, at, order, native, ledger, orphans, interrupted,
                 selfEnded, todo, hand, pastVars>>

\* Mutant of Keeps: an entry stays until it is handled, whatever session is live.
KeepsAll(p, i) == Unknown(i) \/ (~ToReconciler(i) /\ ~Handled(base[p], i))

Keeps(p, i) ==
  \/ Unknown(i)
  \/ ~ToReconciler(i) /\ ~Handled(base[p], i) /\ cur[p] = at[i]

(* Entries the session that ended itself has answered are settled.             *)
SelfSettled(p, i) == Processed(i) /\ at[i] = selfEnded /\ cur[p] # at[i]

Leaves(p, i) == ~Keeps(p, i) /\ ~ToReconciler(i) /\ ~Handled(base[p], i)

SweepWrite(p) ==
  /\ step[p] = "sweep"
  /\ ledger' = {i \in base[p] : Keeps(p, i)}
  /\ hand' = [hand EXCEPT ![p] = {i \in base[p] : Leaves(p, i) /\ ~SelfSettled(p, i)}]
  /\ closed' = closed \cup {i \in base[p] : ~Keeps(p, i) /\ ToReconciler(i)}
                      \cup {i \in base[p] : Leaves(p, i) /\ SelfSettled(p, i)}
  /\ lost' = lost \cup (ledger \ base[p])
  /\ base' = [base EXCEPT ![p] = {}]
  /\ Goto(p, "append")
  /\ UNCHANGED <<sessionVars, orphans, interrupted, held, selfEnded, seen, cur, todo, kept, busy,
                 told, crashes>>

SweepAppend(p) ==
  /\ step[p] = "append"
  /\ orphans' = orphans \cup {i \in hand[p] : Replayable(i)}
  /\ interrupted' = interrupted \cup {i \in hand[p] : ~Replayable(i)}
  /\ hand' = [hand EXCEPT ![p] = {}]
  /\ selfEnded' = IF cur[p] # selfEnded THEN 0 ELSE selfEnded
  /\ Goto(p, "take")
  /\ UNCHANGED <<sessionVars, ledger, held, seen, base, cur, todo, kept, busy, pastVars>>

TakeInterrupted(p) ==
  /\ step[p] = "take"
  /\ hand' = [hand EXCEPT ![p] = interrupted] /\ interrupted' = {}
  /\ Goto(p, "notify") /\ busy' = Free
  /\ UNCHANGED <<sessionVars, ledger, orphans, held, selfEnded, seen, base, cur, todo, kept, pastVars>>

(* A notice reaches the sender, or is held.                                    *)
NotifySender(n) ==
  \/ told' = told \cup n /\ UNCHANGED held
  \/ held' = held \cup {n} /\ UNCHANGED told

(* One notice for all interrupted deliveries of one caller to one session.      *)
Notify(p) ==
  /\ step[p] = "notify" /\ busy = Free
  /\ \E i \in hand[p] :
       LET group == {j \in hand[p] : at[j] = at[i] /\ CallerOf[j[1]] = CallerOf[i[1]]} IN
       /\ NotifySender(group)
       /\ hand' = [hand EXCEPT ![p] = @ \ group]
  /\ UNCHANGED <<sessionVars, ledger, orphans, interrupted, selfEnded, step, seen, base, cur, todo,
                 kept, busy, closed, lost, crashes>>

TakeOrphans(p) ==
  /\ step[p] = "notify" /\ busy = Free /\ hand[p] = {}
  /\ hand' = [hand EXCEPT ![p] = orphans] /\ orphans' = {}
  /\ Goto(p, "redeliver")
  /\ UNCHANGED <<sessionVars, ledger, interrupted, held, selfEnded, seen, base, cur, todo, kept,
                 busy, pastVars>>

(* Back to the custody of the reconciler.                                      *)
Returned(i) == Runtime = "claude" /\ i \in Uncertain

ReturnUnknown(i) ==
  /\ Returned(i)
  /\ EnsureCustody({i}) /\ ledger' = ledger \cup {i}
  /\ UNCHANGED <<token, sessions, at, order, native, held, told>>

(* As its original sender, to the live session or to one the send wakes.        *)
SendAgain(i) ==
  LET again == <<i[1], 2>> IN
  /\ Runtime = "claude" /\ ~Returned(i) /\ i[2] = 1
  /\ \/ token # 0 /\ UNCHANGED <<token, sessions>>
     \/ token = 0 /\ sessions < MaxSession /\ token' = sessions + 1 /\ sessions' = sessions + 1
  /\ Receive(again, token')
  /\ ledger' = ledger \cup {again}
  /\ UNCHANGED <<held, told>>

(* Not to be sent again, or the send failed.                                   *)
TellUndelivered(i) ==
  /\ ~Returned(i)
  /\ NotifySender({i})
  /\ UNCHANGED <<sessionVars, ledger>>

Redeliver(p) ==
  /\ step[p] = "redeliver" /\ busy = Free
  /\ \E i \in hand[p] :
       /\ ReturnUnknown(i) \/ SendAgain(i) \/ TellUndelivered(i)
       /\ hand' = [hand EXCEPT ![p] = @ \ {i}]
  /\ UNCHANGED <<orphans, interrupted, selfEnded, step, seen, base, cur, todo, kept, busy, closed,
                 lost, crashes>>

EndPass(p) ==
  /\ step[p] = "redeliver" /\ hand[p] = {}
  /\ Goto(p, "idle")
  /\ UNCHANGED <<sessionVars, fileVars, seen, base, cur, todo, kept, hand, busy, pastVars>>

PassStep(p) ==
  \/ FlushRead(p) \/ FlushSend(p) \/ FlushWrite(p)
  \/ SweepWrite(p) \/ SweepAppend(p)
  \/ TakeInterrupted(p) \/ Notify(p)
  \/ TakeOrphans(p) \/ Redeliver(p) \/ EndPass(p)

(* The daemon dies at any point; what its passes held in memory is gone.        *)
Crash ==
  /\ crashes < MaxCrash /\ crashes' = crashes + 1
  /\ step' = [p \in Pass |-> "idle"]
  /\ seen' = [p \in Pass |-> {}] /\ base' = [p \in Pass |-> {}]
  /\ cur' = [p \in Pass |-> 0]
  /\ todo' = [p \in Pass |-> {}] /\ kept' = [p \in Pass |-> {}]
  /\ lost' = lost \cup UNION {hand[p] : p \in Pass}
  /\ hand' = [p \in Pass |-> {}] /\ busy' = Free
  /\ UNCHANGED <<sessionVars, fileVars, told, closed>>

SessionStep == NewSession \/ SessionDies \/ SelfEnd \/ \E i \in Copy : Answer(i) \/ FinishTurn(i)

Next ==
  \/ SessionStep
  \/ \E m \in Msg : InheritOrphan(m) \/ SendFirst(m)
  \/ \E i \in Copy : Reconcile(i)
  \/ \E p \in Pass : PassStep(p)
  \/ Crash

(* The timer starts passes, every await ends, and the event loop runs each       *)
(* continuation that is ready although others run in between; a live session     *)
(* works through its input.  Nobody owes the identity a session, nor a decision  *)
(* on a paste that cannot be proved.                                           *)
Fairness ==
  /\ \A p \in Pass : SF_vars(PassStep(p))
  /\ \A i \in Copy : WF_vars(Answer(i)) /\ WF_vars(FinishTurn(i))

Spec == Init /\ [][Next]_vars
FairSpec == Spec /\ Fairness

-----------------------------------------------------------------------------
(* Properties *)

Acknowledged(i) == at[i] # 0
InHands == UNION {hand[p] : p \in Pass}
Again(i) == i[2] = 1 /\ Acknowledged(<<i[1], 2>>)
SenderKnows(i) == i \in told \cup closed \cup UNION held
TurnCovers(i) == \E j \in Copy : at[j] = at[i] /\ Completed(j) /\ order[i] <= order[j]

(* An acknowledged delivery is never merely forgotten: it is in a file, in the  *)
(* hand of a pass, covered by a finished turn, sent again, or its sender knows; *)
(* the two ways out are a crash of the daemon while a pass holds it and a       *)
(* CLI append that a sweep overwrites.                                         *)
Accounted ==
  \A i \in Copy : Acknowledged(i) =>
    \/ i \in ledger \cup orphans \cup interrupted \cup InHands \cup lost
    \/ TurnCovers(i) \/ Again(i) \/ SenderKnows(i)

(* A message is sent again only when the first session never answered it and    *)
(* its delivery was proved: work that began is never repeated.                  *)
NothingRunsTwice ==
  \A m \in Msg : Acknowledged(<<m, 2>>) =>
    ~Processed(<<m, 1>>) /\ <<m, 1>> \notin Uncertain

(* A held notice leaves the file only when it was delivered or dropped by the    *)
(* rules, whatever passes overlap and wherever the daemon dies.                 *)
KeepsHeld == \A n \in held : n \in held' \/ n \subseteq told' \cup closed'
HeldUntilTold == [][KeepsHeld]_vars

(* A delivery whose session is gone, and whose acceptance is decided, leaves     *)
(* the daemon's files.                                                         *)
Stranded(i) == i \in ledger /\ at[i] # token /\ ~Unknown(i)
StrandedSettles ==
  \A i \in Copy : Stranded(i) ~> (i \notin ledger \cup orphans \cup interrupted \cup InHands)

(* The header of inflight.ts: an acknowledged inbound is processed by some       *)
(* session, or its sender is told.  A paste whose acceptance nobody decides is   *)
(* the reconciler's.  The code does not keep it: a daemon that dies with an      *)
(* entry in hand has removed its file before.                                  *)
ProcessedOrTold ==
  \A i \in Copy : Acknowledged(i) ~>
    \/ Processed(i) \/ TurnCovers(i) \/ SenderKnows(i) \/ Unknown(i)
    \/ Again(i) \/ InTurn(i)
=============================================================================
