----------------------------- MODULE Acceptance -----------------------------
(***************************************************************************)
(* The durable record of a paste whose acceptance is not known yet: the       *)
(* process that pastes writes it ahead of the paste (deliverCodexToHost), the  *)
(* daemon reconciles it with the native receipts and tells the sender and the  *)
(* operator (reconcile), and the operator may close it (delivery resolve).     *)
(*                                                                         *)
(* A pass of the reconciler reads every record when it begins and works on     *)
(* its copies; it awaits each notice.  A paste that is neither rejected nor    *)
(* over by 120 s is old.  A writer never lives that long: its own grace is 4 s.*)
(*                                                                         *)
(* Left out: removal of final records after a week, the claude path (a pass    *)
(* of Inflight writes "pending" for it), native process identities.           *)
(***************************************************************************)
EXTENDS Naturals

CONSTANTS
  Delivery,     \* pastes
  None,         \* no delivery
  MaxRestart    \* bound: deaths of the daemon

AcceptanceAssumption == None \notin Delivery /\ MaxRestart \in Nat

VARIABLES
  writer,       \* writer[d]: how far the pasting process of d is
  pasted,       \* pastes whose bytes may have reached the native input
  landed,       \* pastes with a native receipt
  old,          \* pastes older than ACCEPTANCE_ALERT_AFTER_MS
  disk,         \* disk[d]: the acceptance record
  resolved,     \* resolved[d]: the operator's immutable decision, "no" before
  resNotice,    \* resNotice[d]: the checkpoint of the notice about it
  copy,         \* copy[d]: what the pass read when it began
  closing,      \* records it read as closed
  pending,      \* records the pass has still to look at
  now,          \* the record it works on, or None
  slot,         \* which of its notices is decided on, or awaited ("... sending")
  board,        \* records shown on the operator's board
  sent,         \* history: <<delivery, addressee, verdict>> of notices that may have arrived
  restarts

writerVars == <<writer, pasted, landed, old>>
passVars == <<copy, closing, pending, now, slot>>
vars == <<writerVars, disk, resolved, resNotice, passVars, board, sent, restarts>>

Statuses == {"none", "prepared", "sending", "pending", "delivered", "failed",
             "unresolved", "rejected"}
Claims == {"no", "sending", "sent"}
Record == [status : Statuses, managed : BOOLEAN, caller : Claims, operator : Claims]
Absent == [status |-> "none", managed |-> FALSE, caller |-> "no", operator |-> "no"]
Outcomes == {"delivered", "failed", "dismissed"}

TypeOK ==
  /\ writer \in [Delivery -> {"new", "ready", "pasting", "waiting", "done", "gone"}]
  /\ pasted \subseteq Delivery /\ landed \subseteq pasted /\ old \subseteq Delivery
  /\ disk \in [Delivery -> Record] /\ copy \in [Delivery -> Record]
  /\ resolved \in [Delivery -> {"no"} \cup Outcomes]
  /\ resNotice \in [Delivery -> Claims]
  /\ closing \subseteq Delivery /\ pending \subseteq Delivery /\ now \in Delivery \cup {None}
  /\ slot \in {"idle", "caller", "caller sending", "operator", "operator sending", "closure"}
  /\ board \subseteq Delivery
  /\ sent \subseteq Delivery \X {"caller", "operator", "closure"} \X (Statuses \cup Outcomes)
  /\ restarts \in 0 .. MaxRestart

Init ==
  /\ writer = [d \in Delivery |-> "new"]
  /\ pasted = {} /\ landed = {} /\ old = {}
  /\ disk = [d \in Delivery |-> Absent] /\ copy = [d \in Delivery |-> Absent]
  /\ resolved = [d \in Delivery |-> "no"] /\ resNotice = [d \in Delivery |-> "no"]
  /\ closing = {} /\ pending = {} /\ now = None /\ slot = "idle"
  /\ board = {}
  /\ sent = {}
  /\ restarts = 0

-----------------------------------------------------------------------------
(* The process that pastes *)

(* Its record goes to disk whole, as it has it in memory: no notice in it.      *)
WriterSays(d, s) ==
  disk' = [disk EXCEPT ![d] = [Absent EXCEPT !.status = s, !.managed = (s = "pending")]]

Moves(d, from, to) == writer[d] = from /\ writer' = [writer EXCEPT ![d] = to]

OthersStay == UNCHANGED <<resolved, resNotice, passVars, board, sent, restarts>>

Prepare(d) ==
  /\ Moves(d, "new", "ready") /\ WriterSays(d, "prepared")
  /\ UNCHANGED <<pasted, landed, old>> /\ OthersStay

(* Blocked or unready surface, other hosting: refused before the paste.         *)
RefuseBefore(d) ==
  /\ Moves(d, "ready", "done") /\ WriterSays(d, "rejected")
  /\ UNCHANGED <<pasted, landed, old>> /\ OthersStay

BeforeSend(d) ==
  /\ Moves(d, "ready", "pasting") /\ WriterSays(d, "sending")
  /\ UNCHANGED <<pasted, landed, old>> /\ OthersStay

Paste(d) ==
  /\ Moves(d, "pasting", "waiting") /\ pasted' = pasted \cup {d}
  /\ UNCHANGED <<landed, old, disk>> /\ OthersStay

(* The host answered that no input was started.                                *)
RefuseSend(d) ==
  /\ Moves(d, "pasting", "done") /\ WriterSays(d, "rejected")
  /\ UNCHANGED <<pasted, landed, old>> /\ OthersStay

Confirm(d) ==
  /\ d \in landed /\ Moves(d, "waiting", "done") /\ WriterSays(d, "delivered")
  /\ UNCHANGED <<pasted, landed, old>> /\ OthersStay

\* Mutant of GiveUp: an error after the send is reported as a refusal.
GiveUpRejected(d) ==
  /\ Moves(d, "waiting", "done") /\ WriterSays(d, "rejected")
  /\ UNCHANGED <<pasted, landed, old>> /\ OthersStay

GiveUp(d) ==
  /\ Moves(d, "waiting", "done") /\ WriterSays(d, "pending")
  /\ UNCHANGED <<pasted, landed, old>> /\ OthersStay

(* A CLI exits when it is done; any process may die half way.                   *)
WriterGone(d) ==
  /\ writer[d] \notin {"new", "gone"}
  /\ writer' = [writer EXCEPT ![d] = "gone"]
  /\ UNCHANGED <<pasted, landed, old, disk>> /\ OthersStay

Land(d) ==
  /\ d \in pasted \ landed /\ landed' = landed \cup {d}
  /\ UNCHANGED <<writer, pasted, old, disk>> /\ OthersStay

Age(d) ==
  /\ writer[d] \in {"done", "gone"} /\ d \notin old /\ old' = old \cup {d}
  /\ UNCHANGED <<writer, pasted, landed, disk>> /\ OthersStay

Writing(d) ==
  \/ Prepare(d) \/ RefuseBefore(d) \/ BeforeSend(d) \/ Paste(d) \/ RefuseSend(d)
  \/ Confirm(d) \/ GiveUp(d) \/ WriterGone(d)

-----------------------------------------------------------------------------
(* The operator closes a case: one exclusive link beside the record.            *)

Resolve(d) ==
  /\ disk[d] # Absent /\ resolved[d] = "no"
  /\ \E o \in Outcomes : resolved' = [resolved EXCEPT ![d] = o]
  /\ UNCHANGED <<writerVars, disk, resNotice, passVars, board, sent, restarts>>

-----------------------------------------------------------------------------
(* The reconciler *)

BeginPass ==
  /\ now = None /\ pending = {}
  /\ \E d \in Delivery : disk[d] # Absent
  /\ copy' = disk /\ pending' = {d \in Delivery : disk[d] # Absent}
  /\ closing' = {d \in Delivery : resolved[d] # "no"}
  /\ UNCHANGED <<writerVars, disk, resolved, resNotice, now, slot, board, sent, restarts>>

Alive(d) == writer[d] \in {"ready", "pasting", "waiting", "done"}

(* What the pass makes of its copy of d, with the evidence of this moment.      *)
Evidence(d) ==
  IF d \in landed THEN "delivered"
  ELSE IF d \in old \/ copy[d].status = "sending" THEN "unresolved" ELSE copy[d].status

Judged(d) ==
  CASE copy[d].status = "prepared" -> [copy[d] EXCEPT !.status = "failed", !.managed = TRUE]
    [] copy[d].status \in {"sending", "pending", "unresolved"} ->
         IF Evidence(d) = copy[d].status THEN copy[d]
         ELSE [Absent EXCEPT !.status = Evidence(d), !.managed = TRUE]
    [] OTHER -> copy[d]

\* Mutant of Skipped: a record in "sending" is left to its writer for ever.
SkippedSending(d) ==
  \/ copy[d].status \in {"rejected", "sending"}
  \/ copy[d].status = "delivered" /\ ~copy[d].managed
  \/ copy[d].status = "prepared" /\ Alive(d)

Skipped(d) ==
  \/ copy[d].status = "rejected"
  \/ copy[d].status = "delivered" /\ ~copy[d].managed
  \/ copy[d].status = "sending" /\ d \notin old /\ Alive(d)
  \/ copy[d].status = "prepared" /\ Alive(d)

(* What the pass reads at its beginning may be minutes old when it looks.       *)
Reconcile(d) ==
  /\ now = None /\ d \in pending /\ pending' = pending \ {d}
  /\ d \notin closing
  /\ LET r == Judged(d) IN
     IF Skipped(d) \/ r.status = "pending"
     THEN /\ copy' = [copy EXCEPT ![d] = Absent] /\ UNCHANGED <<disk, now, slot, board>>
     ELSE /\ copy' = [copy EXCEPT ![d] = r]
          /\ disk' = IF r.status # copy[d].status THEN [disk EXCEPT ![d] = r] ELSE disk
          /\ board' = IF r.status \in {"unresolved", "failed"} THEN board \cup {d} ELSE board
          /\ now' = d /\ slot' = "caller"
  /\ UNCHANGED <<writerVars, resolved, resNotice, closing, sent, restarts>>

(* The sender of a closed case is told once, on a checkpoint of its own.        *)
ReconcileClosed(d) ==
  /\ now = None /\ d \in pending /\ pending' = pending \ {d}
  /\ d \in closing
  /\ copy' = [copy EXCEPT ![d] = Absent]
  /\ board' = IF resNotice[d] = "sending" THEN board \cup {d} ELSE board
  /\ IF resNotice[d] = "no"
     THEN /\ resNotice' = [resNotice EXCEPT ![d] = "sending"]
          /\ now' = d /\ slot' = "closure"
          /\ sent' = sent \cup {<<d, "closure", resolved[d]>>}
     ELSE UNCHANGED <<resNotice, now, slot, sent>>
  /\ UNCHANGED <<writerVars, disk, resolved, closing, restarts>>

NextSlot == /\ slot' = IF slot \in {"caller", "caller sending"} THEN "operator" ELSE "idle"
            /\ now' = IF slot' = "operator" THEN now ELSE None

(* An accepted paste concerns its sender only; a closed case nobody here.       *)
\* Mutant of Owed: the decision is not read again before the notice.
OwedBlind(d, s) == /\ copy[d][s] # "sent"
                   /\ s = "operator" => copy[d].status # "delivered"

Owed(d, s) == /\ resolved[d] = "no" /\ copy[d][s] # "sent"
              /\ s = "operator" => copy[d].status # "delivered"

(* A claim found on disk is a notice that may have been sent: it is shown on the  *)
(* board, never sent again.                                                    *)
PassOver ==
  /\ slot \in {"caller", "operator"}
  /\ ~Owed(now, slot) \/ copy[now][slot] = "sending"
  /\ board' = IF Owed(now, slot) THEN board \cup {now} ELSE board
  /\ NextSlot
  /\ UNCHANGED <<writerVars, disk, resolved, resNotice, copy, closing, pending, sent, restarts>>

Claiming(s) == IF s = "caller" THEN "caller sending" ELSE "operator sending"

\* Mutant of Claim: the claim is kept in memory only.
ClaimInMemory ==
  /\ slot \in {"caller", "operator"}
  /\ Owed(now, slot) /\ copy[now][slot] = "no"
  /\ copy' = [copy EXCEPT ![now][slot] = "sending"]
  /\ sent' = sent \cup {<<now, slot, copy[now].status>>}
  /\ slot' = Claiming(slot)
  /\ UNCHANGED <<writerVars, disk, resolved, resNotice, closing, pending, now, board, restarts>>

(* A notice is claimed on disk before it is sent.                              *)
Claim ==
  /\ slot \in {"caller", "operator"}
  /\ Owed(now, slot) /\ copy[now][slot] = "no"
  /\ copy' = [copy EXCEPT ![now][slot] = "sending"]
  /\ disk' = [disk EXCEPT ![now] = copy'[now]]
  /\ sent' = sent \cup {<<now, slot, copy[now].status>>}
  /\ slot' = Claiming(slot)
  /\ UNCHANGED <<writerVars, resolved, resNotice, closing, pending, now, board, restarts>>

(* The send returned: taken, refused before anybody took it, or unknown.         *)
Answer(a) == IF a = "refused" THEN "no" ELSE IF a = "taken" THEN "sent" ELSE "sending"
Forgets(s, status, a) == IF a = "refused" THEN sent \ {<<now, s, status>>} ELSE sent

Answered(s) ==
  /\ slot = Claiming(s)
  /\ \E a \in {"taken", "refused", "unknown"} :
       /\ copy' = [copy EXCEPT ![now][s] = Answer(a)]
       /\ sent' = Forgets(s, copy[now].status, a)
  /\ disk' = [disk EXCEPT ![now] = copy'[now]]
  /\ NextSlot
  /\ UNCHANGED <<writerVars, resolved, resNotice, closing, pending, board, restarts>>

ClosureAnswered ==
  /\ slot = "closure"
  /\ \E a \in {"taken", "refused", "unknown"} :
       /\ resNotice' = [resNotice EXCEPT ![now] = Answer(a)]
       /\ sent' = Forgets("closure", resolved[now], a)
  /\ slot' = "idle" /\ now' = None
  /\ UNCHANGED <<writerVars, disk, resolved, copy, closing, pending, board, restarts>>

Reconciling ==
  \/ BeginPass \/ PassOver \/ Claim \/ ClosureAnswered
  \/ \E d \in Delivery : Reconcile(d) \/ ReconcileClosed(d)
  \/ \E s \in {"caller", "operator"} : Answered(s)

(* The daemon dies and comes back with the disk alone.                          *)
Restart ==
  /\ restarts < MaxRestart /\ restarts' = restarts + 1
  /\ copy' = [d \in Delivery |-> Absent] /\ closing' = {}
  /\ pending' = {} /\ now' = None /\ slot' = "idle"
  /\ UNCHANGED <<writerVars, disk, resolved, resNotice, board, sent>>

Next ==
  \/ \E d \in Delivery : Writing(d) \/ Land(d) \/ Age(d) \/ Resolve(d)
  \/ Reconciling
  \/ Restart

(* Passes go on, clocks advance, a pasting process ends.                        *)
Fairness ==
  /\ WF_vars(Reconciling)
  /\ \A d \in Delivery : WF_vars(Age(d)) /\ WF_vars(WriterGone(d))

Spec == Init /\ [][Next]_vars
FairSpec == Spec /\ Fairness

-----------------------------------------------------------------------------
(* Properties *)

(* A record says "delivered" only with a receipt, and "rejected" only when no    *)
(* byte was sent: the two verdicts on which a sender acts without asking.        *)
VerdictsTrue ==
  \A d \in Delivery :
    /\ disk[d].status = "delivered" => d \in landed
    /\ disk[d].status = "rejected" => d \notin pasted

(* The notice of one verdict is never sent twice, unless its first send was       *)
(* refused: not by a later pass, not after a restart in the middle of the send.  *)
TellsOnce ==
  \A s \in {"caller", "operator"} :
    slot # Claiming(s) /\ slot' = Claiming(s) => <<now, s, copy[now].status>> \notin sent
NeverToldTwice == [][TellsOnce]_vars

(* Once the operator has closed a case the reconciler starts no notice about the  *)
(* verdict it had reached before, although it may be half way through them.       *)
SilentAfterClosure ==
  [][\A d \in Delivery : resolved[d] # "no" =>
       \A x \in sent' \ sent : x[1] = d => x[2] = "closure"]_vars

(* Every paste comes to a verdict: accepted, refused, unresolved or closed.       *)
Decided ==
  \A d \in Delivery : d \in pasted ~>
    \/ disk[d].status \in {"delivered", "unresolved", "failed"} \/ resolved[d] # "no"

(* codexDelivery.ts: the durable prepared checkpoint proves no paste, so a record  *)
(* that the reconciler calls failed was never pasted.  The code does not keep    *)
(* it: the paste may come after the reconciler has read the record, and its      *)
(* writer be gone when it judges.                                            *)
FailedWasNotPasted ==
  \A d \in Delivery : disk[d].status = "failed" => d \notin pasted
=============================================================================
