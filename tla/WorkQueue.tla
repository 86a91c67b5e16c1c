----------------------------- MODULE WorkQueue -----------------------------
(* What the serial queue of an ephemeral worker promises its senders: every  *)
(* accepted task is worked on, one at a time, in an order that respects      *)
(* acceptance.  A task may be worked on again (delivery is at least once),   *)
(* but never before one that had been accepted when it was submitted.        *)
EXTENDS Naturals

CONSTANTS Task

VARIABLES
  submitted,  \* tasks handed to the queue
  accepted,   \* tasks that are durably queued, or were
  delivered,  \* tasks a worker session received
  before,     \* <<a, b>>: a was accepted when b was submitted
  working     \* the tasks that live worker sessions hold

vars == <<submitted, accepted, delivered, before, working>>

Init ==
  /\ submitted = {} /\ accepted = {} /\ delivered = {}
  /\ before = {} /\ working = {}

Submit(t) ==
  /\ t \notin submitted
  /\ submitted' = submitted \cup {t}
  /\ before' = before \cup (accepted \X {t})
  /\ UNCHANGED <<accepted, delivered, working>>

Accept(t) ==
  /\ t \in submitted \ accepted
  /\ accepted' = accepted \cup {t}
  /\ UNCHANGED <<submitted, delivered, before, working>>

Deliver(t) ==
  /\ t \in accepted /\ working = {}
  /\ \A a \in accepted : <<a, t>> \in before => a \in delivered
  /\ delivered' = delivered \cup {t}
  /\ working' = {t}
  /\ UNCHANGED <<submitted, accepted, before>>

\* The session that holds the task ends.
End ==
  /\ working # {}
  /\ working' = {}
  /\ UNCHANGED <<submitted, accepted, delivered, before>>

Next == (\E t \in Task : Submit(t) \/ Accept(t) \/ Deliver(t)) \/ End

Spec == Init /\ [][Next]_vars

============================================================================
