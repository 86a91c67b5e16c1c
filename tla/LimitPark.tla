------------------------------ MODULE LimitPark ------------------------------
(***************************************************************************)
(* A session stopped by an exhausted model limit continues by itself: the park   *)
(* of one endpoint (lifecycle/limitpark.ts), written by the mute watch on each    *)
(* limit event, and the pass of the supervise tick that sends one continuation    *)
(* after the reset (daemon/limitresume.ts).                                     *)
(*                                                                         *)
(* The send wakes the endpoint if need be and may take minutes; the mute watch    *)
(* runs in between, and so does the next tick.                                  *)
(*                                                                         *)
(* Left out: the provenance of work on a runtime that is not the peer's default,  *)
(* texts and topics.                                                          *)
(***************************************************************************)
EXTENDS Naturals

CONSTANTS
  Pass,         \* supervise ticks that may overlap
  MaxEvent      \* bound: limit events of the endpoint

LimitParkAssumption == MaxEvent \in Nat

LIMIT_MAX_NUDGE_ATTEMPTS == 3

VARIABLES
  event,        \* the last limit event, 0 before the first
  session,      \* what the session does since: see Sessions
  due,          \* the reset of the last event and the grace are over
  halted,       \* the operator stopped the endpoint
  park,         \* the park on disk, or NoPark
  at,           \* at[p]: where pass p is
  copy,         \* copy[p]: the park it read
  nudges        \* nudges[e]: history, continuations delivered for event e

vars == <<event, session, due, halted, park, at, copy, nudges>>
world == <<event, session, due, halted>>

Sessions == {"working", "limited", "reaped"}
NoPark == [event |-> 0, attempts |-> 0]

TypeOK ==
  /\ event \in 0 .. MaxEvent /\ session \in Sessions /\ due \in BOOLEAN /\ halted \in BOOLEAN
  /\ park \in [event : 0 .. MaxEvent, attempts : 0 .. LIMIT_MAX_NUDGE_ATTEMPTS]
  /\ at \in [Pass -> {"idle", "look", "sending", "nudged"}]
  /\ copy \in [Pass -> [event : 0 .. MaxEvent, attempts : 0 .. LIMIT_MAX_NUDGE_ATTEMPTS]]
  /\ nudges \in [1 .. MaxEvent -> Nat]

Init ==
  /\ event = 0 /\ session = "working" /\ due = FALSE /\ halted = FALSE
  /\ park = NoPark
  /\ at = [p \in Pass |-> "idle"] /\ copy = [p \in Pass |-> NoPark]
  /\ nudges = [e \in 1 .. MaxEvent |-> 0]

-----------------------------------------------------------------------------
(* The endpoint *)

Limited ==
  /\ session = "working" /\ event < MaxEvent
  /\ event' = event + 1 /\ session' = "limited" /\ due' = FALSE
  /\ UNCHANGED <<halted, park, at, copy, nudges>>

(* The reset comes, and the three minutes in which the runtime goes first.       *)
ResetPasses == ~due /\ event > 0 /\ due' = TRUE /\ UNCHANGED <<event, session, halted, park, at, copy, nudges>>

(* The runtime's own continuation, or a later message that got a real reply.      *)
ContinuesItself ==
  /\ session = "limited" /\ due /\ session' = "working"
  /\ UNCHANGED <<event, due, halted, park, at, copy, nudges>>

(* The hold keeps a parked session; it is bounded, so a long one is reaped.       *)
Reap ==
  /\ session = "limited" /\ session' = "reaped"
  /\ UNCHANGED <<event, due, halted, park, at, copy, nudges>>

Halt ==
  /\ halted' = ~halted
  /\ session' = IF halted' THEN "reaped" ELSE session
  /\ UNCHANGED <<event, due, park, at, copy, nudges>>

-----------------------------------------------------------------------------
(* The mute watch: a newer event replaces the park, the one recorded is ignored   *)
(* when an overlapping sweep, or the catch-up after a restart, sees it again.     *)

RecordPark ==
  /\ event > 0 /\ ~due /\ park.event < event
  /\ park' = [event |-> event, attempts |-> 0]
  /\ UNCHANGED <<world, at, copy, nudges>>

-----------------------------------------------------------------------------
(* The pass *)

Read(p) ==
  /\ at[p] = "idle" /\ park # NoPark
  /\ copy' = [copy EXCEPT ![p] = park] /\ at' = [at EXCEPT ![p] = "look"]
  /\ UNCHANGED <<world, park, nudges>>

Done(p) == at' = [at EXCEPT ![p] = "idle"] /\ copy' = [copy EXCEPT ![p] = NoPark]

(* Real work after the event; the probe reads the transcript, whoever runs.      *)
Progressed(p) == event > copy[p].event \/ session = "working"

TooEarly(p) == copy[p].event = event /\ ~due

(* Its native session is quarantined, or the peer is no longer registered.        *)
Dropped(p) == Done(p) /\ park' = NoPark

Look(p) ==
  /\ at[p] = "look"
  /\ \/ TooEarly(p) /\ Done(p) /\ UNCHANGED park
     \/ Dropped(p)
     \/ ~TooEarly(p) /\ Progressed(p) /\ Done(p) /\ park' = NoPark
     \/ ~TooEarly(p) /\ ~Progressed(p) /\ at' = [at EXCEPT ![p] = "sending"] /\ UNCHANGED <<copy, park>>
  /\ UNCHANGED <<world, nudges>>

(* The continuation reaches the session, woken for it if need be; the answer of    *)
(* the send comes later.                                                      *)
Nudge(p) ==
  /\ at[p] = "sending" /\ ~halted
  /\ nudges' = [nudges EXCEPT ![copy[p].event] = @ + 1]
  /\ session' = IF due THEN "working" ELSE session
  /\ at' = [at EXCEPT ![p] = "nudged"]
  /\ UNCHANGED <<event, due, halted, park, copy>>

NudgeAnswered(p) ==
  /\ at[p] = "nudged" /\ park' = NoPark /\ Done(p)
  /\ UNCHANGED <<world, nudges>>

\* Mutant of NudgeAnswered: the park stays for the next pass to find its progress.
NudgeForgotten(p) ==
  /\ at[p] = "nudged" /\ Done(p)
  /\ UNCHANGED <<world, park, nudges>>

\* Mutant of SendFails: attempts are not counted.
SendFailsUncounted(p) ==
  /\ at[p] = "sending"
  /\ park' = IF halted THEN NoPark ELSE copy[p]
  /\ Done(p)
  /\ UNCHANGED <<world, nudges>>

(* Nobody fights a stop; another failure is tried again, three times.            *)
SendFails(p) ==
  /\ at[p] = "sending"
  /\ LET attempts == copy[p].attempts + 1 IN
     park' = IF halted \/ attempts >= LIMIT_MAX_NUDGE_ATTEMPTS
             THEN NoPark ELSE [copy[p] EXCEPT !.attempts = attempts]
  /\ Done(p)
  /\ UNCHANGED <<world, nudges>>

PassStep(p) == Read(p) \/ Look(p) \/ Nudge(p) \/ NudgeAnswered(p) \/ SendFails(p)

Next ==
  \/ Limited \/ ResetPasses \/ ContinuesItself \/ Reap \/ Halt \/ RecordPark
  \/ \E p \in Pass : PassStep(p)

(* Clocks advance, ticks come and every send is answered.                       *)
Fairness == WF_vars(ResetPasses) /\ \A p \in Pass : WF_vars(PassStep(p))

Spec == Init /\ [][Next]_vars
FairSpec == Spec /\ Fairness

-----------------------------------------------------------------------------
(* Properties *)

(* limitpark.ts: each event earns exactly one nudge; here, at most one.  It holds  *)
(* while a pass is alone; a tick that begins while the continuation is being sent  *)
(* reads the same park.                                                       *)
OneNudge == \A e \in 1 .. MaxEvent : nudges[e] <= 1

(* A park does not stay: whatever fails, it is resolved, and the endpoint may be   *)
(* reaped again.                                                              *)
Parked(e) == park.event = e
ParkResolves == \A e \in 1 .. MaxEvent : Parked(e) ~> ~Parked(e)
=============================================================================
