---------------------------- MODULE OriginGuard ----------------------------
(* The origin guard (transport/originGuard.ts, with its two uses in          *)
(* transport/index.ts and the confirm-send verb).  One human talks to the    *)
(* agents from several channels.  A delivery from the human stamps the pair  *)
(* with the channel and the time, a delivery to the human stamps it as       *)
(* answered; while a question is unanswered, an agent's send to another      *)
(* channel is not delivered but held in a file until it is confirmed.        *)
(*                                                                           *)
(* The stamps are one file, read and written back without a lock by every    *)
(* process that routes a message: the daemon and each `iapeer send`.         *)
EXTENDS Integers

CONSTANTS
    Agent,      \* the agents the human talks to
    Channel,    \* the runtimes of the human: web, telegram, ...
    Proc,       \* the processes that route messages
    MaxOp,      \* bound: operations begun
    MaxHold,    \* bound: sends held
    MaxTime,    \* bound: the clock
    ArmTtl,     \* how long an unanswered question arms the guard
    HoldTtl,    \* how long a held send may be confirmed
    MaxFault    \* bound: processes that die

OriginGuardAssumption ==
    /\ MaxOp \in Nat /\ MaxHold \in Nat /\ MaxTime \in Nat
    /\ ArmTtl \in Nat /\ HoldTtl \in Nat /\ MaxFault \in Nat

VARIABLES
    stamps,     \* origin/state.json
    serial,     \* the stamps as they would be had no update been lost (history)
    held,       \* origin/pending: the held sends
    proc,       \* what each process is doing
    sent,       \* how often each held send was delivered (history)
    missed,     \* did an unanswered question's channel go unguarded? (history)
    clock,
    ops, faults \* the budgets spent

vars == <<stamps, serial, held, proc, sent, missed, clock, ops, faults>>

Hold == 1..MaxHold
NoChannel == "none"
Never == -1
Entry == [rt : Channel \cup {NoChannel}, in : Never..MaxTime, answered : Never..MaxTime]
NoEntry == [rt |-> NoChannel, in |-> Never, answered |-> Never]
NoHold == [st |-> "unused", agent |-> NoChannel, to |-> NoChannel, born |-> 0]
Idle == [pc |-> "idle"]
Who == Agent \cup {"stranger"}     \* the session that confirms a held send

(* The state file after one stamp: noteHumanInbound keeps answeredTs and     *)
(* replaces the rest, noteHumanAnswered needs an entry to write to.          *)
Inbound(f, a, c, now) == [f EXCEPT ![a].rt = c, ![a].in = now]
AnsweredStamp(f, a, now) ==
    IF f[a] = NoEntry THEN f ELSE [f EXCEPT ![a].answered = now]
Stamped(f, p, now) ==
    IF proc[p].kind = "in" THEN Inbound(f, proc[p].agent, proc[p].rt, now)
                           ELSE AnsweredStamp(f, proc[p].agent, now)

(* armedOrigin: the latest question is unanswered and not stale. *)
Armed(e) ==
    /\ e # NoEntry
    /\ e.answered < e.in
    /\ clock - e.in <= ArmTtl
Guards(f, a, c) == Armed(f[a]) /\ f[a].rt # c

(* sweepExpiredPendings: pending and claimed files alike, by their age. *)
Expired(h) == h.st \in {"pending", "claimed"} /\ clock - h.born > HoldTtl
Swept(hs) == [i \in Hold |-> IF Expired(hs[i]) THEN [hs[i] EXCEPT !.st = "gone"] ELSE hs[i]]

Init ==
    /\ stamps = [a \in Agent |-> NoEntry]
    /\ serial = stamps
    /\ held = [i \in Hold |-> NoHold]
    /\ proc = [p \in Proc |-> Idle]
    /\ sent = [i \in Hold |-> 0]
    /\ missed = FALSE
    /\ clock = 0 /\ ops = 0 /\ faults = 0

Begin(p) == proc[p] = Idle /\ ops < MaxOp /\ ops' = ops + 1

(* The human writes to an agent from a channel. *)
HumanSends(p, a, c) ==
    /\ Begin(p)
    /\ proc' = [proc EXCEPT ![p] = [pc |-> "deliver", kind |-> "in", agent |-> a, rt |-> c]]
    /\ UNCHANGED <<stamps, serial, held, sent, missed, clock, faults>>

(* An agent's send to the human that the guard lets through. *)
AgentSends(p, a, c) ==
    /\ Begin(p)
    /\ ~Guards(stamps, a, c)
    /\ proc' = [proc EXCEPT ![p] = [pc |-> "deliver", kind |-> "out", agent |-> a, rt |-> c]]
    /\ missed' = (missed \/ Guards(serial, a, c))
    /\ UNCHANGED <<stamps, serial, held, sent, clock, faults>>

(* holdSend, after the attachments were copied to the human's inbox. *)
HoldSend(p, a, c) ==
    /\ Begin(p)
    /\ Guards(stamps, a, c)
    /\ \E i \in Hold :
        /\ held[i] = NoHold
        /\ \A j \in Hold : held[j] = NoHold => i <= j
        /\ held' = [Swept(held) EXCEPT ![i] =
                       [st |-> "pending", agent |-> a, to |-> c, born |-> clock]]
    /\ UNCHANGED <<stamps, serial, proc, sent, missed, clock, faults>>

(* An attachment cannot be copied: the send fails and nothing is held. *)
SpoolFails(p, a, c) ==
    /\ Begin(p)
    /\ Guards(stamps, a, c)
    /\ UNCHANGED <<stamps, serial, held, proc, sent, missed, clock, faults>>

(* Mutant of Claim: the held send is read where it lies, and only the        *)
(* delivered one is removed.                                                 *)
ClaimInPlace(p, i, who, c) ==
    /\ Begin(p)
    /\ Swept(held)[i].st = "pending"
    /\ held' = Swept(held)
    /\ proc' = [proc EXCEPT ![p] = [pc |-> "claimed", kind |-> "confirm", agent |-> held[i].agent,
                                    rt |-> c, hold |-> i, who |-> who]]
    /\ UNCHANGED <<stamps, serial, sent, missed, clock, faults>>

(* confirm-send: claimHeldSend sweeps, then renames the file to itself; it   *)
(* keeps its age.  `who` is the confirming session's agent.                  *)
Claim(p, i, who, c) ==
    /\ Begin(p)
    /\ Swept(held)[i].st = "pending"
    /\ held' = [Swept(held) EXCEPT ![i].st = "claimed"]
    /\ proc' = [proc EXCEPT ![p] = [pc |-> "claimed", kind |-> "confirm", agent |-> held[i].agent,
                                    rt |-> c, hold |-> i, who |-> who]]
    /\ UNCHANGED <<stamps, serial, sent, missed, clock, faults>>

(* The id is unknown, claimed by another, or swept: "re-send instead". *)
ClaimRefused(p, i) ==
    /\ Begin(p)
    /\ held[i] # NoHold
    /\ Swept(held)[i].st # "pending"
    /\ held' = Swept(held)
    /\ UNCHANGED <<stamps, serial, proc, sent, missed, clock, faults>>

(* restoreHeldSend: a rename back, in vain if the claimed file was swept. *)
Restored(i) ==
    IF held[i].st = "claimed" THEN [held EXCEPT ![i].st = "pending"] ELSE held

(* Mutant of NotYours: the refusal leaves the claimed file behind. *)
NotYoursKept(p) ==
    /\ proc[p].pc = "claimed"
    /\ proc[p].who # proc[p].agent
    /\ proc' = [proc EXCEPT ![p] = Idle]
    /\ UNCHANGED <<held, stamps, serial, sent, missed, clock, ops, faults>>

(* A session may confirm its own held sends only. *)
NotYours(p) ==
    /\ proc[p].pc = "claimed"
    /\ proc[p].who # proc[p].agent
    /\ held' = Restored(proc[p].hold)
    /\ proc' = [proc EXCEPT ![p] = Idle]
    /\ UNCHANGED <<stamps, serial, sent, missed, clock, ops, faults>>

Yours(p) ==
    /\ proc[p].pc = "claimed"
    /\ proc[p].who = proc[p].agent
    /\ proc' = [proc EXCEPT ![p].pc = "deliver"]
    /\ UNCHANGED <<stamps, serial, held, sent, missed, clock, ops, faults>>

Delivered(p) ==
    /\ proc[p].pc = "deliver"
    /\ proc' = [proc EXCEPT ![p].pc = "stamp"]
    /\ sent' = IF proc[p].kind = "confirm" THEN [sent EXCEPT ![proc[p].hold] = @ + 1] ELSE sent
    /\ UNCHANGED <<stamps, serial, held, missed, clock, ops, faults>>

DeliveryFails(p) ==
    /\ proc[p].pc = "deliver"
    /\ held' = IF proc[p].kind = "confirm" THEN Restored(proc[p].hold) ELSE held
    /\ proc' = [proc EXCEPT ![p] = Idle]
    /\ UNCHANGED <<stamps, serial, sent, missed, clock, ops, faults>>

(* stampOriginOnDelivered reads the whole file, changes one entry and writes *)
(* the whole file; between the two another process may do the same.          *)
StampRead(p) ==
    /\ proc[p].pc = "stamp"
    /\ proc' = [proc EXCEPT ![p] = [pc |-> "write", kind |-> @.kind, agent |-> @.agent, rt |-> @.rt,
                                    hold |-> IF @.kind = "confirm" THEN @.hold ELSE 0,
                                    seen |-> stamps, now |-> clock]]
    /\ UNCHANGED <<stamps, serial, held, sent, missed, clock, ops, faults>>

StampWrite(p) ==
    /\ proc[p].pc = "write"
    /\ stamps' = IF proc[p].kind # "in" /\ proc[p].seen[proc[p].agent] = NoEntry
                 THEN stamps       \* nothing to disarm: no write
                 ELSE Stamped(proc[p].seen, p, proc[p].now)
    /\ serial' = Stamped(serial, p, proc[p].now)
    /\ proc' = [proc EXCEPT ![p] = IF @.kind = "confirm" THEN [pc |-> "discard", hold |-> @.hold]
                                                         ELSE Idle]
    /\ UNCHANGED <<held, sent, missed, clock, ops, faults>>

(* discardHeldSend, after the delivery. *)
Discard(p) ==
    /\ proc[p].pc = "discard"
    /\ held' = [held EXCEPT ![proc[p].hold].st = "gone"]
    /\ proc' = [proc EXCEPT ![p] = Idle]
    /\ UNCHANGED <<stamps, serial, sent, missed, clock, ops, faults>>

Die(p) ==
    /\ proc[p] # Idle /\ faults < MaxFault
    /\ faults' = faults + 1
    /\ proc' = [proc EXCEPT ![p] = Idle]
    /\ UNCHANGED <<stamps, serial, held, sent, missed, clock, ops>>

Tick ==
    /\ clock < MaxTime
    /\ clock' = clock + 1
    /\ UNCHANGED <<stamps, serial, held, proc, sent, missed, ops, faults>>

Next ==
    \/ \E p \in Proc, a \in Agent, c \in Channel :
        HumanSends(p, a, c) \/ AgentSends(p, a, c) \/ HoldSend(p, a, c) \/ SpoolFails(p, a, c)
    \/ \E p \in Proc, i \in Hold :
        \/ \E w \in Who, c \in Channel : Claim(p, i, w, c)
        \/ ClaimRefused(p, i)
    \/ \E p \in Proc :
        \/ NotYours(p) \/ Yours(p) \/ Delivered(p) \/ DeliveryFails(p)
        \/ StampRead(p) \/ StampWrite(p) \/ Discard(p) \/ Die(p)
    \/ Tick

Spec == Init /\ [][Next]_vars

---------------------------------------------------------------------------
(* The stamps are entries, a held send is in one of its states. *)
TypeOK ==
    /\ stamps \in [Agent -> Entry] /\ serial \in [Agent -> Entry]
    /\ \A i \in Hold : held[i].st \in {"unused", "pending", "claimed", "gone"}
    /\ \A p \in Proc : proc[p].pc \in {"idle", "deliver", "claimed", "stamp", "write", "discard"}
    /\ \A i \in Hold : sent[i] \in Nat
    /\ missed \in BOOLEAN /\ clock \in 0..MaxTime /\ ops \in 0..MaxOp /\ faults \in 0..MaxFault

(* docs/18: "of two concurrent confirms exactly one wins".  Whatever dies,   *)
(* fails and is restored, a held send reaches the human once at most.        *)
HeldOnce == \A i \in Hold : sent[i] <= 1

(* A held send that was not delivered is still there to be confirmed: it is  *)
(* pending, or a live confirmer has it in its hands, or its time is over, or *)
(* a process died.  A refused or failed confirmation does not lose it.       *)
HeldIsKept ==
    \A i \in Hold :
        \/ held[i].st \in {"unused", "pending"}
        \/ sent[i] > 0
        \/ \E p \in Proc : proc[p].pc \in {"claimed", "deliver"} /\ proc[p].kind = "confirm"
                           /\ proc[p].hold = i
        \/ clock - held[i].born > HoldTtl
        \/ faults > 0

(* originGuard.ts:33-34: a lost stamp costs one extra confirmation at most.  *)
(* So no send passes the guard that all the stamps, each applied, would have *)
(* held.  It does not hold: the stamp that is lost may be a question's.      *)
LostStampOnlyConfirms == ~missed
=============================================================================
