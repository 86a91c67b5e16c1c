-------------------------------- MODULE Attach --------------------------------
(***************************************************************************)
(* How a terminal that attaches to a hosted session catches up             *)
(* (supervisor/daemon.ts firstAttach, sendSnapshot, data; client.ts).  The *)
(* child's output goes to a screen model, which parses it asynchronously,  *)
(* and to the attached clients.  A client that attaches is first held back *)
(* from the live output, gets one snapshot of the model, and only then the *)
(* live output: the snapshot must hold exactly what the client missed.     *)
(***************************************************************************)
EXTENDS Naturals, FiniteSets

CONSTANTS Viewer,       \* attaching clients
          MaxOut        \* chunks of output the child emits

VARIABLES out,          \* chunks emitted (writeSeq)
          parsed,       \* of them parsed by the model (writeChain)
          pc,           \* client -> where its firstAttach is
          seq,          \* client -> the writeSeq it last looked at
          snap,         \* client -> what its snapshot held
          live,         \* client -> the chunks forwarded to it
          hasty,        \* clients whose snapshot did not wait to the end
          redrawn       \* clients whose resize made the child redraw

vars == <<out, parsed, pc, seq, snap, live, hasty, redrawn>>

AttachAssumption == MaxOut \in Nat /\ IsFiniteSet(Viewer)

\* The clients that get the live output.
Forwarded == {v \in Viewer : pc[v] = "live"}

Init ==
    /\ out = 0 /\ parsed = 0
    /\ pc = [v \in Viewer |-> "off"]
    /\ seq = [v \in Viewer |-> 0]
    /\ snap = [v \in Viewer |-> 0]
    /\ live = [v \in Viewer |-> {}]
    /\ hasty = {} /\ redrawn = {}

-----------------------------------------------------------------------------
\* The child writes: into the model's queue, and to every client that is not
\* initializing.
Emit ==
    /\ out < MaxOut
    /\ out' = out + 1
    /\ live' = [v \in Viewer |-> IF v \in Forwarded THEN live[v] \cup {out + 1} ELSE live[v]]
    /\ UNCHANGED <<parsed, pc, seq, snap, hasty, redrawn>>

Parse == /\ parsed < out
         /\ parsed' = parsed + 1
         /\ UNCHANGED <<out, pc, seq, snap, live, hasty, redrawn>>

Open(v) == /\ pc[v] = "off"
           /\ pc' = [pc EXCEPT ![v] = "open"]
           /\ UNCHANGED <<out, parsed, seq, snap, live, hasty, redrawn>>

\* The first frame of a viewer is its size; it begins the catch-up.
FirstSize(v) ==
    /\ pc[v] = "open"
    /\ pc' = [pc EXCEPT ![v] = "drain"]
    /\ seq' = [seq EXCEPT ![v] = out]
    /\ UNCHANGED <<out, parsed, snap, live, hasty, redrawn>>

\* The snapshot is built, sent and the gate lifted in one piece.
Send(v) ==
    /\ snap' = [snap EXCEPT ![v] = parsed]
    /\ live' = [live EXCEPT ![v] = {}]
    /\ pc' = [pc EXCEPT ![v] = "live"]

\* Mutant of Stable: one parse barrier is enough.
StableOnce(v) == parsed >= seq[v]

\* awaitModelParsedStable: all parsed, and nothing came in meanwhile.
Stable(v) == parsed >= seq[v] /\ seq[v] = out

\* Not yet stable: look again, or run out of the budget a saturating child
\* leaves.
LookAgain(v) ==
    /\ pc[v] \in {"drain", "settle"} /\ parsed >= seq[v] /\ ~Stable(v)
    /\ seq' = [seq EXCEPT ![v] = out]
    /\ UNCHANGED <<out, parsed, pc, snap, live, hasty, redrawn>>

Drained(v) == Stable(v) \/ (parsed >= seq[v] /\ v \in hasty)

BudgetSpent(v) ==
    /\ pc[v] \in {"drain", "settle"} /\ parsed >= seq[v] /\ ~Stable(v) /\ v \notin hasty
    /\ hasty' = hasty \cup {v}
    /\ UNCHANGED <<out, parsed, pc, seq, snap, live, redrawn>>

SameSize(v) ==
    /\ pc[v] = "drain" /\ Drained(v)
    /\ Send(v)
    /\ UNCHANGED <<out, parsed, seq, hasty, redrawn>>

\* Another size: model and child are resized, and the redraw is waited for.
OtherSize(v) ==
    /\ pc[v] = "drain" /\ Drained(v)
    /\ pc' = [pc EXCEPT ![v] = "bump"]
    /\ seq' = [seq EXCEPT ![v] = out]
    /\ UNCHANGED <<out, parsed, snap, live, hasty, redrawn>>

\* awaitSeqBump: the redraw begins to arrive, or the child has none.
Redraw(v) ==
    /\ pc[v] = "bump"
    /\ pc' = [pc EXCEPT ![v] = "settle"]
    /\ redrawn' = IF out # seq[v] THEN redrawn \cup {v} ELSE redrawn
    /\ seq' = [seq EXCEPT ![v] = out]
    /\ UNCHANGED <<out, parsed, snap, live, hasty>>

Settled(v) ==
    /\ pc[v] = "settle" /\ Drained(v)
    /\ Send(v)
    /\ UNCHANGED <<out, parsed, seq, hasty, redrawn>>

\* The redraw pushed rows into an empty scrollback: they are erased, and the
\* erasure is awaited before the snapshot.
Erase(v) ==
    /\ pc[v] = "settle" /\ Drained(v) /\ v \in redrawn
    /\ pc' = [pc EXCEPT ![v] = "erase"]
    /\ seq' = [seq EXCEPT ![v] = out]
    /\ UNCHANGED <<out, parsed, snap, live, hasty, redrawn>>

Erased(v) ==
    /\ pc[v] = "erase" /\ parsed >= seq[v]
    /\ Send(v)
    /\ hasty' = hasty \cup {v}
    /\ UNCHANGED <<out, parsed, seq, redrawn>>

\* A client detaches, or its socket dies under back-pressure.
Leave(v) ==
    /\ pc[v] = "live"
    /\ pc' = [pc EXCEPT ![v] = "gone"]
    /\ UNCHANGED <<out, parsed, seq, snap, live, hasty, redrawn>>

Step(v) == LookAgain(v) \/ SameSize(v) \/ OtherSize(v) \/ Redraw(v) \/ Settled(v) \/ Erase(v)
           \/ Erased(v)

Next == \/ Emit \/ Parse
        \/ \E v \in Viewer : \/ Open(v) \/ FirstSize(v) \/ LookAgain(v) \/ BudgetSpent(v)
                             \/ SameSize(v) \/ OtherSize(v) \/ Redraw(v) \/ Settled(v)
                             \/ Erase(v) \/ Erased(v) \/ Leave(v)

Fairness == WF_vars(Parse) /\ \A v \in Viewer : WF_vars(Step(v))

Spec == Init /\ [][Next]_vars /\ Fairness

-----------------------------------------------------------------------------
TypeOK ==
    /\ out \in 0 .. MaxOut /\ parsed \in 0 .. out
    /\ \A v \in Viewer :
          /\ pc[v] \in {"off", "open", "drain", "bump", "settle", "erase", "live", "gone"}
          /\ seq[v] \in 0 .. out /\ snap[v] \in 0 .. parsed
          /\ live[v] \subseteq 1 .. out
    /\ hasty \cup redrawn \subseteq Viewer

Missed(v) == (1 .. out) \ ((1 .. snap[v]) \cup live[v])

\* No output is shown twice to a client, and a client whose snapshot waited
\* for the model to be stable misses none, although the child writes all the
\* time (the initializing gate and the parse barrier).
SeesItOnce ==
    \A v \in Forwarded : /\ live[v] \cap (1 .. snap[v]) = {}
                         /\ v \notin hasty => Missed(v) = {}

\* "once the snapshot is sent the client leaves this set and live forwarding
\* resumes - no gap, no duplication" (daemon.ts): no client at all misses
\* output.  The code does not keep it for a client that could not wait for
\* the model to be stable.
NoGap == \A v \in Forwarded : Missed(v) = {}

\* A client that attached gets its snapshot, however the child writes.
CatchesUp == \A v \in Viewer : (pc[v] = "drain") ~> (pc[v] \in {"live", "gone"})
=============================================================================
