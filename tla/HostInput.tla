------------------------------ MODULE HostInput ------------------------------
(***************************************************************************)
(* What goes into a hosted session and how its host ends                   *)
(* (supervisor/daemon.ts, deliver.ts, processTree.ts).  A delivery is a    *)
(* client that pastes its message, waits for the host's acknowledgement,   *)
(* then sends the return key on the same connection; other deliveries, a   *)
(* person at an attached terminal and the reload fence share the one       *)
(* composer.  The host ends when its child dies or when it is signalled,   *)
(* and writes one line about it.                                           *)
(***************************************************************************)
EXTENDS Naturals, Sequences, FiniteSets

CONSTANTS Sender,       \* deliveries
          MaxTyped      \* lines typed by a person

VARIABLES pc,           \* sender -> where its delivery is
          composer,     \* what lies in the composer, unsubmitted
          turns,        \* what was submitted, turn by turn
          typed,
          consumed,     \* the runtime recorded every input as consumed
          fence,        \* the reload fence: "free", "ready" or "committed"
          child,        \* "alive", "dead" or "reaped"
          host,         \* "up", "down" (it exited) or "killed" (kill -9)
          exitLogged,
          lines         \* session-exit lines written

vars == <<pc, composer, turns, typed, consumed, fence, child, host, exitLogged, lines>>
inputVars == <<composer, turns, typed, consumed>>
endVars == <<child, host, exitLogged, lines>>

HostInputAssumption == MaxTyped \in Nat /\ IsFiniteSet(Sender)

Person == "person"
Connected == {s \in Sender : pc[s] \in {"connected", "pasted", "acked", "entered"}}
Submitted == UNION {{turns[i][j] : j \in DOMAIN turns[i]} : i \in DOMAIN turns}

Init ==
    /\ pc = [s \in Sender |-> "idle"]
    /\ composer = <<>> /\ turns = <<>> /\ typed = 0 /\ consumed = TRUE
    /\ fence = "free"
    /\ child = "alive" /\ host = "up" /\ exitLogged = FALSE /\ lines = 0

-----------------------------------------------------------------------------
(* deliverToHost *)

Connect(s) ==
    /\ pc[s] = "idle"
    /\ pc' = [pc EXCEPT ![s] = IF host = "up" THEN "connected" ELSE "failed"]
    /\ UNCHANGED <<inputVars, fence, endVars>>

\* A frame of input: refused by a fence, written to the child otherwise.  A
\* child that is gone swallows it, and the host acknowledges all the same.
Paste(s) ==
    /\ pc[s] = "connected" /\ host = "up"
    /\ IF fence # "free"
       THEN pc' = [pc EXCEPT ![s] = "failed"] /\ UNCHANGED <<composer, consumed>>
       ELSE /\ pc' = [pc EXCEPT ![s] = "pasted"]
            /\ composer' = IF child = "alive" THEN Append(composer, s) ELSE composer
            /\ consumed' = FALSE
    /\ UNCHANGED <<turns, typed, fence, endVars>>

Acked(s) ==
    /\ pc[s] = "pasted"
    /\ pc' = [pc EXCEPT ![s] = IF host = "up" THEN "acked" ELSE "failed"]
    /\ UNCHANGED <<inputVars, fence, endVars>>

\* The acknowledgement does not come in time, or the socket dies: the
\* connection is closed and what was pasted stays where it is.
GivesUp(s) ==
    /\ pc[s] \in {"connected", "pasted", "acked", "entered"}
    /\ pc' = [pc EXCEPT ![s] = "failed"]
    /\ UNCHANGED <<inputVars, fence, endVars>>

\* The return key submits all that the composer holds, whoever put it there.
Return ==
    IF child = "alive" /\ composer # <<>>
    THEN turns' = Append(turns, composer) /\ composer' = <<>> /\ consumed' = TRUE
    ELSE UNCHANGED <<turns, composer, consumed>>

Enter(s) ==
    /\ pc[s] = "acked" /\ host = "up"
    /\ pc' = [pc EXCEPT ![s] = IF fence # "free" THEN "failed" ELSE "entered"]
    /\ IF fence # "free" THEN UNCHANGED <<turns, composer, consumed>> ELSE Return
    /\ UNCHANGED <<typed, fence, endVars>>

\* Mutant of Delivered: what was pasted counts as delivered.
DeliveredAtPaste(s) == pc[s] \in {"acked", "entered"}

\* Both frames were acknowledged.
Delivered(s) == pc[s] = "entered"

Finish(s) ==
    /\ Delivered(s)
    /\ pc' = [pc EXCEPT ![s] = IF host = "up" THEN "ok" ELSE "failed"]
    /\ UNCHANGED <<inputVars, fence, endVars>>

-----------------------------------------------------------------------------
(* A person at an attached terminal, and the reload *)

Type == /\ host = "up" /\ fence = "free" /\ typed < MaxTyped /\ child = "alive"
        /\ typed' = typed + 1
        /\ composer' = Append(composer, Person)
        /\ consumed' = FALSE
        /\ UNCHANGED <<pc, turns, fence, endVars>>

PressReturn == /\ host = "up" /\ fence = "free" /\ child = "alive" /\ Person \in {composer[i] : i \in DOMAIN composer}
               /\ Return
               /\ UNCHANGED <<pc, typed, fence, endVars>>

\* Mutant of Quiet: an idle turn is proof enough.
QuietTurn == Connected = {}

\* acquire: no other client, and every input known to be consumed.
Quiet == Connected = {} /\ consumed

Acquire == /\ host = "up" /\ child = "alive" /\ fence = "free" /\ Quiet
           /\ fence' = "ready"
           /\ UNCHANGED <<pc, inputVars, endVars>>

Release == /\ fence = "ready" /\ fence' = "free"
           /\ UNCHANGED <<pc, inputVars, endVars>>

Commit == /\ fence = "ready" /\ host = "up"
          /\ fence' = "committed"
          /\ UNCHANGED <<pc, inputVars, endVars>>

-----------------------------------------------------------------------------
(* The end of the host *)

\* shutdown: once; the child's own death is not written a second time.
Shutdown == /\ host = "up"
            /\ host' = "down"
            /\ exitLogged' = TRUE
            /\ lines' = IF exitLogged THEN lines ELSE lines + 1
            /\ child' = "reaped"

\* SIGTERM or SIGINT, or the 25 ms after a committed fence.
Signalled == /\ Shutdown
             /\ UNCHANGED <<pc, inputVars, fence>>

\* The pty closes; the exit status comes later, and with it the line.
ChildExits == /\ child = "alive" /\ host = "up"
              /\ child' = "dead" /\ exitLogged' = TRUE
              /\ UNCHANGED <<pc, inputVars, fence, host, lines>>

\* finish: the line is written and the host shuts down, which writes another
\* unless the death is already marked as logged.
Reaped == /\ child = "dead" /\ host = "up"
          /\ child' = "reaped" /\ host' = "down"
          /\ lines' = lines + IF exitLogged THEN 1 ELSE 2
          /\ exitLogged' = TRUE
          /\ UNCHANGED <<pc, inputVars, fence>>

Killed == /\ host = "up" /\ host' = "killed"
          /\ child' = "reaped"
          /\ UNCHANGED <<pc, inputVars, fence, exitLogged, lines>>

Next == \/ Type \/ PressReturn \/ Acquire \/ Release \/ Commit
        \/ Signalled \/ ChildExits \/ Reaped \/ Killed
        \/ \E s \in Sender : Connect(s) \/ Paste(s) \/ Acked(s) \/ GivesUp(s) \/ Enter(s) \/ Finish(s)

Spec == Init /\ [][Next]_vars

-----------------------------------------------------------------------------
TypeOK ==
    /\ pc \in [Sender -> {"idle", "connected", "pasted", "acked", "entered", "ok", "failed"}]
    /\ Len(composer) <= Cardinality(Sender) + MaxTyped
    /\ typed \in 0 .. MaxTyped
    /\ {consumed, exitLogged} \subseteq BOOLEAN
    /\ fence \in {"free", "ready", "committed"}
    /\ child \in {"alive", "dead", "reaped"} /\ host \in {"up", "down", "killed"}
    /\ lines \in 0 .. 2

\* A delivery that reports success was submitted, alone or with what others
\* had left in the composer, as long as the child was there to take it; and a
\* reload that is committed takes no unsubmitted input with it (deliverToHost,
\* the fence of onClientFrame).
NothingLeftBehind ==
    /\ \A s \in Sender : pc[s] = "ok" /\ child = "alive" => s \in Submitted
    /\ fence = "committed" => composer = <<>>

\* "Now every in-process exit path writes exactly one line" (daemon.ts).  The
\* code does not keep it: a signal between the end of the pty and the exit
\* status leaves no line.
ExitTraced == host = "down" => lines = 1
=============================================================================
