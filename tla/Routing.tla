-------------------------------- MODULE Routing --------------------------------
(***************************************************************************)
(* Sending a message to one agent endpoint through the daemon's router:   *)
(* routeSend (transport/index.ts), the composer queue it uses while a     *)
(* human is typing into the agent's terminal, and the daemon's shutdown.  *)
(*                                                                         *)
(* A send finds a ready session (live path) or none (wake path).  On the  *)
(* live path the composer queue may take the message: the sender is       *)
(* answered `queued` at once, and a drain loop delivers the queue when the *)
(* composer is clear.  Deliveries to one address run one after another    *)
(* (deliverTails).  On the wake path one sender wins the wake lock and its *)
(* envelope is the boot message; the others find a live session and must  *)
(* still deliver their own.  Between any two awaits the session may die   *)
(* or be replaced by another with the same name, the human may start or   *)
(* stop typing, other sends run, and the daemon may be told to close.     *)
(*                                                                         *)
(* Bounds: MaxGen sessions of the endpoint.                               *)
(***************************************************************************)
EXTENDS Integers, Sequences, FiniteSets, SequencesExt

CONSTANTS Msg,     \* the sends, one message each
          MaxGen,  \* bound: how many sessions of the endpoint are started
          None     \* no job in the drain's hand

RoutingAssumption == MaxGen \in Nat \ {0} /\ None \notin Msg

VARIABLES
  host,     \* [up, gen, typing]: the session, which one it is, the composer
  inbox,    \* the messages the peer's sessions took, in order
  pasted,   \* the session each message's text was pasted into, 0 for none
  pc,       \* where each send is
  path,     \* "first" live path, "second" after a wake, "queued" by the queue
  answer,   \* what the sender was answered
  told,     \* messages whose sender got a "queued delivery failed" notice
  queue,    \* the composer queue of the address
  token,    \* the session each queued message was accepted for
  drain,    \* [at, job, orphan]: the drain loop, its local job, and whether
            \* its local array is no longer the one in the map
  tail,     \* deliverTails: deliveries to the address, one at a time
  daemon    \* [closed, failing, gone]: failAll was called, its notices, exit

vars == <<host, inbox, pasted, pc, path, answer, told, queue, token, drain,
          tail, daemon>>
hostVars == <<host, inbox, pasted>>
sendVars == <<pc, path, answer>>

Landed == Range(inbox)
Answers == {"none", "ok", "unconfirmed", "queued", "error"}

TypeOK ==
  /\ host \in [up : {"off", "boot", "ready"}, gen : 0..MaxGen, typing : BOOLEAN]
  /\ inbox \in Seq(Msg)
  /\ pasted \in [Msg -> 0..MaxGen]
  /\ pc \in [Msg -> {"new", "gate", "tail", "wake", "boot", "verify", "queued",
                     "done"}]
  /\ path \in [Msg -> {"first", "second", "queued"}]
  /\ answer \in [Msg -> Answers]
  /\ told \subseteq Msg
  /\ queue \in Seq(Msg)
  /\ token \in [Msg -> 0..MaxGen]
  /\ drain \in [at : {"off", "top", "hold", "deliver", "notify", "left"},
                job : Msg \cup {None}, orphan : BOOLEAN]
  /\ tail \in Seq(Msg)
  /\ daemon \in [closed : BOOLEAN, failing : SUBSET Msg, gone : BOOLEAN]

Init ==
  /\ host = [up |-> "off", gen |-> 0, typing |-> FALSE]
  /\ inbox = <<>>
  /\ pasted = [m \in Msg |-> 0]
  /\ pc = [m \in Msg |-> "new"]
  /\ path = [m \in Msg |-> "first"]
  /\ answer = [m \in Msg |-> "none"]
  /\ told = {}
  /\ queue = <<>>
  /\ token = [m \in Msg |-> 0]
  /\ drain = [at |-> "off", job |-> None, orphan |-> FALSE]
  /\ tail = <<>>
  /\ daemon = [closed |-> FALSE, failing |-> {}, gone |-> FALSE]

Running == ~daemon.gone

Reply(m, a) ==
  /\ pc' = [pc EXCEPT ![m] = "done"]
  /\ answer' = [answer EXCEPT ![m] = a]

(* --- the session and the human at its terminal ------------------------- *)

\* Somebody else starts the endpoint (attach, new, another daemon's wake).
Start ==
  /\ host.up = "off" /\ host.gen < MaxGen
  /\ host' = [up |-> "ready", gen |-> host.gen + 1, typing |-> FALSE]
  /\ UNCHANGED <<inbox, pasted, sendVars, told, queue, token, drain, tail,
                 daemon>>

Die ==
  /\ host.up = "ready"
  /\ host' = [host EXCEPT !.up = "off", !.typing = FALSE]
  /\ UNCHANGED <<inbox, pasted, sendVars, told, queue, token, drain, tail,
                 daemon>>

Type ==
  /\ host.up = "ready"
  /\ host' = [host EXCEPT !.typing = ~@]
  /\ UNCHANGED <<inbox, pasted, sendVars, told, queue, token, drain, tail,
                 daemon>>

\* The session takes a pasted message: its transcript now carries it.  It can
\* be late, after the delivery gave up waiting.
Land(m) ==
  /\ host.up = "ready" /\ pasted[m] = host.gen /\ m \notin Landed
  /\ inbox' = Append(inbox, m)
  /\ UNCHANGED <<host, pasted, sendVars, told, queue, token, drain, tail,
                 daemon>>

(* --- routeSend ---------------------------------------------------------- *)

\* The live path up to tryEnqueue's first await: the queue says whether it is
\* closing before it asks whether anybody types.
TryLive(m, p) ==
  /\ path' = [path EXCEPT ![m] = p]
  /\ IF daemon.closed
       THEN Reply(m, "error")
       ELSE pc' = [pc EXCEPT ![m] = "gate"] /\ UNCHANGED answer

Route(m) ==
  /\ Running /\ pc[m] = "new"
  /\ IF host.up = "ready"
       THEN TryLive(m, "first")
       ELSE pc' = [pc EXCEPT ![m] = "wake"] /\ UNCHANGED <<answer, path>>
  /\ UNCHANGED <<hostVars, told, queue, token, drain, tail, daemon>>

\* kick: start a drain unless one is running.
Kick(d) == IF d.at = "off" THEN [d EXCEPT !.at = "top"] ELSE d

\* shouldQueue answered.  Nobody types: on to the live delivery.
GateOpen(m) ==
  /\ Running /\ pc[m] = "gate" /\ ~host.typing
  /\ pc' = [pc EXCEPT ![m] = "tail"]
  /\ tail' = Append(tail, m)
  /\ UNCHANGED <<hostVars, path, answer, told, queue, token, drain, daemon>>

\* Somebody types: the queue takes the message for the session that runs now.
Enqueue(m) ==
  /\ Running /\ pc[m] = "gate" /\ host.typing
  /\ path' = [path EXCEPT ![m] = "queued"]
  /\ pc' = [pc EXCEPT ![m] = "queued"]
  /\ answer' = [answer EXCEPT ![m] = "queued"]
  /\ token' = [token EXCEPT ![m] = host.gen]
  /\ queue' = Append(queue, m)
  /\ drain' = Kick(drain)
  /\ UNCHANGED <<hostVars, told, tail, daemon>>

\* The composer was read as occupied, and the session was gone when its token
\* was asked for.
EnqueueRefused(m) ==
  /\ Running /\ pc[m] = "gate" /\ host.up = "off"
  /\ Reply(m, "error")
  /\ UNCHANGED <<hostVars, path, told, queue, token, drain, tail, daemon>>

\* A wake holds the lock and boots the endpoint with its own envelope.
WakeBoot(m) ==
  /\ Running /\ pc[m] = "wake" /\ host.up = "off" /\ host.gen < MaxGen
  /\ host' = [up |-> "boot", gen |-> host.gen + 1, typing |-> FALSE]
  /\ pc' = [pc EXCEPT ![m] = "boot"]
  /\ UNCHANGED <<inbox, pasted, path, answer, told, queue, token, drain, tail,
                 daemon>>

\* READY: the boot took the envelope as its first message.
BootReady(m) ==
  /\ Running /\ pc[m] = "boot"
  /\ host' = [host EXCEPT !.up = "ready"]
  /\ inbox' = Append(inbox, m)
  /\ pasted' = [pasted EXCEPT ![m] = host.gen]
  /\ pc' = [pc EXCEPT ![m] = "verify"]
  /\ UNCHANGED <<path, answer, told, queue, token, drain, tail, daemon>>

\* FAILED: the boot, or a wake refused for its own reasons.
WakeFails(m) ==
  /\ Running /\ pc[m] \in {"wake", "boot"}
  /\ pc[m] = "wake" => host.up # "boot"
  /\ host' = IF pc[m] = "boot" THEN [host EXCEPT !.up = "off"] ELSE host
  /\ Reply(m, "error")
  /\ UNCHANGED <<inbox, pasted, path, told, queue, token, drain, tail, daemon>>

\* verify-before-act: the answer is ok only if the session is still there.
Verify(m) ==
  /\ Running /\ pc[m] = "verify"
  /\ Reply(m, IF host.up = "ready" THEN "ok" ELSE "error")
  /\ UNCHANGED <<hostVars, path, told, queue, token, drain, tail, daemon>>

\* Mutant of WakeLost: the READY of the other sender's boot is taken for a
\* delivery of this envelope.
WakeLostDelivered(m) ==
  /\ Running /\ pc[m] = "wake" /\ host.up = "ready"
  /\ pc' = [pc EXCEPT ![m] = "verify"]
  /\ UNCHANGED <<hostVars, path, answer, told, queue, token, drain, tail,
                 daemon>>

\* taskDelivered FALSE: another sender's boot won the lock and delivered its
\* own envelope, so this one still goes out on the live path.
WakeLost(m) ==
  /\ Running /\ pc[m] = "wake" /\ host.up = "ready"
  /\ TryLive(m, "second")
  /\ UNCHANGED <<hostVars, told, queue, token, drain, tail, daemon>>

(* --- deliverWarm -------------------------------------------------------- *)

\* The delivery at the head of the chain writes into the host there is now.
Paste ==
  /\ Running /\ tail # <<>> /\ pasted[Head(tail)] = 0 /\ host.up # "off"
  /\ pasted' = [pasted EXCEPT ![Head(tail)] = host.gen]
  /\ UNCHANGED <<host, inbox, sendVars, told, queue, token, drain, tail,
                 daemon>>

\* How a delivery ends: confirmed by the transcript, out of time, or refused
\* by a socket nobody listens on.
Outcomes(m) ==
  IF pasted[m] = 0 THEN (IF host.up = "off" THEN {"error"} ELSE {})
  ELSE IF m \in Landed THEN {"ok"}
  ELSE {IF path[m] = "first" THEN "unconfirmed" ELSE "error"}

\* A direct send is answered; a queued one hands the outcome to the drain.
Settle ==
  /\ Running /\ tail # <<>>
  /\ LET m == Head(tail) IN
     \E o \in Outcomes(m) :
       /\ IF path[m] = "queued"
            THEN /\ drain' = [drain EXCEPT !.at = IF o = "ok" THEN "top"
                                                  ELSE "notify"]
                 /\ pc' = [pc EXCEPT ![m] = "done"]
                 /\ UNCHANGED answer
            ELSE Reply(m, o) /\ UNCHANGED drain
       /\ tail' = Tail(tail)
  /\ UNCHANGED <<hostVars, path, told, queue, token, daemon>>

(* --- the drain loop ------------------------------------------------------ *)

DrainAt(x) == Running /\ drain.at = x
Same(m) == host.up # "off" /\ host.gen = token[m]

\* The queue is empty: the loop returns.
DrainEmpty ==
  /\ DrainAt("top") /\ queue = <<>>
  /\ drain' = [at |-> "left", job |-> None, orphan |-> FALSE]
  /\ UNCHANGED <<hostVars, sendVars, told, queue, token, tail, daemon>>

\* Mutant of DrainLeft: the re-kick is left out.
DrainLeftBehind ==
  /\ DrainAt("left")
  /\ drain' = [drain EXCEPT !.at = "off"]
  /\ UNCHANGED <<hostVars, sendVars, told, queue, token, tail, daemon>>

\* Its finally, later: a job pushed in between found a drain running, so look
\* again.
DrainLeft ==
  /\ DrainAt("left")
  /\ drain' = [drain EXCEPT !.at = IF queue = <<>> THEN "off" ELSE "top"]
  /\ UNCHANGED <<hostVars, sendVars, told, queue, token, tail, daemon>>

\* Mutant of DrainStale: the job of a replaced session is dropped in silence.
DrainStaleSilent ==
  /\ DrainAt("top") /\ queue # <<>> /\ ~Same(Head(queue))
  /\ queue' = Tail(queue)
  /\ pc' = [pc EXCEPT ![Head(queue)] = "done"]
  /\ UNCHANGED <<hostVars, path, answer, told, token, drain, tail, daemon>>

\* The session died or was replaced since the message was accepted.
DrainStale ==
  /\ DrainAt("top") /\ queue # <<>> /\ ~Same(Head(queue))
  /\ queue' = Tail(queue)
  /\ drain' = [drain EXCEPT !.at = "notify", !.job = Head(queue)]
  /\ pc' = [pc EXCEPT ![Head(queue)] = "done"]
  /\ UNCHANGED <<hostVars, path, answer, told, token, tail, daemon>>

\* Ask whether the human still types; the job stays in the queue meanwhile.
DrainAsk ==
  /\ DrainAt("top") /\ queue # <<>> /\ Same(Head(queue))
  /\ drain' = [at |-> "hold", job |-> Head(queue), orphan |-> FALSE]
  /\ UNCHANGED <<hostVars, sendVars, told, queue, token, tail, daemon>>

\* Still typing: poll again later.
DrainWait ==
  /\ DrainAt("hold") /\ host.typing
  /\ drain' = [at |-> "top", job |-> None, orphan |-> FALSE]
  /\ UNCHANGED <<hostVars, sendVars, told, queue, token, tail, daemon>>

\* Take the head out of the queue, then deliver it.
Commit(m) ==
  /\ drain' = [at |-> "deliver", job |-> m, orphan |-> FALSE]
  /\ pc' = [pc EXCEPT ![m] = "tail"]
  /\ tail' = Append(tail, m)
  /\ UNCHANGED <<hostVars, path, answer, told, token, daemon>>

\* Nobody types.  The loop shifts its own array, which is the queue's unless
\* failAll emptied the map meanwhile.
DrainCommit ==
  /\ DrainAt("hold") /\ ~host.typing
  /\ queue' = IF drain.orphan THEN queue ELSE Tail(queue)
  /\ Commit(drain.job)

\* After the force timeout the composer is not even asked.
DrainForce ==
  /\ DrainAt("top") /\ queue # <<>> /\ Same(Head(queue))
  /\ queue' = Tail(queue)
  /\ Commit(Head(queue))

\* The failure notice to the sender; it is best effort and its own failure is
\* swallowed, which is left out here.
DrainNotify ==
  /\ DrainAt("notify")
  /\ told' = told \cup {drain.job}
  /\ drain' = [at |-> "top", job |-> None, orphan |-> FALSE]
  /\ UNCHANGED <<hostVars, sendVars, queue, token, tail, daemon>>

(* --- shutdown ------------------------------------------------------------- *)

\* failAll: close the queue, empty it, and tell every sender in it.
Close ==
  /\ Running /\ ~daemon.closed
  /\ daemon' = [daemon EXCEPT !.closed = TRUE, !.failing = Range(queue)]
  /\ queue' = <<>>
  /\ drain' = [drain EXCEPT !.orphan = drain.at = "hold"]
  /\ UNCHANGED <<hostVars, sendVars, told, token, tail>>

FailOne(m) ==
  /\ Running /\ m \in daemon.failing
  /\ told' = told \cup {m}
  /\ daemon' = [daemon EXCEPT !.failing = @ \ {m}]
  /\ UNCHANGED <<hostVars, sendVars, queue, token, drain, tail>>

\* The servers close, every open request with them, and the process ends.
Exit ==
  /\ Running /\ daemon.closed /\ daemon.failing = {}
  /\ daemon' = [daemon EXCEPT !.gone = TRUE]
  /\ answer' = [m \in Msg |-> IF pc[m] # "new" /\ answer[m] = "none"
                                THEN "error" ELSE answer[m]]
  /\ UNCHANGED <<hostVars, pc, path, told, queue, token, drain, tail>>

Delivery == Paste \/ Settle
DrainStep == DrainEmpty \/ DrainLeft \/ DrainStale \/ DrainAsk \/ DrainWait
               \/ DrainCommit \/ DrainNotify

Next ==
  \/ Start \/ Die \/ Type \/ \E m \in Msg : Land(m)
  \/ \E m \in Msg : Route(m) \/ GateOpen(m) \/ Enqueue(m) \/ EnqueueRefused(m)
  \/ \E m \in Msg : WakeBoot(m) \/ BootReady(m) \/ WakeFails(m) \/ Verify(m)
                      \/ WakeLost(m)
  \/ Delivery \/ DrainStep \/ DrainForce
  \/ Close \/ (\E m \in Msg : FailOne(m)) \/ Exit

Spec == Init /\ [][Next]_vars
\* The drain's awaits return; a held message is forced once its 120 seconds
\* are over, however long the human types; a confirm window runs out.
FairSpec == Spec /\ WF_vars(DrainStep) /\ SF_vars(DrainForce) /\ WF_vars(Delivery)

(* --- properties ------------------------------------------------------------ *)

\* An ok is never a false one: a message answered ok was taken by a session,
\* also when the sender lost the race for the wake to another sender.
NoFalseOk == \A m \in Msg : answer[m] = "ok" => m \in Landed

\* A `queued` answer is a promise: while the daemon is not closing, such a
\* message is in the queue, in the drain's hand, delivered, or its sender was
\* told that it failed.
QueuedHasAFate ==
  ~daemon.closed =>
    \A m \in Msg : answer[m] = "queued" =>
      m \in Range(queue) \cup Range(tail) \cup {drain.job} \cup Landed \cup told

\* ... and every queued message gets its outcome, whatever the human and the
\* sessions do, unless the daemon closes: no push falls between two drains.
QueuedSettles ==
  \A m \in Msg :
    answer[m] = "queued" ~> (m \in Landed \cup told \/ daemon.closed)

\* The contract next to the drain's shift: a message is never both failed to
\* its sender by the shutdown and delivered afterwards (В8).  The code does
\* not keep it: the drain holds its own array across the composer read.
NeverFailedAndDelivered ==
  [][\A m \in Msg : m \in told => pasted'[m] = pasted[m]]_vars

\* The main module's promise of the shutdown: `queued` never becomes silent
\* loss.  The code does not keep it either.
NoSilentLoss ==
  daemon.gone => \A m \in Msg : answer[m] = "queued" =>
                   m \in Landed \cup told \/ pasted[m] # 0

\* A queued message is pasted only into the session it was accepted for.  The
\* check comes before an await, and the code does not keep this.
OnlyItsSession ==
  \A m \in Msg : path[m] = "queued" /\ pasted[m] # 0 => pasted[m] = token[m]
=============================================================================
