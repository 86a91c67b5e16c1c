------------------------------- MODULE Approvals -------------------------------
(***************************************************************************)
(* A blocked prompt and the human who answers it: the supervisor's        *)
(* watcher of modal dialogs (supervisor/daemon.ts, supervisor/boot.ts),   *)
(* its request to the approval broker (supervisor/approvalRoute.ts,       *)
(* approval/brokerClient.ts), the hook of a gated runtime that asks the   *)
(* same broker (approval/hook.ts), and the broker with the faces that     *)
(* answer (daemon/approvals.ts, daemon/fleet.ts).                         *)
(*                                                                         *)
(* A modal is a value that stands for the content signature the watcher   *)
(* compares.  The session may show another one at any time, before the    *)
(* answer arrives too; a face may still show a card that is gone; the     *)
(* daemon may restart, which forgets every request and counts ids anew.   *)
(*                                                                         *)
(* Bounds: MaxId requests per daemon (a later one finds it unreachable),  *)
(* MaxRestart restarts of the daemon.                                     *)
(***************************************************************************)
EXTENDS Integers, FiniteSets

CONSTANTS Modal,      \* content signatures of the modals a session may show
          ClassOf,    \* "known", "org", "unknown" or "nag" for each of them
          Tool,       \* contents of tool calls a hook asks about
          Gated,      \* the peer's approval mode: gated, or yolo
          MaxTries,   \* MAX_UNKNOWN_MODAL_ATTEMPTS
          MaxId, MaxRestart,
          None        \* nothing to act on, no asker

ApprovalsAssumption ==
  /\ ClassOf \in [Modal -> {"known", "org", "unknown", "nag"}]
  /\ Gated \in BOOLEAN /\ MaxTries \in Nat \ {0}
  /\ MaxId \in Nat \ {0} /\ MaxRestart \in Nat
  /\ Modal \cap Tool = {} /\ None \notin Modal \cup Tool \cup {"breaker", "hook"}

VARIABLES
  screen,    \* the modal the pane shows, or None
  fence,     \* a reload holds the input fence
  watch,     \* [sig, tries, parked, busy, rest] of the watcher
  ask,       \* ask[a]: the request of the watcher ("breaker") or of a hook
  card,      \* card[i]: whose pending request has id i in the broker
  lastId,    \* the broker's counter
  faces,     \* cards <<id, content>> some face shows
  yes,       \* history: cards <<id, content>> on which a human pressed allow
  keys,      \* history: affirmative keys by the broker route, with the pane
  passed,    \* history: <<id, content>> of tool calls a hook let pass
  restarts

vars == <<screen, fence, watch, ask, card, lastId, faces, yes, keys, passed,
          restarts>>
brokerVars == <<card, lastId, faces, yes, restarts>>
paneVars == <<screen, fence>>

Asker == {"breaker", "hook"}
Content == Modal \cup Tool
Ids == 1..MaxId
Idle == [at |-> "idle", content |-> None, id |-> 0, verdict |-> "deny",
         stale |-> FALSE]

TypeOK ==
  /\ screen \in Modal \cup {None} /\ fence \in BOOLEAN
  /\ watch \in [sig : Modal \cup {None}, tries : 0..MaxTries,
                parked : BOOLEAN, busy : BOOLEAN, rest : BOOLEAN]
  /\ ask \in [Asker -> [at : {"idle", "posting", "open", "back"},
                        content : Content \cup {None}, id : 0..MaxId,
                        verdict : {"allow", "deny"}, stale : BOOLEAN]]
  /\ card \in [Ids -> Asker \cup {None}] /\ lastId \in 0..MaxId
  /\ faces \subseteq Ids \X Content /\ yes \subseteq Ids \X Content
  /\ keys \subseteq Ids \X Modal \X Modal /\ passed \subseteq Ids \X Tool
  /\ restarts \in 0..MaxRestart

Init ==
  /\ screen = None /\ fence = FALSE
  /\ watch = [sig |-> None, tries |-> 0, parked |-> FALSE, busy |-> FALSE,
              rest |-> FALSE]
  /\ ask = [a \in Asker |-> Idle]
  /\ card = [i \in Ids |-> None] /\ lastId = 0
  /\ faces = {} /\ yes = {} /\ keys = {} /\ passed = {} /\ restarts = 0

(* --- the session ---------------------------------------------------------- *)

Show(s) ==
  /\ s # screen /\ screen' = s
  /\ UNCHANGED <<fence, watch, ask, brokerVars, keys, passed>>

Fence ==
  /\ fence' = ~fence
  /\ UNCHANGED <<screen, watch, ask, brokerVars, keys, passed>>

(* --- the watcher ----------------------------------------------------------- *)

\* The budget of asks belongs to one signature.
Looked ==
  IF screen = watch.sig THEN watch
  ELSE [watch EXCEPT !.sig = screen, !.tries = 0, !.parked = FALSE]

\* What a stable prompt calls for.
ToHuman ==
  ClassOf[screen] \in (IF Gated THEN {"org", "unknown", "known"}
                       ELSE {"org", "unknown"})
Spent == ClassOf[screen] = "unknown" /\ watch.tries >= MaxTries

TickEnabled == ~watch.rest /\ ~fence

\* Nothing to do yet: the prompt is new, gone, or not stable for long enough.
TickLook ==
  /\ TickEnabled /\ watch' = Looked
  /\ UNCHANGED <<paneVars, ask, brokerVars, keys, passed>>

\* A stable prompt the watcher answers itself: a nag is declined, and under
\* yolo a known breaker is confirmed.
TickPress ==
  /\ TickEnabled /\ screen # None /\ screen = watch.sig /\ ~ToHuman
  /\ watch' = [watch EXCEPT !.rest = TRUE]
  /\ UNCHANGED <<paneVars, ask, brokerVars, keys, passed>>

\* One that keys did not clear, too often: stop asking.
TickPark ==
  /\ TickEnabled /\ screen # None /\ screen = watch.sig /\ ToHuman
  /\ ~watch.busy /\ Spent
  /\ watch' = [watch EXCEPT !.parked = TRUE]
  /\ UNCHANGED <<paneVars, ask, brokerVars, keys, passed>>

\* One for the human, one request at a time.
TickAsk ==
  /\ TickEnabled /\ screen # None /\ screen = watch.sig /\ ToHuman
  /\ ~watch.busy /\ ~Spent
  /\ ClassOf[screen] = "unknown" => ~watch.parked
  /\ watch' = [watch EXCEPT !.busy = TRUE,
                 !.tries = IF ClassOf[screen] = "unknown" THEN @ + 1 ELSE @]
  /\ ask' = [ask EXCEPT !["breaker"] = [Idle EXCEPT !.at = "posting",
                                                    !.content = screen]]
  /\ UNCHANGED <<paneVars, brokerVars, keys, passed>>

\* The hold after an answer, while the modal repaints away.
Rested ==
  /\ watch.rest /\ watch' = [watch EXCEPT !.rest = FALSE]
  /\ UNCHANGED <<paneVars, ask, brokerVars, keys, passed>>

(* --- the request ------------------------------------------------------------ *)

\* A hook blocks its tool call on the broker.
HookAsk(t) ==
  /\ ask["hook"].at = "idle"
  /\ ask' = [ask EXCEPT !["hook"] = [Idle EXCEPT !.at = "posting",
                                                 !.content = t]]
  /\ UNCHANGED <<paneVars, watch, brokerVars, keys, passed>>

Post(a) ==
  /\ ask[a].at = "posting" /\ lastId < MaxId
  /\ lastId' = lastId + 1
  /\ card' = [card EXCEPT ![lastId + 1] = a]
  /\ ask' = [ask EXCEPT ![a].at = "open", ![a].id = lastId + 1]
  /\ UNCHANGED <<paneVars, watch, faces, yes, keys, passed, restarts>>

\* Closing the connection makes the broker cancel what is still pending.
Dropped(a) == [i \in Ids |-> IF card[i] = a THEN None ELSE card[i]]

\* Mutant of Fault: a fault is no reason to stop the peer.
FaultAllows(a) ==
  /\ ask[a].at \in {"posting", "open", "back"}
  /\ card' = Dropped(a)
  /\ ask' = [ask EXCEPT ![a].at = "back", ![a].verdict = "allow"]
  /\ UNCHANGED <<paneVars, watch, lastId, faces, yes, keys, passed, restarts>>

\* Unreachable, aborted, timed out, or a broken answer: deny.
Fault(a) ==
  /\ ask[a].at \in {"posting", "open", "back"}
  /\ card' = Dropped(a)
  /\ ask' = [ask EXCEPT ![a].at = "back", ![a].verdict = "deny"]
  /\ UNCHANGED <<paneVars, watch, lastId, faces, yes, keys, passed, restarts>>

\* The poll beside the open request: its modal is gone, so close it.
StalePoll ==
  /\ ask["breaker"].at # "idle" /\ screen # ask["breaker"].content
  /\ card' = Dropped("breaker")
  /\ ask' = [ask EXCEPT !["breaker"].at = "back", !["breaker"].verdict = "deny",
                        !["breaker"].stale = TRUE]
  /\ UNCHANGED <<paneVars, watch, lastId, faces, yes, keys, passed, restarts>>

HookDies ==
  /\ ask["hook"].at # "idle"
  /\ card' = Dropped("hook") /\ ask' = [ask EXCEPT !["hook"] = Idle]
  /\ UNCHANGED <<paneVars, watch, lastId, faces, yes, keys, passed, restarts>>

(* --- the broker and its faces ------------------------------------------------ *)

\* Whoever settles first wins; the entry is gone for everybody else.
Settle(i, v) ==
  /\ card' = [card EXCEPT ![i] = None]
  /\ ask' = [ask EXCEPT ![card[i]].at = "back", ![card[i]].verdict = v]

Timeout(i) ==
  /\ card[i] # None /\ Settle(i, "deny")
  /\ UNCHANGED <<paneVars, watch, lastId, faces, yes, keys, passed, restarts>>

See(i) ==
  /\ card[i] # None
  /\ faces' = faces \cup {<<i, ask[card[i]].content>>}
  /\ UNCHANGED <<paneVars, watch, ask, card, lastId, yes, keys, passed, restarts>>

\* An unknown id answers nothing.
Answer(c, v) ==
  /\ c \in faces
  /\ faces' = faces \ {c}
  /\ yes' = IF v = "allow" THEN yes \cup {c} ELSE yes
  /\ IF card[c[1]] = None THEN UNCHANGED <<card, ask>> ELSE Settle(c[1], v)
  /\ UNCHANGED <<paneVars, watch, lastId, keys, passed, restarts>>

\* Pending requests do not survive; their connections break.
DaemonRestart ==
  /\ restarts < MaxRestart /\ restarts' = restarts + 1
  /\ card' = [i \in Ids |-> None] /\ lastId' = 0
  /\ ask' = [a \in Asker |-> IF ask[a].at = "open"
                               THEN [ask[a] EXCEPT !.at = "back"] ELSE ask[a]]
  /\ UNCHANGED <<paneVars, watch, faces, yes, keys, passed>>

(* --- the decision ------------------------------------------------------------- *)

\* Mutant of Answered: the watcher forgets how often it asked.
AnsweredAnew ==
  watch' = [watch EXCEPT !.busy = FALSE, !.rest = TRUE, !.tries = 0]

Answered == watch' = [watch EXCEPT !.busy = FALSE, !.rest = TRUE]

\* Mutant of Proved: only the poll watches the modal.
ProvedByPoll(r) == ~r.stale

\* The modal is proved once more, with no await before the keys are written.
Proved(r) == ~r.stale /\ screen = r.content

BreakerDecides ==
  LET r == ask["breaker"] IN
  /\ r.at = "back"
  /\ keys' = IF Proved(r) /\ ~fence /\ r.verdict = "allow" /\ screen # None
               THEN keys \cup {<<r.id, r.content, screen>>} ELSE keys
  /\ ask' = [ask EXCEPT !["breaker"] = Idle]
  /\ Answered
  /\ UNCHANGED <<paneVars, brokerVars, passed>>

HookDecides ==
  LET r == ask["hook"] IN
  /\ r.at = "back"
  /\ passed' = IF r.verdict = "allow" THEN passed \cup {<<r.id, r.content>>}
               ELSE passed
  /\ ask' = [ask EXCEPT !["hook"] = Idle]
  /\ UNCHANGED <<paneVars, watch, brokerVars, keys>>

Request(a) == Post(a) \/ Fault(a)
Tick == TickLook \/ TickPress \/ TickPark \/ TickAsk

Next ==
  \/ \E s \in Modal \cup {None} : Show(s)
  \/ Fence \/ Tick \/ Rested \/ StalePoll \/ HookDies \/ DaemonRestart
  \/ \E t \in Tool : HookAsk(t)
  \/ \E a \in Asker : Request(a)
  \/ \E i \in Ids : Timeout(i) \/ See(i)
  \/ \E i \in Ids, c \in Content, v \in {"allow", "deny"} : Answer(<<i, c>>, v)
  \/ BreakerDecides \/ HookDecides

Spec == Init /\ [][Next]_vars
\* The timer ticks, a request times out at the broker or fails, and the
\* continuation of an answered one runs.
FairSpec ==
  Spec /\ WF_vars(BreakerDecides) /\ WF_vars(Request("breaker"))
       /\ \A i \in Ids : WF_vars(Timeout(i))

(* --- properties ------------------------------------------------------------------ *)

\* Every affirmative key of a human's request, and every tool call a hook let
\* pass, goes back to a human's allow of that request's id; no timeout, fault,
\* restart or abort is ever read as one.  The keys reach the pane only while it
\* shows the very modal the request was raised for, however late the answer.
OnlyTheHumanAllows ==
  /\ \A k \in keys : k[2] = k[3] /\ \E c \in yes : c[1] = k[1]
  /\ \A p \in passed : \E c \in yes : c[1] = p[1]

\* A modal no key clears is not asked about for ever.
AskingEnds ==
  \A m \in Modal :
    ClassOf[m] = "unknown" =>
      (<>[](screen = m) => <>[](ask["breaker"].at = "idle"))

\* The approval document's fail-safety: an unknown id resolves to deny, so
\* what a human allowed is what was on the card.  The code does not keep this:
\* ids start anew with the daemon, and a card from before the restart answers
\* another request.
AllowedAsShown ==
  /\ \A k \in keys : <<k[1], k[2]>> \in yes
  /\ \A p \in passed : p \in yes
=============================================================================
