----------------------------- MODULE GuardProofs -----------------------------
(* Four components that stand between a request and what it would do: the     *)
(* human approvals, the origin guard, the teardown of a session's process     *)
(* tree and provider failover.  They share no state; what is proved of each    *)
(* holds for every value of its constants.                                    *)
EXTENDS Naturals, FiniteSets, Sequences, TLAPS

CONSTANTS None,
          Modal, ClassOf, Tool, Gated, MaxTries, MaxId, MaxRestart,
          Agent, Channel, Proc, MaxOp, MaxHold, MaxTime, ArmTtl, HoldTtl, MaxFault,
          Pid, Root, Passes, MaxFork, MaxExit, MaxReuse, MaxBlind,
          Task, Other, MaxHost, MaxCrash

VARIABLES screen, fence, watch, ask, card, lastId, faces, yes, keys, passed, restarts,
          stamps, serial, held, proc, sent, missed, clock, ops, faults,
          parent, born, ours, forked, shot, pc, pass, rootToken, todo, above, refused, spent,
          host, hosts, carries, work, failing, blocked, stopped, rec, active, claim,
          quarantined, queue, now, at, offered, crashes

Appr == INSTANCE Approvals
Orig == INSTANCE OriginGuard
Tear == INSTANCE Teardown
Fail == INSTANCE Failover

-----------------------------------------------------------------------------
(* A key for a prompt, and a tool call let pass, go back to a human's allow,  *)
(* for any modals, tools and number of requests and restarts.  Three facts    *)
(* carry it: a pending card and the request that waits for it name each       *)
(* other, a request that has no answer is a deny, and one that came back      *)
(* allowed has a human's allow of its id behind it.                          *)
(* What the broker holds pending is an open request of that id. *)
CardsAreOpen ==
  \A i \in Appr!Ids, a \in Appr!Asker : card[i] = a => ask[a].at = "open" /\ ask[a].id = i

Unanswered == \A a \in Appr!Asker : ask[a].at # "back" => ask[a].verdict = "deny"

AllowedByHuman ==
  \A a \in Appr!Asker : ask[a].verdict = "allow" => \E c \in yes : c[1] = ask[a].id

(* The watcher has one request at a time. *)
OneAtATime == ~watch.busy => ask["breaker"].at = "idle"

Asked == [at : {"idle", "posting", "open", "back"}, content : Appr!Content \cup {None},
             id : Nat, verdict : {"allow", "deny"}, stale : BOOLEAN]

Watching ==
  [sig : Modal \cup {None}, tries : Nat, parked : BOOLEAN, busy : BOOLEAN, rest : BOOLEAN]

CardTyped ==
  /\ ask \in [Appr!Asker -> Asked] /\ card \in [Appr!Ids -> Appr!Asker \cup {None}] /\ lastId \in Nat
  /\ watch \in Watching
  /\ screen \in Modal \cup {None}

HumanInv ==
  /\ CardTyped /\ CardsAreOpen /\ Unanswered /\ AllowedByHuman /\ OneAtATime
  /\ Appr!OnlyTheHumanAllows

LEMMA HumanInit == ASSUME Appr!ApprovalsAssumption, Appr!Init PROVE HumanInv
  BY DEF Appr!ApprovalsAssumption, Appr!Init, Appr!Idle, HumanInv, CardTyped, Asked, Watching, Appr!Content, Appr!Asker,
         CardsAreOpen, Unanswered, AllowedByHuman, OneAtATime, Appr!OnlyTheHumanAllows

(* The pane and the watcher's own look at it leave every request alone. *)
LEMMA LookingKeeps ==
  ASSUME HumanInv,
         \/ \E s \in Modal \cup {None} : Appr!Show(s)
         \/ Appr!Fence \/ Appr!TickLook \/ Appr!TickPress \/ Appr!TickPark \/ Appr!Rested
  PROVE  HumanInv'
  <1>1. UNCHANGED <<ask, card, lastId, faces, yes, keys, passed>>
    BY DEF Appr!Show, Appr!Fence, Appr!TickLook, Appr!TickPress, Appr!TickPark, Appr!Rested, Appr!brokerVars
  <1>2. screen' \in Modal \cup {None}
    BY DEF Appr!Show, Appr!Fence, Appr!TickLook, Appr!TickPress, Appr!TickPark, Appr!Rested, Appr!paneVars, HumanInv, CardTyped
  <1>3. watch' \in Watching /\ watch'.busy = watch.busy
    <2> USE DEF Watching
    <2>1. CASE UNCHANGED watch
      BY <2>1 DEF HumanInv, CardTyped
    <2>2. CASE Appr!TickLook
      BY <2>2 DEF Appr!TickLook, Appr!Looked, HumanInv, CardTyped
    <2>3. CASE Appr!TickPress
      BY <2>3 DEF Appr!TickPress, HumanInv, CardTyped
    <2>4. CASE Appr!TickPark
      BY <2>4 DEF Appr!TickPark, HumanInv, CardTyped
    <2>5. CASE Appr!Rested
      BY <2>5 DEF Appr!Rested, HumanInv, CardTyped
    <2> QED BY <2>1, <2>2, <2>3, <2>4, <2>5 DEF Appr!Show, Appr!Fence
  <1> QED BY <1>1, <1>2, <1>3 DEF HumanInv, CardTyped, CardsAreOpen, Unanswered, AllowedByHuman,
                                  OneAtATime, Appr!OnlyTheHumanAllows

(* A request that nobody else waits on is replaced by r; the cards of its      *)
(* asker, if any are left, are open ones of r's id.                          *)
LEMMA Replaced ==
  ASSUME HumanInv, NEW a \in Appr!Asker, NEW r \in Asked,
         ask' = [ask EXCEPT ![a] = r],
         card' \in [Appr!Ids -> Appr!Asker \cup {None}], lastId' \in Nat,
         \A i \in Appr!Ids : card'[i] = a => r.at = "open" /\ r.id = i,
         \A i \in Appr!Ids, b \in Appr!Asker : b # a /\ card'[i] = b => card[i] = b,
         r.at # "back" => r.verdict = "deny",
         r.verdict = "allow" => \E c \in yes' : c[1] = r.id,
         yes \subseteq yes', UNCHANGED screen,
         watch' \in Watching,
         a = "breaker" /\ ~watch'.busy => r.at = "idle",
         a # "breaker" => UNCHANGED watch,
         UNCHANGED <<keys, passed>> \/ Appr!OnlyTheHumanAllows'
  PROVE  HumanInv'
  <1>1. ask' \in [Appr!Asker -> Asked] /\ ask'[a] = r /\ \A b \in Appr!Asker : b # a => ask'[b] = ask[b]
    BY DEF HumanInv, CardTyped
  <1>2. CardTyped'
    BY <1>1 DEF HumanInv, CardTyped
  <1>3. CardsAreOpen'
    BY <1>1 DEF HumanInv, CardsAreOpen
  <1>4. Unanswered' /\ AllowedByHuman'
    BY <1>1 DEF HumanInv, Unanswered, AllowedByHuman
  <1>5. OneAtATime'
    BY <1>1 DEF HumanInv, OneAtATime, Appr!Asker
  <1>6. Appr!OnlyTheHumanAllows'
    BY DEF HumanInv, Appr!OnlyTheHumanAllows
  <1> QED BY <1>2, <1>3, <1>4, <1>5, <1>6 DEF HumanInv

(* Closing a connection leaves the asker no card, and the others theirs. *)
LEMMA DropsOwn ==
  ASSUME HumanInv, Appr!ApprovalsAssumption, NEW a \in Appr!Asker, card' = Appr!Dropped(a)
  PROVE  /\ card' \in [Appr!Ids -> Appr!Asker \cup {None}]
         /\ \A i \in Appr!Ids : card'[i] # a
         /\ \A i \in Appr!Ids, b \in Appr!Asker : card'[i] = b => card[i] = b
  BY DEF HumanInv, CardTyped, Appr!Dropped, Appr!ApprovalsAssumption, Appr!Asker

(* Whoever settles a card answers the request that waits for it. *)
LEMMA SettleKeeps ==
  ASSUME HumanInv, Appr!ApprovalsAssumption, NEW i \in Appr!Ids, card[i] # None, NEW v \in {"allow", "deny"},
         Appr!Settle(i, v), v = "allow" => \E c \in yes' : c[1] = i,
         yes \subseteq yes',
         UNCHANGED <<Appr!paneVars, watch, lastId, keys, passed>>
  PROVE  HumanInv'
  <1> DEFINE a == card[i]
  <1> DEFINE r == [ask[a] EXCEPT !.at = "back", !.verdict = v]
  <1>1. a \in Appr!Asker /\ ask[a] \in Asked /\ ask[a].at = "open" /\ ask[a].id = i
    BY DEF HumanInv, CardTyped, CardsAreOpen
  <1>2. r \in Asked /\ r.at = "back" /\ r.verdict = v /\ r.id = i
    BY <1>1 DEF Asked
  <1>3. ask' = [ask EXCEPT ![a] = r]
    BY <1>1 DEF Appr!Settle, HumanInv, CardTyped
  <1>4. /\ card' \in [Appr!Ids -> Appr!Asker \cup {None}]
        /\ \A j \in Appr!Ids : card'[j] # a
        /\ \A j \in Appr!Ids, b \in Appr!Asker : card'[j] = b => card[j] = b
    BY <1>1 DEF Appr!Settle, HumanInv, CardTyped, CardsAreOpen, Appr!ApprovalsAssumption, Appr!Asker
  <1>5. a = "breaker" => watch.busy
    BY <1>1 DEF HumanInv, OneAtATime
  <1>6. /\ lastId' \in Nat /\ watch' \in Watching /\ watch'.busy = watch.busy
        /\ UNCHANGED <<screen, watch, keys, passed>>
    BY DEF HumanInv, CardTyped, Appr!paneVars
  <1>7. r.verdict = "allow" => \E c \in yes' : c[1] = r.id
    BY <1>2
  <1>8. r.at # "back" => r.verdict = "deny"
    BY <1>2
  <1>9. \A j \in Appr!Ids : card'[j] = a => r.at = "open" /\ r.id = j
    BY <1>4
  <1>10. a = "breaker" /\ ~watch'.busy => r.at = "idle"
    BY <1>5, <1>6
  <1>11. \A j \in Appr!Ids, b \in Appr!Asker : b # a /\ card'[j] = b => card[j] = b
    BY <1>4
  <1> HIDE DEF a, r
  <1>12. a \in Appr!Asker /\ r \in Asked /\ card' \in [Appr!Ids -> Appr!Asker \cup {None}]
    BY <1>1, <1>2, <1>4
  <1> QED BY <1>3, <1>6, <1>7, <1>8, <1>9, <1>10, <1>11, <1>12, Replaced

(* An asker that is not open has no card. *)
LEMMA NoCard ==
  ASSUME HumanInv, NEW a \in Appr!Asker, ask[a].at # "open"
  PROVE  \A i \in Appr!Ids : card[i] # a
  BY DEF HumanInv, CardsAreOpen

(* A new request starts with a deny and without a card. *)
LEMMA AskingKeeps ==
  ASSUME HumanInv, Appr!ApprovalsAssumption, Appr!TickAsk \/ \E t \in Tool : Appr!HookAsk(t) PROVE HumanInv'
  <1>1. CASE Appr!TickAsk
    <2> DEFINE r == [Appr!Idle EXCEPT !.at = "posting", !.content = screen]
    <2>1. r \in Asked /\ r.at = "posting" /\ r.verdict = "deny"
      BY DEF Asked, Appr!Idle, HumanInv, CardTyped, Appr!Content
    <2>2. \A i \in Appr!Ids : card[i] # "breaker"
      BY <1>1, NoCard DEF Appr!TickAsk, HumanInv, OneAtATime, Appr!Asker
    <2> DEFINE n == IF ClassOf[screen] = "unknown" THEN watch.tries + 1 ELSE watch.tries
    <2>6. n \in Nat /\ watch \in Watching
      BY DEF HumanInv, CardTyped, Watching
    <2>7. watch' = [watch EXCEPT !.busy = TRUE, !.tries = n]
      BY <1>1 DEF Appr!TickAsk
    <2> HIDE DEF n
    <2>3. watch' \in Watching /\ watch'.busy = TRUE
      BY <2>6, <2>7 DEF Watching
    <2>4. /\ ask' = [ask EXCEPT !["breaker"] = r]
          /\ UNCHANGED <<screen, card, lastId, faces, yes, keys, passed>>
      BY <1>1 DEF Appr!TickAsk, Appr!paneVars, Appr!brokerVars
    <2> HIDE DEF r
    <2>5. "breaker" \in Appr!Asker /\ card' \in [Appr!Ids -> Appr!Asker \cup {None}] /\ lastId' \in Nat
         
      BY <2>4 DEF HumanInv, CardTyped, Appr!Asker
    <2> QED BY <2>1, <2>2, <2>3, <2>4, <2>5, Replaced
  <1>2. ASSUME NEW t \in Tool, Appr!HookAsk(t) PROVE HumanInv'
    <2> DEFINE r == [Appr!Idle EXCEPT !.at = "posting", !.content = t]
    <2>1. r \in Asked /\ r.at = "posting" /\ r.verdict = "deny"
      BY DEF Asked, Appr!Idle, Appr!Content
    <2>2. \A i \in Appr!Ids : card[i] # "hook"
      BY <1>2, NoCard DEF Appr!HookAsk, Appr!Asker
    <2>3. /\ ask' = [ask EXCEPT !["hook"] = r]
          /\ UNCHANGED <<screen, watch, card, lastId, faces, yes, keys, passed>>
      BY <1>2 DEF Appr!HookAsk, Appr!paneVars, Appr!brokerVars
    <2> HIDE DEF r
    <2>4. "hook" \in Appr!Asker /\ card' \in [Appr!Ids -> Appr!Asker \cup {None}] /\ lastId' \in Nat
          /\ watch' \in Watching
      BY <2>3 DEF HumanInv, CardTyped, Appr!Asker
    <2> QED BY <2>1, <2>2, <2>3, <2>4, Replaced
  <1> QED BY <1>1, <1>2

(* The broker gives the request an id and a card. *)
LEMMA PostKeeps == ASSUME HumanInv, Appr!ApprovalsAssumption, NEW a \in Appr!Asker, Appr!Post(a) PROVE HumanInv'
  <1> DEFINE r == [ask[a] EXCEPT !.at = "open", !.id = lastId + 1]
  <1>1. lastId + 1 \in Appr!Ids
    BY DEF Appr!Post, Appr!Ids, HumanInv, CardTyped, Appr!ApprovalsAssumption
  <1>2. ask[a] \in Asked /\ ask[a].at = "posting" /\ ask[a].verdict = "deny"
    BY DEF Appr!Post, HumanInv, CardTyped, Unanswered
  <1>3. r \in Asked /\ r.at = "open" /\ r.verdict = "deny" /\ r.id = lastId + 1
    <2>1. lastId + 1 \in Nat
      BY DEF HumanInv, CardTyped
    <2> QED BY <1>2, <2>1 DEF Asked
  <1>4. ask' = [ask EXCEPT ![a] = r]
    BY DEF Appr!Post, HumanInv, CardTyped
  <1>5. /\ card' \in [Appr!Ids -> Appr!Asker \cup {None}]
        /\ \A i \in Appr!Ids : card'[i] = a => i = lastId + 1
        /\ \A i \in Appr!Ids, b \in Appr!Asker : b # a /\ card'[i] = b => card[i] = b
    BY <1>1, <1>2, NoCard DEF Appr!Post, HumanInv, CardTyped
  <1>6. a = "breaker" => watch.busy
    BY <1>2 DEF HumanInv, OneAtATime
  <1>7. /\ lastId' \in Nat /\ watch' \in Watching
        /\ UNCHANGED <<screen, watch, faces, yes, keys, passed>>
    BY DEF Appr!Post, Appr!paneVars, HumanInv, CardTyped
  <1> HIDE DEF r
  <1> QED BY <1>3, <1>4, <1>5, <1>6, <1>7, Replaced

(* Whatever goes wrong on the way, the request comes back as a deny or its      *)
(* asker is gone.                                                            *)
LEMMA ClosedKeeps ==
  ASSUME HumanInv, Appr!ApprovalsAssumption, NEW a \in Appr!Asker, NEW r \in Asked,
         ask' = [ask EXCEPT ![a] = r], r.at \in {"idle", "back"}, r.verdict = "deny",
         a = "breaker" => r.at = "idle" \/ watch.busy,
         card' = Appr!Dropped(a),
         UNCHANGED <<Appr!paneVars, watch, lastId, faces, yes, keys, passed>>
  PROVE  HumanInv'
  <1>1. /\ lastId' \in Nat /\ watch' \in Watching
        /\ UNCHANGED screen
    BY DEF Appr!paneVars, HumanInv, CardTyped
  <1>2. /\ card' \in [Appr!Ids -> Appr!Asker \cup {None}]
        /\ \A i \in Appr!Ids : card'[i] # a
        /\ \A i \in Appr!Ids, b \in Appr!Asker : card'[i] = b => card[i] = b
    BY DropsOwn
  <1>3. a = "breaker" /\ ~watch'.busy => r.at = "idle"
    OBVIOUS
  <1> QED BY <1>1, <1>2, <1>3, Replaced

LEMMA FaultKeeps ==
  ASSUME HumanInv, Appr!ApprovalsAssumption, (\E a \in Appr!Asker : Appr!Fault(a)) \/ Appr!StalePoll \/ Appr!HookDies
  PROVE  HumanInv'
  <1>1. ASSUME NEW a \in Appr!Asker, Appr!Fault(a) PROVE HumanInv'
    <2> DEFINE r == [ask[a] EXCEPT !.at = "back", !.verdict = "deny"]
    <2>1. r \in Asked /\ r.at = "back" /\ r.verdict = "deny"
      BY DEF Asked, HumanInv, CardTyped
    <2>2. ask' = [ask EXCEPT ![a] = r]
      BY <1>1 DEF Appr!Fault, HumanInv, CardTyped
    <2>3. a = "breaker" => watch.busy
      BY <1>1 DEF Appr!Fault, HumanInv, OneAtATime
    <2>4. card' = Appr!Dropped(a) /\ UNCHANGED <<Appr!paneVars, watch, lastId, faces, yes, keys, passed>>
      BY <1>1 DEF Appr!Fault
    <2> HIDE DEF r
    <2> QED BY <2>1, <2>2, <2>3, <2>4, ClosedKeeps
  <1>2. CASE Appr!StalePoll
    <2> DEFINE r == [ask["breaker"] EXCEPT !.at = "back", !.verdict = "deny", !.stale = TRUE]
    <2>1. r \in Asked /\ r.at = "back" /\ r.verdict = "deny"
      BY DEF Asked, HumanInv, CardTyped, Appr!Asker
    <2>2. ask' = [ask EXCEPT !["breaker"] = r]
      BY <1>2 DEF Appr!StalePoll, HumanInv, CardTyped
    <2>3. watch.busy
      BY <1>2 DEF Appr!StalePoll, HumanInv, OneAtATime
    <2>4. card' = Appr!Dropped("breaker")
          /\ UNCHANGED <<Appr!paneVars, watch, lastId, faces, yes, keys, passed>>
      BY <1>2 DEF Appr!StalePoll
    <2> HIDE DEF r
    <2> QED BY <2>1, <2>2, <2>3, <2>4, ClosedKeeps DEF Appr!Asker
  <1>3. CASE Appr!HookDies
    <2>1. Appr!Idle \in Asked /\ Appr!Idle.at = "idle" /\ Appr!Idle.verdict = "deny"
      BY DEF Appr!Idle, Asked
    <2>2. /\ ask' = [ask EXCEPT !["hook"] = Appr!Idle] /\ card' = Appr!Dropped("hook")
          /\ UNCHANGED <<Appr!paneVars, watch, lastId, faces, yes, keys, passed>>
      BY <1>3 DEF Appr!HookDies
    <2> QED BY <2>1, <2>2, ClosedKeeps DEF Appr!Asker
  <1> QED BY <1>1, <1>2, <1>3

(* Timeouts, faces and restarts: only a human's allow answers with an allow. *)
LEMMA BrokerKeeps ==
  ASSUME HumanInv, Appr!ApprovalsAssumption,
         \/ \E i \in Appr!Ids : Appr!Timeout(i) \/ Appr!See(i)
         \/ \E i \in Appr!Ids, c \in Appr!Content, v \in {"allow", "deny"} : Appr!Answer(<<i, c>>, v)
         \/ Appr!DaemonRestart
  PROVE  HumanInv'
  <1>1. ASSUME NEW i \in Appr!Ids, Appr!Timeout(i) PROVE HumanInv'
    BY <1>1, SettleKeeps DEF Appr!Timeout
  <1>2. ASSUME NEW i \in Appr!Ids, Appr!See(i) PROVE HumanInv'
    <2>1. UNCHANGED <<screen, watch, ask, card, lastId, yes, keys, passed>>
      BY <1>2 DEF Appr!See, Appr!paneVars
    <2> QED BY <2>1
            DEF HumanInv, CardTyped, CardsAreOpen, Unanswered, AllowedByHuman, OneAtATime,
                Appr!OnlyTheHumanAllows
  <1>3. ASSUME NEW i \in Appr!Ids, NEW c \in Appr!Content, NEW v \in {"allow", "deny"}, Appr!Answer(<<i, c>>, v)
        PROVE  HumanInv'
    <2>1. /\ yes \subseteq yes'
          /\ v = "allow" => \E k \in yes' : k[1] = i
          /\ UNCHANGED <<Appr!paneVars, watch, lastId, keys, passed>>
      BY <1>3 DEF Appr!Answer, HumanInv, CardTyped
    <2>2. CASE card[i] = None
      <3>1. UNCHANGED <<screen, watch, ask, card, lastId, keys, passed>>
        BY <1>3, <2>1, <2>2 DEF Appr!Answer, Appr!paneVars
      <3> QED BY <2>1, <3>1
              DEF HumanInv, CardTyped, CardsAreOpen, Unanswered, AllowedByHuman, OneAtATime,
                  Appr!OnlyTheHumanAllows
    <2>3. CASE card[i] # None
      <3>1. Appr!Settle(i, v)
        BY <1>3, <2>3 DEF Appr!Answer
      <3> QED BY <2>1, <2>3, <3>1, SettleKeeps
    <2> QED BY <2>2, <2>3
  <1>4. CASE Appr!DaemonRestart
    <2>1. /\ card' = [i \in Appr!Ids |-> None] /\ lastId' = 0
          /\ UNCHANGED <<screen, watch, faces, yes, keys, passed>>
      BY <1>4 DEF Appr!DaemonRestart, Appr!paneVars
    <2>2. \A a \in Appr!Asker :
            /\ ask'[a] \in Asked
            /\ ask'[a].id = ask[a].id /\ ask'[a].verdict = ask[a].verdict
            /\ ask'[a].at # "back" => ask[a].at # "back"
            /\ ask[a].at = "idle" => ask'[a].at = "idle"
      BY <1>4 DEF Appr!DaemonRestart, HumanInv, CardTyped, Asked
    <2>3. CardTyped'
      BY <1>4, <2>1, <2>2 DEF Appr!DaemonRestart, HumanInv, CardTyped
    <2>4. CardsAreOpen'
      BY <2>1 DEF CardsAreOpen, Appr!ApprovalsAssumption, Appr!Asker
    <2>5. Unanswered' /\ AllowedByHuman' /\ OneAtATime' /\ Appr!OnlyTheHumanAllows'
      BY <2>1, <2>2 DEF HumanInv, Unanswered, AllowedByHuman, OneAtATime, Appr!OnlyTheHumanAllows, Appr!Asker
    <2> QED BY <2>3, <2>4, <2>5 DEF HumanInv
  <1> QED BY <1>1, <1>2, <1>3, <1>4

(* The decision: an allow has the human behind it, and the watcher proves the  *)
(* modal in the step that writes the keys.                                   *)
LEMMA DecisionKeeps ==
  ASSUME HumanInv, Appr!ApprovalsAssumption, Appr!BreakerDecides \/ Appr!HookDecides PROVE HumanInv'
  <1>1. Appr!Idle \in Asked /\ Appr!Idle.at = "idle" /\ Appr!Idle.verdict = "deny"
    BY DEF Appr!Idle, Asked
  <1>2. CASE Appr!BreakerDecides
    <2>1. \A i \in Appr!Ids : card[i] # "breaker"
      BY <1>2, NoCard DEF Appr!BreakerDecides, Appr!Asker
    <2>2. /\ ask' = [ask EXCEPT !["breaker"] = Appr!Idle]
          /\ UNCHANGED <<screen, card, lastId, faces, yes, passed>>
      BY <1>2 DEF Appr!BreakerDecides, Appr!paneVars, Appr!brokerVars
    <2>3. watch' \in Watching
      BY <1>2 DEF Appr!BreakerDecides, Appr!Answered, HumanInv, CardTyped, Watching
    <2>4. Appr!OnlyTheHumanAllows'
      BY <1>2, <2>2 DEF Appr!BreakerDecides, Appr!Proved, HumanInv, AllowedByHuman, Appr!OnlyTheHumanAllows, Appr!Asker
    <2>5. "breaker" \in Appr!Asker /\ card' \in [Appr!Ids -> Appr!Asker \cup {None}] /\ lastId' \in Nat
         
      BY <2>2 DEF HumanInv, CardTyped, Appr!Asker
    <2> QED BY <1>1, <2>1, <2>2, <2>3, <2>4, <2>5, Replaced
  <1>3. CASE Appr!HookDecides
    <2>1. \A i \in Appr!Ids : card[i] # "hook"
      BY <1>3, NoCard DEF Appr!HookDecides, Appr!Asker
    <2>2. /\ ask' = [ask EXCEPT !["hook"] = Appr!Idle]
          /\ UNCHANGED <<screen, watch, card, lastId, faces, yes, keys>>
      BY <1>3 DEF Appr!HookDecides, Appr!paneVars, Appr!brokerVars
    <2>3. Appr!OnlyTheHumanAllows'
      BY <1>3, <2>2 DEF Appr!HookDecides, HumanInv, AllowedByHuman, Appr!OnlyTheHumanAllows, Appr!Asker
    <2>4. "hook" \in Appr!Asker /\ card' \in [Appr!Ids -> Appr!Asker \cup {None}] /\ lastId' \in Nat
          /\ watch' \in Watching
      BY <2>2 DEF HumanInv, CardTyped, Appr!Asker
    <2> QED BY <1>1, <2>1, <2>2, <2>3, <2>4, Replaced
  <1> QED BY <1>2, <1>3

LEMMA HumanNext == ASSUME HumanInv, Appr!ApprovalsAssumption, [Appr!Next]_Appr!vars PROVE HumanInv'
  <1>1. CASE UNCHANGED Appr!vars
    BY <1>1 DEF Appr!vars, HumanInv, CardTyped, CardsAreOpen, Unanswered, AllowedByHuman, OneAtATime,
                Appr!OnlyTheHumanAllows
  <1> QED BY <1>1, LookingKeeps, AskingKeeps, PostKeeps, FaultKeeps, BrokerKeeps, DecisionKeeps
          DEF Appr!Next, Appr!Tick, Appr!Request

(* The values of the variables.  The request of the watcher is about a modal, *)
(* a hook's about a tool call, and an id is one the broker gave.              *)
Subject(a, r) ==
  r.id \in 0 .. MaxId /\ (r.at # "idle" => r.content \in (IF a = "hook" THEN Tool ELSE Modal))
AsksTyped == \A a \in Appr!Asker : Subject(a, ask[a])
TriesTyped == watch.tries \in 0 .. MaxTries
CountsTyped == lastId \in 0 .. MaxId /\ restarts \in 0 .. MaxRestart /\ fence \in BOOLEAN
FacesTyped == faces \subseteq Appr!Ids \X Appr!Content /\ yes \subseteq Appr!Ids \X Appr!Content
ResultsTyped == keys \subseteq Appr!Ids \X Modal \X Modal /\ passed \subseteq Appr!Ids \X Tool
HumanTypes == AsksTyped /\ TriesTyped /\ CountsTyped /\ FacesTyped /\ ResultsTyped

LEMMA HumanIsTyped == ASSUME HumanInv, HumanTypes PROVE Appr!TypeOK
  <1>1. watch \in [sig : Modal \cup {None}, tries : 0 .. MaxTries, parked : BOOLEAN, busy : BOOLEAN, rest : BOOLEAN]
    BY DEF HumanInv, CardTyped, Watching, HumanTypes, TriesTyped
  <1>2. ask \in [Appr!Asker -> [at : {"idle", "posting", "open", "back"}, content : Appr!Content \cup {None},
                                id : 0 .. MaxId, verdict : {"allow", "deny"}, stale : BOOLEAN]]
    BY DEF HumanInv, CardTyped, Asked, HumanTypes, AsksTyped, Subject
  <1> QED BY <1>1, <1>2 DEF HumanInv, CardTyped, HumanTypes, CountsTyped, FacesTyped, ResultsTyped, Appr!TypeOK

LEMMA HumanTypeInit == ASSUME Appr!ApprovalsAssumption, Appr!Init PROVE HumanTypes
  <1>1. AsksTyped
    BY DEF Appr!ApprovalsAssumption, Appr!Init, Appr!Idle, AsksTyped, Subject
  <1>2. TriesTyped /\ CountsTyped
    <2>1. MaxTries \in Nat /\ MaxId \in Nat /\ MaxRestart \in Nat
      BY DEF Appr!ApprovalsAssumption
    <2>2. watch.tries = 0 /\ lastId = 0 /\ restarts = 0 /\ fence = FALSE
      BY DEF Appr!Init
    <2>3. 0 \in 0 .. MaxTries /\ 0 \in 0 .. MaxId /\ 0 \in 0 .. MaxRestart
      BY <2>1
    <2>4. TriesTyped
      BY <2>2, <2>3 DEF TriesTyped
    <2>5. fence \in BOOLEAN
      BY <2>2
    <2> QED BY <2>2, <2>3, <2>4, <2>5 DEF CountsTyped
  <1>3. FacesTyped /\ ResultsTyped
    BY DEF Appr!Init, FacesTyped, ResultsTyped
  <1> QED BY <1>1, <1>2, <1>3 DEF HumanTypes

LEMMA AsksTypeNext ==
  ASSUME Appr!ApprovalsAssumption, HumanInv, HumanTypes, [Appr!Next]_Appr!vars
  PROVE  AsksTyped'
  <1>0. AsksTyped /\ ask \in [Appr!Asker -> Asked] /\ lastId \in Nat /\ MaxId \in Nat /\ screen \in Modal \cup {None}
        /\ \A i \in Appr!Ids : card[i] \in Appr!Asker \cup {None} /\ (card[i] # None => ask[card[i]].at = "open")
    BY DEF HumanTypes, HumanInv, CardTyped, CardsAreOpen, Appr!ApprovalsAssumption
  <1>1. ASSUME NEW s \in Modal \cup {None}, Appr!Show(s) PROVE AsksTyped'
    BY <1>0, <1>1 DEF Appr!Show, AsksTyped, Subject, Appr!Asker
  <1>2. CASE Appr!Fence
    BY <1>0, <1>2 DEF Appr!Fence, AsksTyped, Subject, Appr!Asker
  <1>3. CASE Appr!TickLook
    BY <1>0, <1>3 DEF Appr!TickLook, Appr!Looked, AsksTyped, Subject, Appr!Asker
  <1>4. CASE Appr!TickPress
    BY <1>0, <1>4 DEF Appr!TickPress, AsksTyped, Subject, Appr!Asker
  <1>5. CASE Appr!TickPark
    BY <1>0, <1>5 DEF Appr!TickPark, AsksTyped, Subject, Appr!Asker
  <1>6. CASE Appr!TickAsk
    BY <1>0, <1>6 DEF Appr!TickAsk, Appr!Spent, Appr!Idle, AsksTyped, Subject, Appr!Asker
  <1>7. CASE Appr!Rested
    BY <1>0, <1>7 DEF Appr!Rested, AsksTyped, Subject, Appr!Asker
  <1>8. CASE Appr!StalePoll
    BY <1>0, <1>8 DEF Appr!StalePoll, AsksTyped, Subject, Appr!Asker
  <1>9. CASE Appr!HookDies
    BY <1>0, <1>9 DEF Appr!HookDies, Appr!Idle, AsksTyped, Subject, Appr!Asker
  <1>10. CASE Appr!DaemonRestart
    BY <1>0, <1>10 DEF Appr!DaemonRestart, AsksTyped, Subject, Appr!Asker
  <1>11. ASSUME NEW t \in Tool, Appr!HookAsk(t) PROVE AsksTyped'
    BY <1>0, <1>11 DEF Appr!HookAsk, Appr!Idle, AsksTyped, Subject, Appr!Asker
  <1>12. ASSUME NEW a \in Appr!Asker, Appr!Post(a) PROVE AsksTyped'
    BY <1>0, <1>12 DEF Appr!Post, AsksTyped, Subject, Appr!Asker
  <1>13. ASSUME NEW a \in Appr!Asker, Appr!Fault(a) PROVE AsksTyped'
    BY <1>0, <1>13 DEF Appr!Fault, AsksTyped, Subject, Appr!Asker
  <1>14. ASSUME NEW i \in Appr!Ids, Appr!Timeout(i) PROVE AsksTyped'
    BY <1>0, <1>14 DEF Appr!Timeout, Appr!Settle, AsksTyped, Subject, Appr!Asker
  <1>15. ASSUME NEW i \in Appr!Ids, Appr!See(i) PROVE AsksTyped'
    BY <1>0, <1>15 DEF Appr!See, AsksTyped, Subject, Appr!Asker
  <1>16. ASSUME NEW i \in Appr!Ids, NEW c \in Appr!Content, NEW v \in {"allow", "deny"}, Appr!Answer(<<i, c>>, v) PROVE AsksTyped'
    <2>1. CASE card[i] = None
      BY <1>0, <1>16, <2>1 DEF Appr!Answer, AsksTyped, Subject
    <2>2. CASE card[i] # None
      <3>1. ask' = [ask EXCEPT ![card[i]].at = "back", ![card[i]].verdict = v]
        BY <1>16, <2>2 DEF Appr!Answer, Appr!Settle
      <3> QED BY <1>0, <2>2, <3>1 DEF AsksTyped, Subject, Appr!Asker
    <2> QED BY <2>1, <2>2
  <1>17. CASE Appr!BreakerDecides
    BY <1>0, <1>17 DEF Appr!BreakerDecides, Appr!Answered, Appr!Idle, AsksTyped, Subject,
       Appr!Asker
  <1>18. CASE Appr!HookDecides
    BY <1>0, <1>18 DEF Appr!HookDecides, Appr!Idle, AsksTyped, Subject, Appr!Asker
  <1>19. CASE UNCHANGED Appr!vars
    BY <1>0, <1>19 DEF Appr!vars, AsksTyped, Subject, Appr!Asker
  <1> QED BY <1>1, <1>2, <1>3, <1>4, <1>5, <1>6, <1>7, <1>8, <1>9, <1>10, <1>11, <1>12, <1>13, <1>14,
     <1>15, <1>16, <1>17, <1>18, <1>19 DEF Appr!Next, Appr!Tick, Appr!Request

LEMMA TriesTypeNext ==
  ASSUME Appr!ApprovalsAssumption, HumanInv, HumanTypes, [Appr!Next]_Appr!vars
  PROVE  TriesTyped'
  <1>0. TriesTyped /\ watch \in Watching /\ MaxTries \in Nat /\ 0 \in 0 .. MaxTries
    BY DEF HumanTypes, HumanInv, CardTyped, Appr!ApprovalsAssumption
  <1>1. ASSUME NEW s \in Modal \cup {None}, Appr!Show(s) PROVE TriesTyped'
    BY <1>0, <1>1 DEF Appr!Show, TriesTyped
  <1>2. CASE Appr!Fence
    BY <1>0, <1>2 DEF Appr!Fence, TriesTyped
  <1>3. CASE Appr!TickLook
    BY <1>0, <1>3 DEF Appr!TickLook, Appr!Looked, TriesTyped
  <1>4. CASE Appr!TickPress
    BY <1>0, <1>4 DEF Appr!TickPress, TriesTyped
  <1>5. CASE Appr!TickPark
    BY <1>0, <1>5 DEF Appr!TickPark, TriesTyped
  <1>6. CASE Appr!TickAsk
    BY <1>0, <1>6 DEF Appr!TickAsk, Appr!Spent, Appr!Idle, TriesTyped
  <1>7. CASE Appr!Rested
    BY <1>0, <1>7 DEF Appr!Rested, TriesTyped
  <1>8. CASE Appr!StalePoll
    BY <1>0, <1>8 DEF Appr!StalePoll, TriesTyped
  <1>9. CASE Appr!HookDies
    BY <1>0, <1>9 DEF Appr!HookDies, Appr!Idle, TriesTyped
  <1>10. CASE Appr!DaemonRestart
    BY <1>0, <1>10 DEF Appr!DaemonRestart, TriesTyped
  <1>11. ASSUME NEW t \in Tool, Appr!HookAsk(t) PROVE TriesTyped'
    BY <1>0, <1>11 DEF Appr!HookAsk, Appr!Idle, TriesTyped
  <1>12. ASSUME NEW a \in Appr!Asker, Appr!Post(a) PROVE TriesTyped'
    BY <1>0, <1>12 DEF Appr!Post, TriesTyped
  <1>13. ASSUME NEW a \in Appr!Asker, Appr!Fault(a) PROVE TriesTyped'
    BY <1>0, <1>13 DEF Appr!Fault, TriesTyped
  <1>14. ASSUME NEW i \in Appr!Ids, Appr!Timeout(i) PROVE TriesTyped'
    BY <1>0, <1>14 DEF Appr!Timeout, Appr!Settle, TriesTyped
  <1>15. ASSUME NEW i \in Appr!Ids, Appr!See(i) PROVE TriesTyped'
    BY <1>0, <1>15 DEF Appr!See, TriesTyped
  <1>16. ASSUME NEW i \in Appr!Ids, NEW c \in Appr!Content, NEW v \in {"allow", "deny"}, Appr!Answer(<<i, c>>, v) PROVE TriesTyped'
    BY <1>0, <1>16 DEF Appr!Answer, Appr!Settle, TriesTyped
  <1>17. CASE Appr!BreakerDecides
    BY <1>0, <1>17 DEF Appr!BreakerDecides, Appr!Answered, Appr!Idle, TriesTyped
  <1>18. CASE Appr!HookDecides
    BY <1>0, <1>18 DEF Appr!HookDecides, Appr!Idle, TriesTyped
  <1>19. CASE UNCHANGED Appr!vars
    BY <1>0, <1>19 DEF Appr!vars, TriesTyped
  <1> QED BY <1>1, <1>2, <1>3, <1>4, <1>5, <1>6, <1>7, <1>8, <1>9, <1>10, <1>11, <1>12, <1>13, <1>14,
     <1>15, <1>16, <1>17, <1>18, <1>19 DEF Appr!Next, Appr!Tick, Appr!Request

LEMMA CountsTypeNext ==
  ASSUME Appr!ApprovalsAssumption, HumanInv, HumanTypes, [Appr!Next]_Appr!vars
  PROVE  CountsTyped'
  <1>0. CountsTyped /\ MaxId \in Nat /\ MaxRestart \in Nat
    BY DEF HumanTypes, Appr!ApprovalsAssumption
  <1>1. ASSUME NEW s \in Modal \cup {None}, Appr!Show(s) PROVE CountsTyped'
    BY <1>0, <1>1 DEF Appr!Show, CountsTyped, Appr!paneVars, Appr!brokerVars
  <1>2. CASE Appr!Fence
    BY <1>0, <1>2 DEF Appr!Fence, CountsTyped, Appr!paneVars, Appr!brokerVars
  <1>3. CASE Appr!TickLook
    BY <1>0, <1>3 DEF Appr!TickLook, Appr!Looked, CountsTyped, Appr!paneVars, Appr!brokerVars
  <1>4. CASE Appr!TickPress
    BY <1>0, <1>4 DEF Appr!TickPress, CountsTyped, Appr!paneVars, Appr!brokerVars
  <1>5. CASE Appr!TickPark
    BY <1>0, <1>5 DEF Appr!TickPark, CountsTyped, Appr!paneVars, Appr!brokerVars
  <1>6. CASE Appr!TickAsk
    BY <1>0, <1>6 DEF Appr!TickAsk, Appr!Spent, Appr!Idle, CountsTyped, Appr!paneVars,
       Appr!brokerVars
  <1>7. CASE Appr!Rested
    BY <1>0, <1>7 DEF Appr!Rested, CountsTyped, Appr!paneVars, Appr!brokerVars
  <1>8. CASE Appr!StalePoll
    BY <1>0, <1>8 DEF Appr!StalePoll, CountsTyped, Appr!paneVars, Appr!brokerVars
  <1>9. CASE Appr!HookDies
    BY <1>0, <1>9 DEF Appr!HookDies, Appr!Idle, CountsTyped, Appr!paneVars, Appr!brokerVars
  <1>10. CASE Appr!DaemonRestart
    BY <1>0, <1>10 DEF Appr!DaemonRestart, CountsTyped, Appr!paneVars, Appr!brokerVars
  <1>11. ASSUME NEW t \in Tool, Appr!HookAsk(t) PROVE CountsTyped'
    BY <1>0, <1>11 DEF Appr!HookAsk, Appr!Idle, CountsTyped, Appr!paneVars, Appr!brokerVars
  <1>12. ASSUME NEW a \in Appr!Asker, Appr!Post(a) PROVE CountsTyped'
    BY <1>0, <1>12 DEF Appr!Post, CountsTyped, Appr!paneVars, Appr!brokerVars
  <1>13. ASSUME NEW a \in Appr!Asker, Appr!Fault(a) PROVE CountsTyped'
    BY <1>0, <1>13 DEF Appr!Fault, CountsTyped, Appr!paneVars, Appr!brokerVars
  <1>14. ASSUME NEW i \in Appr!Ids, Appr!Timeout(i) PROVE CountsTyped'
    BY <1>0, <1>14 DEF Appr!Timeout, Appr!Settle, CountsTyped, Appr!paneVars, Appr!brokerVars
  <1>15. ASSUME NEW i \in Appr!Ids, Appr!See(i) PROVE CountsTyped'
    BY <1>0, <1>15 DEF Appr!See, CountsTyped, Appr!paneVars, Appr!brokerVars
  <1>16. ASSUME NEW i \in Appr!Ids, NEW c \in Appr!Content, NEW v \in {"allow", "deny"}, Appr!Answer(<<i, c>>, v) PROVE CountsTyped'
    BY <1>0, <1>16 DEF Appr!Answer, Appr!Settle, CountsTyped, Appr!paneVars, Appr!brokerVars
  <1>17. CASE Appr!BreakerDecides
    BY <1>0, <1>17 DEF Appr!BreakerDecides, Appr!Answered, Appr!Idle, CountsTyped,
       Appr!paneVars, Appr!brokerVars
  <1>18. CASE Appr!HookDecides
    BY <1>0, <1>18 DEF Appr!HookDecides, Appr!Idle, CountsTyped, Appr!paneVars, Appr!brokerVars
  <1>19. CASE UNCHANGED Appr!vars
    BY <1>0, <1>19 DEF Appr!vars, CountsTyped, Appr!paneVars, Appr!brokerVars
  <1> QED BY <1>1, <1>2, <1>3, <1>4, <1>5, <1>6, <1>7, <1>8, <1>9, <1>10, <1>11, <1>12, <1>13, <1>14,
     <1>15, <1>16, <1>17, <1>18, <1>19 DEF Appr!Next, Appr!Tick, Appr!Request

LEMMA FacesTypeNext ==
  ASSUME Appr!ApprovalsAssumption, HumanInv, HumanTypes, [Appr!Next]_Appr!vars
  PROVE  FacesTyped'
  <1>0. FacesTyped /\ (\A i \in Appr!Ids : card[i] # None => ask[card[i]].content \in Appr!Content)
    BY DEF HumanTypes, AsksTyped, Subject, HumanInv, CardTyped, CardsAreOpen, Appr!Content
  <1>1. ASSUME NEW s \in Modal \cup {None}, Appr!Show(s) PROVE FacesTyped'
    BY <1>0, <1>1 DEF Appr!Show, FacesTyped, Appr!brokerVars
  <1>2. CASE Appr!Fence
    BY <1>0, <1>2 DEF Appr!Fence, FacesTyped, Appr!brokerVars
  <1>3. CASE Appr!TickLook
    BY <1>0, <1>3 DEF Appr!TickLook, Appr!Looked, FacesTyped, Appr!brokerVars
  <1>4. CASE Appr!TickPress
    BY <1>0, <1>4 DEF Appr!TickPress, FacesTyped, Appr!brokerVars
  <1>5. CASE Appr!TickPark
    BY <1>0, <1>5 DEF Appr!TickPark, FacesTyped, Appr!brokerVars
  <1>6. CASE Appr!TickAsk
    BY <1>0, <1>6 DEF Appr!TickAsk, Appr!Spent, Appr!Idle, FacesTyped, Appr!brokerVars
  <1>7. CASE Appr!Rested
    BY <1>0, <1>7 DEF Appr!Rested, FacesTyped, Appr!brokerVars
  <1>8. CASE Appr!StalePoll
    BY <1>0, <1>8 DEF Appr!StalePoll, FacesTyped, Appr!brokerVars
  <1>9. CASE Appr!HookDies
    BY <1>0, <1>9 DEF Appr!HookDies, Appr!Idle, FacesTyped, Appr!brokerVars
  <1>10. CASE Appr!DaemonRestart
    BY <1>0, <1>10 DEF Appr!DaemonRestart, FacesTyped, Appr!brokerVars
  <1>11. ASSUME NEW t \in Tool, Appr!HookAsk(t) PROVE FacesTyped'
    BY <1>0, <1>11 DEF Appr!HookAsk, Appr!Idle, FacesTyped, Appr!brokerVars
  <1>12. ASSUME NEW a \in Appr!Asker, Appr!Post(a) PROVE FacesTyped'
    BY <1>0, <1>12 DEF Appr!Post, FacesTyped, Appr!brokerVars
  <1>13. ASSUME NEW a \in Appr!Asker, Appr!Fault(a) PROVE FacesTyped'
    BY <1>0, <1>13 DEF Appr!Fault, FacesTyped, Appr!brokerVars
  <1>14. ASSUME NEW i \in Appr!Ids, Appr!Timeout(i) PROVE FacesTyped'
    BY <1>0, <1>14 DEF Appr!Timeout, Appr!Settle, FacesTyped, Appr!brokerVars
  <1>15. ASSUME NEW i \in Appr!Ids, Appr!See(i) PROVE FacesTyped'
    BY <1>0, <1>15 DEF Appr!See, FacesTyped, Appr!brokerVars
  <1>16. ASSUME NEW i \in Appr!Ids, NEW c \in Appr!Content, NEW v \in {"allow", "deny"}, Appr!Answer(<<i, c>>, v) PROVE FacesTyped'
    BY <1>0, <1>16 DEF Appr!Answer, Appr!Settle, FacesTyped, Appr!brokerVars
  <1>17. CASE Appr!BreakerDecides
    BY <1>0, <1>17 DEF Appr!BreakerDecides, Appr!Answered, Appr!Idle, FacesTyped,
       Appr!brokerVars
  <1>18. CASE Appr!HookDecides
    BY <1>0, <1>18 DEF Appr!HookDecides, Appr!Idle, FacesTyped, Appr!brokerVars
  <1>19. CASE UNCHANGED Appr!vars
    BY <1>0, <1>19 DEF Appr!vars, FacesTyped, Appr!brokerVars
  <1> QED BY <1>1, <1>2, <1>3, <1>4, <1>5, <1>6, <1>7, <1>8, <1>9, <1>10, <1>11, <1>12, <1>13, <1>14,
     <1>15, <1>16, <1>17, <1>18, <1>19 DEF Appr!Next, Appr!Tick, Appr!Request

LEMMA ResultsTypeNext ==
  ASSUME Appr!ApprovalsAssumption, HumanInv, HumanTypes, [Appr!Next]_Appr!vars
  PROVE  ResultsTyped'
  <1>0. ResultsTyped /\ screen \in Modal \cup {None} /\ (ask["hook"].at # "idle" => ask["hook"].content \in Tool)
        /\ \A a \in Appr!Asker : ask[a].verdict = "allow" => ask[a].id \in Appr!Ids
    BY DEF HumanTypes, AsksTyped, Subject, FacesTyped, HumanInv, CardTyped, AllowedByHuman, Appr!Asker
  <1>1. ASSUME NEW s \in Modal \cup {None}, Appr!Show(s) PROVE ResultsTyped'
    BY <1>0, <1>1 DEF Appr!Show, ResultsTyped
  <1>2. CASE Appr!Fence
    BY <1>0, <1>2 DEF Appr!Fence, ResultsTyped
  <1>3. CASE Appr!TickLook
    BY <1>0, <1>3 DEF Appr!TickLook, Appr!Looked, ResultsTyped
  <1>4. CASE Appr!TickPress
    BY <1>0, <1>4 DEF Appr!TickPress, ResultsTyped
  <1>5. CASE Appr!TickPark
    BY <1>0, <1>5 DEF Appr!TickPark, ResultsTyped
  <1>6. CASE Appr!TickAsk
    BY <1>0, <1>6 DEF Appr!TickAsk, Appr!Spent, Appr!Idle, ResultsTyped
  <1>7. CASE Appr!Rested
    BY <1>0, <1>7 DEF Appr!Rested, ResultsTyped
  <1>8. CASE Appr!StalePoll
    BY <1>0, <1>8 DEF Appr!StalePoll, ResultsTyped
  <1>9. CASE Appr!HookDies
    BY <1>0, <1>9 DEF Appr!HookDies, Appr!Idle, ResultsTyped
  <1>10. CASE Appr!DaemonRestart
    BY <1>0, <1>10 DEF Appr!DaemonRestart, ResultsTyped
  <1>11. ASSUME NEW t \in Tool, Appr!HookAsk(t) PROVE ResultsTyped'
    BY <1>0, <1>11 DEF Appr!HookAsk, Appr!Idle, ResultsTyped
  <1>12. ASSUME NEW a \in Appr!Asker, Appr!Post(a) PROVE ResultsTyped'
    BY <1>0, <1>12 DEF Appr!Post, ResultsTyped
  <1>13. ASSUME NEW a \in Appr!Asker, Appr!Fault(a) PROVE ResultsTyped'
    BY <1>0, <1>13 DEF Appr!Fault, ResultsTyped
  <1>14. ASSUME NEW i \in Appr!Ids, Appr!Timeout(i) PROVE ResultsTyped'
    BY <1>0, <1>14 DEF Appr!Timeout, Appr!Settle, ResultsTyped
  <1>15. ASSUME NEW i \in Appr!Ids, Appr!See(i) PROVE ResultsTyped'
    BY <1>0, <1>15 DEF Appr!See, ResultsTyped
  <1>16. ASSUME NEW i \in Appr!Ids, NEW c \in Appr!Content, NEW v \in {"allow", "deny"}, Appr!Answer(<<i, c>>, v) PROVE ResultsTyped'
    BY <1>0, <1>16 DEF Appr!Answer, Appr!Settle, ResultsTyped
  <1>17. CASE Appr!BreakerDecides
    <2> DEFINE r == ask["breaker"]
    <2>1. keys' = keys \/ (screen = r.content /\ screen # None /\ r.verdict = "allow" /\ keys' = keys \cup {<<r.id, r.content, screen>>})
      BY <1>17 DEF Appr!BreakerDecides, Appr!Proved
    <2>2. passed' = passed /\ "breaker" \in Appr!Asker
      BY <1>17 DEF Appr!BreakerDecides, Appr!Asker
    <2>3. r.verdict = "allow" => r.id \in Appr!Ids
      BY <1>0, <2>2
    <2> HIDE DEF r
    <2> QED BY <1>0, <2>1, <2>2, <2>3 DEF ResultsTyped
  <1>18. CASE Appr!HookDecides
    <2> DEFINE r == ask["hook"]
    <2>1. keys' = keys /\ r.at = "back" /\ "hook" \in Appr!Asker
          /\ passed' = IF r.verdict = "allow" THEN passed \cup {<<r.id, r.content>>} ELSE passed
      BY <1>18 DEF Appr!HookDecides, Appr!Asker
    <2>2. r.content \in Tool /\ (r.verdict = "allow" => r.id \in Appr!Ids)
      BY <1>0, <2>1
    <2> HIDE DEF r
    <2> QED BY <1>0, <2>1, <2>2 DEF ResultsTyped
  <1>19. CASE UNCHANGED Appr!vars
    BY <1>0, <1>19 DEF Appr!vars, ResultsTyped
  <1> QED BY <1>1, <1>2, <1>3, <1>4, <1>5, <1>6, <1>7, <1>8, <1>9, <1>10, <1>11, <1>12, <1>13, <1>14,
     <1>15, <1>16, <1>17, <1>18, <1>19 DEF Appr!Next, Appr!Tick, Appr!Request

LEMMA HumanTypeNext ==
  ASSUME Appr!ApprovalsAssumption, HumanInv, HumanTypes, [Appr!Next]_Appr!vars PROVE HumanTypes'
  BY AsksTypeNext, TriesTypeNext, CountsTypeNext, FacesTypeNext, ResultsTypeNext DEF HumanTypes

(* No affirmative key and no passed tool call without a human's allow of that  *)
(* very request's id, and no key into another modal than the one asked about: *)
(* timeouts, faults, stale polls and restarts of the daemon included.         *)
THEOREM NoAllowWithoutAHuman ==
  ASSUME Appr!ApprovalsAssumption PROVE Appr!Spec => []Appr!OnlyTheHumanAllows
  <1>1. Appr!Init => HumanInv
    BY HumanInit
  <1>2. HumanInv /\ [Appr!Next]_Appr!vars => HumanInv'
    BY HumanNext
  <1>3. HumanInv => Appr!OnlyTheHumanAllows
    BY DEF HumanInv
  <1> QED BY <1>1, <1>2, <1>3, PTL DEF Appr!Spec

-----------------------------------------------------------------------------
(* A held send reaches the human once at most, for any agents, channels and   *)
(* processes.  Whoever confirms owns the claim: a hold that may be claimed    *)
(* was not delivered and is in nobody's hands, and two hands never hold one.  *)
HoldStates == {"unused", "pending", "claimed", "gone"}
Held == [st : HoldStates, agent : Agent \cup {Orig!NoChannel}, to : Channel \cup {Orig!NoChannel}, born : Nat]
Sending == [pc : {"deliver", "stamp"}, kind : {"in", "out"}, agent : Agent, rt : Channel]
Confirming == [pc : {"claimed", "deliver", "stamp"}, kind : {"confirm"},
               agent : Agent \cup {Orig!NoChannel}, rt : Channel, hold : Orig!Hold, who : Orig!Who]

(* The process has the hold in its hands, and has not delivered it yet. *)
InHand(r, i) ==
  \/ r.pc \in {"claimed", "deliver", "stamp", "write"} /\ r.kind = "confirm" /\ r.hold = i
  \/ r.pc = "discard" /\ r.hold = i
ToDeliver(r, i) == r.pc \in {"claimed", "deliver"} /\ r.kind = "confirm" /\ r.hold = i

WellFormed(r) == r.pc \in {"claimed", "deliver", "stamp"} => r \in Sending \cup Confirming

HoldTyped ==
  /\ held \in [Orig!Hold -> Held] /\ sent \in [Orig!Hold -> Nat] /\ clock \in Nat
  /\ proc = [p \in Proc |-> proc[p]] /\ \A p \in Proc : WellFormed(proc[p])

Claimable(h) == h.st \in {"unused", "pending"}
FreeToClaim ==
  \A i \in Orig!Hold : Claimable(held[i]) => sent[i] = 0 /\ \A p \in Proc : ~InHand(proc[p], i)
OneHand ==
  \A p, q \in Proc, i \in Orig!Hold : InHand(proc[p], i) /\ InHand(proc[q], i) => p = q
NotYetSent == \A p \in Proc, i \in Orig!Hold : ToDeliver(proc[p], i) => sent[i] = 0

HoldInv == HoldTyped /\ FreeToClaim /\ OneHand /\ NotYetSent /\ Orig!HeldOnce

LEMMA IdleHands == WellFormed(Orig!Idle) /\ \A i : ~InHand(Orig!Idle, i) /\ ~ToDeliver(Orig!Idle, i)
  BY DEF Orig!Idle, WellFormed, InHand, ToDeliver

LEMMA HoldInit == ASSUME Orig!OriginGuardAssumption, Orig!Init PROVE HoldInv
  <1>1. HoldTyped
    BY IdleHands DEF Orig!Init, HoldTyped, Orig!NoHold, Held, HoldStates
  <1> QED BY <1>1, IdleHands DEF Orig!Init, HoldInv, FreeToClaim, OneHand, NotYetSent, Orig!HeldOnce

(* The sweep of old holds only makes claimable ones go. *)
LEMMA SweepOnlyTakes ==
  ASSUME HoldInv
  PROVE  /\ Orig!Swept(held) \in [Orig!Hold -> Held]
         /\ \A i \in Orig!Hold : Orig!Swept(held)[i] = held[i] \/ Orig!Swept(held)[i].st = "gone"
  BY DEF HoldInv, HoldTyped, Orig!Swept, Held, HoldStates

(* What one process may do: it takes a hold in hand only from the claimable,  *)
(* puts back only one that it has in hand, and delivers only from its hand.   *)
LEMMA OneProcess ==
  ASSUME HoldInv, NEW p \in Proc, NEW r, proc' = [proc EXCEPT ![p] = r], WellFormed(r),
         held' \in [Orig!Hold -> Held], sent' \in [Orig!Hold -> Nat], UNCHANGED clock,
         \A i \in Orig!Hold : InHand(r, i) => InHand(proc[p], i) \/ Claimable(held[i]),
         \A i \in Orig!Hold : ToDeliver(r, i) => sent'[i] = 0,
         \A i \in Orig!Hold : Claimable(held'[i]) =>
           /\ sent'[i] = 0 /\ ~InHand(r, i)
           /\ Claimable(held[i]) \/ InHand(proc[p], i),
         \A i \in Orig!Hold : \/ sent'[i] = sent[i]
                              \/ ToDeliver(proc[p], i) /\ InHand(proc[p], i) /\ sent'[i] = sent[i] + 1
  PROVE  HoldInv'
  <1>1. proc'[p] = r /\ \A q \in Proc : q # p => proc'[q] = proc[q]
    BY DEF HoldInv, HoldTyped
  <1>2. HoldTyped'
    <2>1. proc' = [q \in Proc |-> proc'[q]]
      BY DEF HoldInv, HoldTyped
    <2> QED BY <1>1, <2>1 DEF HoldInv, HoldTyped
  <1>3. FreeToClaim'
    BY <1>1 DEF HoldInv, FreeToClaim, OneHand
  <1>4. OneHand'
    BY <1>1 DEF HoldInv, FreeToClaim, OneHand
  <1>5. NotYetSent'
    <2> SUFFICES ASSUME NEW q \in Proc, NEW i \in Orig!Hold, ToDeliver(proc'[q], i) PROVE sent'[i] = 0
      BY DEF NotYetSent
    <2>1. CASE q = p
      BY <1>1, <2>1
    <2>2. CASE q # p
      <3>1. ToDeliver(proc[q], i) /\ InHand(proc[q], i)
        BY <1>1, <2>2 DEF ToDeliver, InHand
      <3> QED BY <2>2, <3>1 DEF HoldInv, NotYetSent, OneHand
    <2> QED BY <2>1, <2>2
  <1>6. Orig!HeldOnce'
    BY DEF HoldInv, HoldTyped, NotYetSent, Orig!HeldOnce
  <1> QED BY <1>2, <1>3, <1>4, <1>5, <1>6 DEF HoldInv

(* Sends: one begins, is held, or is refused. *)
LEMMA SendKeeps ==
  ASSUME HoldInv, Orig!OriginGuardAssumption, NEW p \in Proc, NEW a \in Agent, NEW c \in Channel,
         Orig!HumanSends(p, a, c) \/ Orig!AgentSends(p, a, c) \/ Orig!HoldSend(p, a, c) \/ Orig!SpoolFails(p, a, c)
  PROVE  HoldInv'
  <1>1. CASE Orig!HumanSends(p, a, c) \/ Orig!AgentSends(p, a, c)
    <2>1. PICK k \in {"in", "out"} :
            proc' = [proc EXCEPT ![p] = [pc |-> "deliver", kind |-> k, agent |-> a, rt |-> c]]
      BY <1>1 DEF Orig!HumanSends, Orig!AgentSends
    <2> DEFINE r == [pc |-> "deliver", kind |-> k, agent |-> a, rt |-> c]
    <2>2. WellFormed(r) /\ \A i : ~InHand(r, i) /\ ~ToDeliver(r, i)
      BY DEF WellFormed, Sending, InHand, ToDeliver
    <2>3. UNCHANGED <<held, sent, clock>>
      BY <1>1 DEF Orig!HumanSends, Orig!AgentSends
    <2>4. proc' = [proc EXCEPT ![p] = r]
      BY <2>1
    <2> HIDE DEF r
    <2>5. held' \in [Orig!Hold -> Held] /\ sent' \in [Orig!Hold -> Nat]
          /\ \A i \in Orig!Hold : Claimable(held'[i]) => sent'[i] = 0 /\ Claimable(held[i])
      BY <2>3 DEF HoldInv, HoldTyped, FreeToClaim
    <2> QED BY <2>2, <2>3, <2>4, <2>5, OneProcess
  <1>2. CASE Orig!HoldSend(p, a, c)
    <2>1. PICK i \in Orig!Hold :
            /\ held[i] = Orig!NoHold
            /\ held' = [Orig!Swept(held) EXCEPT ![i] = [st |-> "pending", agent |-> a, to |-> c, born |-> clock]]
      BY <1>2 DEF Orig!HoldSend
    <2>2. UNCHANGED <<sent, proc, clock>>
      BY <1>2 DEF Orig!HoldSend
    <2>3. held' \in [Orig!Hold -> Held] /\ \A j \in Orig!Hold : Claimable(held'[j]) => Claimable(held[j])
      BY <2>1, SweepOnlyTakes DEF HoldInv, HoldTyped, Held, HoldStates, Orig!NoHold, Claimable
    <2> QED BY <2>2, <2>3 DEF HoldInv, HoldTyped, FreeToClaim, OneHand, NotYetSent, Orig!HeldOnce
  <1>3. CASE Orig!SpoolFails(p, a, c)
    BY <1>3 DEF Orig!SpoolFails, HoldInv, HoldTyped, FreeToClaim, OneHand, NotYetSent, Orig!HeldOnce
  <1> QED BY <1>1, <1>2, <1>3

(* A claim takes a pending hold in hand; a refused one changes nothing but the *)
(* swept ones.                                                               *)
LEMMA ClaimKeeps ==
  ASSUME HoldInv, NEW p \in Proc, NEW i \in Orig!Hold,
         (\E w \in Orig!Who, c \in Channel : Orig!Claim(p, i, w, c)) \/ Orig!ClaimRefused(p, i)
  PROVE  HoldInv'
  <1>1. ASSUME NEW w \in Orig!Who, NEW c \in Channel, Orig!Claim(p, i, w, c) PROVE HoldInv'
    <2> DEFINE r == [pc |-> "claimed", kind |-> "confirm", agent |-> held[i].agent, rt |-> c,
                     hold |-> i, who |-> w]
    <2>1. /\ proc' = [proc EXCEPT ![p] = r] /\ held' = [Orig!Swept(held) EXCEPT ![i].st = "claimed"]
          /\ UNCHANGED <<sent, clock>> /\ Orig!Swept(held)[i].st = "pending"
      BY <1>1 DEF Orig!Claim
    <2>2. Orig!Swept(held)[i] = held[i] /\ held[i] \in Held /\ held[i].st = "pending"
      BY <2>1, SweepOnlyTakes DEF HoldInv, HoldTyped
    <2>3. WellFormed(r) /\ \A j \in Orig!Hold : InHand(r, j) \/ ToDeliver(r, j) => j = i
      BY <2>2 DEF WellFormed, Confirming, InHand, ToDeliver, Held
    <2> HIDE DEF r
    <2>4. held' \in [Orig!Hold -> Held] /\ held'[i].st = "claimed"
          /\ \A j \in Orig!Hold : Claimable(held'[j]) => Claimable(held[j])
      BY <2>1, <2>2, SweepOnlyTakes DEF Held, HoldStates, Claimable
    <2>5. /\ sent' \in [Orig!Hold -> Nat] /\ sent'[i] = 0 /\ Claimable(held[i]) /\ ~Claimable(held'[i])
          /\ \A j \in Orig!Hold : Claimable(held[j]) => sent'[j] = 0
      BY <2>1, <2>2, <2>4 DEF HoldInv, HoldTyped, FreeToClaim, Claimable
    <2> QED BY <2>1, <2>3, <2>4, <2>5, OneProcess
  <1>2. CASE Orig!ClaimRefused(p, i)
    <2>1. held' = Orig!Swept(held) /\ UNCHANGED <<sent, proc, clock>>
      BY <1>2 DEF Orig!ClaimRefused
    <2>2. held' \in [Orig!Hold -> Held] /\ \A j \in Orig!Hold : Claimable(held'[j]) => Claimable(held[j])
      BY <2>1, SweepOnlyTakes DEF Claimable
    <2> QED BY <2>1, <2>2 DEF HoldInv, HoldTyped, FreeToClaim, OneHand, NotYetSent, Orig!HeldOnce
  <1> QED BY <1>1, <1>2

(* A process that lets go of what it has not delivered may put it back; one    *)
(* that dies, or is done with it, does not.                                  *)
LEMMA LetsGo ==
  ASSUME HoldInv, NEW p \in Proc, proc' = [proc EXCEPT ![p] = Orig!Idle], UNCHANGED <<sent, clock>>,
         \/ held' = held
         \/ \E i \in Orig!Hold : ToDeliver(proc[p], i) /\ held' = Orig!Restored(i)
         \/ \E i \in Orig!Hold : held' = [held EXCEPT ![i].st = "gone"]
  PROVE  HoldInv'
  <1>1. /\ held' \in [Orig!Hold -> Held] /\ sent' \in [Orig!Hold -> Nat]
        /\ \A i \in Orig!Hold : Claimable(held'[i]) => Claimable(held[i]) \/ ToDeliver(proc[p], i)
    BY DEF HoldInv, HoldTyped, Orig!Restored, Held, HoldStates, Claimable
  <1>2. \A i \in Orig!Hold : ToDeliver(proc[p], i) => InHand(proc[p], i) /\ sent[i] = 0
    BY DEF HoldInv, NotYetSent, ToDeliver, InHand
  <1>3. \A i \in Orig!Hold : Claimable(held'[i]) =>
          sent'[i] = 0 /\ (Claimable(held[i]) \/ InHand(proc[p], i))
    BY <1>1, <1>2 DEF HoldInv, FreeToClaim
  <1> QED BY <1>1, <1>3, IdleHands, OneProcess

(* A step that keeps the holds, and in which the process has in hand at most   *)
(* what it had.                                                              *)
LEMMA CarriesOn ==
  ASSUME HoldInv, NEW p \in Proc, NEW r, proc' = [proc EXCEPT ![p] = r], WellFormed(r),
         UNCHANGED <<held, sent, clock>>,
         \A i \in Orig!Hold : InHand(r, i) => InHand(proc[p], i),
         \A i \in Orig!Hold : ToDeliver(r, i) => ToDeliver(proc[p], i)
  PROVE  HoldInv'
  <1>1. held' \in [Orig!Hold -> Held] /\ sent' \in [Orig!Hold -> Nat]
    BY DEF HoldInv, HoldTyped
  <1>2. \A i \in Orig!Hold : ToDeliver(r, i) => sent'[i] = 0
    BY DEF HoldInv, NotYetSent
  <1>3. \A i \in Orig!Hold : Claimable(held'[i]) => sent'[i] = 0 /\ ~InHand(r, i) /\ Claimable(held[i])
    BY DEF HoldInv, FreeToClaim
  <1> QED BY <1>1, <1>2, <1>3, OneProcess

LEMMA HeldFields ==
  ASSUME HoldInv, NEW p \in Proc, proc[p].pc \in {"claimed", "deliver", "stamp"}
  PROVE  \/ proc[p] \in Sending
         \/ proc[p] \in Confirming
  BY DEF HoldInv, HoldTyped, WellFormed

(* The delivery: the one step that counts, by the one process that has the     *)
(* hold in hand.                                                             *)
LEMMA DeliveredKeeps == ASSUME HoldInv, NEW p \in Proc, Orig!Delivered(p) PROVE HoldInv'
  <1> DEFINE r == [proc[p] EXCEPT !.pc = "stamp"]
  <1>1. /\ proc[p].pc = "deliver" /\ UNCHANGED <<held, clock>>
        /\ proc' = [proc EXCEPT ![p] = r]
    BY DEF Orig!Delivered, HoldInv, HoldTyped
  <1>2. CASE proc[p] \in Sending
    <2>1. r \in Sending /\ proc[p].kind # "confirm" /\ r.kind # "confirm" /\ r.pc = "stamp"
      BY <1>2 DEF Sending
    <2>2. sent' = sent
      BY <2>1 DEF Orig!Delivered
    <2>3. WellFormed(r) /\ \A i \in Orig!Hold : ~InHand(r, i) /\ ~ToDeliver(r, i)
      BY <2>1 DEF WellFormed, InHand, ToDeliver
    <2> HIDE DEF r
    <2> QED BY <1>1, <2>2, <2>3, CarriesOn
  <1>3. CASE proc[p] \in Confirming
    <2> DEFINE h == proc[p].hold
    <2>1. /\ r \in Confirming /\ h \in Orig!Hold /\ r.hold = h /\ r.pc = "stamp"
          /\ proc[p].kind = "confirm"
      BY <1>3 DEF Confirming
    <2>2. ToDeliver(proc[p], h) /\ InHand(proc[p], h)
      BY <1>1, <2>1 DEF ToDeliver, InHand
    <2>3. sent' = [sent EXCEPT ![h] = sent[h] + 1]
      BY <2>1 DEF Orig!Delivered
    <2>4. /\ WellFormed(r)
          /\ \A i \in Orig!Hold : InHand(r, i) => i = h
          /\ \A i \in Orig!Hold : ~ToDeliver(r, i)
      BY <2>1 DEF WellFormed, InHand, ToDeliver
    <2> HIDE DEF r, h
    <2>5. /\ sent' \in [Orig!Hold -> Nat] /\ held' \in [Orig!Hold -> Held]
          /\ \A i \in Orig!Hold : i # h => sent'[i] = sent[i]
          /\ sent'[h] = sent[h] + 1
      BY <1>1, <2>1, <2>3 DEF HoldInv, HoldTyped
    <2>6. \A i \in Orig!Hold : Claimable(held'[i]) => i # h /\ sent'[i] = 0 /\ Claimable(held[i])
      BY <1>1, <2>2, <2>5 DEF HoldInv, FreeToClaim
    <2>7. \A i \in Orig!Hold : InHand(r, i) => InHand(proc[p], i)
      BY <2>2, <2>4
    <2>8. \A i \in Orig!Hold : \/ sent'[i] = sent[i]
                               \/ ToDeliver(proc[p], i) /\ InHand(proc[p], i) /\ sent'[i] = sent[i] + 1
      BY <2>2, <2>5
    <2>9. \A i \in Orig!Hold : Claimable(held'[i]) => ~InHand(r, i)
      BY <2>4, <2>6
    <2> QED BY <1>1, <2>4, <2>5, <2>6, <2>7, <2>8, <2>9, OneProcess
  <1> QED BY <1>1, <1>2, <1>3, HeldFields

(* The other steps of a process. *)
LEMMA StepKeeps ==
  ASSUME HoldInv, NEW p \in Proc,
         \/ Orig!NotYours(p) \/ Orig!Yours(p) \/ Orig!DeliveryFails(p)
         \/ Orig!StampRead(p) \/ Orig!StampWrite(p) \/ Orig!Discard(p) \/ Orig!Die(p)
  PROVE  HoldInv'
  <1>1. CASE Orig!NotYours(p)
    <2>1. proc[p] \in Confirming \/ proc[p] \in Sending
      BY <1>1, HeldFields DEF Orig!NotYours
    <2>2. proc[p].hold \in Orig!Hold /\ ToDeliver(proc[p], proc[p].hold)
      BY <1>1, <2>1 DEF Orig!NotYours, Confirming, Sending, ToDeliver
    <2> QED BY <1>1, <2>2, LetsGo DEF Orig!NotYours
  <1>2. CASE Orig!Yours(p)
    <2> DEFINE r == [proc[p] EXCEPT !.pc = "deliver"]
    <2>1. proc[p] \in Confirming /\ proc[p].pc = "claimed"
      BY <1>2, HeldFields DEF Orig!Yours, Sending
    <2>2. /\ r \in Confirming /\ r.hold = proc[p].hold /\ r.pc = "deliver"
          /\ proc[p].kind = "confirm"
      BY <2>1 DEF Confirming
    <2>3. WellFormed(r) /\ \A i \in Orig!Hold : /\ InHand(r, i) => InHand(proc[p], i)
                                                /\ ToDeliver(r, i) => ToDeliver(proc[p], i)
      BY <2>1, <2>2 DEF WellFormed, InHand, ToDeliver
    <2>4. proc' = [proc EXCEPT ![p] = r] /\ UNCHANGED <<held, sent, clock>>
      BY <1>2 DEF Orig!Yours, HoldInv, HoldTyped
    <2> HIDE DEF r
    <2> QED BY <2>3, <2>4, CarriesOn
  <1>3. CASE Orig!DeliveryFails(p)
    <2>1. CASE proc[p].kind = "confirm"
      <3>1. proc[p] \in Confirming
        BY <1>3, <2>1, HeldFields DEF Orig!DeliveryFails, Sending
      <3>2. proc[p].hold \in Orig!Hold /\ ToDeliver(proc[p], proc[p].hold)
        BY <1>3, <2>1, <3>1 DEF Orig!DeliveryFails, Confirming, ToDeliver
      <3> QED BY <1>3, <2>1, <3>2, LetsGo DEF Orig!DeliveryFails
    <2>2. CASE proc[p].kind # "confirm"
      BY <1>3, <2>2, LetsGo DEF Orig!DeliveryFails
    <2> QED BY <2>1, <2>2
  <1>4. CASE Orig!StampRead(p)
    <2> DEFINE r == [pc |-> "write", kind |-> proc[p].kind, agent |-> proc[p].agent,
                     rt |-> proc[p].rt,
                     hold |-> IF proc[p].kind = "confirm" THEN proc[p].hold ELSE 0,
                     seen |-> stamps, now |-> clock]
    <2>1. /\ proc' = [proc EXCEPT ![p] = r] /\ proc[p].pc = "stamp"
          /\ UNCHANGED <<held, sent, clock>>
      BY <1>4 DEF Orig!StampRead, HoldInv, HoldTyped
    <2>2. WellFormed(r) /\ \A i \in Orig!Hold : /\ InHand(r, i) => InHand(proc[p], i)
                                                /\ ~ToDeliver(r, i)
      BY <2>1 DEF WellFormed, InHand, ToDeliver
    <2> HIDE DEF r
    <2> QED BY <2>1, <2>2, CarriesOn
  <1>5. CASE Orig!StampWrite(p)
    <2> DEFINE r == IF proc[p].kind = "confirm" THEN [pc |-> "discard", hold |-> proc[p].hold] ELSE Orig!Idle
    <2>1. /\ proc' = [proc EXCEPT ![p] = r] /\ proc[p].pc = "write"
          /\ UNCHANGED <<held, sent, clock>>
      BY <1>5 DEF Orig!StampWrite, HoldInv, HoldTyped
    <2>2. WellFormed(r) /\ \A i \in Orig!Hold : /\ InHand(r, i) => InHand(proc[p], i)
                                                /\ ~ToDeliver(r, i)
      BY <2>1, IdleHands DEF WellFormed, InHand, ToDeliver
    <2> HIDE DEF r
    <2> QED BY <2>1, <2>2, CarriesOn
  <1>6. CASE Orig!Discard(p)
    <2>1. CASE proc[p].hold \in Orig!Hold
      BY <1>6, <2>1, LetsGo DEF Orig!Discard
    <2>2. CASE proc[p].hold \notin Orig!Hold
      <3>1. held' = held
        BY <1>6, <2>2 DEF Orig!Discard, HoldInv, HoldTyped
      <3> QED BY <1>6, <3>1, LetsGo DEF Orig!Discard
    <2> QED BY <2>1, <2>2
  <1>7. CASE Orig!Die(p)
    BY <1>7, LetsGo DEF Orig!Die
  <1> QED BY <1>1, <1>2, <1>3, <1>4, <1>5, <1>6, <1>7

LEMMA HoldNext == ASSUME HoldInv, Orig!OriginGuardAssumption, [Orig!Next]_Orig!vars PROVE HoldInv'
  <1>1. CASE Orig!Tick
    BY <1>1 DEF Orig!Tick, HoldInv, HoldTyped, FreeToClaim, OneHand, NotYetSent, Orig!HeldOnce
  <1>2. CASE UNCHANGED Orig!vars
    BY <1>2 DEF Orig!vars, HoldInv, HoldTyped, FreeToClaim, OneHand, NotYetSent, Orig!HeldOnce
  <1> QED BY <1>1, <1>2, SendKeeps, ClaimKeeps, DeliveredKeeps, StepKeeps DEF Orig!Next

(* The values of the variables.  What a process is to write back was read as  *)
(* a file of stamps, and the time it stamps is one of the clock's.             *)
Steps == {"idle", "deliver", "claimed", "stamp", "write", "discard"}
Stamps == [Agent -> Orig!Entry]
ToWrite(r) == r.pc = "write" => r.seen \in Stamps /\ r.now \in 0 .. MaxTime /\ (r.kind = "in" => r.rt \in Channel)
Doing(r) == r.pc \in Steps /\ ToWrite(r)
ProcTyped == \A p \in Proc : Doing(proc[p])
BudgetsTyped ==
  missed \in BOOLEAN /\ clock \in 0 .. MaxTime /\ ops \in 0 .. MaxOp /\ faults \in 0 .. MaxFault
OrigTypes == stamps \in Stamps /\ serial \in Stamps /\ ProcTyped /\ BudgetsTyped

LEMMA OrigIsTyped == ASSUME HoldInv, OrigTypes PROVE Orig!TypeOK
  BY DEF HoldInv, HoldTyped, Held, HoldStates, OrigTypes, Stamps, ProcTyped, Doing, Steps, BudgetsTyped, Orig!TypeOK

LEMMA OrigTypeInit == ASSUME Orig!OriginGuardAssumption, Orig!Init PROVE OrigTypes
  <1>1. Orig!NoEntry \in Orig!Entry
    BY DEF Orig!NoEntry, Orig!Entry, Orig!Never, Orig!OriginGuardAssumption
  <1>2. stamps \in Stamps /\ serial \in Stamps
    BY <1>1 DEF Orig!Init, Stamps
  <1>3. ProcTyped
    BY DEF Orig!Init, Orig!Idle, ProcTyped, Doing, Steps, ToWrite
  <1>4. 0 \in 0 .. MaxTime /\ 0 \in 0 .. MaxOp /\ 0 \in 0 .. MaxFault
    BY DEF Orig!OriginGuardAssumption
  <1>5. missed = FALSE /\ clock = 0 /\ ops = 0 /\ faults = 0
    BY DEF Orig!Init
  <1>6. BudgetsTyped
    BY <1>4, <1>5 DEF BudgetsTyped
  <1> QED BY <1>2, <1>3, <1>6 DEF OrigTypes

(* A stamp is made of a file of stamps and leaves one. *)
LEMMA StampedTyped ==
  ASSUME NEW p, NEW f \in Stamps, NEW t \in 0 .. MaxTime, proc[p].kind = "in" => proc[p].rt \in Channel,
         Orig!OriginGuardAssumption
  PROVE  Orig!Stamped(f, p, t) \in Stamps
  <1> DEFINE a == proc[p].agent
             c == proc[p].rt
  <1>0. t \in Orig!Never .. MaxTime
    BY DEF Orig!Never, Orig!OriginGuardAssumption
  <1>1. CASE proc[p].kind = "in"
    <2>1. Orig!Stamped(f, p, t) = [f EXCEPT ![a].rt = c, ![a].in = t] /\ c \in Channel
      BY <1>1 DEF Orig!Stamped, Orig!Inbound
    <2> HIDE DEF a, c
    <2> QED BY <1>0, <2>1 DEF Stamps, Orig!Entry
  <1>2. CASE proc[p].kind # "in"
    <2>1. Orig!Stamped(f, p, t) = f \/ Orig!Stamped(f, p, t) = [f EXCEPT ![a].answered = t]
      BY <1>2 DEF Orig!Stamped, Orig!AnsweredStamp
    <2> HIDE DEF a
    <2> QED BY <1>0, <2>1 DEF Stamps, Orig!Entry
  <1> QED BY <1>1, <1>2

(* One process takes its next step, whatever the others are doing. *)
LEMMA ProcMoves ==
  ASSUME HoldInv, ProcTyped, NEW p \in Proc, NEW r, proc' = [proc EXCEPT ![p] = r], Doing(r) PROVE ProcTyped'
  <1>1. proc = [q \in Proc |-> proc[q]]
    BY DEF HoldInv, HoldTyped
  <1>2. \A q \in Proc : proc'[q] = r \/ proc'[q] = proc[q]
    BY <1>1
  <1> QED BY <1>2 DEF ProcTyped, Doing, ToWrite, Stamps, Orig!Entry

LEMMA BudgetsTypeNext ==
  ASSUME Orig!OriginGuardAssumption, OrigTypes, [Orig!Next]_Orig!vars
  PROVE  BudgetsTyped'
  <1>0. BudgetsTyped /\ MaxOp \in Nat /\ MaxTime \in Nat /\ MaxFault \in Nat
    BY DEF OrigTypes, Orig!OriginGuardAssumption
  <1>1. ASSUME NEW p \in Proc, NEW a \in Agent, NEW c \in Channel, Orig!HumanSends(p, a, c) PROVE BudgetsTyped'
    BY <1>0, <1>1 DEF Orig!HumanSends, Orig!Begin, BudgetsTyped
  <1>2. ASSUME NEW p \in Proc, NEW a \in Agent, NEW c \in Channel, Orig!AgentSends(p, a, c) PROVE BudgetsTyped'
    BY <1>0, <1>2 DEF Orig!AgentSends, Orig!Begin, BudgetsTyped
  <1>3. ASSUME NEW p \in Proc, NEW a \in Agent, NEW c \in Channel, Orig!HoldSend(p, a, c) PROVE BudgetsTyped'
    BY <1>0, <1>3 DEF Orig!HoldSend, Orig!Begin, BudgetsTyped
  <1>4. ASSUME NEW p \in Proc, NEW a \in Agent, NEW c \in Channel, Orig!SpoolFails(p, a, c) PROVE BudgetsTyped'
    BY <1>0, <1>4 DEF Orig!SpoolFails, Orig!Begin, BudgetsTyped
  <1>5. ASSUME NEW p \in Proc, NEW i \in Orig!Hold, NEW w \in Orig!Who, NEW c \in Channel, Orig!Claim(p, i, w, c) PROVE BudgetsTyped'
    BY <1>0, <1>5 DEF Orig!Claim, Orig!Begin, BudgetsTyped
  <1>6. ASSUME NEW p \in Proc, NEW i \in Orig!Hold, Orig!ClaimRefused(p, i) PROVE BudgetsTyped'
    BY <1>0, <1>6 DEF Orig!ClaimRefused, Orig!Begin, BudgetsTyped
  <1>7. ASSUME NEW p \in Proc, Orig!NotYours(p) PROVE BudgetsTyped'
    BY <1>0, <1>7 DEF Orig!NotYours, Orig!Begin, BudgetsTyped
  <1>8. ASSUME NEW p \in Proc, Orig!Yours(p) PROVE BudgetsTyped'
    BY <1>0, <1>8 DEF Orig!Yours, Orig!Begin, BudgetsTyped
  <1>9. ASSUME NEW p \in Proc, Orig!Delivered(p) PROVE BudgetsTyped'
    BY <1>0, <1>9 DEF Orig!Delivered, Orig!Begin, BudgetsTyped
  <1>10. ASSUME NEW p \in Proc, Orig!DeliveryFails(p) PROVE BudgetsTyped'
    BY <1>0, <1>10 DEF Orig!DeliveryFails, Orig!Begin, BudgetsTyped
  <1>11. ASSUME NEW p \in Proc, Orig!StampRead(p) PROVE BudgetsTyped'
    BY <1>0, <1>11 DEF Orig!StampRead, Orig!Begin, BudgetsTyped
  <1>12. ASSUME NEW p \in Proc, Orig!StampWrite(p) PROVE BudgetsTyped'
    BY <1>0, <1>12 DEF Orig!StampWrite, Orig!Begin, BudgetsTyped
  <1>13. ASSUME NEW p \in Proc, Orig!Discard(p) PROVE BudgetsTyped'
    BY <1>0, <1>13 DEF Orig!Discard, Orig!Begin, BudgetsTyped
  <1>14. ASSUME NEW p \in Proc, Orig!Die(p) PROVE BudgetsTyped'
    BY <1>0, <1>14 DEF Orig!Die, Orig!Begin, BudgetsTyped
  <1>15. CASE Orig!Tick
    BY <1>0, <1>15 DEF Orig!Tick, Orig!Begin, BudgetsTyped
  <1>16. CASE UNCHANGED Orig!vars
    BY <1>0, <1>16 DEF Orig!vars, Orig!Begin, BudgetsTyped
  <1> QED BY <1>1, <1>2, <1>3, <1>4, <1>5, <1>6, <1>7, <1>8, <1>9, <1>10, <1>11, <1>12, <1>13, <1>14,
     <1>15, <1>16 DEF Orig!Next

LEMMA StampsTypeNext ==
  ASSUME Orig!OriginGuardAssumption, OrigTypes, [Orig!Next]_Orig!vars PROVE stamps' \in Stamps /\ serial' \in Stamps
  <1>0. stamps \in Stamps /\ serial \in Stamps /\ ProcTyped
    BY DEF OrigTypes
  <1>1. CASE UNCHANGED <<stamps, serial>>
    BY <1>0, <1>1
  <1>2. ASSUME NEW p \in Proc, Orig!StampWrite(p) PROVE stamps' \in Stamps /\ serial' \in Stamps
    <2>1. proc[p].seen \in Stamps /\ proc[p].now \in 0 .. MaxTime /\ (proc[p].kind = "in" => proc[p].rt \in Channel)
      BY <1>0, <1>2 DEF Orig!StampWrite, ProcTyped, Doing, ToWrite
    <2>2. Orig!Stamped(proc[p].seen, p, proc[p].now) \in Stamps /\ Orig!Stamped(serial, p, proc[p].now) \in Stamps
      BY <1>0, <2>1, StampedTyped
    <2>3. /\ stamps' = stamps \/ stamps' = Orig!Stamped(proc[p].seen, p, proc[p].now)
          /\ serial' = Orig!Stamped(serial, p, proc[p].now)
      BY <1>2 DEF Orig!StampWrite
    <2> QED BY <1>0, <2>2, <2>3
  <1>3. ASSUME NEW p \in Proc, NEW a \in Agent, NEW c \in Channel, Orig!HumanSends(p, a, c) PROVE UNCHANGED <<stamps, serial>>
    BY <1>3 DEF Orig!HumanSends
  <1>4. ASSUME NEW p \in Proc, NEW a \in Agent, NEW c \in Channel, Orig!AgentSends(p, a, c) PROVE UNCHANGED <<stamps, serial>>
    BY <1>4 DEF Orig!AgentSends
  <1>5. ASSUME NEW p \in Proc, NEW a \in Agent, NEW c \in Channel, Orig!HoldSend(p, a, c) PROVE UNCHANGED <<stamps, serial>>
    BY <1>5 DEF Orig!HoldSend
  <1>6. ASSUME NEW p \in Proc, NEW a \in Agent, NEW c \in Channel, Orig!SpoolFails(p, a, c) PROVE UNCHANGED <<stamps, serial>>
    BY <1>6 DEF Orig!SpoolFails
  <1>7. ASSUME NEW p \in Proc, NEW i \in Orig!Hold, NEW w \in Orig!Who, NEW c \in Channel, Orig!Claim(p, i, w, c) PROVE UNCHANGED <<stamps, serial>>
    BY <1>7 DEF Orig!Claim
  <1>8. ASSUME NEW p \in Proc, NEW i \in Orig!Hold, Orig!ClaimRefused(p, i) PROVE UNCHANGED <<stamps, serial>>
    BY <1>8 DEF Orig!ClaimRefused
  <1>9. ASSUME NEW p \in Proc, Orig!NotYours(p) PROVE UNCHANGED <<stamps, serial>>
    BY <1>9 DEF Orig!NotYours
  <1>10. ASSUME NEW p \in Proc, Orig!Yours(p) PROVE UNCHANGED <<stamps, serial>>
    BY <1>10 DEF Orig!Yours
  <1>11. ASSUME NEW p \in Proc, Orig!Delivered(p) PROVE UNCHANGED <<stamps, serial>>
    BY <1>11 DEF Orig!Delivered
  <1>12. ASSUME NEW p \in Proc, Orig!DeliveryFails(p) PROVE UNCHANGED <<stamps, serial>>
    BY <1>12 DEF Orig!DeliveryFails
  <1>13. ASSUME NEW p \in Proc, Orig!StampRead(p) PROVE UNCHANGED <<stamps, serial>>
    BY <1>13 DEF Orig!StampRead
  <1>14. ASSUME NEW p \in Proc, Orig!Discard(p) PROVE UNCHANGED <<stamps, serial>>
    BY <1>14 DEF Orig!Discard
  <1>15. ASSUME NEW p \in Proc, Orig!Die(p) PROVE UNCHANGED <<stamps, serial>>
    BY <1>15 DEF Orig!Die
  <1>16. ASSUME Orig!Tick PROVE UNCHANGED <<stamps, serial>>
    BY <1>16 DEF Orig!Tick
  <1>17. ASSUME UNCHANGED Orig!vars PROVE UNCHANGED <<stamps, serial>>
    BY <1>17 DEF Orig!vars
  <1> QED BY <1>1, <1>2, <1>3, <1>4, <1>5, <1>6, <1>7, <1>8, <1>9, <1>10, <1>11, <1>12, <1>13, <1>14,
     <1>15, <1>16, <1>17 DEF Orig!Next

LEMMA ProcTypeNext ==
  ASSUME Orig!OriginGuardAssumption, HoldInv, OrigTypes, [Orig!Next]_Orig!vars PROVE ProcTyped'
  <1>0. ProcTyped /\ clock \in 0 .. MaxTime /\ stamps \in Stamps
    BY DEF OrigTypes, BudgetsTyped
  <1>1. Doing(Orig!Idle)
    BY DEF Doing, ToWrite, Steps, Orig!Idle
  <1>2. ASSUME NEW p \in Proc, NEW a \in Agent, NEW c \in Channel, Orig!HumanSends(p, a, c) \/ Orig!AgentSends(p, a, c)
        PROVE  ProcTyped'
    <2>1. PICK k \in {"in", "out"} : proc' = [proc EXCEPT ![p] = [pc |-> "deliver", kind |-> k, agent |-> a, rt |-> c]]
      BY <1>2 DEF Orig!HumanSends, Orig!AgentSends
    <2> DEFINE r == [pc |-> "deliver", kind |-> k, agent |-> a, rt |-> c]
    <2>2. Doing(r)
      BY DEF Doing, ToWrite, Steps
    <2> HIDE DEF r
    <2> QED BY <1>0, <2>1, <2>2, ProcMoves DEF r
  <1>3. ASSUME NEW p \in Proc, NEW i \in Orig!Hold, NEW w \in Orig!Who, NEW c \in Channel, Orig!Claim(p, i, w, c)
        PROVE  ProcTyped'
    <2> DEFINE r == [pc |-> "claimed", kind |-> "confirm", agent |-> held[i].agent, rt |-> c, hold |-> i, who |-> w]
    <2>1. proc' = [proc EXCEPT ![p] = r]
      BY <1>3 DEF Orig!Claim
    <2>2. Doing(r)
      BY DEF Doing, ToWrite, Steps
    <2> HIDE DEF r
    <2> QED BY <1>0, <2>1, <2>2, ProcMoves
  <1>4. ASSUME NEW p \in Proc, Orig!NotYours(p) \/ Orig!DeliveryFails(p) \/ Orig!Discard(p) \/ Orig!Die(p) PROVE ProcTyped'
    <2>1. proc' = [proc EXCEPT ![p] = Orig!Idle]
      BY <1>4 DEF Orig!NotYours, Orig!DeliveryFails, Orig!Discard, Orig!Die
    <2> QED BY <1>0, <1>1, <2>1, ProcMoves
  <1>5. ASSUME NEW p \in Proc, Orig!Yours(p) \/ Orig!Delivered(p) PROVE ProcTyped'
    <2>1. proc[p] \in Sending \/ proc[p] \in Confirming
      BY <1>5, HeldFields DEF Orig!Yours, Orig!Delivered
    <2>2. PICK s \in {"deliver", "stamp"} : proc' = [proc EXCEPT ![p].pc = s]
      BY <1>5 DEF Orig!Yours, Orig!Delivered
    <2> DEFINE r == [proc[p] EXCEPT !.pc = s]
    <2>3. Doing(r)
      BY <2>1 DEF Sending, Confirming, Doing, ToWrite, Steps
    <2>4. proc' = [proc EXCEPT ![p] = r]
      BY <2>2 DEF HoldInv, HoldTyped
    <2> HIDE DEF r
    <2> QED BY <1>0, <2>3, <2>4, ProcMoves
  <1>6. ASSUME NEW p \in Proc, Orig!StampRead(p) PROVE ProcTyped'
    <2> DEFINE h == IF proc[p].kind = "confirm" THEN proc[p].hold ELSE 0
               r == [pc |-> "write", kind |-> proc[p].kind, agent |-> proc[p].agent, rt |-> proc[p].rt,
                     hold |-> h, seen |-> stamps, now |-> clock]
    <2>1. proc' = [proc EXCEPT ![p] = r]
      BY <1>6 DEF Orig!StampRead, HoldInv, HoldTyped
    <2>2. proc[p].rt \in Channel
      <3>1. proc[p] \in Sending \/ proc[p] \in Confirming
        BY <1>6, HeldFields DEF Orig!StampRead
      <3> QED BY <3>1 DEF Sending, Confirming
    <2> HIDE DEF h
    <2>3. Doing(r)
      BY <1>0, <2>2 DEF Doing, ToWrite, Steps
    <2> HIDE DEF r
    <2> QED BY <1>0, <2>1, <2>3, ProcMoves
  <1>7. ASSUME NEW p \in Proc, Orig!StampWrite(p) PROVE ProcTyped'
    <2> DEFINE done == [pc |-> "discard", hold |-> proc[p].hold]
               r == IF proc[p].kind = "confirm" THEN done ELSE Orig!Idle
    <2>1. proc' = [proc EXCEPT ![p] = r]
      BY <1>7 DEF Orig!StampWrite, HoldInv, HoldTyped
    <2>2. Doing(done)
      BY DEF Doing, ToWrite, Steps
    <2>3. Doing(r)
      <3> HIDE DEF done
      <3> QED BY <1>1, <2>2
    <2> HIDE DEF r
    <2> QED BY <1>0, <2>1, <2>3, ProcMoves
  <1>8. ASSUME proc' = proc PROVE ProcTyped'
    BY <1>0, <1>8 DEF ProcTyped, Doing, ToWrite, Stamps, Orig!Entry
  <1>9. ASSUME NEW p \in Proc, NEW a \in Agent, NEW c \in Channel, Orig!HoldSend(p, a, c) \/ Orig!SpoolFails(p, a, c)
        PROVE  proc' = proc
    BY <1>9 DEF Orig!HoldSend, Orig!SpoolFails
  <1>10. ASSUME NEW p \in Proc, NEW i \in Orig!Hold, Orig!ClaimRefused(p, i) PROVE proc' = proc
    BY <1>10 DEF Orig!ClaimRefused
  <1>11. ASSUME Orig!Tick \/ UNCHANGED Orig!vars PROVE proc' = proc
    BY <1>11 DEF Orig!Tick, Orig!vars
  <1> QED BY <1>2, <1>3, <1>4, <1>5, <1>6, <1>7, <1>8, <1>9, <1>10, <1>11 DEF Orig!Next

LEMMA OrigTypeNext ==
  ASSUME Orig!OriginGuardAssumption, HoldInv, OrigTypes, [Orig!Next]_Orig!vars PROVE OrigTypes'
  BY BudgetsTypeNext, StampsTypeNext, ProcTypeNext DEF OrigTypes

(* docs/18: "of two concurrent confirms exactly one wins".  However the        *)
(* confirmations race, fail and are put back, and whoever dies with a claim,  *)
(* a held send is delivered once at most.                                    *)
THEOREM AHoldIsSentOnce == ASSUME Orig!OriginGuardAssumption PROVE Orig!Spec => []Orig!HeldOnce
  <1>1. Orig!Init => HoldInv
    BY HoldInit
  <1>2. HoldInv /\ [Orig!Next]_Orig!vars => HoldInv'
    BY HoldNext
  <1>3. HoldInv => Orig!HeldOnce
    BY DEF HoldInv
  <1> QED BY <1>1, <1>2, <1>3, PTL DEF Orig!Spec

(* A hold that was not delivered is still there to be confirmed.  Who has one    *)
(* in hand after the delivery has delivered it, and what is gone was delivered   *)
(* or is too old: a claim that comes back does so before either.                *)
TooOld(h) == clock - h.born > HoldTtl
SentBefore == \A p \in Proc, i \in Orig!Hold : InHand(proc[p], i) /\ ~ToDeliver(proc[p], i) => sent[i] > 0
GoneIsOver == \A i \in Orig!Hold : held[i].st = "gone" => sent[i] > 0 \/ TooOld(held[i])

KeptInv == HoldInv /\ faults \in Nat /\ SentBefore /\ GoneIsOver /\ Orig!HeldIsKept

(* HeldIsKept, in the words of this module. *)
LEMMA KeptSays ==
  Orig!HeldIsKept <=>
    \A i \in Orig!Hold : Claimable(held[i]) \/ sent[i] > 0 \/ (\E p \in Proc : ToDeliver(proc[p], i))
                         \/ TooOld(held[i]) \/ faults > 0
  BY DEF Orig!HeldIsKept, Claimable, ToDeliver, TooOld

LEMMA KeptInit == ASSUME Orig!OriginGuardAssumption, Orig!Init PROVE KeptInv
  <1>1. HoldInv /\ faults = 0
    BY HoldInit DEF Orig!Init
  <1>2. \A i \in Orig!Hold : held[i].st = "unused"
    BY DEF Orig!Init, Orig!NoHold
  <1>3. SentBefore
    BY IdleHands DEF Orig!Init, SentBefore
  <1> QED BY <1>1, <1>2, <1>3, KeptSays DEF KeptInv, GoneIsOver, Claimable

(* What one process may do: it lets a hold go that is delivered or that it put    *)
(* back, and what else changes of a hold is its age.                            *)
MovesTo(p, r) ==
  /\ proc' = [proc EXCEPT ![p] = r] /\ clock' = clock
  /\ faults' \in Nat /\ faults' >= faults
  /\ \A i \in Orig!Hold :
       /\ sent'[i] >= sent[i]
       /\ InHand(r, i) /\ ~ToDeliver(r, i) => sent'[i] > 0
       /\ ToDeliver(proc[p], i) =>
            ToDeliver(r, i) \/ Claimable(held'[i]) \/ sent'[i] > 0 \/ TooOld(held'[i]) \/ faults' > 0
       /\ \/ held'[i] = held[i] \/ Claimable(held'[i]) \/ TooOld(held'[i]) \/ sent'[i] > 0
          \/ held'[i].st = "claimed" /\ ToDeliver(r, i)

LEMMA OneProcessKept ==
  ASSUME KeptInv, HoldInv', NEW p \in Proc, NEW r, MovesTo(p, r)
  PROVE  KeptInv'
  <1>1. /\ proc' = [proc EXCEPT ![p] = r] /\ clock' = clock /\ faults' \in Nat /\ faults' >= faults
        /\ \A i \in Orig!Hold : sent'[i] >= sent[i]
        /\ \A i \in Orig!Hold : InHand(r, i) /\ ~ToDeliver(r, i) => sent'[i] > 0
        /\ \A i \in Orig!Hold : ToDeliver(proc[p], i) =>
             ToDeliver(r, i) \/ Claimable(held'[i]) \/ sent'[i] > 0 \/ TooOld(held'[i]) \/ faults' > 0
        /\ \A i \in Orig!Hold : \/ held'[i] = held[i] \/ Claimable(held'[i]) \/ TooOld(held'[i]) \/ sent'[i] > 0
                                \/ held'[i].st = "claimed" /\ ToDeliver(r, i)
    BY DEF MovesTo
  <1>2. proc'[p] = r /\ \A q \in Proc : q # p => proc'[q] = proc[q]
    BY <1>1 DEF KeptInv, HoldInv, HoldTyped
  <1>3. sent \in [Orig!Hold -> Nat] /\ sent' \in [Orig!Hold -> Nat] /\ faults \in Nat
    BY DEF KeptInv, HoldInv, HoldTyped
  <1>4. \A h : TooOld(h)' <=> TooOld(h)
    BY <1>1 DEF TooOld
  <1>5. \A i \in Orig!Hold : TooOld(held[i])' <=> TooOld(held'[i])
    BY <1>1 DEF TooOld
  <1>6. SentBefore'
    <2> SUFFICES ASSUME NEW q \in Proc, NEW i \in Orig!Hold, InHand(proc'[q], i), ~ToDeliver(proc'[q], i)
                 PROVE  sent'[i] > 0
      BY DEF SentBefore
    <2>1. CASE q = p
      BY <1>1, <1>2, <2>1
    <2>2. CASE q # p
      <3>1. sent[i] > 0 /\ sent'[i] >= sent[i]
        BY <1>1, <1>2, <2>2 DEF KeptInv, SentBefore
      <3> QED BY <1>1, <1>3, <3>1
    <2> QED BY <1>1, <2>1, <2>2
  <1>7. GoneIsOver'
    <2> SUFFICES ASSUME NEW i \in Orig!Hold, held'[i].st = "gone" PROVE sent'[i] > 0 \/ TooOld(held'[i])
      BY <1>1, <1>5 DEF GoneIsOver
    <2>1. CASE held'[i] = held[i]
      <3>1. sent[i] > 0 \/ TooOld(held[i])
        BY <1>1, <2>1 DEF KeptInv, GoneIsOver
      <3>2. sent'[i] >= sent[i]
        BY <1>1
      <3> QED BY <1>1, <1>3, <2>1, <3>1, <3>2
    <2>2. CASE held'[i] # held[i]
      BY <1>1, <2>2 DEF Claimable
    <2> QED BY <1>1, <2>1, <2>2
  <1>8. ASSUME NEW i \in Orig!Hold
        PROVE  \/ Claimable(held'[i]) \/ sent'[i] > 0 \/ (\E q \in Proc : ToDeliver(proc'[q], i))
               \/ TooOld(held'[i]) \/ faults' > 0
    <2>1. CASE held'[i] = held[i]
      <3>1. \/ Claimable(held[i]) \/ sent[i] > 0 \/ (\E q \in Proc : ToDeliver(proc[q], i))
            \/ TooOld(held[i]) \/ faults > 0
        BY KeptSays DEF KeptInv
      <3>2. CASE sent[i] > 0
        <4>1. sent'[i] >= sent[i]
          BY <1>1
        <4> QED BY <1>1, <1>3, <3>2, <4>1
      <3>3. CASE faults > 0
        BY <1>1, <1>3, <3>3
      <3>4. ASSUME NEW q \in Proc, ToDeliver(proc[q], i)
            PROVE  \/ Claimable(held'[i]) \/ sent'[i] > 0 \/ (\E x \in Proc : ToDeliver(proc'[x], i))
                   \/ TooOld(held'[i]) \/ faults' > 0
        <4>1. CASE q = p
          BY <1>1, <1>2, <3>4, <4>1
        <4>2. CASE q # p
          BY <1>1, <1>2, <3>4, <4>2
        <4> QED BY <1>1, <4>1, <4>2
      <3> QED BY <1>1, <2>1, <3>1, <3>2, <3>3, <3>4
    <2>2. CASE held'[i] # held[i]
      BY <1>1, <1>2, <2>2
    <2> QED BY <1>1, <2>1, <2>2
  <1>9. Orig!HeldIsKept'
    BY <1>1, <1>8 DEF Orig!HeldIsKept, Claimable, ToDeliver, TooOld
  <1> QED BY <1>1, <1>6, <1>7, <1>9 DEF KeptInv

(* The sweep takes what is too old. *)
LEMMA SweptIsOld ==
  ASSUME HoldInv, NEW i \in Orig!Hold
  PROVE  Orig!Swept(held)[i] = held[i] \/ TooOld(Orig!Swept(held)[i])
  BY DEF HoldInv, HoldTyped, Orig!Swept, Orig!Expired, TooOld, Held

LEMMA SendsKept ==
  ASSUME KeptInv, HoldInv', NEW p \in Proc, NEW a \in Agent, NEW c \in Channel,
         Orig!HumanSends(p, a, c) \/ Orig!AgentSends(p, a, c) \/ Orig!HoldSend(p, a, c) \/ Orig!SpoolFails(p, a, c)
  PROVE  KeptInv'
  <1>1. sent \in [Orig!Hold -> Nat] /\ UNCHANGED <<sent, clock, faults>> /\ faults \in Nat
    BY DEF Orig!HumanSends, Orig!AgentSends, Orig!HoldSend, Orig!SpoolFails, KeptInv, HoldInv, HoldTyped
  <1>2. \A i \in Orig!Hold : sent'[i] >= sent[i]
    BY <1>1
  <1>3. CASE Orig!HumanSends(p, a, c) \/ Orig!AgentSends(p, a, c)
    <2>1. PICK k \in {"in", "out"} : proc' = [proc EXCEPT ![p] = [pc |-> "deliver", kind |-> k, agent |-> a, rt |-> c]]
      BY <1>3 DEF Orig!HumanSends, Orig!AgentSends
    <2> DEFINE r == [pc |-> "deliver", kind |-> k, agent |-> a, rt |-> c]
    <2>2. \A i : ~InHand(r, i) /\ ~ToDeliver(r, i)
      BY DEF InHand, ToDeliver
    <2>3. held' = held /\ proc[p] = Orig!Idle
      BY <1>3 DEF Orig!HumanSends, Orig!AgentSends, Orig!Begin
    <2>4. proc' = [proc EXCEPT ![p] = r]
      BY <2>1
    <2> HIDE DEF r
    <2>9. MovesTo(p, r)
      BY <1>1, <1>2, <2>2, <2>3, <2>4, IdleHands DEF MovesTo
    <2> QED BY <2>9, OneProcessKept
  <1>4. CASE Orig!HoldSend(p, a, c)
    <2>1. PICK i \in Orig!Hold :
            held' = [Orig!Swept(held) EXCEPT ![i] = [st |-> "pending", agent |-> a, to |-> c, born |-> clock]]
      BY <1>4 DEF Orig!HoldSend
    <2>2. proc[p] = Orig!Idle /\ proc' = [proc EXCEPT ![p] = Orig!Idle]
      BY <1>4 DEF Orig!HoldSend, Orig!Begin, KeptInv, HoldInv, HoldTyped
    <2>3. \A j \in Orig!Hold : held'[j] = held[j] \/ Claimable(held'[j]) \/ TooOld(held'[j])
      <3>1. Orig!Swept(held) \in [Orig!Hold -> Held]
        BY SweepOnlyTakes DEF KeptInv
      <3> QED BY <2>1, <3>1, SweptIsOld DEF KeptInv, Claimable
    <2>9. MovesTo(p, Orig!Idle)
      BY <1>1, <1>2, <2>2, <2>3, IdleHands DEF MovesTo
    <2> QED BY <2>9, OneProcessKept
  <1>5. CASE Orig!SpoolFails(p, a, c)
    <2>1. proc[p] = Orig!Idle /\ proc' = [proc EXCEPT ![p] = Orig!Idle] /\ held' = held
      BY <1>5 DEF Orig!SpoolFails, Orig!Begin, KeptInv, HoldInv, HoldTyped
    <2>9. MovesTo(p, Orig!Idle)
      BY <1>1, <1>2, <2>1, IdleHands DEF MovesTo
    <2> QED BY <2>9, OneProcessKept
  <1> QED BY <1>3, <1>4, <1>5

LEMMA ClaimsKept ==
  ASSUME KeptInv, HoldInv', NEW p \in Proc, NEW i \in Orig!Hold,
         (\E w \in Orig!Who, c \in Channel : Orig!Claim(p, i, w, c)) \/ Orig!ClaimRefused(p, i)
  PROVE  KeptInv'
  <1>1. /\ sent \in [Orig!Hold -> Nat] /\ UNCHANGED <<sent, clock, faults>> /\ faults \in Nat
        /\ proc[p] = Orig!Idle
    BY DEF Orig!Claim, Orig!ClaimRefused, Orig!Begin, KeptInv, HoldInv, HoldTyped
  <1>2. \A j \in Orig!Hold : sent'[j] >= sent[j]
    BY <1>1
  <1>3. Orig!Swept(held) \in [Orig!Hold -> Held]
    BY SweepOnlyTakes DEF KeptInv
  <1>4. ASSUME NEW w \in Orig!Who, NEW c \in Channel, Orig!Claim(p, i, w, c) PROVE KeptInv'
    <2> DEFINE r == [pc |-> "claimed", kind |-> "confirm", agent |-> held[i].agent, rt |-> c, hold |-> i, who |-> w]
    <2>1. proc' = [proc EXCEPT ![p] = r] /\ held' = [Orig!Swept(held) EXCEPT ![i].st = "claimed"]
      BY <1>4 DEF Orig!Claim
    <2>2. ToDeliver(r, i) /\ \A j \in Orig!Hold : InHand(r, j) => ToDeliver(r, j)
      BY DEF InHand, ToDeliver
    <2> HIDE DEF r
    <2>3. held'[i].st = "claimed" /\ \A j \in Orig!Hold : j # i => held'[j] = Orig!Swept(held)[j]
      BY <1>3, <2>1 DEF Held
    <2>4. \A j \in Orig!Hold : held'[j] = held[j] \/ TooOld(held'[j]) \/ (held'[j].st = "claimed" /\ ToDeliver(r, j))
      BY <2>2, <2>3, SweptIsOld DEF KeptInv
    <2>9. MovesTo(p, r)
      BY <1>1, <1>2, <2>1, <2>2, <2>4, IdleHands DEF MovesTo
    <2> QED BY <2>9, OneProcessKept
  <1>5. CASE Orig!ClaimRefused(p, i)
    <2>1. held' = Orig!Swept(held) /\ proc' = [proc EXCEPT ![p] = Orig!Idle]
      BY <1>1, <1>5 DEF Orig!ClaimRefused, KeptInv, HoldInv, HoldTyped
    <2>2. \A j \in Orig!Hold : held'[j] = held[j] \/ TooOld(held'[j])
      BY <2>1, SweptIsOld DEF KeptInv
    <2>9. MovesTo(p, Orig!Idle)
      BY <1>1, <1>2, <2>1, <2>2, IdleHands DEF MovesTo
    <2> QED BY <2>9, OneProcessKept
  <1> QED BY <1>4, <1>5

(* A confirmation that comes to nothing puts the hold back, or the sweep had it. *)
LEMMA PutBack ==
  ASSUME KeptInv, HoldInv', NEW p \in Proc, NEW i \in Orig!Hold, ToDeliver(proc[p], i), held' = Orig!Restored(i),
         proc' = [proc EXCEPT ![p] = Orig!Idle], UNCHANGED <<sent, clock, faults>>
  PROVE  KeptInv'
  <1>1. sent \in [Orig!Hold -> Nat] /\ faults \in Nat /\ held \in [Orig!Hold -> Held]
    BY DEF KeptInv, HoldInv, HoldTyped
  <1>2. \A j \in Orig!Hold : sent'[j] >= sent[j]
    BY <1>1
  <1>3. \A j \in Orig!Hold : held'[j] = held[j] \/ Claimable(held'[j])
    BY <1>1 DEF Orig!Restored, Held, Claimable
  <1>4. Claimable(held'[i]) \/ (held' = held /\ held[i].st = "gone")
    BY <1>1 DEF Orig!Restored, Held, HoldStates, Claimable
  <1>5. Claimable(held'[i]) \/ sent'[i] > 0 \/ TooOld(held'[i])
    BY <1>4 DEF KeptInv, GoneIsOver
  <1>6. \A j \in Orig!Hold : ToDeliver(proc[p], j) => j = i
    BY DEF ToDeliver
  <1>9. MovesTo(p, Orig!Idle)
    BY <1>1, <1>2, <1>3, <1>5, <1>6, IdleHands DEF MovesTo
  <1> QED BY <1>9, OneProcessKept

LEMMA StepsKept ==
  ASSUME KeptInv, HoldInv', NEW p \in Proc,
         \/ Orig!NotYours(p) \/ Orig!Yours(p) \/ Orig!DeliveryFails(p) \/ Orig!Delivered(p)
         \/ Orig!StampRead(p) \/ Orig!StampWrite(p) \/ Orig!Discard(p) \/ Orig!Die(p)
  PROVE  KeptInv'
  <1>0. /\ HoldInv /\ sent \in [Orig!Hold -> Nat] /\ faults \in Nat /\ held \in [Orig!Hold -> Held]
        /\ \A i \in Orig!Hold : sent[i] >= sent[i]
    BY DEF KeptInv, HoldInv, HoldTyped
  <1>1. CASE Orig!NotYours(p)
    <2>1. proc[p] \in Confirming \/ proc[p] \in Sending
      BY <1>0, <1>1, HeldFields DEF Orig!NotYours
    <2>2. proc[p].hold \in Orig!Hold /\ ToDeliver(proc[p], proc[p].hold)
      BY <1>1, <2>1 DEF Orig!NotYours, Confirming, Sending, ToDeliver
    <2> QED BY <1>1, <2>2, PutBack DEF Orig!NotYours
  <1>2. CASE Orig!Yours(p)
    <2> DEFINE r == [proc[p] EXCEPT !.pc = "deliver"]
    <2>1. proc[p] \in Confirming /\ proc[p].pc = "claimed"
      BY <1>0, <1>2, HeldFields DEF Orig!Yours, Sending
    <2>2. r.hold = proc[p].hold /\ r.pc = "deliver" /\ r.kind = "confirm" /\ proc[p].kind = "confirm"
      BY <2>1 DEF Confirming
    <2>3. proc' = [proc EXCEPT ![p] = r] /\ UNCHANGED <<held, sent, clock, faults>>
      BY <1>2 DEF Orig!Yours, HoldInv, HoldTyped
    <2>4. \A i \in Orig!Hold : (InHand(r, i) => ToDeliver(r, i)) /\ (ToDeliver(proc[p], i) => ToDeliver(r, i))
      BY <2>1, <2>2 DEF InHand, ToDeliver
    <2> HIDE DEF r
    <2>9. MovesTo(p, r)
      BY <1>0, <2>3, <2>4 DEF MovesTo
    <2> QED BY <2>9, OneProcessKept
  <1>3. CASE Orig!DeliveryFails(p)
    <2>1. CASE proc[p].kind = "confirm"
      <3>1. proc[p] \in Confirming
        BY <1>0, <1>3, <2>1, HeldFields DEF Orig!DeliveryFails, Sending
      <3>2. proc[p].hold \in Orig!Hold /\ ToDeliver(proc[p], proc[p].hold)
        BY <1>3, <2>1, <3>1 DEF Orig!DeliveryFails, Confirming, ToDeliver
      <3> QED BY <1>3, <2>1, <3>2, PutBack DEF Orig!DeliveryFails
    <2>2. CASE proc[p].kind # "confirm"
      <3>1. \A i \in Orig!Hold : ~ToDeliver(proc[p], i)
        BY <2>2 DEF ToDeliver
      <3>9. MovesTo(p, Orig!Idle)
        BY <1>0, <1>3, <2>2, <3>1, IdleHands DEF MovesTo, Orig!DeliveryFails
      <3> QED BY <3>9, OneProcessKept
    <2> QED BY <2>1, <2>2
  <1>4. CASE Orig!Delivered(p)
    <2> DEFINE r == [proc[p] EXCEPT !.pc = "stamp"]
    <2>1. /\ proc[p].pc = "deliver" /\ UNCHANGED <<held, clock, faults>> /\ proc' = [proc EXCEPT ![p] = r]
          /\ sent' = IF proc[p].kind = "confirm" THEN [sent EXCEPT ![proc[p].hold] = @ + 1] ELSE sent
      BY <1>4 DEF Orig!Delivered, HoldInv, HoldTyped
    <2>2. r.pc = "stamp" /\ r.kind = proc[p].kind /\ (r.kind = "confirm" => r.hold = proc[p].hold)
      BY <1>0, <2>1, HeldFields DEF Sending, Confirming
    <2>3. \A i \in Orig!Hold : InHand(r, i) \/ ToDeliver(proc[p], i) => sent'[i] > 0
      BY <1>0, <2>1, <2>2 DEF InHand, ToDeliver
    <2>4. \A i \in Orig!Hold : sent'[i] >= sent[i]
      BY <1>0, <2>1
    <2> HIDE DEF r
    <2>9. MovesTo(p, r)
      BY <1>0, <2>1, <2>3, <2>4 DEF MovesTo
    <2> QED BY <2>9, OneProcessKept
  <1>5. CASE Orig!StampRead(p)
    <2> DEFINE r == [pc |-> "write", kind |-> proc[p].kind, agent |-> proc[p].agent, rt |-> proc[p].rt,
                     hold |-> IF proc[p].kind = "confirm" THEN proc[p].hold ELSE 0, seen |-> stamps, now |-> clock]
    <2>1. proc' = [proc EXCEPT ![p] = r] /\ proc[p].pc = "stamp" /\ UNCHANGED <<held, sent, clock, faults>>
      BY <1>5 DEF Orig!StampRead, HoldInv, HoldTyped
    <2>2. \A i \in Orig!Hold : ~ToDeliver(proc[p], i) /\ (InHand(r, i) => InHand(proc[p], i))
      BY <2>1 DEF InHand, ToDeliver
    <2>3. \A i \in Orig!Hold : InHand(r, i) => sent[i] > 0
      BY <2>2 DEF KeptInv, SentBefore
    <2> HIDE DEF r
    <2>9. MovesTo(p, r)
      BY <1>0, <2>1, <2>2, <2>3 DEF MovesTo
    <2> QED BY <2>9, OneProcessKept
  <1>6. CASE Orig!StampWrite(p)
    <2> DEFINE r == IF proc[p].kind = "confirm" THEN [pc |-> "discard", hold |-> proc[p].hold] ELSE Orig!Idle
    <2>1. proc' = [proc EXCEPT ![p] = r] /\ proc[p].pc = "write" /\ UNCHANGED <<held, sent, clock, faults>>
      BY <1>6 DEF Orig!StampWrite, HoldInv, HoldTyped
    <2>2. \A i \in Orig!Hold : ~ToDeliver(proc[p], i) /\ (InHand(r, i) => InHand(proc[p], i))
      BY <2>1, IdleHands DEF InHand, ToDeliver
    <2>3. \A i \in Orig!Hold : InHand(r, i) => sent[i] > 0
      BY <2>2 DEF KeptInv, SentBefore
    <2> HIDE DEF r
    <2>9. MovesTo(p, r)
      BY <1>0, <2>1, <2>2, <2>3 DEF MovesTo
    <2> QED BY <2>9, OneProcessKept
  <1>7. CASE Orig!Discard(p)
    <2>1. /\ proc[p].pc = "discard" /\ held' = [held EXCEPT ![proc[p].hold].st = "gone"]
          /\ proc' = [proc EXCEPT ![p] = Orig!Idle] /\ UNCHANGED <<sent, clock, faults>>
      BY <1>7 DEF Orig!Discard
    <2>2. \A i \in Orig!Hold : ~ToDeliver(proc[p], i) /\ (proc[p].hold = i => sent[i] > 0)
      BY <2>1 DEF KeptInv, SentBefore, InHand, ToDeliver
    <2>3. \A i \in Orig!Hold : held'[i] = held[i] \/ sent[i] > 0
      BY <1>0, <2>1, <2>2
    <2>9. MovesTo(p, Orig!Idle)
      BY <1>0, <2>1, <2>2, <2>3, IdleHands DEF MovesTo
    <2> QED BY <2>9, OneProcessKept
  <1>8. CASE Orig!Die(p)
    <2>1. /\ faults' = faults + 1 /\ proc' = [proc EXCEPT ![p] = Orig!Idle] /\ UNCHANGED <<held, sent, clock>>
      BY <1>8 DEF Orig!Die
    <2>2. faults' \in Nat /\ faults' >= faults /\ faults' > 0
      BY <1>0, <2>1
    <2>9. MovesTo(p, Orig!Idle)
      BY <1>0, <2>1, <2>2, IdleHands DEF MovesTo
    <2> QED BY <2>9, OneProcessKept
  <1> QED BY <1>1, <1>2, <1>3, <1>4, <1>5, <1>6, <1>7, <1>8

LEMMA KeptNext == ASSUME KeptInv, Orig!OriginGuardAssumption, [Orig!Next]_Orig!vars PROVE KeptInv'
  <1>1. HoldInv'
    BY HoldNext DEF KeptInv
  <1>2. CASE Orig!Tick
    <2>1. clock \in Nat /\ clock' = clock + 1 /\ UNCHANGED <<held, proc, sent, faults>>
      BY <1>2 DEF Orig!Tick, KeptInv, HoldInv, HoldTyped
    <2>2. \A i \in Orig!Hold : held[i].born \in Nat
      BY DEF KeptInv, HoldInv, HoldTyped, Held
    <2>3. \A i \in Orig!Hold : TooOld(held[i]) => TooOld(held[i])'
      BY <2>1, <2>2 DEF TooOld, Orig!OriginGuardAssumption
    <2>4. SentBefore' /\ GoneIsOver'
      BY <2>1, <2>3 DEF KeptInv, SentBefore, GoneIsOver
    <2>5. Orig!HeldIsKept'
      BY <2>1, <2>3 DEF KeptInv, Orig!HeldIsKept, TooOld
    <2> QED BY <1>1, <2>1, <2>4, <2>5 DEF KeptInv
  <1>3. CASE UNCHANGED Orig!vars
    BY <1>1, <1>3 DEF Orig!vars, KeptInv, SentBefore, GoneIsOver, TooOld, Orig!HeldIsKept
  <1> QED BY <1>1, <1>2, <1>3, SendsKept, ClaimsKept, StepsKept DEF Orig!Next

(* A refused, failed or raced confirmation does not lose the held send: while no  *)
(* process dies it is pending, in the hand of a live confirmer, delivered or too *)
(* old (restoreHeldSend, claimHeldSend).                                        *)
THEOREM AHoldIsKept == ASSUME Orig!OriginGuardAssumption PROVE Orig!Spec => []Orig!HeldIsKept
  <1>1. Orig!Init => KeptInv
    BY KeptInit
  <1>2. KeptInv /\ [Orig!Next]_Orig!vars => KeptInv'
    BY KeptNext
  <1>3. KeptInv => Orig!HeldIsKept
    BY DEF KeptInv
  <1> QED BY <1>1, <1>2, <1>3, PTL DEF Orig!Spec

-----------------------------------------------------------------------------
(* Only processes of the session's tree are killed, for any number of pids,  *)
(* passes, forks, exits and reuses.  What carries it: whoever has a parent   *)
(* of the tree is of the tree, so a reading that finds the root in place     *)
(* lists only the tree, and a row is signalled only if its pid has not       *)
(* changed hands.                                                            *)
(* A parent that is a pid is alive: a death gives the children to launchd. *)
ParentsLive == \A p \in Pid : parent[p] \in Pid => parent[parent[p]] # Tear!Dead

(* The children of the tree belong to it, *)
Inherited == \A p \in Pid : parent[p] \in Pid /\ Tear!Row(parent[p]) \in ours => Tear!Row(p) \in ours

(* as does all that the host is about to look at. *)
Known == <<Root, rootToken>> \in ours /\ todo \subseteq ours

Table == parent \in [Pid -> Pid \cup {Tear!Launchd, Tear!Dead}] /\ born \in [Pid -> Nat]

TreeInv == Table /\ ParentsLive /\ Inherited /\ Known /\ Tear!NeverAStranger

(* Init: one process, the root, whose row is ours. *)
LEMMA TreeInit == ASSUME Tear!TeardownAssumption, Tear!Init PROVE TreeInv
  BY DEF Tear!TeardownAssumption, Tear!Init, TreeInv, Table, ParentsLive, Inherited, Known,
         Tear!NeverAStranger, Tear!Launchd, Tear!Dead, Tear!Row, Tear!Token

(* A death changes no row and leaves the rest of the table as it should be. *)
LEMMA DeathKeepsTable ==
  ASSUME Tear!TeardownAssumption, TreeInv, NEW p \in Pid, parent' = Tear!Without(p),
         UNCHANGED <<born, ours>>
  PROVE  (Table /\ ParentsLive /\ Inherited)'
  <1>1. Table'
    BY DEF TreeInv, Table, Tear!Without, Tear!Launchd, Tear!Dead
  <1>2. ASSUME NEW q \in Pid, parent'[q] \in Pid
        PROVE  q # p /\ parent[q] # p /\ parent'[q] = parent[q]
    BY <1>2 DEF TreeInv, Table, Tear!Without, Tear!Launchd, Tear!Dead, Tear!TeardownAssumption
  <1>3. ParentsLive'
    <2> SUFFICES ASSUME NEW q \in Pid, parent'[q] \in Pid PROVE parent'[parent'[q]] # Tear!Dead
      BY DEF ParentsLive
    <2> QED BY <1>2 DEF TreeInv, Table, ParentsLive, Tear!Without, Tear!Launchd, Tear!Dead, Tear!TeardownAssumption
  <1>4. Inherited'
    <2> SUFFICES ASSUME NEW q \in Pid, parent'[q] \in Pid,
                        <<parent'[q], born'[parent'[q]]>> \in ours'
                 PROVE  <<q, born'[q]>> \in ours'
      BY DEF Inherited, Tear!Row, Tear!Token
    <2> QED BY <1>2 DEF TreeInv, Inherited, Tear!Row, Tear!Token
  <1> QED BY <1>1, <1>3, <1>4

(* A pid that is given out was nobody's parent; its process is ours if the   *)
(* parent is.                                                                *)
LEMMA BirthKeepsTable ==
  ASSUME Tear!TeardownAssumption, TreeInv, NEW p \in Pid, p \notin Tear!Alive,
         NEW up \in Tear!Alive \cup {Tear!Launchd}, Tear!Given(p, up),
         \/ ours' = ours /\ (up \in Pid => Tear!Row(up) \notin ours)
         \/ ours' = ours \cup {<<p, born[p] + 1>>}
  PROVE  (Table /\ ParentsLive /\ Inherited)'
  <1>1. Table'
    BY DEF TreeInv, Table, Tear!Given, Tear!Alive
  <1>2. /\ parent'[p] = up /\ up # p
        /\ \A q \in Pid \ {p} : parent'[q] = parent[q] /\ born'[q] = born[q]
        /\ born'[p] = born[p] + 1
        /\ \A q \in Pid : parent[q] # p
    BY DEF TreeInv, Table, ParentsLive, Tear!Given, Tear!Alive, Tear!TeardownAssumption, Tear!Launchd, Tear!Dead
  <1>3. ParentsLive'
    BY <1>2 DEF TreeInv, Table, ParentsLive, Tear!Alive, Tear!TeardownAssumption, Tear!Launchd, Tear!Dead
  <1>4. Inherited'
    <2> SUFFICES ASSUME NEW q \in Pid, parent'[q] \in Pid,
                        <<parent'[q], born'[parent'[q]]>> \in ours'
                 PROVE  <<q, born'[q]>> \in ours'
      BY DEF Inherited, Tear!Row, Tear!Token
    <2>1. CASE q = p
      <3>1. up \in Pid /\ born'[up] = born[up] /\ <<up, born[up]>>[1] # p
        BY <1>2, <2>1
      <3> QED BY <1>2, <2>1, <3>1 DEF Tear!Row, Tear!Token
    <2>2. CASE q # p
      <3>1. /\ parent'[q] = parent[q] /\ parent[q] # p
            /\ born'[parent[q]] = born[parent[q]] /\ born'[q] = born[q]
        BY <1>2, <2>2
      <3>2. <<parent[q], born[parent[q]]>> \in ours
        BY <3>1
      <3> QED BY <2>2, <3>1, <3>2 DEF TreeInv, Inherited, Tear!Row, Tear!Token
    <2> QED BY <2>1, <2>2
  <1> QED BY <1>1, <1>3, <1>4

(* A reading that finds the root in place lists the tree only: the processes *)
(* of the tree are a closed set.                                             *)
LEMMA ReadingIsOurs ==
  ASSUME Tear!TeardownAssumption, TreeInv, Tear!RootIsOurs, NEW p \in Tear!Descendants(parent)
  PROVE  Tear!Row(p) \in ours
  <1> DEFINE S == {x \in Pid : Tear!Row(x) \in ours}
  <1>1. Tear!Closed(S, parent)
    <2>1. Root \in S
      BY DEF Tear!TeardownAssumption, TreeInv, Known, Tear!RootIsOurs, Tear!Row
    <2>2. \A q \in Pid : parent[q] \in S => q \in S
      BY DEF TreeInv, Inherited
    <2> QED BY <2>1, <2>2 DEF Tear!Closed
  <1>2. S \in SUBSET Pid
    OBVIOUS
  <1>3. p \in S
    BY <1>1, <1>2 DEF Tear!Descendants
  <1> QED BY <1>3

(* Nothing the host does between its steps can put a stranger in its hands. *)
LEMMA TreeNext == ASSUME Tear!TeardownAssumption, TreeInv, [Tear!Next]_Tear!vars PROVE TreeInv'
  <1>1. ASSUME NEW p \in Pid, NEW q \in Pid, Tear!Fork(q, p) PROVE TreeInv'
    <2>1. (Table /\ ParentsLive /\ Inherited)'
      BY <1>1, BirthKeepsTable DEF Tear!Fork, Tear!Alive
    <2>2. (Known /\ Tear!NeverAStranger)'
      BY <1>1 DEF Tear!Fork, Tear!host, TreeInv, Known, Tear!NeverAStranger
    <2> QED BY <2>1, <2>2 DEF TreeInv
  <1>2. ASSUME NEW p \in Pid, Tear!Exit(p) PROVE TreeInv'
    <2>1. (Table /\ ParentsLive /\ Inherited)'
      BY <1>2, DeathKeepsTable DEF Tear!Exit
    <2> QED BY <1>2, <2>1 DEF Tear!Exit, Tear!host, TreeInv, Known, Tear!NeverAStranger
  <1>3. ASSUME NEW p \in Pid, Tear!Reuse(p) PROVE TreeInv'
    <2>1. (Table /\ ParentsLive /\ Inherited)'
      BY <1>3, BirthKeepsTable DEF Tear!Reuse, Tear!TeardownAssumption, Tear!Launchd
    <2> QED BY <1>3, <2>1 DEF Tear!Reuse, Tear!host, TreeInv, Known, Tear!NeverAStranger
  <1>4. CASE Tear!Signalled \/ Tear!PassesOver
    BY <1>4 DEF Tear!Signalled, Tear!PassesOver, Tear!tree, TreeInv, Table, ParentsLive, Inherited,
                Known, Tear!NeverAStranger, Tear!Row, Tear!Token
  <1>5. CASE Tear!ReadTree
    <2>1. (Table /\ ParentsLive /\ Inherited /\ Tear!NeverAStranger)'
      BY <1>5 DEF Tear!ReadTree, Tear!tree, TreeInv, Table, ParentsLive, Inherited,
                  Tear!NeverAStranger, Tear!Row, Tear!Token
    <2>2. todo' \subseteq ours
      BY <1>5, ReadingIsOurs DEF Tear!ReadTree, TreeInv, Known
    <2> QED BY <1>5, <2>1, <2>2 DEF Tear!ReadTree, Tear!tree, TreeInv, Known
  <1>6. CASE Tear!KillRoot
    <2>1. (Table /\ ParentsLive /\ Inherited)'
      <3>1. CASE parent' = parent
        BY <1>6, <3>1 DEF Tear!KillRoot, TreeInv, Table, ParentsLive, Inherited, Tear!Row, Tear!Token
      <3>2. CASE parent' = Tear!Without(Root)
        BY <1>6, <3>2, DeathKeepsTable DEF Tear!KillRoot, Tear!TeardownAssumption
      <3> QED BY <1>6, <3>1, <3>2 DEF Tear!KillRoot
    <2> QED BY <1>6, <2>1 DEF Tear!KillRoot, TreeInv, Known, Tear!NeverAStranger
  <1>7. ASSUME NEW r \in todo, Tear!Shoot(r) PROVE TreeInv'
    <2>1. r[1] \in Pid /\ Tear!Row(r[1]) = r /\ r \in ours
      BY <1>7 DEF Tear!Shoot, Tear!Verified, Tear!Alive, TreeInv, Known
    <2>2. (Table /\ ParentsLive /\ Inherited)'
      BY <1>7, <2>1, DeathKeepsTable DEF Tear!Shoot
    <2> QED BY <1>7, <2>1, <2>2 DEF Tear!Shoot, Tear!Looked, TreeInv, Known, Tear!NeverAStranger
  <1>8. ASSUME NEW r \in todo, Tear!Skip(r) PROVE TreeInv'
    BY <1>8 DEF Tear!Skip, Tear!Looked, Tear!tree, TreeInv, Table, ParentsLive, Inherited, Known,
                Tear!NeverAStranger, Tear!Row, Tear!Token
  <1>9. CASE UNCHANGED Tear!vars
    BY <1>9 DEF Tear!vars, TreeInv, Table, ParentsLive, Inherited, Known, Tear!NeverAStranger, Tear!Row, Tear!Token
  <1> QED BY <1>1, <1>2, <1>3, <1>4, <1>5, <1>6, <1>7, <1>8, <1>9 DEF Tear!Next

(* The values of the variables. *)
Phases == {"serve", "read", "kill", "root", "down"}
RowsTyped == ours \subseteq Pid \X Nat /\ refused \subseteq Pid \X Nat
HostTyped == pc \in Phases /\ pass \in 0 .. Passes
TearTypes == RowsTyped /\ HostTyped

LEMMA TearIsTyped == ASSUME TreeInv, TearTypes PROVE Tear!TypeOK
  <1>1. todo \cup refused \cup shot \cup ours \subseteq Pid \X Nat
    BY DEF TreeInv, Known, Tear!NeverAStranger, TearTypes, RowsTyped
  <1> QED BY <1>1 DEF TreeInv, Table, TearTypes, HostTyped, Phases, Tear!TypeOK

LEMMA TearTypeInit == ASSUME Tear!TeardownAssumption, Tear!Init PROVE TearTypes
  <1>1. RowsTyped
    BY DEF Tear!TeardownAssumption, Tear!Init, RowsTyped
  <1>2. HostTyped
    BY DEF Tear!TeardownAssumption, Tear!Init, HostTyped, Phases
  <1> QED BY <1>1, <1>2 DEF TearTypes

LEMMA RowsTypeNext ==
  ASSUME Tear!TeardownAssumption, TreeInv, TearTypes, [Tear!Next]_Tear!vars
  PROVE  RowsTyped'
  <1>0. RowsTyped /\ todo \subseteq ours /\ born \in [Pid -> Nat]
    BY DEF TearTypes, TreeInv, Known, Table
  <1>1. ASSUME NEW p \in Pid, NEW q \in Pid, Tear!Fork(q, p) PROVE RowsTyped'
    BY <1>0, <1>1 DEF Tear!Fork, RowsTyped, Tear!tree, Tear!host
  <1>2. ASSUME NEW p \in Pid, Tear!Exit(p) PROVE RowsTyped'
    BY <1>0, <1>2 DEF Tear!Exit, RowsTyped, Tear!tree, Tear!host
  <1>3. ASSUME NEW p \in Pid, Tear!Reuse(p) PROVE RowsTyped'
    BY <1>0, <1>3 DEF Tear!Reuse, RowsTyped, Tear!tree, Tear!host
  <1>4. CASE Tear!Signalled
    BY <1>0, <1>4 DEF Tear!Signalled, RowsTyped, Tear!tree, Tear!host
  <1>5. CASE Tear!ReadTree
    BY <1>0, <1>5 DEF Tear!ReadTree, RowsTyped, Tear!tree, Tear!host
  <1>6. CASE Tear!PassesOver
    BY <1>0, <1>6 DEF Tear!PassesOver, RowsTyped, Tear!tree, Tear!host
  <1>7. CASE Tear!KillRoot
    BY <1>0, <1>7 DEF Tear!KillRoot, RowsTyped, Tear!tree, Tear!host
  <1>8. ASSUME NEW r \in todo, Tear!Shoot(r) PROVE RowsTyped'
    BY <1>0, <1>8 DEF Tear!Shoot, Tear!Looked, RowsTyped, Tear!tree, Tear!host
  <1>9. ASSUME NEW r \in todo, Tear!Skip(r) PROVE RowsTyped'
    BY <1>0, <1>9 DEF Tear!Skip, Tear!Looked, RowsTyped, Tear!tree, Tear!host
  <1>10. CASE UNCHANGED Tear!vars
    BY <1>0, <1>10 DEF Tear!vars, RowsTyped, Tear!tree, Tear!host
  <1> QED BY <1>1, <1>2, <1>3, <1>4, <1>5, <1>6, <1>7, <1>8, <1>9, <1>10 DEF Tear!Next

LEMMA PhaseTypeNext ==
  ASSUME Tear!TeardownAssumption, TreeInv, TearTypes, [Tear!Next]_Tear!vars
  PROVE  HostTyped'
  <1>0. HostTyped /\ Passes \in Nat
    BY DEF TearTypes, Tear!TeardownAssumption
  <1>1. ASSUME NEW p \in Pid, NEW q \in Pid, Tear!Fork(q, p) PROVE HostTyped'
    BY <1>0, <1>1 DEF Tear!Fork, HostTyped, Phases, Tear!tree, Tear!host
  <1>2. ASSUME NEW p \in Pid, Tear!Exit(p) PROVE HostTyped'
    BY <1>0, <1>2 DEF Tear!Exit, HostTyped, Phases, Tear!tree, Tear!host
  <1>3. ASSUME NEW p \in Pid, Tear!Reuse(p) PROVE HostTyped'
    BY <1>0, <1>3 DEF Tear!Reuse, HostTyped, Phases, Tear!tree, Tear!host
  <1>4. CASE Tear!Signalled
    BY <1>0, <1>4 DEF Tear!Signalled, HostTyped, Phases, Tear!tree, Tear!host
  <1>5. CASE Tear!ReadTree
    BY <1>0, <1>5 DEF Tear!ReadTree, HostTyped, Phases, Tear!tree, Tear!host
  <1>6. CASE Tear!PassesOver
    BY <1>0, <1>6 DEF Tear!PassesOver, HostTyped, Phases, Tear!tree, Tear!host
  <1>7. CASE Tear!KillRoot
    BY <1>0, <1>7 DEF Tear!KillRoot, HostTyped, Phases, Tear!tree, Tear!host
  <1>8. ASSUME NEW r \in todo, Tear!Shoot(r) PROVE HostTyped'
    BY <1>0, <1>8 DEF Tear!Shoot, Tear!Looked, HostTyped, Phases, Tear!tree, Tear!host
  <1>9. ASSUME NEW r \in todo, Tear!Skip(r) PROVE HostTyped'
    BY <1>0, <1>9 DEF Tear!Skip, Tear!Looked, HostTyped, Phases, Tear!tree, Tear!host
  <1>10. CASE UNCHANGED Tear!vars
    BY <1>0, <1>10 DEF Tear!vars, HostTyped, Phases, Tear!tree, Tear!host
  <1> QED BY <1>1, <1>2, <1>3, <1>4, <1>5, <1>6, <1>7, <1>8, <1>9, <1>10 DEF Tear!Next

LEMMA TearTypeNext ==
  ASSUME Tear!TeardownAssumption, TreeInv, TearTypes, [Tear!Next]_Tear!vars PROVE TearTypes'
  BY RowsTypeNext, PhaseTypeNext DEF TearTypes

(* docs/04: "a reused PID is never signalled".  Whatever forks, exits and    *)
(* gets a freed pid while the host takes its tree down, all it signals are   *)
(* processes of the session.                                                 *)
THEOREM OnlyTheTreeIsKilled == ASSUME Tear!TeardownAssumption PROVE Tear!Spec => []Tear!NeverAStranger
  <1>1. Tear!Init => TreeInv
    BY TreeInit
  <1>2. TreeInv /\ [Tear!Next]_Tear!vars => TreeInv'
    BY TreeNext
  <1>3. TreeInv => Tear!NeverAStranger
    BY DEF TreeInv
  <1> QED BY <1>1, <1>2, <1>3, PTL DEF Tear!Spec

-----------------------------------------------------------------------------
(* A transferred input is one its first session never worked on, for any     *)
(* number of tasks, runtimes, hostings and deaths of the daemon.  The order  *)
(* quarantine, exit, last look, send is what carries it: with the session    *)
(* quarantined before the old hosting has gone, no later hosting can carry   *)
(* it, so what the last look saw stays as it is.                             *)
(* A hosting that is gone carries nothing. *)
GoneCarriesNothing == host = 0 => ~carries

(* From the teardown on, the native session is not resumed, *)
TornDown == at \in {"exit", "send safe", "send review"} => quarantined

(* and once an input is on its way to another runtime it never runs again. *)
Ended == at = "send safe" \/ offered # {} => quarantined /\ ~carries

(* The pass sends only what it saw waiting. *)
SendsWaiting == at = "send safe" => now \in Task /\ work[now] = "waiting"

TaskInHand == at \in {"claimed", "exit", "send safe", "send review"} => now \in Task

TransferInv ==
  /\ work \in [Task -> {"none", "waiting", "begun", "done"}] /\ hosts \in Nat
  /\ carries \in BOOLEAN /\ quarantined \in BOOLEAN
  /\ GoneCarriesNothing /\ TornDown /\ Ended /\ TaskInHand /\ SendsWaiting
  /\ offered \subseteq Task /\ Fail!ReplayedUnstarted

LEMMA TransferInit == ASSUME Fail!FailoverAssumption, Fail!Init PROVE TransferInv
  <1>1. hosts \in Nat /\ (host = 0 \/ host = 1)
    BY DEF Fail!Init
  <1>2. carries = (host = 1)
    BY DEF Fail!Init
  <1>3. carries \in BOOLEAN
    BY <1>2, Zenon
  <1>4. carries => host = 1
    BY <1>2, Zenon
  <1>5. GoneCarriesNothing
    BY <1>1, <1>4 DEF GoneCarriesNothing
  <1> QED BY <1>1, <1>3, <1>5 DEF Fail!Init, TransferInv, TornDown, Ended, TaskInHand, SendsWaiting,
                            Fail!ReplayedUnstarted

LEMMA NextToken == \A n \in Nat : n + 1 # 0 /\ n + 1 \in Nat
  OBVIOUS

(* The world: only a session that is carried begins or finishes work, and a   *)
(* new hosting carries the session only if it is not quarantined.            *)
LEMMA WorldKeeps == ASSUME TransferInv, Fail!World PROVE TransferInv'
  <1> USE DEF TransferInv, GoneCarriesNothing, TornDown, Ended, TaskInHand, SendsWaiting,
              Fail!ReplayedUnstarted
  <1>1. ASSUME NEW t \in Task, Fail!Receive(t) PROVE TransferInv'
    BY <1>1 DEF Fail!Receive, Fail!passVars
  <1>2. ASSUME NEW t \in Task, Fail!Begin(t) PROVE TransferInv'
    BY <1>2 DEF Fail!Begin, Fail!WorldOnly, Fail!passVars
  <1>3. ASSUME NEW t \in Task, Fail!Finish(t) PROVE TransferInv'
    BY <1>3 DEF Fail!Finish, Fail!WorldOnly, Fail!passVars
  <1>4. ASSUME NEW t \in Task, Fail!Refuse(t) PROVE TransferInv'
    BY <1>4 DEF Fail!Refuse, Fail!WorldOnly, Fail!passVars
  <1>5. CASE Fail!Detect \/ Fail!Operate
    <2>1. UNCHANGED <<host, hosts, carries, work, quarantined, at, now, offered>>
      BY <1>5 DEF Fail!Detect, Fail!Operate, Fail!WorldOnly, Fail!passVars
    <2> QED BY <2>1
  <1>6. CASE Fail!HostDies
    BY <1>6 DEF Fail!HostDies, Fail!WorldOnly, Fail!passVars
  <1>7. CASE Fail!HostStarts
    <2>1. carries' = ~quarantined
      BY <1>7 DEF Fail!HostStarts
    <2>2. carries' \in BOOLEAN /\ (quarantined => ~carries')
      BY <2>1, Zenon
    <2>3. host' = hosts + 1 /\ hosts' = hosts + 1 /\ UNCHANGED <<work, quarantined, Fail!passVars, offered>>
      BY <1>7, Zenon DEF Fail!HostStarts, Fail!WorldOnly
    <2>4. host' # 0 /\ hosts' \in Nat
      BY <2>3, NextToken, Zenon
    <2>5. UNCHANGED <<work, quarantined, at, now, offered>>
      BY <2>3 DEF Fail!passVars
    <2>6. Ended' /\ TornDown' /\ quarantined' \in BOOLEAN
      BY <2>2, <2>5
    <2> QED BY <2>2, <2>4, <2>5, <2>6
  <1> QED BY <1>1, <1>2, <1>3, <1>4, <1>5, <1>6, <1>7 DEF Fail!World

(* Where a save leaves the pass: at its next place with the task, at the next *)
(* task, or at the start after a death of the daemon.                        *)
LEMMA SaveEnds ==
  ASSUME NEW t \in Task, NEW r, NEW a, Fail!Save(t, r, a)
  PROVE  \/ at' = a /\ (a = "look" \/ now' = t)
         \/ at' = "idle"
  BY DEF Fail!Save

(* The pass: it offers an input only after the old hosting has gone, and      *)
(* only one it then saw waiting.                                             *)
LEMMA PassKeeps ==
  ASSUME TransferInv, Fail!PassStep \/ Fail!SendReached \/ Fail!Crash PROVE TransferInv'
  <1> USE DEF TransferInv, GoneCarriesNothing, TornDown, Ended, TaskInHand, SendsWaiting,
              Fail!ReplayedUnstarted, Fail!PassOnly
  <1>1. CASE Fail!BeginPass \/ Fail!EndPass \/ Fail!Crash
    <2>1. at' \in {"idle", "look"} /\ UNCHANGED <<host, hosts, carries, work, quarantined, offered>>
      BY <1>1 DEF Fail!BeginPass, Fail!EndPass, Fail!Crash
    <2> QED BY <2>1
  <1>2. ASSUME NEW t \in Task, Fail!Look(t) PROVE TransferInv'
    <2>1. at' \in {"look", "claimed", "idle"} /\ (at' = "claimed" => now' = t)
      <3>1. CASE Fail!Exposed(t)
        BY <3>1, SaveEnds DEF Fail!Exposed
      <3>2. CASE Fail!Watched(t)
        BY <3>2, SaveEnds DEF Fail!Watched, Fail!Leave
      <3>3. CASE Fail!Claims(t)
        BY <3>3, SaveEnds DEF Fail!Claims, Fail!Leave
      <3>4. CASE Fail!Resumed(t)
        BY <3>4 DEF Fail!Resumed
      <3> QED BY <1>2, <3>1, <3>2, <3>3, <3>4 DEF Fail!Look
    <2> QED BY <1>2, <2>1 DEF Fail!Look
  <1>3. CASE Fail!Teardown
    <2>1. at' \in {"look", "exit", "idle"} /\ (at' = "exit" => now' = now)
      BY <1>3, SaveEnds DEF Fail!Teardown
    <2> QED BY <1>3, <2>1 DEF Fail!Teardown
  <1>4. CASE Fail!Dispatch
    <2>1. \/ at' \in {"look", "idle"}
          \/ at' = "send review" /\ now' = now
          \/ at' = "send safe" /\ now' = now /\ host = 0 /\ work[now] = "waiting"
      <3>1. now \in Task
        BY <1>4 DEF Fail!Dispatch
      <3>2. CASE host # 0 \/ stopped \/ Fail!Candidates = {}
        BY <1>4, <3>2 DEF Fail!Dispatch, Fail!Leave
      <3>3. CASE ~(host # 0 \/ stopped \/ Fail!Candidates = {})
        <4>1. PICK o \in Fail!Candidates :
                Fail!Save(now, [state |-> "dispatching", target |-> o],
                          IF Fail!Safe(now) THEN "send safe" ELSE "send review")
          BY <1>4, <3>3 DEF Fail!Dispatch
        <4> QED BY <3>1, <3>3, <4>1, SaveEnds DEF Fail!Safe
      <3> QED BY <3>2, <3>3
    <2> QED BY <1>4, <2>1 DEF Fail!Dispatch
  <1>5. CASE Fail!SendReached
    BY <1>5 DEF Fail!SendReached, Fail!passVars
  <1>6. CASE Fail!Sent
    <2>1. at' \in {"look", "idle"}
      BY <1>6, SaveEnds DEF Fail!Sent
    <2> QED BY <1>6, <2>1 DEF Fail!Sent
  <1> QED BY <1>1, <1>2, <1>3, <1>4, <1>5, <1>6 DEF Fail!PassStep

LEMMA TransferNext == ASSUME TransferInv, [Fail!Next]_Fail!vars PROVE TransferInv'
  <1>1. CASE UNCHANGED Fail!vars
    BY <1>1 DEF Fail!vars, Fail!sessionVars, Fail!passVars, TransferInv, GoneCarriesNothing, TornDown, Ended,
                TaskInHand, SendsWaiting, Fail!ReplayedUnstarted
  <1> QED BY <1>1, WorldKeeps, PassKeeps DEF Fail!Next

(* The original input is given to another runtime only when the first session *)
(* never worked on it, and that stays so: whatever the provider retries,      *)
(* whoever wakes the endpoint and wherever the daemon dies.                  *)
THEOREM OnlyUnstartedWorkMoves ==
  ASSUME Fail!FailoverAssumption PROVE Fail!Spec => []Fail!ReplayedUnstarted
  <1>1. Fail!Init => TransferInv
    BY TransferInit
  <1>2. TransferInv /\ [Fail!Next]_Fail!vars => TransferInv'
    BY TransferNext
  <1>3. TransferInv => Fail!ReplayedUnstarted
    BY DEF TransferInv
  <1> QED BY <1>1, <1>2, <1>3, PTL DEF Fail!Spec

-----------------------------------------------------------------------------
(* A task whose input was given away is past its claim, and the pass is past  *)
(* the claim of the task it has in hand.                                     *)
PastClaim ==
  /\ rec \in [Task -> [state : Fail!States, target : Other \cup {None}]]
  /\ \A t \in offered : rec[t].state \in {"dispatching", "transferred", "review"}
  /\ at \in {"claimed", "exit"} => rec[now].state = "claimed"
  /\ at \in {"send safe", "send review"} => rec[now].state = "dispatching"

OnceInv == TransferInv /\ PastClaim

(* What a save leaves in the record: the new one, or after a death perhaps    *)
(* the old one.                                                              *)
LEMMA SaveRecord ==
  ASSUME NEW t \in Task, NEW r, NEW a, Fail!Save(t, r, a)
  PROVE  \/ at' = a /\ rec' = [rec EXCEPT ![t] = r] /\ (a = "look" \/ now' = t)
         \/ at' = "idle" /\ (rec' = rec \/ rec' = [rec EXCEPT ![t] = r])
  BY DEF Fail!Save, Fail!SaveUpTo

LEMMA RecordKept ==
  ASSUME OnceInv, UNCHANGED <<rec, offered>>,
         at' \in {"idle", "look"} \/ UNCHANGED <<at, now>>
  PROVE  PastClaim'
  BY DEF OnceInv, PastClaim

(* A task gets a record only if it had none, so it was not given away.        *)
LEMMA WorldKeepsClaims == ASSUME OnceInv, Fail!World PROVE PastClaim'
  <1>1. ASSUME NEW t \in Task, Fail!Receive(t) PROVE PastClaim'
    <2>0. Fail!Becomes(t, "watching").state = "watching"
      BY DEF Fail!Becomes, OnceInv, PastClaim
    <2>1. rec' = [rec EXCEPT ![t] = Fail!Becomes(t, "watching")]
      BY <1>1, <2>0 DEF Fail!Receive, Fail!SaveUpTo, Fail!Terminal
    <2>2. rec[t].state = "none" /\ UNCHANGED <<at, now, offered>>
      BY <1>1 DEF Fail!Receive, Fail!passVars
    <2>3. rec' \in [Task -> [state : Fail!States, target : Other \cup {None}]]
      BY <2>1 DEF Fail!Becomes, OnceInv, PastClaim, Fail!States
    <2>4. \A u \in Task : u # t => rec'[u] = rec[u]
      BY <2>1 DEF OnceInv, PastClaim
    <2>5. t \notin offered /\ (at \in {"claimed", "exit", "send safe", "send review"} => now # t)
      BY <2>2 DEF OnceInv, PastClaim
    <2> QED BY <2>2, <2>3, <2>4, <2>5 DEF OnceInv, PastClaim, TransferInv, TaskInHand
  <1>2. CASE ~\E t \in Task : Fail!Receive(t)
    <2>1. UNCHANGED <<rec, offered, at, now>>
      BY <1>2 DEF Fail!World, Fail!Begin, Fail!Finish, Fail!Refuse, Fail!Detect, Fail!HostDies, Fail!HostStarts, Fail!Operate, Fail!WorldOnly,
                  Fail!diskVars, Fail!passVars
    <2> QED BY <2>1, RecordKept
  <1> QED BY <1>1, <1>2

(* What a pass saves for its task, which is not one given away unless it ends  *)
(* with it.                                                                  *)
LEMMA SaveKeepsClaims ==
  ASSUME OnceInv, NEW t \in Task, NEW r \in [state : Fail!States, target : Other \cup {None}],
         NEW a, Fail!Save(t, r, a), UNCHANGED offered,
         t \in offered => r.state \in {"dispatching", "transferred", "review"},
         a \in {"look", "claimed", "send safe", "send review"},
         a = "claimed" => r.state = "claimed",
         a \in {"send safe", "send review"} => r.state = "dispatching"
  PROVE  PastClaim'
  <1>1. CASE rec' = rec /\ at' = "idle"
    BY <1>1, RecordKept
  <1>2. CASE rec' = [rec EXCEPT ![t] = r]
    <2>1. /\ rec' \in [Task -> [state : Fail!States, target : Other \cup {None}]]
          /\ rec'[t] = r /\ \A u \in Task : u # t => rec'[u] = rec[u]
      BY <1>2 DEF OnceInv, PastClaim
    <2>2. \A u \in offered' : rec'[u].state \in {"dispatching", "transferred", "review"}
      BY <2>1 DEF OnceInv, TransferInv, PastClaim
    <2>3. \/ at' = a /\ (a = "look" \/ now' = t)
          \/ at' = "idle"
      BY SaveRecord
    <2> QED BY <2>1, <2>2, <2>3 DEF PastClaim
  <1> QED BY <1>1, <1>2, SaveRecord

LEMMA PassKeepsClaims == ASSUME OnceInv, Fail!PassStep \/ Fail!SendReached \/ Fail!Crash PROVE PastClaim'
  <1> DEFINE Rec == [state : Fail!States, target : Other \cup {None}]
  <1>0. /\ \A t \in Task : rec[t] \in Rec
        /\ \A t \in Task, s \in Fail!States : Fail!Becomes(t, s) \in Rec /\ Fail!Becomes(t, s).state = s
        /\ \A o \in Fail!Candidates, s \in Fail!States : [state |-> s, target |-> o] \in Rec
    BY DEF OnceInv, PastClaim, Fail!Becomes, Fail!Candidates
  <1>1. CASE Fail!BeginPass \/ Fail!EndPass \/ Fail!Crash
    BY <1>1, RecordKept DEF Fail!BeginPass, Fail!EndPass, Fail!Crash, Fail!diskVars
  <1>2. ASSUME NEW t \in Task, Fail!Look(t) PROVE PastClaim'
    <2>1. CASE Fail!Exposed(t)
      <3>1. Fail!Save(t, Fail!Becomes(t, "review"), "look") /\ UNCHANGED offered
        BY <1>2, <2>1 DEF Fail!Exposed, Fail!Look
      <3> QED BY <1>0, <3>1, SaveKeepsClaims DEF Fail!States, Fail!Terminal
    <2>2. CASE Fail!Watched(t)
      <3>1. CASE Fail!Leave(t)
        BY <1>2, <3>1, RecordKept DEF Fail!Leave, Fail!Look, Fail!diskVars
      <3>2. CASE Fail!Save(t, Fail!Becomes(t, "finished"), "look")
        <4>1. t \notin offered
          BY <2>2 DEF Fail!Watched, OnceInv, PastClaim
        <4> QED BY <1>0, <1>2, <3>2, <4>1, SaveKeepsClaims DEF Fail!Look, Fail!States, Fail!Terminal
      <3> QED BY <2>2, <3>1, <3>2 DEF Fail!Watched
    <2>3. CASE Fail!Claims(t)
      <3>1. t \notin offered
        BY <2>3 DEF Fail!Claims, OnceInv, PastClaim
      <3>2. CASE Fail!Leave(t)
        BY <1>2, <3>2, RecordKept DEF Fail!Leave, Fail!Look, Fail!diskVars
      <3>3. CASE Fail!Save(t, Fail!Becomes(t, "review"), "look")
        BY <1>0, <1>2, <3>3, SaveKeepsClaims DEF Fail!Look, Fail!States, Fail!Terminal
      <3>4. ASSUME NEW o \in Fail!Candidates, Fail!Save(t, [state |-> "claimed", target |-> o], "claimed")
            PROVE  PastClaim'
        BY <1>0, <1>2, <3>1, <3>4, SaveKeepsClaims DEF Fail!Look, Fail!States, Fail!Owned
      <3> QED BY <2>3, <3>2, <3>3, <3>4 DEF Fail!Claims
    <2>4. CASE Fail!Resumed(t)
      BY <1>2, <2>4 DEF Fail!Resumed, Fail!Look, OnceInv, PastClaim, Fail!diskVars
    <2> QED BY <1>2, <2>1, <2>2, <2>3, <2>4 DEF Fail!Look
  <1>3. CASE Fail!Teardown
    <2>1. now \in Task /\ rec[now].state = "claimed"
      BY <1>3 DEF Fail!Teardown, OnceInv, TransferInv, TaskInHand, PastClaim
    <2>2. CASE Fail!Save(now, Fail!Becomes(now, "review"), "look")
      <3>1. UNCHANGED offered
        BY <1>3 DEF Fail!Teardown
      <3>2. Fail!Becomes(now, "review") \in Rec /\ Fail!Becomes(now, "review").state = "review"
        BY <1>0, <2>1 DEF Fail!States, Fail!Terminal
      <3> QED BY <2>1, <2>2, <3>1, <3>2, SaveKeepsClaims
    <2>3. CASE at' = "exit" /\ UNCHANGED <<queue, now, Fail!diskVars, crashes>>
      BY <1>3, <2>1, <2>3 DEF Fail!Teardown, OnceInv, PastClaim, Fail!diskVars
    <2> QED BY <1>3, <2>2, <2>3 DEF Fail!Teardown
  <1>4. CASE Fail!Dispatch
    <2>1. now \in Task /\ rec[now].state = "claimed" /\ now \notin offered
      BY <1>4 DEF Fail!Dispatch, OnceInv, TransferInv, TaskInHand, PastClaim
    <2>2. CASE Fail!Leave(now)
      BY <1>4, <2>2, RecordKept DEF Fail!Dispatch, Fail!Leave, Fail!diskVars
    <2>3. ASSUME NEW o \in Fail!Candidates, NEW a \in {"send safe", "send review"},
                 Fail!Save(now, [state |-> "dispatching", target |-> o], a)
          PROVE  PastClaim'
      BY <1>0, <1>4, <2>1, <2>3, SaveKeepsClaims DEF Fail!Dispatch, Fail!States, Fail!Owned
    <2> QED BY <1>4, <2>2, <2>3 DEF Fail!Dispatch
  <1>5. CASE Fail!SendReached
    BY <1>5 DEF Fail!SendReached, OnceInv, PastClaim, Fail!passVars, Fail!diskVars
  <1>6. CASE Fail!Sent
    <2>1. now \in Task /\ rec[now].state = "dispatching"
      BY <1>6 DEF Fail!Sent, OnceInv, TransferInv, TaskInHand, PastClaim
    <2>2. ASSUME NEW s \in {"transferred", "review"}, Fail!Save(now, Fail!Becomes(now, s), "look")
          PROVE  PastClaim'
      BY <1>0, <1>6, <2>1, <2>2, SaveKeepsClaims DEF Fail!Sent, Fail!States, Fail!Terminal
    <2>3. CASE Fail!Save(now, rec[now], "look")
      BY <1>0, <1>6, <2>1, <2>3, SaveKeepsClaims DEF Fail!Sent
    <2> QED BY <1>6, <2>2, <2>3 DEF Fail!Sent
  <1> QED BY <1>1, <1>2, <1>3, <1>4, <1>5, <1>6 DEF Fail!PassStep

LEMMA OnceInit == ASSUME Fail!FailoverAssumption, Fail!Init PROVE OnceInv
  <1>1. rec = [t \in Task |-> [state |-> "none", target |-> None]] /\ at = "idle" /\ offered = {}
    BY Zenon DEF Fail!Init
  <1> QED BY <1>1, TransferInit DEF OnceInv, PastClaim, Fail!States

LEMMA OnceNext == ASSUME OnceInv, [Fail!Next]_Fail!vars PROVE OnceInv'
  <1>1. CASE UNCHANGED Fail!vars
    BY <1>1, RecordKept, TransferNext DEF Fail!vars, Fail!diskVars, Fail!passVars, OnceInv
  <1> QED BY <1>1, TransferNext, WorldKeepsClaims, PassKeepsClaims DEF OnceInv, Fail!Next

(* The values of the variables. *)
Positions == {"idle", "look", "claimed", "exit", "send safe", "send review"}
EndpointTyped ==
  /\ host \in 0 .. MaxHost /\ hosts \in 0 .. MaxHost /\ refused \subseteq Task /\ failing \in BOOLEAN
  /\ blocked \subseteq Other /\ stopped \in BOOLEAN
DiskTyped == active \subseteq Task /\ claim \in Task \cup {None}
PassTyped == queue \subseteq Task /\ now \in Task \cup {None} /\ at \in Positions /\ crashes \in 0 .. MaxCrash
FailTypes == EndpointTyped /\ DiskTyped /\ PassTyped

LEMMA FailIsTyped == ASSUME OnceInv, FailTypes PROVE Fail!TypeOK
  BY DEF OnceInv, TransferInv, PastClaim, FailTypes, EndpointTyped, DiskTyped, PassTyped, Positions, Fail!TypeOK

LEMMA FailTypeInit == ASSUME Fail!FailoverAssumption, Fail!Init PROVE FailTypes
  <1>1. host \in 0 .. MaxHost /\ hosts = host
    BY DEF Fail!FailoverAssumption, Fail!Init
  <1>2. failing \in BOOLEAN /\ stopped \in BOOLEAN
    BY DEF Fail!Init
  <1>3. crashes \in 0 .. MaxCrash
    BY DEF Fail!FailoverAssumption, Fail!Init
  <1>4. refused = {} /\ blocked = {} /\ active = {} /\ claim = None /\ queue = {} /\ now = None /\ at = "idle"
    BY DEF Fail!Init
  <1> QED BY <1>1, <1>2, <1>3, <1>4 DEF FailTypes, EndpointTyped, DiskTyped, PassTyped, Positions

(* A save of a task keeps the files of tasks. *)
LEMMA SaveTypes ==
  ASSUME FailTypes, Fail!FailoverAssumption, NEW t \in Task, NEW r, NEW a \in Positions, Fail!Save(t, r, a)
  PROVE  DiskTyped' /\ PassTyped'
  <1>1. ASSUME NEW k \in 0 .. 3, Fail!SaveUpTo(t, r, k) PROVE DiskTyped'
    BY <1>1 DEF FailTypes, DiskTyped, Fail!SaveUpTo
  <1>2. DiskTyped'
    <2>1. 3 \in 0 .. 3 /\ \A k \in 0 .. 2 : k \in 0 .. 3
      OBVIOUS
    <2> QED BY <1>1, <2>1 DEF Fail!Save
  <1>3. PassTyped'
    <2>1. crashes' = crashes \/ (crashes < MaxCrash /\ crashes' = crashes + 1)
      BY DEF Fail!Save
    <2>2. crashes' \in 0 .. MaxCrash
      BY <2>1 DEF FailTypes, PassTyped, Fail!FailoverAssumption
    <2>3. at' \in Positions
      BY DEF Fail!Save, Positions
    <2>4. queue' \subseteq Task /\ now' \in Task \cup {None}
      BY DEF Fail!Save, FailTypes, PassTyped
    <2> QED BY <2>2, <2>3, <2>4 DEF PassTyped
  <1> QED BY <1>2, <1>3

LEMMA LeaveTypes == ASSUME FailTypes, NEW t \in Task, Fail!Leave(t) PROVE DiskTyped' /\ PassTyped'
  BY DEF FailTypes, DiskTyped, PassTyped, Positions, Fail!Leave, Fail!diskVars

LEMMA EndpointTypeNext ==
  ASSUME Fail!FailoverAssumption, OnceInv, FailTypes, [Fail!Next]_Fail!vars
  PROVE  EndpointTyped'
  <1>0. EndpointTyped /\ MaxHost \in Nat /\ 0 \in 0 .. MaxHost
    BY DEF FailTypes, Fail!FailoverAssumption
  <1>1. ASSUME NEW t \in Task, Fail!Receive(t) PROVE EndpointTyped'
    BY <1>0, <1>1 DEF Fail!Receive, EndpointTyped, Fail!PassOnly, Fail!sessionVars
  <1>2. ASSUME NEW t \in Task, Fail!Begin(t) PROVE EndpointTyped'
    BY <1>0, <1>2 DEF Fail!Begin, EndpointTyped, Fail!PassOnly, Fail!sessionVars
  <1>3. ASSUME NEW t \in Task, Fail!Finish(t) PROVE EndpointTyped'
    BY <1>0, <1>3 DEF Fail!Finish, EndpointTyped, Fail!PassOnly, Fail!sessionVars
  <1>4. ASSUME NEW t \in Task, Fail!Refuse(t) PROVE EndpointTyped'
    BY <1>0, <1>4 DEF Fail!Refuse, EndpointTyped, Fail!PassOnly, Fail!sessionVars
  <1>5. CASE Fail!Detect
    BY <1>0, <1>5 DEF Fail!Detect, EndpointTyped, Fail!PassOnly, Fail!sessionVars
  <1>6. CASE Fail!HostDies
    BY <1>0, <1>6 DEF Fail!HostDies, EndpointTyped, Fail!PassOnly, Fail!sessionVars
  <1>7. CASE Fail!HostStarts
    BY <1>0, <1>7 DEF Fail!HostStarts, EndpointTyped, Fail!PassOnly, Fail!sessionVars
  <1>8. CASE Fail!Operate
    BY <1>0, <1>8 DEF Fail!Operate, EndpointTyped, Fail!PassOnly, Fail!sessionVars
  <1>9. CASE Fail!BeginPass
    BY <1>0, <1>9 DEF Fail!BeginPass, EndpointTyped, Fail!PassOnly, Fail!sessionVars
  <1>10. CASE Fail!EndPass
    BY <1>0, <1>10 DEF Fail!EndPass, EndpointTyped, Fail!PassOnly, Fail!sessionVars
  <1>11. ASSUME NEW t \in Task, Fail!Look(t) PROVE EndpointTyped'
    BY <1>0, <1>11 DEF Fail!Look, EndpointTyped, Fail!PassOnly, Fail!sessionVars
  <1>12. CASE Fail!Teardown
    BY <1>0, <1>12 DEF Fail!Teardown, EndpointTyped, Fail!PassOnly, Fail!sessionVars
  <1>13. CASE Fail!Dispatch
    BY <1>0, <1>13 DEF Fail!Dispatch, EndpointTyped, Fail!PassOnly, Fail!sessionVars
  <1>14. CASE Fail!Sent
    BY <1>0, <1>14 DEF Fail!Sent, EndpointTyped, Fail!PassOnly, Fail!sessionVars
  <1>15. CASE Fail!SendReached
    BY <1>0, <1>15 DEF Fail!SendReached, EndpointTyped, Fail!PassOnly, Fail!sessionVars
  <1>16. CASE Fail!Crash
    BY <1>0, <1>16 DEF Fail!Crash, EndpointTyped, Fail!PassOnly, Fail!sessionVars
  <1>17. CASE UNCHANGED Fail!vars
    BY <1>0, <1>17 DEF Fail!vars, EndpointTyped, Fail!PassOnly, Fail!sessionVars
  <1> QED BY <1>1, <1>2, <1>3, <1>4, <1>5, <1>6, <1>7, <1>8, <1>9, <1>10, <1>11, <1>12, <1>13, <1>14,
     <1>15, <1>16, <1>17 DEF Fail!Next, Fail!World, Fail!PassStep

LEMMA WorldKeepsFiles == ASSUME FailTypes, Fail!FailoverAssumption, Fail!World PROVE DiskTyped' /\ PassTyped'
  <1>1. ASSUME NEW t \in Task, Fail!Receive(t) PROVE DiskTyped' /\ PassTyped'
    <2>1. Fail!SaveUpTo(t, Fail!Becomes(t, "watching"), 3) /\ UNCHANGED Fail!passVars /\ crashes' = crashes
      BY <1>1 DEF Fail!Receive
    <2> QED BY <2>1 DEF FailTypes, DiskTyped, PassTyped, Fail!SaveUpTo, Fail!passVars
  <1>2. CASE ~\E t \in Task : Fail!Receive(t)
    <2>1. UNCHANGED <<active, claim, queue, now, at, crashes>>
      BY <1>2 DEF Fail!World, Fail!Begin, Fail!Finish, Fail!Refuse, Fail!Detect, Fail!HostDies, Fail!HostStarts, Fail!Operate,
                  Fail!WorldOnly, Fail!diskVars, Fail!passVars
    <2> QED BY <2>1 DEF FailTypes, DiskTyped, PassTyped
  <1> QED BY <1>1, <1>2

LEMMA PassKeepsFiles ==
  ASSUME FailTypes, OnceInv, Fail!FailoverAssumption, Fail!PassStep \/ Fail!SendReached \/ Fail!Crash
  PROVE  DiskTyped' /\ PassTyped'
  <1>0. DiskTyped /\ PassTyped /\ (at \in {"claimed", "exit", "send safe", "send review"} => now \in Task)
    BY DEF FailTypes, OnceInv, TransferInv, TaskInHand
  <1>1. CASE Fail!BeginPass \/ Fail!EndPass \/ Fail!SendReached
    BY <1>0, <1>1 DEF Fail!BeginPass, Fail!EndPass, Fail!SendReached, Fail!diskVars, Fail!passVars, DiskTyped, PassTyped, Positions
  <1>2. CASE Fail!Crash
    <2>1. crashes' \in 0 .. MaxCrash
      <3>1. crashes \in 0 .. MaxCrash /\ MaxCrash \in Nat
        BY <1>0 DEF PassTyped, Fail!FailoverAssumption
      <3>2. crashes < MaxCrash /\ crashes' = crashes + 1
        BY <1>2 DEF Fail!Crash
      <3> QED BY <3>1, <3>2
    <2> QED BY <1>0, <1>2, <2>1 DEF Fail!Crash, Fail!diskVars, DiskTyped, PassTyped, Positions
  <1>3. ASSUME NEW t \in Task, Fail!Look(t) PROVE DiskTyped' /\ PassTyped'
    <2>1. CASE Fail!Exposed(t)
      BY <2>1, SaveTypes DEF Fail!Exposed, Positions
    <2>2. CASE Fail!Watched(t)
      BY <2>2, SaveTypes, LeaveTypes DEF Fail!Watched, Positions
    <2>3. CASE Fail!Claims(t)
      BY <2>3, SaveTypes, LeaveTypes DEF Fail!Claims, Positions
    <2>4. CASE Fail!Resumed(t)
      BY <1>0, <2>4 DEF Fail!Resumed, Fail!diskVars, DiskTyped, PassTyped, Positions
    <2> QED BY <1>3, <2>1, <2>2, <2>3, <2>4 DEF Fail!Look
  <1>4. CASE Fail!Teardown
    <2>1. now \in Task
      BY <1>0, <1>4 DEF Fail!Teardown
    <2>2. CASE Fail!Save(now, Fail!Becomes(now, "review"), "look")
      BY <2>1, <2>2, SaveTypes DEF Positions
    <2>3. CASE at' = "exit" /\ UNCHANGED <<queue, now, Fail!diskVars, crashes>>
      BY <1>0, <2>3 DEF Fail!diskVars, DiskTyped, PassTyped, Positions
    <2> QED BY <1>4, <2>2, <2>3 DEF Fail!Teardown
  <1>5. CASE Fail!Dispatch
    <2>1. now \in Task
      BY <1>0, <1>5 DEF Fail!Dispatch
    <2>2. ASSUME NEW o \in Fail!Candidates, NEW a \in {"send safe", "send review"},
                 Fail!Save(now, [state |-> "dispatching", target |-> o], a)
          PROVE  DiskTyped' /\ PassTyped'
      BY <2>1, <2>2, SaveTypes DEF Positions
    <2> QED BY <1>5, <2>1, <2>2, LeaveTypes DEF Fail!Dispatch
  <1>6. CASE Fail!Sent
    <2>1. now \in Task
      BY <1>0, <1>6 DEF Fail!Sent
    <2>2. PICK r : Fail!Save(now, r, "look")
      BY <1>6 DEF Fail!Sent
    <2> QED BY <2>1, <2>2, SaveTypes DEF Positions
  <1> QED BY <1>1, <1>2, <1>3, <1>4, <1>5, <1>6 DEF Fail!PassStep

LEMMA FailTypeNext ==
  ASSUME Fail!FailoverAssumption, OnceInv, FailTypes, [Fail!Next]_Fail!vars PROVE FailTypes'
  <1>1. CASE UNCHANGED Fail!vars
    BY <1>1, EndpointTypeNext DEF FailTypes, DiskTyped, PassTyped, Fail!vars, Fail!diskVars, Fail!passVars
  <1> QED BY <1>1, EndpointTypeNext, WorldKeepsFiles, PassKeepsFiles DEF FailTypes, Fail!Next

(* Nor is an input given away twice: a pass that starts a send has a task      *)
(* whose input no pass sent before, whichever of them died on the way.        *)
THEOREM WorkMovesOnce == ASSUME Fail!FailoverAssumption PROVE Fail!Spec => Fail!OfferedOnce
  <1>1. Fail!Init => OnceInv
    BY OnceInit
  <1>2. OnceInv /\ [Fail!Next]_Fail!vars => OnceInv'
    BY OnceNext
  <1>3. OnceInv /\ [Fail!Next]_Fail!vars
          => [at # "send safe" /\ at' = "send safe" => now \notin offered]_Fail!vars
    <2> SUFFICES ASSUME OnceInv, Fail!Next, at # "send safe", at' = "send safe" PROVE now \notin offered
      OBVIOUS
    <2>1. Fail!Dispatch
      <3>1. ~Fail!World /\ ~Fail!SendReached /\ ~Fail!Crash
        BY DEF Fail!World, Fail!Receive, Fail!Begin, Fail!Finish, Fail!Refuse, Fail!Detect, Fail!HostDies, Fail!HostStarts, Fail!Operate,
               Fail!WorldOnly, Fail!SendReached, Fail!Crash, Fail!passVars
      <3>2. ~Fail!BeginPass /\ ~Fail!EndPass
        BY DEF Fail!BeginPass, Fail!EndPass
      <3>3. ASSUME NEW t \in Task, Fail!Look(t) PROVE FALSE
        <4>1. at' \in {"look", "claimed", "idle"}
          BY <3>3, SaveEnds DEF Fail!Look, Fail!Exposed, Fail!Watched, Fail!Claims, Fail!Resumed, Fail!Leave
        <4> QED BY <4>1
      <3>4. ~Fail!Teardown
        <4> SUFFICES ASSUME Fail!Teardown PROVE FALSE
          OBVIOUS
        <4>1. now \in Task
          BY DEF Fail!Teardown, OnceInv, TransferInv, TaskInHand
        <4>2. at' \in {"look", "idle", "exit"}
          BY <4>1, SaveEnds DEF Fail!Teardown
        <4> QED BY <4>2
      <3>5. ~Fail!Sent
        <4> SUFFICES ASSUME Fail!Sent PROVE FALSE
          OBVIOUS
        <4>1. now \in Task
          BY DEF Fail!Sent, OnceInv, TransferInv, TaskInHand
        <4>2. at' \in {"look", "idle"}
          BY <4>1, SaveEnds DEF Fail!Sent
        <4> QED BY <4>2
      <3> QED BY <3>1, <3>2, <3>3, <3>4, <3>5 DEF Fail!Next, Fail!PassStep
    <2>2. at = "exit"
      BY <2>1 DEF Fail!Dispatch
    <2> QED BY <2>2 DEF OnceInv, PastClaim
  <1> QED BY <1>1, <1>2, <1>3, PTL DEF Fail!Spec, Fail!OfferedOnce

-----------------------------------------------------------------------------
(* However far a save gets, its task is in the index while its record is open. *)
LEMMA SaveIndexes ==
  ASSUME rec \in [Task -> [state : Fail!States, target : Other \cup {None}]], Fail!Indexed,
         NEW t \in Task, NEW r, NEW k \in 0 .. 3, Fail!SaveUpTo(t, r, k)
  PROVE  Fail!Indexed'
  <1>1. CASE r.state \in Fail!Terminal
    <2>1. CASE k = 0
      BY <1>1, <2>1 DEF Fail!SaveUpTo, Fail!Indexed
    <2>2. CASE k # 0
      <3>1. rec' = [rec EXCEPT ![t] = r] /\ active \ {t} \subseteq active'
        BY <1>1, <2>2 DEF Fail!SaveUpTo
      <3>2. rec'[t] = r /\ \A u \in Task : u # t => rec'[u] = rec[u]
        BY <3>1
      <3> QED BY <1>1, <3>1, <3>2 DEF Fail!Indexed, Fail!Terminal, Fail!Owned
    <2> QED BY <2>1, <2>2
  <1>2. CASE r.state \notin Fail!Terminal
    <2>1. CASE k = 0
      BY <1>2, <2>1 DEF Fail!SaveUpTo, Fail!Indexed
    <2>2. CASE k # 0
      <3>1. active' = active \cup {t} /\ (rec' = rec \/ rec' = [rec EXCEPT ![t] = r])
        BY <1>2, <2>2 DEF Fail!SaveUpTo
      <3>2. \A u \in Task : u # t => rec'[u] = rec[u]
        BY <3>1
      <3> QED BY <3>1, <3>2 DEF Fail!Indexed
    <2> QED BY <2>1, <2>2
  <1> QED BY <1>1, <1>2

LEMMA IndexNext == ASSUME OnceInv, Fail!Indexed, [Fail!Next]_Fail!vars PROVE Fail!Indexed'
  <1>0. rec \in [Task -> [state : Fail!States, target : Other \cup {None}]]
    BY DEF OnceInv, PastClaim
  <1>1. ASSUME NEW t \in Task, NEW r, NEW a, Fail!Save(t, r, a) PROVE Fail!Indexed'
    <2>1. \E k \in 0 .. 3 : Fail!SaveUpTo(t, r, k)
      BY <1>1 DEF Fail!Save
    <2> QED BY <1>0, <2>1, SaveIndexes
  <1>2. ASSUME UNCHANGED Fail!diskVars PROVE Fail!Indexed'
    BY <1>2 DEF Fail!diskVars, Fail!Indexed
  <1>3. at \in {"claimed", "exit", "send safe", "send review"} => now \in Task
    BY DEF OnceInv, TransferInv, TaskInHand
  <1>4. CASE Fail!World
    <2>1. ASSUME NEW t \in Task, Fail!Receive(t) PROVE Fail!Indexed'
      <3>1. Fail!SaveUpTo(t, Fail!Becomes(t, "watching"), 3) /\ 3 \in 0 .. 3
        BY <2>1 DEF Fail!Receive
      <3> QED BY <1>0, <3>1, SaveIndexes
    <2>2. CASE ~\E t \in Task : Fail!Receive(t)
      BY <1>2, <1>4, <2>2 DEF Fail!World, Fail!Begin, Fail!Finish, Fail!Refuse, Fail!Detect, Fail!HostDies,
                              Fail!HostStarts, Fail!Operate, Fail!WorldOnly
    <2> QED BY <2>1, <2>2
  <1>5. CASE Fail!BeginPass \/ Fail!EndPass \/ Fail!SendReached \/ Fail!Crash \/ UNCHANGED Fail!vars
    BY <1>2, <1>5 DEF Fail!BeginPass, Fail!EndPass, Fail!SendReached, Fail!Crash, Fail!vars
  <1>6. ASSUME NEW t \in Task, Fail!Look(t) PROVE Fail!Indexed'
    BY <1>1, <1>2, <1>6 DEF Fail!Look, Fail!Exposed, Fail!Watched, Fail!Claims, Fail!Resumed, Fail!Leave
  <1>7. CASE Fail!Teardown \/ Fail!Dispatch \/ Fail!Sent
    BY <1>1, <1>2, <1>3, <1>7 DEF Fail!Teardown, Fail!Dispatch, Fail!Sent, Fail!Leave, Fail!diskVars
  <1> QED BY <1>4, <1>5, <1>6, <1>7 DEF Fail!Next, Fail!PassStep

(* Wherever the daemon dies in a save (saveFailoverTask), the next one finds    *)
(* every open task: it reads the index, not the records.                     *)
THEOREM OpenTasksAreFound == ASSUME Fail!FailoverAssumption PROVE Fail!Spec => []Fail!Indexed
  <1>1. Fail!Init => OnceInv /\ Fail!Indexed
    <2>1. Fail!Init => \A t \in Task : rec[t].state = "none"
      BY DEF Fail!Init
    <2> QED BY <2>1, OnceInit DEF Fail!Indexed, Fail!Owned
  <1>2. OnceInv /\ Fail!Indexed /\ [Fail!Next]_Fail!vars => (OnceInv /\ Fail!Indexed)'
    BY OnceNext, IndexNext
  <1> QED BY <1>1, <1>2, PTL DEF Fail!Spec

=============================================================================
