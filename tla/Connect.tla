-------------------------------- MODULE Connect --------------------------------
(***************************************************************************)
(* A peer's telegram channel (connect/index.ts; onboard/steps.ts): the     *)
(* bot's token is stored, the peer's profile is given its face, the        *)
(* registry is projected again, and the router, which reads the bots once  *)
(* at its start, is restarted; but not for a token that was stored before. *)
(* Any of the steps may fail, and the verb is then run again.              *)
(***************************************************************************)
EXTENDS Naturals, FiniteSets

CONSTANTS Verb, Token,   \* runs of `connect telegram`; bot tokens, all of one bot
          None, MaxFault, MaxRestart

ConnectAssumption == /\ IsFiniteSet(Verb) /\ IsFiniteSet(Token) /\ None \notin Token
                     /\ {MaxFault, MaxRestart} \subseteq Nat

VARIABLES installed,  \* the telegram runtime
          human,      \* the human peer, whose session is the router, is registered
          router,     \* it runs
          loaded,     \* the token that it read at its start
          stored,     \* the bot's token on disk
          face, seen, \* the peer's profile has the channel; the registry has it
          pc, tok, before, ans,
          faults, restarts

vars == <<installed, human, router, loaded, stored, face, seen, pc, tok, before, ans, faults, restarts>>

TypeOK == /\ {installed, human, router, face, seen} \subseteq BOOLEAN
          /\ {loaded, stored} \subseteq Token \cup {None}
          /\ pc \in [Verb -> {"new", "add", "face", "project", "gate", "stop", "start", "done"}]
          /\ tok \in [Verb -> Token] /\ before \in [Verb -> Token \cup {None}]
          /\ ans \in [Verb -> {"none", "refused", "failed", "noop", "connected", "no-router", "restart-failed"}]
          /\ faults \in 0 .. MaxFault /\ restarts \in 0 .. MaxRestart

Init == /\ installed = FALSE /\ human = FALSE /\ router = FALSE /\ loaded = None /\ stored = None
        /\ face = FALSE /\ seen = FALSE
        /\ pc = [v \in Verb |-> "new"] /\ tok \in [Verb -> Token] /\ before = [v \in Verb |-> None]
        /\ ans = [v \in Verb |-> "none"] /\ faults = 0 /\ restarts = 0

Fault == faults < MaxFault /\ faults' = faults + 1
Goto(v, s) == pc' = [pc EXCEPT ![v] = s]
Answer(v, a) == Goto(v, "done") /\ ans' = [ans EXCEPT ![v] = a]
host == <<installed, human, router, loaded>>

-----------------------------------------------------------------------------
(***************************************************************************)
(* The telegram step of onboarding                                         *)
(***************************************************************************)
\* The package cannot be installed, or is.
InstallRuntime == /\ ~human /\ ~installed /\ installed' = TRUE
                  /\ UNCHANGED <<human, router, loaded, stored, face, seen, pc, tok, before, ans, faults, restarts>>

\* The human peer is created and its session started; its hook may fail after that.
CreateHuman == /\ installed /\ ~human /\ human' = TRUE
               /\ router' \in BOOLEAN /\ loaded' = IF router' THEN stored ELSE loaded
               /\ UNCHANGED <<installed, stored, face, seen, pc, tok, before, ans, faults, restarts>>

\* launchd restarts the router when it ends.
RouterRestarts == /\ human /\ restarts < MaxRestart /\ restarts' = restarts + 1
                  /\ router' = TRUE /\ loaded' = stored
                  /\ UNCHANGED <<installed, human, stored, face, seen, pc, tok, before, ans, faults>>

-----------------------------------------------------------------------------
(***************************************************************************)
(* connect telegram                                                        *)
(***************************************************************************)
\* The preconditions, the token's check, and what is stored before.
Begin(v) == /\ pc[v] = "new"
            /\ IF ~installed THEN Answer(v, "refused") /\ UNCHANGED <<before, faults>>
               ELSE \/ Goto(v, "add") /\ before' = [before EXCEPT ![v] = stored] /\ UNCHANGED <<ans, faults>>
                    \/ Fault /\ Answer(v, "refused") /\ UNCHANGED before
            /\ UNCHANGED <<host, stored, face, seen, tok, restarts>>

AddBot(v) == /\ pc[v] = "add"
             /\ \/ stored' = tok[v] /\ Goto(v, "face") /\ UNCHANGED <<ans, faults>>
                \/ Fault /\ Answer(v, "failed") /\ UNCHANGED stored
             /\ UNCHANGED <<host, face, seen, tok, before, restarts>>

GiveFace(v) == /\ pc[v] = "face"
               /\ \/ face' = TRUE /\ Goto(v, "project") /\ UNCHANGED <<ans, faults>>
                  \/ Fault /\ Answer(v, "failed") /\ UNCHANGED face
               /\ UNCHANGED <<host, stored, seen, tok, before, restarts>>

\* reindexFromLocals, best effort.
Project(v) == /\ pc[v] = "project" /\ Goto(v, "gate")
              /\ \/ seen' = face /\ UNCHANGED faults
                 \/ Fault /\ UNCHANGED seen
              /\ UNCHANGED <<host, stored, face, tok, before, ans, restarts>>

\* The token on disk is byte for byte what it was when the verb began.
Unchanged(v) == before[v] # None /\ stored = before[v]

Gate(v) == /\ pc[v] = "gate"
           /\ IF Unchanged(v) THEN Answer(v, "noop")
              ELSE IF ~human THEN Answer(v, "no-router") ELSE Goto(v, "stop") /\ UNCHANGED ans
           /\ UNCHANGED <<host, stored, face, seen, tok, before, faults, restarts>>

\* Mutant of StopRouter: starting is taken to be enough.
StopRouterNot(v) == pc[v] = "stop" /\ Goto(v, "start") /\ UNCHANGED <<router, ans, faults>>

\* defaultRestart: stopPeer ...
StopRouter(v) == /\ pc[v] = "stop"
                 /\ \/ router' = FALSE /\ Goto(v, "start") /\ UNCHANGED <<ans, faults>>
                    \/ Fault /\ Answer(v, "restart-failed") /\ UNCHANGED router

Stop(v) == StopRouter(v) /\ UNCHANGED <<installed, human, loaded, stored, face, seen, tok, before, restarts>>

\* ... then startPeer, which leaves one that runs as it is.
StartRouter(v) == /\ pc[v] = "start"
                  /\ \/ /\ router' = TRUE /\ loaded' = IF router THEN loaded ELSE stored
                        /\ Answer(v, "connected") /\ UNCHANGED faults
                     \/ Fault /\ Answer(v, "restart-failed") /\ UNCHANGED <<router, loaded>>
                  /\ UNCHANGED <<installed, human, stored, face, seen, tok, before, restarts>>

-----------------------------------------------------------------------------
Onboard == InstallRuntime \/ CreateHuman
Run(v) == Begin(v) \/ AddBot(v) \/ GiveFace(v) \/ Project(v) \/ Gate(v) \/ Stop(v) \/ StartRouter(v)
Next == Onboard \/ RouterRestarts \/ \E v \in Verb : Run(v)

Spec == Init /\ [][Next]_vars

-----------------------------------------------------------------------------
(***************************************************************************)
(* Properties                                                              *)
(***************************************************************************)
\* A connect that says connected has a router that runs with the token on disk,
\* overlapping connects and restarts notwithstanding.  Of three connects one can
\* take the token away, so that the router restarts with another, and one put it
\* back unseen.
TakenAndPutBack(v) == \E u, w \in Verb \ {v} : tok[u] # tok[v] /\ tok[w] = tok[v]
ConnectedIsLive == [][\A v \in Verb : ans[v] # "connected" /\ ans'[v] = "connected" /\ ~TakenAndPutBack(v)
                                      => router' /\ (loaded' = stored' \/ stored' # tok[v])]_vars

\* The code does not keep it for three: none of them restarts the router for it.
ConnectedIsLiveAmongMany == [][\A v \in Verb : ans[v] # "connected" /\ ans'[v] = "connected"
                                 => router' /\ (loaded' = stored' \/ stored' # tok[v])]_vars

\* A connect that calls itself a no-op does so because the router already runs
\* with that token; or another connect, still at work, is about to restart it.
\* The code does not keep it when an earlier connect stored the token and then
\* failed: its retry is the no-op.
NoopIsLoaded == [][\A v \in Verb : ans[v] # "noop" /\ ans'[v] = "noop" /\ router
                                   => loaded = stored \/ \E w \in Verb \ {v} : pc[w] \notin {"new", "done"}]_vars
===============================================================================
