------------------------------- MODULE Failover -------------------------------
(***************************************************************************)
(* The transfer of work whose model provider refused it: the durable tasks of   *)
(* one endpoint (lifecycle/failover.ts), the pass of the daemon that moves them  *)
(* to another runtime of the same peer (daemon/failover.ts) and the native       *)
(* session the work was given to.                                             *)
(*                                                                         *)
(* One pass runs at a time.  It awaits the exit of the old hosting and the send  *)
(* of the transfer; a task is saved in three file operations and the daemon may  *)
(* die between any two of them.                                               *)
(*                                                                         *)
(* Left out: the task the receiver records for the same work (it starts again    *)
(* from "watching" with fewer candidates), texts, events, collection after a     *)
(* week.  A transcript is what reading it proves of each input.                  *)
(***************************************************************************)
EXTENDS Naturals

CONSTANTS
  Task,         \* inputs the endpoint acknowledged
  Other,        \* the other runtimes of the peer
  None,         \* no task, no runtime
  MaxHost,      \* bound: hostings of the endpoint
  MaxCrash      \* bound: deaths of the daemon

FailoverAssumption == None \notin Task \cup Other /\ MaxHost \in Nat /\ MaxCrash \in Nat

VARIABLES
  host,         \* hosting token of the endpoint, 0 when none; a task's own is 1
  hosts,        \* hostings so far
  carries,      \* the live hosting runs the native session of the tasks
  work,         \* work[t]: what that session did for t
  refused,      \* inputs with a refusal of their own in the transcript
  failing,      \* a refusal was recorded for the endpoint
  blocked,      \* runtimes that are stopped, failing or limited
  stopped,      \* the operator stopped the endpoint
  rec,          \* rec[t]: the task's record
  active,       \* tasks with an active marker
  claim,        \* the task the endpoint's claim file names, or None
  quarantined,  \* the native session may not be resumed
  queue,        \* tasks the pass has still to look at
  now,          \* the task it works on, or None
  at,           \* where it is with it
  offered,      \* history: tasks whose original input was sent to another runtime
  crashes       \* deaths of the daemon

sessionVars == <<host, hosts, carries, work, refused, failing, blocked, stopped>>
diskVars == <<rec, active, claim>>
passVars == <<queue, now, at>>
vars == <<sessionVars, diskVars, quarantined, passVars, offered, crashes>>

Terminal == {"transferred", "review", "finished"}
Owned == {"claimed", "dispatching"}
States == {"none", "watching"} \cup Owned \cup Terminal

TypeOK ==
  /\ host \in 0 .. MaxHost /\ hosts \in 0 .. MaxHost /\ carries \in BOOLEAN
  /\ work \in [Task -> {"none", "waiting", "begun", "done"}]
  /\ refused \subseteq Task /\ failing \in BOOLEAN
  /\ blocked \subseteq Other /\ stopped \in BOOLEAN
  /\ rec \in [Task -> [state : States, target : Other \cup {None}]]
  /\ active \subseteq Task /\ claim \in Task \cup {None}
  /\ quarantined \in BOOLEAN
  /\ queue \subseteq Task /\ now \in Task \cup {None}
  /\ at \in {"idle", "look", "claimed", "exit", "send safe", "send review"}
  /\ offered \subseteq Task /\ crashes \in 0 .. MaxCrash

Init ==
  /\ host = IF MaxHost = 0 THEN 0 ELSE 1
  /\ hosts = host /\ carries = (host = 1)
  /\ work = [t \in Task |-> "none"] /\ refused = {} /\ failing = FALSE
  /\ blocked = {} /\ stopped = FALSE
  /\ rec = [t \in Task |-> [state |-> "none", target |-> None]]
  /\ active = {} /\ claim = None /\ quarantined = FALSE
  /\ queue = {} /\ now = None /\ at = "idle"
  /\ offered = {} /\ crashes = 0

-----------------------------------------------------------------------------
(* The files of a task *)

\* Mutant of SaveUpTo: the record of an open task is written before its index.
SaveRecordFirst(t, r, k) ==
  IF r.state \in Terminal
  THEN /\ rec' = IF k >= 1 THEN [rec EXCEPT ![t] = r] ELSE rec
       /\ active' = IF k >= 2 THEN active \ {t} ELSE active
       /\ claim' = IF k >= 3 /\ claim = t THEN None ELSE claim
  ELSE /\ rec' = IF k >= 1 THEN [rec EXCEPT ![t] = r] ELSE rec
       /\ active' = IF k >= 2 THEN active \cup {t} ELSE active
       /\ claim' = IF k >= 3 /\ r.state \in Owned THEN t ELSE claim

(* k of the three operations of saveFailoverTask are done: the index before the  *)
(* record while the task is open, the record before the index when it ends.     *)
SaveUpTo(t, r, k) ==
  IF r.state \in Terminal
  THEN /\ rec' = IF k >= 1 THEN [rec EXCEPT ![t] = r] ELSE rec
       /\ active' = IF k >= 2 THEN active \ {t} ELSE active
       /\ claim' = IF k >= 3 /\ claim = t THEN None ELSE claim
  ELSE /\ active' = IF k >= 1 THEN active \cup {t} ELSE active
       /\ claim' = IF k >= 2 /\ r.state \in Owned THEN t ELSE claim
       /\ rec' = IF k >= 3 THEN [rec EXCEPT ![t] = r] ELSE rec

Becomes(t, s) == [rec[t] EXCEPT !.state = s]

(* The pass saves r and goes on to a, or the daemon dies in the save.           *)
Save(t, r, a) ==
  \/ /\ SaveUpTo(t, r, 3)
     /\ at' = a /\ now' = IF a = "look" THEN None ELSE t
     /\ queue' = IF a = "look" THEN queue \ {t} ELSE queue
     /\ UNCHANGED crashes
  \/ /\ crashes < MaxCrash /\ crashes' = crashes + 1
     /\ \E k \in 0 .. 2 : SaveUpTo(t, r, k)
     /\ queue' = {} /\ now' = None /\ at' = "idle"

Leave(t) == /\ now' = None /\ at' = "look" /\ queue' = queue \ {t}
            /\ UNCHANGED <<diskVars, crashes>>

-----------------------------------------------------------------------------
(* The endpoint and the world around it *)

WorldOnly == UNCHANGED <<diskVars, quarantined, passVars, offered, crashes>>

(* A delivery is acknowledged: its note records the task.                      *)
Receive(t) ==
  /\ host = 1 /\ rec[t].state = "none"
  /\ work' = [work EXCEPT ![t] = "waiting"]
  /\ SaveUpTo(t, Becomes(t, "watching"), 3)
  /\ UNCHANGED <<host, hosts, carries, refused, failing, blocked, stopped, quarantined, passVars,
                 offered, crashes>>

(* The provider's own retry may begin work that was refused a moment ago.        *)
Begin(t) ==
  /\ host # 0 /\ carries /\ work[t] = "waiting"
  /\ work' = [work EXCEPT ![t] = "begun"]
  /\ UNCHANGED <<host, hosts, carries, refused, failing, blocked, stopped>> /\ WorldOnly

Finish(t) ==
  /\ host # 0 /\ carries /\ work[t] = "begun"
  /\ work' = [work EXCEPT ![t] = "done"]
  /\ UNCHANGED <<host, hosts, carries, refused, failing, blocked, stopped>> /\ WorldOnly

Refuse(t) ==
  /\ host = 1 /\ carries /\ work[t] \in {"waiting", "begun"}
  /\ refused' = refused \cup {t}
  /\ UNCHANGED <<host, hosts, carries, work, failing, blocked, stopped>> /\ WorldOnly

(* The mute watch finds the newest refusal.                                    *)
Detect ==
  /\ refused # {} /\ ~failing /\ failing' = TRUE
  /\ UNCHANGED <<host, hosts, carries, work, refused, blocked, stopped>> /\ WorldOnly

HostDies ==
  /\ host # 0 /\ host' = 0 /\ carries' = FALSE
  /\ UNCHANGED <<hosts, work, refused, failing, blocked, stopped>> /\ WorldOnly

(* A wake resumes the native session unless it is quarantined.                  *)
HostStarts ==
  /\ host = 0 /\ hosts < MaxHost /\ ~stopped
  /\ host' = hosts + 1 /\ hosts' = hosts + 1
  /\ carries' = ~quarantined
  /\ UNCHANGED <<work, refused, failing, blocked, stopped>> /\ WorldOnly

Operate ==
  /\ \/ \E B \in SUBSET Other : B # blocked /\ blocked' = B /\ UNCHANGED stopped
     \/ stopped' = ~stopped /\ UNCHANGED blocked
  /\ UNCHANGED <<host, hosts, carries, work, refused, failing>> /\ WorldOnly

World ==
  \/ \E t \in Task : Receive(t) \/ Begin(t) \/ Finish(t) \/ Refuse(t)
  \/ Detect \/ HostDies \/ HostStarts \/ Operate

-----------------------------------------------------------------------------
(* The pass *)

PassOnly == UNCHANGED <<host, hosts, carries, work, refused, failing, blocked, stopped>>

BeginPass ==
  /\ at = "idle" /\ active # {}
  /\ queue' = {t \in active : rec[t].state \notin Terminal \cup {"none"}}
  /\ at' = "look"
  /\ UNCHANGED <<now, diskVars, quarantined, offered, crashes>> /\ PassOnly

EndPass ==
  /\ at = "look" /\ queue = {} /\ at' = "idle"
  /\ UNCHANGED <<queue, now, diskVars, quarantined, offered, crashes>> /\ PassOnly

Candidates == Other \ blocked

\* Mutant of Exposed: the transfer starts again where it was claimed.
Repeated(t) ==
  /\ rec[t].state = "dispatching"
  /\ Save(t, Becomes(t, "claimed"), "claimed")

(* A transfer found half way is for the operator, never for a second send.       *)
Exposed(t) ==
  /\ rec[t].state = "dispatching"
  /\ Save(t, Becomes(t, "review"), "look")

(* No refusal: the turn's end settles the task.                                *)
Watched(t) ==
  /\ rec[t].state = "watching" /\ ~(failing /\ t \in refused)
  /\ IF work[t] = "done" THEN Save(t, Becomes(t, "finished"), "look") ELSE Leave(t)

(* Refused, and the task's own hosting is the live one or the last.             *)
Claims(t) ==
  /\ rec[t].state = "watching" /\ failing /\ t \in refused
  /\ IF Candidates = {} \/ stopped THEN Leave(t)
     ELSE IF host \notin {0, 1} THEN Save(t, Becomes(t, "review"), "look")
     ELSE \E o \in Candidates : Save(t, [state |-> "claimed", target |-> o], "claimed")

Resumed(t) ==
  /\ rec[t].state = "claimed"
  /\ at' = "claimed" /\ now' = t /\ UNCHANGED <<queue, diskVars, crashes>>

Look(t) ==
  /\ at = "look" /\ now = None /\ t \in queue
  /\ Exposed(t) \/ Watched(t) \/ Claims(t) \/ Resumed(t)
  /\ UNCHANGED <<quarantined, offered>> /\ PassOnly

(* Quarantine, fresh mark and the settling of the inflight entries are done      *)
(* again after a restart; then the old hosting is killed.                       *)
Teardown ==
  /\ at = "claimed" /\ quarantined' = TRUE
  /\ IF host \notin {0, 1}
     THEN Save(now, Becomes(now, "review"), "look")
     ELSE at' = "exit" /\ UNCHANGED <<queue, now, diskVars, crashes>>
  /\ UNCHANGED offered /\ PassOnly

\* Mutant of Safe: the proof of the first detection is taken.
SafeAsDetected(t) == t \in refused

(* The session never worked on the task, its transcript says now.              *)
Safe(t) == work[t] = "waiting"

\* Mutant of Dispatch: the pass does not wait for the exit.
DispatchAtOnce ==
  /\ at = "exit"
  /\ IF stopped \/ Candidates = {}
     THEN Leave(now)
     ELSE \E o \in Candidates :
            Save(now, [state |-> "dispatching", target |-> o],
                 IF Safe(now) THEN "send safe" ELSE "send review")
  /\ UNCHANGED <<quarantined, offered>> /\ PassOnly

(* Five seconds later: still alive, the transfer waits for a later pass; else    *)
(* the transcript is read once more, now that nobody writes it.                 *)
Dispatch ==
  /\ at = "exit"
  /\ IF host # 0 \/ stopped \/ Candidates = {}
     THEN Leave(now)
     ELSE \E o \in Candidates :
            Save(now, [state |-> "dispatching", target |-> o],
                 IF Safe(now) THEN "send safe" ELSE "send review")
  /\ UNCHANGED <<quarantined, offered>> /\ PassOnly

(* The receiver may have the input before the answer is known.                  *)
SendReached ==
  /\ at = "send safe" /\ offered' = offered \cup {now}
  /\ UNCHANGED <<passVars, diskVars, quarantined, crashes>> /\ PassOnly

(* Taken, refused, or thrown: then the record stays as it is for the next pass.   *)
Sent ==
  /\ at \in {"send safe", "send review"}
  /\ \/ Save(now, Becomes(now, IF at = "send safe" /\ now \in offered
                               THEN "transferred" ELSE "review"), "look")
     \/ Save(now, rec[now], "look")
  /\ UNCHANGED <<quarantined, offered>> /\ PassOnly

Crash ==
  /\ crashes < MaxCrash /\ crashes' = crashes + 1
  /\ queue' = {} /\ now' = None /\ at' = "idle"
  /\ UNCHANGED <<diskVars, quarantined, offered>> /\ PassOnly

PassStep == BeginPass \/ EndPass \/ (\E t \in Task : Look(t)) \/ Teardown \/ Dispatch \/ Sent

Next == World \/ PassStep \/ SendReached \/ Crash

(* The timer starts passes and every await ends.                               *)
Fairness == WF_vars(PassStep)

Spec == Init /\ [][Next]_vars
FairSpec == Spec /\ Fairness
-----------------------------------------------------------------------------
(* Properties *)

(* The original input is given to another runtime only when the first session    *)
(* never worked on it, and never will: automatic retries of the provider, a       *)
(* resume by another wake and a restart in the middle included.                  *)
ReplayedUnstarted == \A t \in offered : work[t] = "waiting"

(* Nor is it given away twice: after a death between the send and its answer the  *)
(* task is the operator's.                                                    *)
OfferedOnce == [][at # "send safe" /\ at' = "send safe" => now \notin offered]_vars

(* Wherever the daemon dies in a save, an open task is found by the next one.     *)
Indexed == \A t \in Task : rec[t].state \in {"watching"} \cup Owned => t \in active

(* A transfer that was begun ends, whatever is stopped or blocked meanwhile.      *)
TransferEnds == \A t \in Task : rec[t].state = "dispatching" ~> rec[t].state \in Terminal
=============================================================================
