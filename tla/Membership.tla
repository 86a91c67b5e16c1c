------------------------------ MODULE Membership ------------------------------
(***************************************************************************)
(* Who is a peer: the profile in each peer's folder, the registry that     *)
(* mirrors the profiles (registry/index.ts), and the verbs that change     *)
(* both: create and add-runtime (create, init, provision, identity),       *)
(* default-runtime, remove-runtime, remove and rename (cli/index.ts), and  *)
(* the daemon's profile sync (daemon/profilesync.ts).                      *)
(*                                                                         *)
(* A folder's name is its peer's name.  The verbs run in processes of      *)
(* their own; one update of the registry is a step (it holds the peers     *)
(* lock and reads, changes and replaces the file), and so is one patch of  *)
(* a profile.  Between those a verb may be overtaken by another, and it    *)
(* may be killed (Killed).                                                 *)
(***************************************************************************)
EXTENDS Naturals, FiniteSets

CONSTANTS Name,     \* personalities
          Dir,      \* parent directories
          Rt,       \* agentic runtimes
          Proc,     \* verbs that may run at the same time
          None,     \* no profile, no record
          MaxVerb   \* bound: verbs begun

MembershipAssumption == /\ Rt # {} /\ MaxVerb \in Nat
                        /\ None \notin Name \cup Dir \cup Rt

Path == Dir \X Name
BaseName(path) == path[2]
Sibling(path, n) == <<path[1], n>>

Profile == [name : Name, default : Rt, rts : SUBSET Rt]
Record == [cwd : Path, default : Rt, rts : SUBSET Rt]

VARIABLES profile,   \* per folder: its profile, None when it has none
          marks,     \* per folder: the runtimes its marker directories show
          index,     \* the registry: per name, its record
          live,      \* name and runtime of the live sessions
          retiring,  \* the removals owed at the end of a live session's turn
          changed,   \* a profile was written since profile sync looked
          sync,      \* where the profile sync stands
          job,       \* per process: the verb it runs and what it read
          verbs,     \* verbs begun
          killed     \* a verb was killed

vars == <<profile, marks, index, live, retiring, changed, sync, job, verbs, killed>>

Idle == [verb |-> "none", at |-> "idle"]
Verbs == {"create", "default", "detach", "remove", "rename", "reindex"}

TypeOK ==
  /\ profile \in [Path -> Profile \cup {None}]
  /\ marks \in [Path -> SUBSET Rt]
  /\ index \in [Name -> Record \cup {None}]
  /\ live \subseteq Name \X Rt /\ retiring \subseteq Name \X Rt
  /\ changed \in BOOLEAN /\ sync \in {"idle", "reindex", "done"}
  /\ \A p \in Proc : job[p] = Idle \/ job[p].verb \in Verbs
  /\ verbs \in 0 .. MaxVerb /\ killed \in BOOLEAN

Init ==
  /\ profile = [f \in Path |-> None] /\ marks = [f \in Path |-> {}]
  /\ index = [n \in Name |-> None]
  /\ live = {} /\ retiring = {}
  /\ changed = TRUE /\ sync = "idle"
  /\ job = [p \in Proc |-> Idle] /\ verbs = 0 /\ killed = FALSE

Registered(n) == index[n] # None
\* The peers lock is held across the two writes of a rename, and falls to the
\* next comer when its holder is killed.
LockFree == \A p \in Proc : job[p].at # "index"

Begin(p, j) == /\ job[p] = Idle /\ verbs < MaxVerb
               /\ verbs' = verbs + 1
               /\ job' = [job EXCEPT ![p] = j]
Goto(p, at) == job' = [job EXCEPT ![p].at = at]
End(p) == job' = [job EXCEPT ![p] = Idle]

\* normalizeRuntimes: whoever reads a profile or a record sees the default
\* among the runtimes.
Seen(r) == [r EXCEPT !.rts = @ \cup {r.default}]

(***************************************************************************)
(* The registry file                                                       *)
(***************************************************************************)
\* projectProfileToRecord and reindexFromLocals: every record is replaced by
\* its folder's profile, name included; one without a readable profile stays.
\* Two records of one name are not written (assertWritableIndex).
ReadAt(f) == Seen(profile[f])
Projects(n) == IF profile[index[n].cwd] = None THEN n ELSE ReadAt(index[n].cwd).name
Writable == \A n, m \in Name : Registered(n) /\ Registered(m) /\ n # m => Projects(n) # Projects(m)
Projected == [m \in Name |->
  IF \E n \in Name : Registered(n) /\ Projects(n) = m
  THEN LET n == CHOOSE k \in Name : Registered(k) /\ Projects(k) = m
           f == index[n].cwd
       IN IF profile[f] = None THEN index[n]
          ELSE [cwd |-> f, default |-> ReadAt(f).default, rts |-> ReadAt(f).rts]
  ELSE None]
Reindex == index' = IF Writable THEN Projected ELSE index

\* Mutant of SameFolder: the folder of an existing record is not compared.
SameFolderAlways(n, f) == TRUE

\* upsertPeer refuses to point a name at another folder.
SameFolder(n, f) == Registered(n) => index[n].cwd = f

\* What upsertPeer writes: the runtimes of the record and the new one; the
\* default of an existing record is kept.
Upserted(n, f, rt) ==
  IF Registered(n)
  THEN [index EXCEPT ![n].cwd = f, ![n].rts = @ \cup {rt}]
  ELSE [index EXCEPT ![n] = [cwd |-> f, default |-> rt, rts |-> {rt}]]

(***************************************************************************)
(* create and add-runtime                                                  *)
(***************************************************************************)
\* A runtime is added where the registry, read once at the start, says the
\* peer lives; create goes where the operator says.
BeginCreate(p, n, d, rt) == /\ Begin(p, [verb |-> "create", at |-> "profile", path |-> <<d, n>>, rt |-> rt])
                            /\ UNCHANGED <<profile, marks, index, live, retiring, changed, sync, killed>>
BeginAdd(p, n, rt) == /\ Registered(n) /\ rt \notin index[n].rts
                      /\ Begin(p, [verb |-> "create", at |-> "profile", path |-> index[n].cwd, rt |-> rt])
                      /\ UNCHANGED <<profile, marks, index, live, retiring, changed, sync, killed>>

\* peerCollision: the name of the folder's peer is taken by another folder.
Collides(f) == LET n == IF profile[f] = None THEN BaseName(f) ELSE profile[f].name
               IN Registered(n) /\ index[n].cwd # f

\* ensurePeerProfile writes the profile, or merges the runtime and those the
\* marker directories show into it.
EnsureProfile(p) ==
  LET f == job[p].path
      rt == job[p].rt
      found == marks[f] \cup {rt} IN
  /\ job[p].verb = "create" /\ job[p].at = "profile"
  /\ IF Collides(f)
     THEN End(p) /\ UNCHANGED <<profile, marks, changed>>
     ELSE /\ profile' = [profile EXCEPT ![f] =
                IF profile[f] = None THEN [name |-> BaseName(f), default |-> rt, rts |-> found]
                ELSE [profile[f] EXCEPT !.rts = @ \cup found]]
          /\ marks' = [marks EXCEPT ![f] = found]
          /\ changed' = TRUE
          /\ Goto(p, "record")
  /\ UNCHANGED <<index, live, retiring, sync, verbs, killed>>

\* upsertPeer, after the memory and capability providers have run; then
\* add-runtime reindexes.
RecordPeer(p) ==
  LET f == job[p].path
      n == IF profile[f] = None THEN BaseName(f) ELSE profile[f].name IN
  /\ job[p].verb = "create" /\ job[p].at = "record" /\ LockFree
  /\ IF SameFolder(n, f)
     THEN index' = Upserted(n, f, job[p].rt) /\ changed' = TRUE /\ Goto(p, "reindex")
     ELSE End(p) /\ UNCHANGED <<index, changed>>
  /\ UNCHANGED <<profile, marks, live, retiring, sync, verbs, killed>>

(***************************************************************************)
(* default-runtime                                                         *)
(***************************************************************************)
FlipDefault(p, n, rt) ==
  /\ Registered(n)
  /\ LET f == index[n].cwd IN
       /\ profile[f] # None /\ rt \in ReadAt(f).rts /\ profile[f].default # rt
       /\ profile' = [profile EXCEPT ![f].default = rt]
  /\ changed' = TRUE
  /\ Begin(p, [verb |-> "default", at |-> "reindex"])
  /\ UNCHANGED <<marks, index, live, retiring, sync, killed>>

\* The verbs that wrote a profile end by reindexing.
ReindexVerb(p) == /\ job[p].at = "reindex" /\ LockFree
                  /\ Reindex /\ End(p)
                  /\ UNCHANGED <<profile, marks, live, retiring, changed, sync, verbs, killed>>

(***************************************************************************)
(* remove-runtime.  A live session is retired at the end of its turn, and  *)
(* the daemon then completes the removal.                                  *)
(***************************************************************************)
BeginDetach(p, n, rt) ==
  /\ Registered(n) /\ rt \in index[n].rts /\ Cardinality(index[n].rts) > 1
  /\ index[n].default # rt
  /\ IF <<n, rt>> \in live
     THEN /\ retiring' = retiring \cup {<<n, rt>>}
          /\ verbs < MaxVerb /\ verbs' = verbs + 1 /\ job[p] = Idle /\ UNCHANGED job
     ELSE /\ UNCHANGED retiring
          /\ Begin(p, [verb |-> "detach", at |-> "detach", name |-> n, rt |-> rt])
  /\ UNCHANGED <<profile, marks, index, live, changed, sync, killed>>

\* completeRemoveRuntime: markers parked, the runtime off the profile.
Detached(n, rt) ==
  IF ~Registered(n) \/ rt \notin index[n].rts THEN UNCHANGED <<profile, marks, changed>>
  ELSE LET f == index[n].cwd IN
       /\ marks' = [marks EXCEPT ![f] = @ \ {rt}]
       /\ profile' = IF profile[f] = None THEN profile
                     ELSE [profile EXCEPT ![f].rts = Seen(profile[f]).rts \ {rt}]
       /\ changed' = TRUE
Detach(p) == /\ job[p].verb = "detach" /\ job[p].at = "detach"
             /\ Detached(job[p].name, job[p].rt)
             /\ Goto(p, "reindex")
             /\ UNCHANGED <<index, live, retiring, sync, verbs, killed>>
Retire(p, n, rt) == /\ <<n, rt>> \in retiring
                    /\ job[p] = Idle
                    /\ live' = live \ {<<n, rt>>}
                    /\ retiring' = retiring \ {<<n, rt>>}
                    /\ Detached(n, rt)
                    /\ job' = [job EXCEPT ![p] = [verb |-> "reindex", at |-> "reindex"]]
                    /\ UNCHANGED <<index, sync, verbs, killed>>

(***************************************************************************)
(* remove: refused while the peer is live; the folder is kept              *)
(***************************************************************************)
RemovePeer(p, n) ==
  /\ LockFree /\ Registered(n) /\ \A rt \in Rt : <<n, rt>> \notin live
  /\ job[p] = Idle /\ verbs < MaxVerb /\ verbs' = verbs + 1 /\ UNCHANGED job
  /\ index' = [index EXCEPT ![n] = None]
  /\ changed' = TRUE
  /\ UNCHANGED <<profile, marks, live, retiring, sync, killed>>

(***************************************************************************)
(* rename: the folder is moved first, then profile and registry change     *)
(* under the peers lock; a refusal there moves the folder back             *)
(***************************************************************************)
Moved(from, to) == /\ profile' = [profile EXCEPT ![to] = profile[from], ![from] = None]
                   /\ marks' = [marks EXCEPT ![to] = marks[from], ![from] = {}]
                   /\ changed' = TRUE

BeginRename(p, n, m) ==
  /\ Registered(n) /\ ~Registered(m) /\ n # m
  /\ LET from == index[n].cwd
         to == Sibling(from, m) IN
       /\ profile[to] = None /\ profile[from] # None
       /\ \A rt \in Rt : <<n, rt>> \notin live
       /\ Moved(from, to)
       /\ Begin(p, [verb |-> "rename", at |-> "register", name |-> n, to |-> m, from |-> from, path |-> to])
  /\ UNCHANGED <<index, live, retiring, sync, killed>>

\* What renamePeer demands once it holds the lock.
Renamable(j) == /\ Registered(j.name) /\ ~Registered(j.to)
                /\ profile[j.path] # None /\ profile[j.path].name = j.name

\* The profile is patched before the registry file is replaced.
PatchName(p) ==
  LET j == job[p] IN
  /\ j.verb = "rename" /\ j.at = "register" /\ LockFree
  /\ Renamable(j)
  /\ profile' = [profile EXCEPT ![j.path].name = j.to]
  /\ changed' = TRUE /\ Goto(p, "index")
  /\ UNCHANGED <<marks, index, live, retiring, sync, verbs, killed>>

RenameRecord(p) ==
  LET j == job[p] IN
  /\ j.verb = "rename" /\ j.at = "index"
  /\ index' = [index EXCEPT ![j.to] = [index[j.name] EXCEPT !.cwd = j.path], ![j.name] = None]
  /\ changed' = TRUE /\ End(p)
  /\ UNCHANGED <<profile, marks, live, retiring, sync, verbs, killed>>

\* Mutant of MoveBack: the folder stays where it was moved.
MoveBackNever(j) == UNCHANGED <<profile, marks, changed>>

\* The folder is moved back, unless something has taken its place.
MoveBack(j) == IF profile[j.from] = None THEN Moved(j.path, j.from)
               ELSE UNCHANGED <<profile, marks, changed>>

RenameRefused(p) ==
  LET j == job[p] IN
  /\ j.verb = "rename" /\ j.at = "register" /\ LockFree
  /\ ~Renamable(j)
  /\ MoveBack(j) /\ End(p)
  /\ UNCHANGED <<index, live, retiring, sync, verbs, killed>>

(***************************************************************************)
(* The daemon's profile sync.  The stat of the profiles comes before they  *)
(* are read, so an edit during the sweep is seen by the next one.          *)
(***************************************************************************)
SyncTick == /\ sync = "idle" /\ changed
            /\ sync' = "reindex" /\ changed' = FALSE
            /\ UNCHANGED <<profile, marks, index, live, retiring, job, verbs, killed>>
\* A sweep that cannot write keeps the old gate and comes again.
SyncReindex == /\ sync = "reindex" /\ LockFree
               /\ sync' = "done"
               /\ Reindex
               /\ changed' = (changed \/ ~Writable)
               /\ UNCHANGED <<profile, marks, live, retiring, job, verbs, killed>>

\* Mutant of KeepGate: the profiles are looked at again after the sweep.
LookAgain == changed' = FALSE

KeepGate == UNCHANGED changed
SyncDone == /\ sync = "done" /\ sync' = "idle"
            /\ KeepGate
            /\ UNCHANGED <<profile, marks, index, live, retiring, job, verbs, killed>>

(***************************************************************************)
(* Around the verbs                                                        *)
(***************************************************************************)
\* A registered peer is woken, and its session ends.
Wake(n, rt) == /\ Registered(n) /\ rt \in index[n].rts /\ <<n, rt>> \notin live
               /\ live' = live \cup {<<n, rt>>}
               /\ UNCHANGED <<profile, marks, index, retiring, changed, sync, job, verbs, killed>>
Sleep(n, rt) == /\ <<n, rt>> \in live
                /\ live' = live \ {<<n, rt>>}
                /\ UNCHANGED <<profile, marks, index, retiring, changed, sync, job, verbs, killed>>

\* The operator kills the verb, or the machine stops it.
Killed(p) == /\ job[p] # Idle
             /\ End(p) /\ killed' = TRUE
             /\ UNCHANGED <<profile, marks, index, live, retiring, changed, sync, verbs>>

Step(p) == \/ EnsureProfile(p) \/ RecordPeer(p) \/ ReindexVerb(p) \/ Detach(p)
           \/ PatchName(p) \/ RenameRecord(p) \/ RenameRefused(p)

Next ==
  \/ \E p \in Proc :
       \/ Step(p) \/ Killed(p)
       \/ \E n \in Name :
            \/ RemovePeer(p, n)
            \/ \E m \in Name : BeginRename(p, n, m)
            \/ \E rt \in Rt : \/ \E d \in Dir : BeginCreate(p, n, d, rt)
                              \/ BeginAdd(p, n, rt) \/ FlipDefault(p, n, rt)
                              \/ BeginDetach(p, n, rt) \/ Retire(p, n, rt)
  \/ \E n \in Name, rt \in Rt : Wake(n, rt) \/ Sleep(n, rt)
  \/ SyncTick \/ SyncReindex \/ SyncDone

Spec == Init /\ [][Next]_vars
\* The daemon's sweep comes round, and a verb that is not killed goes on.
FairSpec == Spec /\ WF_vars(SyncTick) /\ WF_vars(SyncReindex) /\ WF_vars(SyncDone)
                 /\ \A p \in Proc : WF_vars(Step(p))

-------------------------------------------------------------------------------
(***************************************************************************)
(* Properties                                                              *)
(***************************************************************************)
\* No half rename without a kill: when no verb runs, the folder of every
\* record holds a profile, or the record was left beside its renamed peer by
\* an add-runtime that had read the old name.  The code does NOT keep it: the
\* peer may be removed, and a create begun in the moved folder, before the
\* rename takes the lock; refused, the rename moves that folder back, and
\* create registers one without a profile.
RenameWhole ==
  ~killed /\ (\A p \in Proc : job[p] = Idle)
    => \A n \in Name : Registered(n) =>
         \/ profile[index[n].cwd] # None
         \/ \E m \in Name \ {n} : /\ Registered(m) /\ profile[index[m].cwd] # None
                                  /\ index[m].cwd = Sibling(index[n].cwd, m)

\* One personality, one folder (upsertPeer): two creates of a name that both
\* found it free never re-point its record, which only a rename may do. It is
\* NOT kept over many verbs: when two renames were each killed between the
\* profile and the record, and each old name was created anew meanwhile, a
\* reindex finds a name in two folders and gives its record the other one.
OneFolder ==
  [][\A n \in Name :
       index[n] # None /\ index'[n] # None /\ index'[n].cwd # index[n].cwd
         => \E p \in Proc : job[p].verb = "rename"]_vars

\* A record says what its folder's profile says, once the verbs are done:
\* an edit during a sweep is caught by the next (daemon/profilesync.ts).
InSync == \A n \in Name :
  Registered(n) /\ profile[index[n].cwd] # None
    => LET q == Seen(profile[index[n].cwd])
       IN q.name = n /\ index[n].default = q.default /\ index[n].rts = q.rts
IndexFollows == []<>(InSync \/ ~Writable)
===============================================================================
