------------------------------ MODULE Teardown ------------------------------
(* How a host takes its runtime's process tree down with it                  *)
(* (supervisor/processTree.ts, called from shutdown in supervisor/daemon.ts, *)
(* and the kill that asks for it, supervisor/index.ts).  The tool processes  *)
(* a runtime started have groups and terminals of their own: only their      *)
(* ancestry says whose they are, and a death makes launchd the parent of the *)
(* children.  So the tree is read and killed while the root still runs, the  *)
(* leaves first, in several passes; meanwhile its processes fork and exit,   *)
(* and a free pid may be given to a stranger.                                *)
EXTENDS Integers, FiniteSets

CONSTANTS
    Pid,        \* process ids
    Root,       \* the runtime the host started
    Passes,     \* how many times the tree is read
    MaxFork, MaxExit, MaxReuse, MaxBlind    \* bounds of what may happen

TeardownAssumption ==
    /\ Root \in Pid /\ {"launchd", "dead"} \cap Pid = {} /\ Passes \in Nat \ {0}
    /\ MaxFork \in Nat /\ MaxExit \in Nat /\ MaxReuse \in Nat /\ MaxBlind \in Nat

VARIABLES
    parent,     \* of each pid: a pid, launchd, or dead
    born,       \* how often the pid was given out: its start token
    ours,       \* the processes <<pid, token>> of the session's tree (history)
    forked,     \* those of them forked during a pass before the last (history)
    shot,       \* the processes the host signalled (history)
    pc,         \* serve, read, kill, root, down
    pass,       \* the pass it is in
    rootToken,  \* the root's token, read when it was started
    todo,       \* the rows of this pass still to look at
    above,      \* the parents as this pass read them
    refused,    \* rows signalled once, or that could not be verified
    spent       \* the budgets

vars == <<parent, born, ours, forked, shot, pc, pass, rootToken, todo, above, refused, spent>>
tree == <<parent, born, ours, forked>>
host == <<shot, pc, pass, rootToken, todo, above, refused>>

Launchd == "launchd"
Dead == "dead"
Alive == {p \in Pid : parent[p] # Dead}
Token(p) == born[p]
Row(p) == <<p, Token(p)>>

(* ps does not list a dead process; its children belong to launchd. *)
Without(p) == [q \in Pid |-> IF q = p THEN Dead ELSE IF parent[q] = p THEN Launchd ELSE parent[q]]

(* The descendants of the root in one reading of the process table: who is   *)
(* in every set that has the root and, with a process, its children.        *)
Closed(S, up) == Root \in S /\ \A p \in Pid : up[p] \in S => p \in S
Descendants(up) ==
    {p \in Pid : \A S \in SUBSET Pid : Closed(S, up) => p \in S} \ {Root}

Init ==
    /\ parent = [p \in Pid |-> IF p = Root THEN Launchd ELSE Dead]
    /\ born = [p \in Pid |-> IF p = Root THEN 1 ELSE 0]
    /\ ours = {<<Root, 1>>} /\ forked = {} /\ shot = {}
    /\ pc = "serve" /\ pass = 0 /\ rootToken = 1
    /\ todo = {} /\ above = parent /\ refused = {}
    /\ spent = [fork |-> 0, exit |-> 0, reuse |-> 0, blind |-> 0]

Spend(b, max) == spent[b] < max /\ spent' = [spent EXCEPT ![b] = @ + 1]
Given(p, up) == parent' = [parent EXCEPT ![p] = up] /\ born' = [born EXCEPT ![p] = @ + 1]

(* A process starts another, which is ours if its parent is. *)
Fork(q, p) ==
    /\ Spend("fork", MaxFork)
    /\ q \in Alive /\ p \notin Alive
    /\ Given(p, q)
    /\ ours' = IF Row(q) \in ours THEN ours \cup {<<p, born[p] + 1>>} ELSE ours
    /\ forked' = IF Row(q) \in ours /\ pc = "kill" /\ pass < Passes
                 THEN forked \cup {<<p, born[p] + 1>>} ELSE forked
    /\ UNCHANGED host

(* A process exits, or detaches itself from its parent by doing so. *)
Exit(p) ==
    /\ Spend("exit", MaxExit)
    /\ p \in Alive
    /\ parent' = Without(p)
    /\ UNCHANGED <<born, ours, forked, host>>

(* The pid is given to a process that has nothing to do with the session. *)
Reuse(p) ==
    /\ Spend("reuse", MaxReuse)
    /\ p \notin Alive
    /\ Given(p, Launchd)
    /\ UNCHANGED <<ours, forked, host>>

(* killSession signals the host, which begins its shutdown. *)
Signalled ==
    /\ pc = "serve"
    /\ pc' = "read"
    /\ UNCHANGED <<tree, shot, pass, rootToken, todo, above, refused, spent>>

(* The root is gone, or its pid is another's: nothing is adopted. *)
RootIsOurs == Root \in Alive /\ Token(Root) = rootToken

ReadTree ==
    /\ pc = "read" /\ pass < Passes
    /\ IF RootIsOurs
       THEN /\ above' = parent
            /\ todo' = {Row(p) : p \in Descendants(parent)} \ refused
            /\ pc' = IF todo' = {} THEN "root" ELSE "kill"
            /\ pass' = pass + 1
       ELSE pc' = "root" /\ UNCHANGED <<above, todo, pass>>
    /\ UNCHANGED <<tree, shot, rootToken, refused, spent>>

PassesOver ==
    /\ pc = "read" /\ pass = Passes
    /\ pc' = "root"
    /\ UNCHANGED <<tree, shot, pass, rootToken, todo, above, refused, spent>>

(* The order of the walk: a row comes after those below it. *)
IsNext(r) == r \in todo /\ \A s \in todo : above[s[1]] # r[1]

(* Mutant of Verified: the pid of the row is taken for the process. *)
VerifiedByPid(r) == r[1] \in Alive

(* The row's pid still has the start token it had in the table. *)
Verified(r) == r[1] \in Alive /\ Row(r[1]) = r

Looked(r) ==
    /\ todo' = todo \ {r}
    /\ refused' = refused \cup {r}
    /\ pc' = IF todo' = {} THEN "read" ELSE "kill"

(* Verify and signal: ps for the one pid, then SIGKILL.  One step: pids are  *)
(* given out in turn, so this one does not come back in the moment between.  *)
Shoot(r) ==
    /\ pc = "kill" /\ IsNext(r) /\ Verified(r)
    /\ shot' = shot \cup {Row(r[1])}
    /\ parent' = Without(r[1])
    /\ Looked(r)
    /\ UNCHANGED <<born, ours, forked, pass, rootToken, above, spent>>

Skip(r) ==
    /\ pc = "kill" /\ IsNext(r)
    /\ IF Verified(r) THEN Spend("blind", MaxBlind)     \* the reading failed
                      ELSE UNCHANGED spent
    /\ Looked(r)
    /\ UNCHANGED <<tree, shot, pass, rootToken, above>>

(* The runtime itself goes last, by the handle of the child. *)
KillRoot ==
    /\ pc = "root"
    /\ pc' = "down"
    /\ parent' = IF Root \in Alive /\ Row(Root) \in ours THEN Without(Root) ELSE parent
    /\ UNCHANGED <<born, ours, forked, shot, pass, rootToken, todo, above, refused, spent>>

Next ==
    \/ \E p, q \in Pid : Fork(q, p)
    \/ \E p \in Pid : Exit(p) \/ Reuse(p)
    \/ Signalled \/ ReadTree \/ PassesOver \/ KillRoot
    \/ \E r \in todo : Shoot(r) \/ Skip(r)

Spec == Init /\ [][Next]_vars

---------------------------------------------------------------------------
(* Parents are pids, launchd or dead; the work of a pass is rows. *)
TypeOK ==
    /\ parent \in [Pid -> Pid \cup {Launchd, Dead}]
    /\ born \in [Pid -> Nat]
    /\ todo \cup refused \cup shot \cup ours \subseteq Pid \X Nat
    /\ pc \in {"serve", "read", "kill", "root", "down"} /\ pass \in 0..Passes

(* docs/04: "a reused PID is never signalled".  Whatever exits and whoever   *)
(* gets its pid between the reading and the signal, only processes the       *)
(* session's tree started are killed.                                        *)
NeverAStranger == shot \subseteq ours

(* processTree.ts:31, docs/04:127-128: the reading is repeated while the     *)
(* root lives, "so a child forked during the pass is caught".  It is not     *)
(* when its parent is killed in the same pass: launchd adopts it, and no     *)
(* later reading finds it under the root.  (Nothing exits by itself, no      *)
(* reading fails.)                                                           *)
ForkedInPassIsCaught ==
    pc = "down" /\ spent.exit = 0 /\ spent.blind = 0
        => \A r \in forked : r[1] \notin Alive \/ Row(r[1]) # r
=============================================================================
