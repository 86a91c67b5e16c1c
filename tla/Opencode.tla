------------------------------- MODULE Opencode -------------------------------
(***************************************************************************)
(* The OpenCode runtime (opencode/iapeer-plugin.mjs, journal.ts,           *)
(* control.ts, launch/adapters/opencode.ts): a plugin inside the runtime's *)
(* process journals the runtime's events, keeps a state file, takes the    *)
(* daemon's deliveries on a socket, and agrees to a reload only between    *)
(* turns.  The runtime publishes its events to the plugin later, in order. *)
(* The supervisor that holds the process retires it under that agreement,  *)
(* and records the end of a process that could not do so itself.           *)
(***************************************************************************)
EXTENDS Naturals, Sequences, FiniteSets, SequencesExt

CONSTANTS Msg,      \* deliveries
          Gated,    \* permissions are asked of the broker
          MaxLaunch, MaxInterrupt, MaxCompact, MaxPerm

OpencodeAssumption == /\ IsFiniteSet(Msg) /\ Gated \in BOOLEAN
                      /\ {MaxLaunch, MaxInterrupt, MaxCompact, MaxPerm} \subseteq Nat

VARIABLES up,        \* the process: none, starting, ready
          launch,    \* launches so far
          events,    \* published and not handed to the plugin yet
          nat,       \* what the runtime has made of each message
          turn,      \* the messages of its running turn
          summary,   \* it is summarising
          perm,      \* its open permission: none, asked, shown, allowed, denied
          \* the plugin
          seq, status, pending, waiting, fence, compactedAfter, unsaved,
          \* its files
          journal, saved,
          \* its callers
          call,      \* each delivery: new, op, sent, ok, refused, unsure
          compact,   \* none, or the sequence number a running compact began at
          lease,     \* the supervisor's side of a reload: none, held, granted, lapsed, committed
          interrupts, compacts, perms

native == <<events, nat, turn, summary, perm>>
plugin == <<seq, status, pending, waiting, fence, compactedAfter, unsaved>>
files == <<journal, saved>>
counts == <<interrupts, compacts, perms>>
vars == <<up, launch, native, plugin, files, call, compact, lease, counts>>

NoState == [seq |-> 0, status |-> "none"]

TypeOK == /\ up \in {"none", "starting", "ready"} /\ launch \in 0 .. MaxLaunch
          /\ nat \in [Msg -> {"none", "queued", "persisted", "answered", "aborted"}]
          /\ turn \subseteq Msg /\ summary \in BOOLEAN
          /\ perm \in {"none", "asked", "shown", "allowed", "denied"}
          /\ status \in {"starting", "idle", "busy", "approval"}
          /\ pending \subseteq Msg /\ waiting \subseteq Msg /\ fence \in BOOLEAN /\ unsaved \in BOOLEAN
          /\ call \in [Msg -> {"new", "op", "sent", "ok", "refused", "unsure"}]
          /\ lease \in {"none", "held", "granted", "lapsed", "committed"}
          /\ interrupts \in 0 .. MaxInterrupt /\ compacts \in 0 .. MaxCompact /\ perms \in 0 .. MaxPerm

Init == /\ up = "none" /\ launch = 0 /\ events = <<>> /\ nat = [m \in Msg |-> "none"] /\ turn = {}
        /\ summary = FALSE /\ perm = "none"
        /\ seq = 0 /\ status = "starting" /\ pending = {} /\ waiting = {} /\ fence = FALSE
        /\ compactedAfter = 0 /\ unsaved = FALSE /\ journal = <<>> /\ saved = NoState
        /\ call = [m \in Msg |-> "new"] /\ compact = 0 /\ lease = "none"
        /\ interrupts = 0 /\ compacts = 0 /\ perms = 0

Set(ms, s) == [m \in Msg |-> IF m \in ms THEN s ELSE nat[m]]
Publish(es) == events' = events \o es
Running == up = "ready" /\ ~unsaved

-----------------------------------------------------------------------------
(***************************************************************************)
(* The runtime (external): messages are stored, answered in turns, and     *)
(* each change is published                                                *)
(***************************************************************************)
NativeOnly == UNCHANGED <<up, launch, plugin, files, call, compact, lease, counts>>

Persist(m) == /\ up = "ready" /\ nat[m] = "queued" /\ nat' = Set({m}, "persisted")
              /\ Publish(<<[type |-> "user", of |-> {m}]>>)
              /\ UNCHANGED <<turn, summary, perm>> /\ NativeOnly

BeginTurn == /\ up = "ready" /\ turn = {} /\ turn' = {m \in Msg : nat[m] = "persisted"} /\ turn' # {}
             /\ Publish(<<[type |-> "busy", of |-> {}]>>)
             /\ UNCHANGED <<nat, summary, perm>> /\ NativeOnly

EndTurn == /\ up = "ready" /\ turn # {} /\ perm \in {"none", "allowed", "denied"}
           /\ nat' = Set(turn, "answered") /\ turn' = {} /\ perm' = "none"
           /\ Publish(<<[type |-> "finished", of |-> turn], [type |-> "idle", of |-> {}]>>)
           /\ UNCHANGED summary /\ NativeOnly

AskPermission == /\ up = "ready" /\ turn # {} /\ perm = "none" /\ perms < MaxPerm /\ perms' = perms + 1
                 /\ perm' = "asked" /\ Publish(<<[type |-> "asked", of |-> {}]>>)
                 /\ UNCHANGED <<nat, turn, summary, up, launch, plugin, files, call, compact, lease, interrupts, compacts>>

\* The human answers in the terminal.
AnswerNatively == /\ perm \in {"asked", "shown"} /\ perm' \in {"allowed", "denied"}
                  /\ Publish(<<[type |-> "replied", of |-> {}]>>)
                  /\ UNCHANGED <<nat, turn, summary>> /\ NativeOnly

Summarised == /\ summary /\ summary' = FALSE /\ Publish(<<[type |-> "compacted", of |-> {}]>>)
              /\ UNCHANGED <<nat, turn, perm>> /\ NativeOnly

-----------------------------------------------------------------------------
(***************************************************************************)
(* The process and its supervisor                                          *)
(***************************************************************************)
Fresh == /\ pending' = {} /\ waiting' = {} /\ fence' = FALSE /\ compactedAfter' = 0 /\ unsaved' = FALSE

\* lastSeq: the journal's last line that can be read.
LastSeq == IF journal = <<>> THEN 0 ELSE Last(journal)

\* server(): the sequence goes on from the journal's tail, the state is written.
Launch == /\ up = "none" /\ launch < MaxLaunch /\ launch' = launch + 1 /\ up' = "starting"
          /\ seq' = LastSeq /\ status' = "starting" /\ saved' = [seq |-> LastSeq, status |-> "starting"]
          /\ Fresh /\ events' = <<>> /\ turn' = {} /\ summary' = FALSE /\ perm' = "none" /\ lease' = "none"
          /\ UNCHANGED <<nat, journal, call, compact, counts>>

Record == /\ seq' = seq + 1 /\ journal' = Append(journal, seq')

Ready == /\ up = "starting" /\ ~unsaved /\ up' = "ready" /\ status' = "idle" /\ Record /\ unsaved' = TRUE
         /\ UNCHANGED <<launch, native, pending, waiting, fence, compactedAfter, saved, call, compact, lease, counts>>

\* Mutant of WriteState: the state counts a line that is yet to come.
WriteStateAhead == saved' = [seq |-> seq + 1, status |-> status]

\* writeState, after the line is on disk.
WriteState == saved' = [seq |-> seq, status |-> status]

Save == /\ up # "none" /\ unsaved /\ unsaved' = FALSE /\ WriteState
        /\ UNCHANGED <<up, launch, native, seq, status, pending, waiting, fence, compactedAfter, journal, call, compact, lease, counts>>

\* What the callers of a process that is gone are told, and its messages' fate.
Gone == /\ up' = "none" /\ events' = <<>> /\ turn' = {} /\ summary' = FALSE /\ perm' = "none" /\ Fresh
        /\ nat' = Set({m \in Msg : nat[m] \in {"queued", "persisted"}}, "aborted")
        /\ call' = [m \in Msg |-> IF call[m] \in {"op", "sent"} THEN "unsure" ELSE call[m]]
        /\ compact' = 0 /\ lease' = "none"

\* Mutant of NextSeq: the record counts on from the state.
NextSeqOfState == saved.seq + 1

\* recordOpencodeStopped goes on from the journal, not from the state.
NextSeq == LastSeq + 1

RecordStopped == IF saved.status = "stopped" THEN UNCHANGED <<seq, files>>
                 ELSE /\ journal' = Append(journal, NextSeq) /\ seq' = NextSeq
                      /\ saved' = [seq |-> NextSeq, status |-> "stopped"]

\* The process dies, between a line and the state too; the supervisor records it.
Die == /\ up # "none" /\ Gone /\ RecordStopped /\ status' = "starting"
       /\ UNCHANGED <<launch, counts>>

\* dispose: the plugin's own last line.
Dispose == /\ Running /\ Gone /\ status' = "starting"
           /\ seq' = seq + 1 /\ journal' = Append(journal, seq')
           /\ saved' = [seq |-> seq', status |-> "stopped"]
           /\ UNCHANGED <<launch, counts>>

-----------------------------------------------------------------------------
(***************************************************************************)
(* The plugin hears of an event                                            *)
(***************************************************************************)
Heard == Head(events)
StatusAfter == CASE Heard.type = "busy" -> "busy"
                 [] Heard.type = "idle" -> "idle"
                 [] Heard.type = "asked" -> "approval"
                 [] Heard.type = "replied" /\ status = "approval" -> "busy"
                 [] OTHER -> status

\* The event hook: waiters told, finished turns' messages dropped, the line
\* journalled, then the state.
Hear == /\ Running /\ events # <<>> /\ events' = Tail(events)
        /\ waiting' = IF Heard.type = "user" THEN waiting \ Heard.of ELSE waiting
        /\ pending' = IF Heard.type = "finished" THEN pending \ Heard.of ELSE pending
        /\ status' = StatusAfter
        /\ Record /\ unsaved' = TRUE
        /\ compactedAfter' = IF Heard.type = "compacted" THEN seq' ELSE compactedAfter
        /\ perm' = IF Gated /\ Heard.type = "asked" /\ perm = "asked" THEN "shown" ELSE perm
        /\ UNCHANGED <<up, launch, nat, turn, summary, fence, saved, call, compact, lease, counts>>

\* brokerApproval: an allow is the broker's word, and anything else rejects.
BrokerAnswers == /\ Running /\ perm = "shown" /\ perm' \in {"allowed", "denied"}
                 /\ Publish(<<[type |-> "replied", of |-> {}]>>)
                 /\ UNCHANGED <<nat, turn, summary>> /\ NativeOnly

-----------------------------------------------------------------------------
(***************************************************************************)
(* The control socket                                                      *)
(***************************************************************************)
InputOperations == Cardinality({m \in Msg : call[m] \in {"op", "sent"}}) + (IF compact > 0 THEN 1 ELSE 0)

Deliver(m) == /\ Running /\ call[m] = "new"
              /\ call' = [call EXCEPT ![m] = IF fence THEN "refused" ELSE "op"]
              /\ UNCHANGED <<up, launch, native, plugin, files, compact, lease, counts>>

\* The prompt is handed to the runtime, or refused by it.
Prompt(m) == /\ Running /\ call[m] = "op"
             /\ \/ /\ call' = [call EXCEPT ![m] = "sent"] /\ nat' = Set({m}, "queued")
                   /\ pending' = pending \cup {m} /\ waiting' = waiting \cup {m}
                \/ call' = [call EXCEPT ![m] = "refused"] /\ UNCHANGED <<nat, pending, waiting>>
             /\ UNCHANGED <<up, launch, events, turn, summary, perm, seq, status, fence, compactedAfter, unsaved, files, compact, lease, counts>>

Acked(m) == /\ Running /\ call[m] = "sent" /\ m \notin waiting /\ call' = [call EXCEPT ![m] = "ok"]
            /\ UNCHANGED <<up, launch, native, plugin, files, compact, lease, counts>>

\* Not persisted in time: an error to the sender, and still pending here.
AckTimesOut(m) == /\ Running /\ call[m] = "sent" /\ m \in waiting
                  /\ call' = [call EXCEPT ![m] = "unsure"] /\ waiting' = waiting \ {m}
                  /\ UNCHANGED <<up, launch, native, seq, status, pending, fence, compactedAfter, unsaved, files, compact, lease, counts>>

\* The runtime aborts its turn; nothing is taken for pending after that.
Interrupt == /\ Running /\ interrupts < MaxInterrupt /\ interrupts' = interrupts + 1
             /\ nat' = Set(turn, "aborted") /\ turn' = {} /\ pending' = {} /\ perm' = "none"
             /\ Publish(IF turn # {} THEN <<[type |-> "idle", of |-> {}]>> ELSE <<>>)
             /\ UNCHANGED <<up, launch, summary, seq, status, waiting, fence, compactedAfter, unsaved, files, call, compact, lease, compacts, perms>>

Compact == /\ Running /\ ~fence /\ compact = 0 /\ compacts < MaxCompact /\ compacts' = compacts + 1
           /\ compact' = seq /\ summary' = TRUE
           /\ UNCHANGED <<up, launch, events, nat, turn, perm, plugin, files, call, lease, interrupts, perms>>

\* summarize has returned: its event counts, or the caller is told that it did not come.
CompactEnds == /\ Running /\ compact > 0 /\ ~summary /\ compact' = 0
               /\ UNCHANGED <<up, launch, native, plugin, files, call, lease, counts>>

\* Mutant of MayReload: a runtime that says it is idle has nothing to do.
MayReloadIdle == status = "idle" /\ InputOperations = 0

\* prepareReload: idle, nothing in hand, and nothing delivered that is unanswered.
MayReload == status = "idle" /\ InputOperations = 0 /\ pending = {}

AcquireLease == /\ up # "none" /\ lease = "none" /\ lease' = "held"
                /\ UNCHANGED <<up, launch, native, plugin, files, call, compact, counts>>

PrepareReload == /\ Running /\ lease = "held"
                 /\ IF ~fence /\ MayReload THEN fence' = TRUE /\ lease' = "granted"
                    ELSE lease' = "none" /\ UNCHANGED fence
                 /\ UNCHANGED <<up, launch, native, seq, status, pending, waiting, compactedAfter, unsaved, files, call, compact, counts>>

\* The lease runs out before the plugin's fence does.
LeaseLapses == /\ lease \in {"held", "granted"} /\ lease' = "lapsed"
               /\ UNCHANGED <<up, launch, native, plugin, files, call, compact, counts>>

FenceLifts == /\ Running /\ lease = "lapsed" /\ fence' = FALSE /\ lease' = "none"
              /\ UNCHANGED <<up, launch, native, seq, status, pending, waiting, compactedAfter, unsaved, files, call, compact, counts>>

Commit == /\ lease = "granted" /\ lease' = "committed"
          /\ UNCHANGED <<up, launch, native, plugin, files, call, compact, counts>>

\* A committed lease is not given back: the process is stopped.
Retire == /\ lease = "committed" /\ Gone /\ RecordStopped /\ status' = "starting"
          /\ UNCHANGED <<launch, counts>>

-----------------------------------------------------------------------------
Native == BeginTurn \/ EndTurn \/ Summarised \/ \E m \in Msg : Persist(m)
Control == \/ PrepareReload \/ FenceLifts \/ CompactEnds
           \/ \E m \in Msg : Deliver(m) \/ Prompt(m) \/ Acked(m) \/ AckTimesOut(m)
Reload == AcquireLease \/ LeaseLapses \/ Commit \/ Retire
Next == \/ Native \/ AskPermission \/ AnswerNatively \/ BrokerAnswers
        \/ Launch \/ Ready \/ Save \/ Die \/ Dispose \/ Hear
        \/ Control \/ Interrupt \/ Compact \/ Reload

Spec == Init /\ [][Next]_vars

-----------------------------------------------------------------------------
(***************************************************************************)
(* Properties                                                              *)
(***************************************************************************)
\* The journal's numbers rise, over deaths between a line and the state, the
\* supervisor's own record and new launches: a reader that keeps the last
\* number it has seen misses and repeats nothing.
SeqRises == \A i \in 1 .. Len(journal) - 1 : journal[i] < journal[i + 1]

\* The state never counts a line that is not on disk.
StateNotAhead == saved.seq <= LastSeq

\* A reload never cuts a delivered message: once it is committed the runtime has
\* answered, or given up, every message it took.  Somebody's interrupt, which
\* makes the plugin forget what is pending, is the exception.
ReloadCutsNothing == lease = "committed" /\ interrupts = 0
                     => \A m \in Msg : nat[m] \notin {"queued", "persisted"}
===============================================================================
