----------------------------- MODULE HostProofs -----------------------------
(* Nine components of the pty host, of what is asked of it and of what keeps   *)
(* it up: the attach clients, the composer, the capability reload, the         *)
(* opencode plugin, the operator verbs, the launchd job of an always-on        *)
(* channel, the start of the daemon, the dialogs of a starting session and the *)
(* log of its screen.  They share no state; what is proved of each holds for   *)
(* every value of its constants.                                               *)
EXTENDS Naturals, Sequences, FiniteSets, SequencesExt, FiniteSetTheorems, TLAPS

CONSTANTS Viewer, MaxOut, Sender, MaxTyped, Req, Applier, Retire, MaxSurf,
          MaxInput, MaxFault, Msg, Gated, MaxLaunch, MaxInterrupt, MaxCompact,
          MaxPerm, Rt, Default, Stopper, Compacter, Goaler, None, MaxTurn,
          MaxAuto, Proc, MaxVerb, Job, MaxStart, StartFault, MaxQueued, Plans,
          StableLooks, MaxLook, Cap, Keep, Copies, Stale, Heal, MaxUnit,
          MaxTime

VARIABLES out, parsed, pc, seq, snap, live, hasty, redrawn, composer, turns,
          typed, consumed, fence, child, host, exitLogged, lines, surf, req,
          applied, base, runs, turn, inputs, stopped, registered, lock, job,
          faults, up, launch, events, nat, summary, perm, status, pending,
          waiting, compactedAfter, unsaved, journal, saved, call, compact,
          lease, interrupts, compacts, perms, idle, asked, marks, goal, autos,
          ans, tgt, todo, begun, was, plist, disabled, watcher, told, off,
          verbs, sock, bound, port, disc, queue, lost, starts, queued, mode,
          plan, screen, cursor, painted, driving, verdict, looks, same,
          trimmed, slow, declined, now, path, mtime, copies, fd, checked,
          unit, born, hand, noise

Att == INSTANCE Attach
Input == INSTANCE HostInput
Rel == INSTANCE Reload
Oc == INSTANCE Opencode
Ctl == INSTANCE Control
On == INSTANCE AlwaysOn
Start == INSTANCE DaemonStart WITH MaxFault <- StartFault
Gate == INSTANCE BootGate
Pane == INSTANCE PaneLog

-----------------------------------------------------------------------------
(* A client that attaches sees each chunk once, for any number of clients and *)
(* chunks.  The live output of a client is what was emitted from one moment   *)
(* on; its snapshot holds no more than what was emitted until then, and all   *)
(* of it when the client waited for the model to be stable.                   *)
Places == {"off", "open", "drain", "bump", "settle", "erase", "live", "gone"}

AttachTyped ==
  /\ out \in Nat /\ parsed \in 0 .. out
  /\ pc \in [Viewer -> Places] /\ seq \in [Viewer -> Nat] /\ snap \in [Viewer -> Nat]
  /\ live \in [Viewer -> SUBSET Nat]

(* The live output of v begins after chunk n. *)
LiveFrom(v, n) ==
  /\ snap[v] <= n /\ n <= out /\ live[v] = (n + 1) .. out
  /\ v \notin hasty => n = snap[v]

AttachInv == AttachTyped /\ \A v \in Att!Forwarded : \E n \in Nat : LiveFrom(v, n)

LEMMA AttachInit == ASSUME Att!Init PROVE AttachInv
  BY DEF Att!Init, AttachInv, AttachTyped, Places, Att!Forwarded

(* A step that neither emits nor sends: nobody joins, and who is served       *)
(* keeps what it has.                                                         *)
LEMMA NobodyJoins ==
  ASSUME AttachInv, AttachTyped', out' = out, UNCHANGED <<snap, live>>,
         \A v \in Att!Forwarded' : v \in Att!Forwarded /\ (v \in hasty <=> v \in hasty')
  PROVE  AttachInv'
  BY DEF AttachInv, LiveFrom

LEMMA EmitKeeps == ASSUME AttachInv, Att!Emit PROVE AttachInv'
  <1>1. AttachTyped' /\ Att!Forwarded' = Att!Forwarded
    BY DEF Att!Emit, AttachInv, AttachTyped, Att!Forwarded
  <1>2. ASSUME NEW v \in Att!Forwarded, NEW n \in Nat, LiveFrom(v, n) PROVE LiveFrom(v, n)'
    <2>1. v \in Viewer /\ live'[v] = live[v] \cup {out + 1} /\ out' = out + 1 /\ out \in Nat
      BY DEF Att!Emit, Att!Forwarded, AttachInv, AttachTyped
    <2>2. (n + 1) .. (out + 1) = ((n + 1) .. out) \cup {out + 1}
      BY <1>2, <2>1 DEF LiveFrom
    <2> QED BY <1>2, <2>1, <2>2 DEF LiveFrom, Att!Emit
  <1> QED BY <1>1, <1>2 DEF AttachInv

(* The snapshot is what is parsed at that moment, and the live output begins   *)
(* there: with nothing in between if the client did not give up waiting.      *)
LEMMA SendKeeps ==
  ASSUME AttachInv, NEW v \in Viewer, Att!Send(v), UNCHANGED <<out, parsed, seq>>,
         \A w \in Att!Forwarded : w \in hasty <=> w \in hasty', v \notin Att!Forwarded,
         v \notin hasty' => parsed >= out
  PROVE  AttachInv'
  <1>1. AttachTyped' /\ Att!Forwarded' = Att!Forwarded \cup {v}
    BY DEF Att!Send, AttachInv, AttachTyped, Att!Forwarded, Places
  <1>2. LiveFrom(v, out)'
    BY DEF Att!Send, AttachInv, AttachTyped, LiveFrom
  <1>3. ASSUME NEW w \in Att!Forwarded, NEW n \in Nat, LiveFrom(w, n) PROVE LiveFrom(w, n)'
    BY <1>3 DEF Att!Send, AttachInv, AttachTyped, LiveFrom, Att!Forwarded
  <1> QED BY <1>1, <1>2, <1>3 DEF AttachInv, AttachTyped

LEMMA CatchUpKeeps ==
  ASSUME AttachInv, NEW v \in Viewer, Att!SameSize(v) \/ Att!Settled(v) \/ Att!Erased(v)
  PROVE  AttachInv'
  <1>1. v \notin Att!Forwarded /\ Att!Send(v) /\ UNCHANGED <<out, parsed, seq>>
    BY DEF Att!SameSize, Att!Settled, Att!Erased, Att!Forwarded
  <1>2. v \notin hasty' => parsed >= out
    BY DEF Att!SameSize, Att!Settled, Att!Erased, Att!Drained, Att!Stable
  <1>3. \A w \in Att!Forwarded : w \in hasty <=> w \in hasty'
    BY <1>1 DEF Att!SameSize, Att!Settled, Att!Erased
  <1> QED BY <1>1, <1>2, <1>3, SendKeeps

LEMMA AttachNext == ASSUME AttachInv, [Att!Next]_Att!vars PROVE AttachInv'
  <1>1. CASE UNCHANGED Att!vars
    BY <1>1, NobodyJoins DEF Att!vars, AttachInv, AttachTyped, Att!Forwarded
  <1>2. CASE Att!Parse
    BY <1>2, NobodyJoins DEF Att!Parse, AttachInv, AttachTyped, Att!Forwarded
  <1>3. ASSUME NEW v \in Viewer, Att!Open(v) \/ Att!FirstSize(v) \/ Att!LookAgain(v) \/ Att!BudgetSpent(v)
                                 \/ Att!OtherSize(v) \/ Att!Redraw(v) \/ Att!Erase(v) \/ Att!Leave(v)
        PROVE  AttachInv'
    <2>1. AttachTyped' /\ out' = out /\ UNCHANGED <<snap, live>>
      BY <1>3 DEF Att!Open, Att!FirstSize, Att!LookAgain, Att!BudgetSpent, Att!OtherSize, Att!Redraw, Att!Erase, Att!Leave, AttachInv,
                  AttachTyped, Places
    <2>2. \A w \in Att!Forwarded' : w \in Att!Forwarded /\ (w \in hasty <=> w \in hasty')
      BY <1>3 DEF Att!Open, Att!FirstSize, Att!LookAgain, Att!BudgetSpent, Att!OtherSize, Att!Redraw, Att!Erase, Att!Leave, AttachInv,
                  AttachTyped, Att!Forwarded
    <2> QED BY <2>1, <2>2, NobodyJoins
  <1> QED BY <1>1, <1>2, <1>3, EmitKeeps, CatchUpKeeps DEF Att!Next

LEMMA AttachSafe == ASSUME AttachInv PROVE Att!SeesItOnce
  BY DEF AttachInv, AttachTyped, LiveFrom, Att!SeesItOnce, Att!Missed, Att!Forwarded

(* The values of the variables: no chunk is parsed, looked for or shown before   *)
(* it is there.                                                               *)
LEMMA AttachTypeInit == ASSUME Att!AttachAssumption, Att!Init PROVE Att!TypeOK
  BY DEF Att!AttachAssumption, Att!Init, Att!TypeOK

LEMMA AttachTypeNext == ASSUME Att!AttachAssumption, AttachInv, Att!TypeOK, [Att!Next]_Att!vars PROVE Att!TypeOK'
  <1>1. CASE Att!Emit
    <2>1. out' \in 0 .. MaxOut /\ 0 .. out \subseteq 0 .. out' /\ 1 .. out \subseteq 1 .. out' /\ out + 1 \in 1 .. out'
      BY <1>1 DEF Att!Emit, Att!TypeOK, Att!AttachAssumption
    <2> QED BY <1>1, <2>1 DEF Att!Emit, AttachInv, AttachTyped, Att!TypeOK, Att!Forwarded
  <1>2. CASE Att!Parse
    BY <1>2 DEF Att!Parse, Att!TypeOK, Att!AttachAssumption
  <1>3. ASSUME NEW v \in Viewer, Att!Open(v) \/ Att!FirstSize(v) \/ Att!LookAgain(v) \/ Att!BudgetSpent(v) \/ Att!OtherSize(v)
        PROVE  Att!TypeOK'
    BY <1>3 DEF Att!Open, Att!FirstSize, Att!LookAgain, Att!BudgetSpent, Att!OtherSize, AttachInv, AttachTyped, Att!TypeOK
  <1>4. ASSUME NEW v \in Viewer, Att!Redraw(v) \/ Att!Erase(v) \/ Att!Leave(v) PROVE Att!TypeOK'
    BY <1>4 DEF Att!Redraw, Att!Erase, Att!Leave, AttachInv, AttachTyped, Att!TypeOK
  <1>5. ASSUME NEW v \in Viewer, Att!SameSize(v) \/ Att!Settled(v) \/ Att!Erased(v) PROVE Att!TypeOK'
    BY <1>5 DEF Att!SameSize, Att!Settled, Att!Erased, Att!Send, AttachInv, AttachTyped, Att!TypeOK
  <1>6. CASE UNCHANGED Att!vars
    BY <1>6 DEF Att!vars, Att!TypeOK
  <1> QED BY <1>1, <1>2, <1>3, <1>4, <1>5, <1>6 DEF Att!Next

(* No output is shown twice to a client, and one that waited for the model    *)
(* to be stable misses none (firstAttach, sendSnapshot).                      *)
THEOREM EveryChunkOnce == Att!Spec => []Att!SeesItOnce
  <1>1. Att!Init => AttachInv
    BY AttachInit
  <1>2. AttachInv /\ [Att!Next]_Att!vars => AttachInv'
    BY AttachNext
  <1>3. AttachInv => Att!SeesItOnce
    BY AttachSafe
  <1> QED BY <1>1, <1>2, <1>3, PTL DEF Att!Spec

-----------------------------------------------------------------------------
(* A delivery that reports success was submitted, and a committed reload takes  *)
(* no input with it, for any deliveries and any number of typed lines: what a   *)
(* delivery pasted lies in the composer until somebody's return key submits it, *)
(* and inputs are known to be consumed only while the composer is empty.        *)
Source == Sender \cup {Input!Person}
In(q) == {q[i] : i \in DOMAIN q}

InputTyped ==
  /\ pc = [s \in Sender |-> pc[s]]
  /\ composer \in Seq(Source) /\ turns \in Seq(Seq(Source))

Emptied == consumed \/ fence # "free" => composer = <<>>

Reached ==
  child = "alive" => \A s \in Sender :
    /\ pc[s] \in {"pasted", "acked"} => s \in In(composer) \cup Input!Submitted
    /\ pc[s] \in {"entered", "ok"} => s \in Input!Submitted

InputInv == InputTyped /\ Emptied /\ Reached

LEMMA InputInit == ASSUME Input!Init PROVE InputInv
  BY DEF Input!Init, InputInv, InputTyped, Emptied, Reached

(* The return key moves what the composer holds into a turn. *)
LEMMA ReturnSubmits ==
  ASSUME InputTyped, Input!Return
  PROVE  /\ composer' \in Seq(Source) /\ turns' \in Seq(Seq(Source))
         /\ Input!Submitted \subseteq Input!Submitted'
         /\ child = "alive" => In(composer) \subseteq Input!Submitted'
         /\ composer = <<>> => composer' = <<>>
         /\ consumed' => composer' = <<>> \/ consumed' = consumed
  <1>1. CASE child = "alive" /\ composer # <<>>
    <2>1. turns' = Append(turns, composer) /\ composer' = <<>> /\ composer \in Seq(Source)
      BY <1>1 DEF Input!Return, InputTyped
    <2>2. /\ DOMAIN turns' = 1 .. Len(turns) + 1 /\ DOMAIN turns = 1 .. Len(turns) /\ Len(turns) \in Nat
          /\ \A i \in 1 .. Len(turns) : turns'[i] = turns[i]
          /\ turns'[Len(turns) + 1] = composer
      BY <2>1 DEF InputTyped
    <2>3. Input!Submitted \subseteq Input!Submitted'
      <3> SUFFICES ASSUME NEW i \in DOMAIN turns, NEW j \in DOMAIN turns[i]
                   PROVE  turns[i][j] \in Input!Submitted'
        BY DEF Input!Submitted
      <3>1. i \in DOMAIN turns' /\ turns'[i] = turns[i]
        BY <2>2
      <3> QED BY <3>1 DEF Input!Submitted
    <2>4. In(composer) \subseteq Input!Submitted'
      <3>1. Len(turns) + 1 \in DOMAIN turns'
        BY <2>2
      <3> QED BY <2>2, <3>1 DEF Input!Submitted, In
    <2>5. composer' \in Seq(Source) /\ turns' \in Seq(Seq(Source))
      BY <2>1 DEF InputTyped
    <2> QED BY <2>1, <2>3, <2>4, <2>5
  <1>2. CASE ~(child = "alive" /\ composer # <<>>)
    <2>1. UNCHANGED <<turns, composer, consumed>>
      BY <1>2 DEF Input!Return
    <2>2. child = "alive" => In(composer) = {}
      BY <1>2 DEF In
    <2> QED BY <2>1, <2>2 DEF Input!Submitted, InputTyped
  <1> QED BY <1>1, <1>2

(* A step that touches neither the composer nor the turns. *)
LEMMA ElsewhereKeeps ==
  ASSUME InputInv, UNCHANGED <<composer, turns>>,
         pc' = [s \in Sender |-> pc'[s]],
         consumed' = consumed,
         fence' # "free" => fence # "free" \/ consumed,
         child' = "alive" => child = "alive",
         \A s \in Sender : \/ pc'[s] = pc[s]
                           \/ pc'[s] \notin {"pasted", "acked", "entered", "ok"}
                           \/ pc[s] = "pasted" /\ pc'[s] = "acked"
                           \/ pc[s] = "entered" /\ pc'[s] = "ok"
  PROVE  InputInv'
  <1>1. InputTyped' /\ Emptied'
    BY DEF InputInv, InputTyped, Emptied
  <1>2. Input!Submitted' = Input!Submitted
    BY DEF Input!Submitted
  <1>3. Reached'
    BY <1>2 DEF InputInv, Reached
  <1> QED BY <1>1, <1>3 DEF InputInv

LEMMA PasteKeeps == ASSUME InputInv, NEW s \in Sender, Input!Paste(s) PROVE InputInv'
  <1>1. CASE fence # "free"
    <2>1. /\ UNCHANGED <<composer, turns, consumed, fence, child>>
          /\ pc' = [pc EXCEPT ![s] = "failed"]
      BY <1>1 DEF Input!Paste, Input!endVars
    <2> QED BY <2>1, ElsewhereKeeps DEF InputInv, InputTyped
  <1>2. CASE fence = "free"
    <2>1. /\ pc' = [pc EXCEPT ![s] = "pasted"] /\ consumed' = FALSE /\ UNCHANGED <<turns, fence, child>>
          /\ composer' = IF child = "alive" THEN Append(composer, s) ELSE composer
      BY <1>2 DEF Input!Paste, Input!endVars
    <2>2. InputTyped'
      <3>1. s \in Source /\ composer \in Seq(Source) /\ turns \in Seq(Seq(Source))
        BY DEF InputInv, InputTyped, Source
      <3>2. composer' \in Seq(Source)
        BY <2>1, <3>1
      <3>3. pc' = [x \in Sender |-> pc'[x]]
        BY <2>1 DEF InputInv, InputTyped
      <3> QED BY <2>1, <3>1, <3>2, <3>3 DEF InputTyped
    <2>3. child = "alive" => In(composer) \cup {s} \subseteq In(composer')
      <3> SUFFICES ASSUME child = "alive" PROVE In(composer) \cup {s} \subseteq In(composer')
        OBVIOUS
      <3>1. /\ DOMAIN composer' = 1 .. Len(composer) + 1 /\ DOMAIN composer = 1 .. Len(composer)
            /\ \A i \in 1 .. Len(composer) : composer'[i] = composer[i]
            /\ composer'[Len(composer) + 1] = s /\ Len(composer) \in Nat
        BY <2>1 DEF InputInv, InputTyped, Source
      <3>2. Len(composer) + 1 \in DOMAIN composer' /\ DOMAIN composer \subseteq DOMAIN composer'
        BY <3>1
      <3> QED BY <3>1, <3>2 DEF In
    <2>4. Input!Submitted' = Input!Submitted
      BY <2>1 DEF Input!Submitted
    <2>5. Reached'
      BY <2>1, <2>3, <2>4 DEF InputInv, InputTyped, Reached
    <2> QED BY <1>2, <2>1, <2>2, <2>5 DEF InputInv, Emptied
  <1> QED BY <1>1, <1>2

LEMMA TypeKeeps == ASSUME InputInv, Input!Type PROVE InputInv'
  <1>1. composer' = Append(composer, Input!Person) /\ ~consumed' /\ fence = "free" /\ UNCHANGED <<pc, turns, fence, child>>
    BY DEF Input!Type, Input!endVars
  <1>2. InputTyped'
    BY <1>1 DEF InputInv, InputTyped, Source
  <1>3. In(composer) \subseteq In(composer')
    <2>1. /\ DOMAIN composer \subseteq DOMAIN composer'
          /\ \A i \in DOMAIN composer : composer'[i] = composer[i]
      BY <1>1 DEF InputInv, InputTyped
    <2> QED BY <2>1 DEF In
  <1>4. Input!Submitted' = Input!Submitted
    BY <1>1 DEF Input!Submitted
  <1> QED BY <1>1, <1>2, <1>3, <1>4 DEF InputInv, Emptied, Reached

LEMMA ReturnKeeps ==
  ASSUME InputInv, Input!Return, UNCHANGED <<fence, child>>, fence = "free",
         \/ UNCHANGED pc
         \/ \E s \in Sender : pc[s] = "acked" /\ pc' = [pc EXCEPT ![s] = "entered"]
  PROVE  InputInv'
  <1>1. InputTyped'
    BY ReturnSubmits DEF InputInv, InputTyped
  <1>2. Emptied'
    BY ReturnSubmits DEF InputInv, Emptied
  <1>3. Reached'
    BY ReturnSubmits DEF InputInv, InputTyped, Reached
  <1> QED BY <1>1, <1>2, <1>3 DEF InputInv

LEMMA InputNext == ASSUME InputInv, [Input!Next]_Input!vars PROVE InputInv'
  <1>1. CASE Input!Type
    BY <1>1, TypeKeeps
  <1>2. CASE Input!PressReturn
    BY <1>2, ReturnKeeps DEF Input!PressReturn, Input!endVars
  <1>3. CASE Input!Acquire \/ Input!Release \/ Input!Commit
    BY <1>3, ElsewhereKeeps DEF Input!Acquire, Input!Release, Input!Commit, Input!Quiet, Input!inputVars, Input!endVars, InputInv, InputTyped
  <1>4. CASE Input!Signalled \/ Input!ChildExits \/ Input!Reaped \/ Input!Killed
    BY <1>4, ElsewhereKeeps DEF Input!Signalled, Input!Shutdown, Input!ChildExits, Input!Reaped, Input!Killed, Input!inputVars, InputInv, InputTyped
  <1>5. ASSUME NEW s \in Sender, Input!Connect(s) \/ Input!Acked(s) \/ Input!GivesUp(s) \/ Input!Finish(s)
        PROVE  InputInv'
    <2>1. UNCHANGED <<composer, turns, consumed, fence, child>>
      BY <1>5 DEF Input!Connect, Input!Acked, Input!GivesUp, Input!Finish, Input!inputVars, Input!endVars
    <2>2. \E a : /\ pc' = [pc EXCEPT ![s] = a]
                 /\ \/ a \notin {"pasted", "acked", "entered", "ok"}
                    \/ pc[s] = "pasted" /\ a = "acked"
                    \/ pc[s] = "entered" /\ a = "ok"
      BY <1>5 DEF Input!Connect, Input!Acked, Input!GivesUp, Input!Finish, Input!Delivered
    <2> QED BY <2>1, <2>2, ElsewhereKeeps DEF InputInv, InputTyped
  <1>6. ASSUME NEW s \in Sender, Input!Enter(s) PROVE InputInv'
    <2>1. CASE fence # "free"
      <3>1. /\ UNCHANGED <<composer, turns, consumed, fence, child>>
            /\ pc' = [pc EXCEPT ![s] = "failed"]
        BY <1>6, <2>1 DEF Input!Enter, Input!endVars
      <3> QED BY <3>1, ElsewhereKeeps DEF InputInv, InputTyped
    <2>2. CASE fence = "free"
      BY <1>6, <2>2, ReturnKeeps DEF Input!Enter, Input!endVars
    <2> QED BY <2>1, <2>2
  <1>7. CASE UNCHANGED Input!vars
    BY <1>7, ElsewhereKeeps DEF Input!vars, InputInv, InputTyped
  <1> QED BY <1>1, <1>2, <1>3, <1>4, <1>5, <1>6, <1>7, PasteKeeps DEF Input!Next

LEMMA InputSafe == ASSUME InputInv PROVE Input!NothingLeftBehind
  BY DEF InputInv, Emptied, Reached, Input!NothingLeftBehind

(* The values of the variables: the composer holds at most what the deliveries    *)
(* that began to paste and the person put there, and the exit of a session is      *)
(* written when the host goes, at most twice.                                   *)
Begun == {s \in Sender : pc[s] \notin {"idle", "connected"}}

ShortComposer ==
  /\ typed \in 0 .. MaxTyped /\ Len(composer) <= Cardinality(Begun) + typed
  /\ host = "up" => lines = 0

InputTypes == Input!TypeOK /\ ShortComposer

(* Finite and how many mean here what they mean in the module. *)
LEMMA InputCounts == ASSUME NEW S PROVE (Input!IsFiniteSet(S) <=> IsFiniteSet(S)) /\ Input!Cardinality(S) = Cardinality(S)
  BY DEF Input!IsFiniteSet, IsFiniteSet, Input!Cardinality, Cardinality

LEMMA BegunFinite == ASSUME Input!HostInputAssumption PROVE IsFiniteSet(Begun) /\ Cardinality(Begun) \in Nat /\ Cardinality(Begun) <= Cardinality(Sender)
  BY InputCounts, FS_Subset, FS_CardinalityType DEF Begun, Input!HostInputAssumption

LEMMA InputTypeInit == ASSUME Input!HostInputAssumption, Input!Init PROVE InputTypes
  <1>1. Begun = {}
    BY DEF Input!Init, Begun
  <1>2. Len(composer) = 0 /\ Cardinality(Begun) = 0 /\ typed = 0 /\ typed \in 0 .. MaxTyped
    BY InputCounts, <1>1, FS_EmptySet DEF Input!Init, Input!HostInputAssumption
  <1>3. Len(composer) <= Cardinality(Sender) + MaxTyped
    BY InputCounts, <1>2, FS_CardinalityType DEF Input!HostInputAssumption
  <1>4. Input!TypeOK
    <2>1. consumed \in BOOLEAN /\ exitLogged \in BOOLEAN
      BY DEF Input!Init
    <2>2. 0 \in 0 .. 2
      OBVIOUS
    <2> QED BY InputCounts, <1>2, <1>3, <2>1, <2>2 DEF Input!Init, Input!TypeOK
  <1> QED BY <1>2, <1>4 DEF Input!Init, InputTypes, ShortComposer

(* A step in which whoever has begun stays among those who have, and the         *)
(* composer grows no faster than they and the person do.                        *)
LEMMA ComposerStays ==
  ASSUME Input!HostInputAssumption, InputInv, InputTypes, Begun \subseteq Begun', typed' \in 0 .. MaxTyped,
         \/ Len(composer') <= Len(composer) /\ typed' = typed
         \/ Len(composer') = Len(composer) + 1 /\ typed' = typed + 1
         \/ Len(composer') = Len(composer) + 1 /\ typed' = typed /\ Begun' # Begun,
         composer' \in Seq(Source)
  PROVE  Len(composer') <= Cardinality(Begun)' + typed' /\ Len(composer') <= Cardinality(Sender) + MaxTyped
  <1>1. /\ IsFiniteSet(Begun) /\ Cardinality(Begun) \in Nat
        /\ IsFiniteSet(Begun') /\ Cardinality(Begun') \in Nat /\ Cardinality(Begun') <= Cardinality(Sender)
    <2>1. Begun' \subseteq Sender /\ Begun \subseteq Sender
      BY DEF Begun
    <2> QED BY InputCounts, <2>1, FS_Subset, FS_CardinalityType DEF Input!HostInputAssumption
  <1>2. Cardinality(Begun) <= Cardinality(Begun') /\ (Begun' # Begun => Cardinality(Begun) < Cardinality(Begun'))
    BY <1>1, FS_Subset
  <1>3. Len(composer) \in Nat /\ Len(composer') \in Nat /\ Len(composer) <= Cardinality(Begun) + typed /\ typed \in 0 .. MaxTyped
    BY DEF InputInv, InputTyped, InputTypes, ShortComposer
  <1>4. Len(composer') <= Cardinality(Begun') + typed'
    BY <1>1, <1>2, <1>3
  <1>5. Cardinality(Sender) \in Nat /\ MaxTyped \in Nat
    BY InputCounts, FS_CardinalityType DEF Input!HostInputAssumption
  <1> QED BY <1>1, <1>4, <1>5

(* The return key empties the composer, or leaves it. *)
LEMMA ReturnShortens == ASSUME InputInv, Input!Return PROVE Len(composer') <= Len(composer) /\ composer' \in Seq(Source) /\ (consumed' = TRUE \/ consumed' = consumed)
  <1>1. composer \in Seq(Source) /\ Len(composer) \in Nat
    BY DEF InputInv, InputTyped
  <1>2. CASE child = "alive" /\ composer # <<>>
    <2>1. composer' = <<>> /\ consumed' = TRUE
      BY <1>2 DEF Input!Return
    <2>2. Len(composer') = 0 /\ composer' \in Seq(Source)
      BY <2>1
    <2> QED BY <1>1, <2>1, <2>2
  <1>3. CASE ~(child = "alive" /\ composer # <<>>)
    BY <1>1, <1>3 DEF Input!Return
  <1> QED BY <1>2, <1>3

LEMMA InputTypeNext == ASSUME Input!HostInputAssumption, InputInv, InputTypes, [Input!Next]_Input!vars PROVE InputTypes'
  <1> DEFINE Flags == consumed \in BOOLEAN /\ exitLogged \in BOOLEAN
             Rest == /\ pc \in [Sender -> {"idle", "connected", "pasted", "acked", "entered", "ok", "failed"}]
                     /\ typed \in 0 .. MaxTyped
                     /\ fence \in {"free", "ready", "committed"}
                     /\ child \in {"alive", "dead", "reaped"} /\ host \in {"up", "down", "killed"}
                     /\ lines \in 0 .. 2 /\ (host = "up" => lines = 0)
             Grows == /\ Begun \subseteq Begun'
                      /\ \/ Len(composer') <= Len(composer) /\ typed' = typed
                         \/ Len(composer') = Len(composer) + 1 /\ typed' = typed + 1
                         \/ Len(composer') = Len(composer) + 1 /\ typed' = typed /\ Begun' # Begun
                      /\ composer' \in Seq(Source)
  <1>0. Rest /\ Flags /\ composer \in Seq(Source) /\ Len(composer) \in Nat /\ MaxTyped \in Nat
    BY InputCounts DEF InputTypes, Input!TypeOK, ShortComposer, InputInv, InputTyped, Input!HostInputAssumption
  <1>1. ASSUME Flags', Rest', Grows PROVE InputTypes'
    <2>1. Len(composer') <= Cardinality(Begun)' + typed' /\ Len(composer') <= Cardinality(Sender) + MaxTyped
      BY <1>1, ComposerStays
    <2> QED BY InputCounts, <1>1, <2>1 DEF InputTypes, Input!TypeOK, ShortComposer
  <1>2. CASE Input!Type
    <2>0. Flags'
      BY <1>0, <1>2 DEF Input!Type, Input!endVars
    <2>1. Rest'
      BY <1>0, <1>2 DEF Input!Type, Input!endVars
    <2>2. Begun' = Begun
      BY <1>2 DEF Input!Type, Begun
    <2>3. composer' = Append(composer, Input!Person) /\ Input!Person \in Source
      BY <1>2 DEF Input!Type, Source
    <2>4. Grows
      BY <1>0, <1>2, <2>2, <2>3 DEF Input!Type
    <2> QED BY <1>1, <2>0, <2>1, <2>4
  <1>3. CASE Input!PressReturn
    <2>0. Flags'
      BY <1>0, <1>3, ReturnShortens DEF Input!PressReturn, Input!endVars
    <2>1. Rest'
      BY <1>0, <1>3 DEF Input!PressReturn, Input!endVars
    <2>2. Grows
      BY <1>0, <1>3, ReturnShortens DEF Input!PressReturn, Begun
    <2> QED BY <1>1, <2>0, <2>1, <2>2
  <1>4. CASE Input!Acquire \/ Input!Release \/ Input!Commit \/ Input!Signalled \/ Input!ChildExits \/ Input!Reaped \/ Input!Killed
    <2>0. Flags'
      BY <1>0, <1>4 DEF Input!Acquire, Input!Release, Input!Commit, Input!Signalled, Input!Shutdown, Input!ChildExits, Input!Reaped, Input!Killed, Input!inputVars, Input!endVars
    <2>1. Rest'
      BY <1>0, <1>4 DEF Input!Acquire, Input!Release, Input!Commit, Input!Signalled, Input!Shutdown, Input!ChildExits, Input!Reaped, Input!Killed, Input!inputVars, Input!endVars
    <2>2. Grows
      BY <1>0, <1>4 DEF Input!Acquire, Input!Release, Input!Commit, Input!Signalled, Input!ChildExits, Input!Reaped, Input!Killed, Input!inputVars, Begun
    <2> QED BY <1>1, <2>0, <2>1, <2>2
  <1>5. ASSUME NEW s \in Sender, Input!Connect(s) \/ Input!Acked(s) \/ Input!GivesUp(s) \/ Input!Finish(s) PROVE InputTypes'
    <2>0. Flags'
      BY <1>0, <1>5 DEF Input!Connect, Input!Acked, Input!GivesUp, Input!Finish, Input!inputVars, Input!endVars
    <2>1. Rest'
      BY <1>0, <1>5 DEF Input!Connect, Input!Acked, Input!GivesUp, Input!Finish, Input!inputVars, Input!endVars
    <2>2. Grows
      BY <1>0, <1>5 DEF Input!Connect, Input!Acked, Input!GivesUp, Input!Finish, Input!Delivered, Input!inputVars, Begun
    <2> QED BY <1>1, <2>0, <2>1, <2>2
  <1>6. ASSUME NEW s \in Sender, Input!Paste(s) PROVE InputTypes'
    <2>0. Flags'
      BY <1>0, <1>6 DEF Input!Paste, Input!endVars
    <2>1. Rest'
      BY <1>0, <1>6 DEF Input!Paste, Input!endVars
    <2>2. Begun' # Begun /\ Begun \subseteq Begun'
      BY <1>0, <1>6 DEF Input!Paste, Begun
    <2>3. s \in Source
      BY DEF Source
    <2>4. composer' = composer \/ composer' = Append(composer, s)
      BY <1>6 DEF Input!Paste
    <2>5. typed' = typed
      BY <1>6 DEF Input!Paste
    <2>6. composer' \in Seq(Source) /\ Len(composer') \in {Len(composer), Len(composer) + 1}
      BY <1>0, <2>3, <2>4
    <2>7. Grows
      BY <1>0, <2>2, <2>5, <2>6
    <2> QED BY <1>1, <2>0, <2>1, <2>7
  <1>7. ASSUME NEW s \in Sender, Input!Enter(s) PROVE InputTypes'
    <2>0. Flags'
      BY <1>0, <1>7, ReturnShortens DEF Input!Enter, Input!endVars
    <2>1. Rest'
      BY <1>0, <1>7 DEF Input!Enter, Input!endVars
    <2>2. Begun \subseteq Begun' /\ typed' = typed
      BY <1>0, <1>7 DEF Input!Enter, Begun
    <2>3. Len(composer') <= Len(composer) /\ composer' \in Seq(Source)
      <3>1. CASE Input!Return
        BY <3>1, ReturnShortens
      <3>2. CASE UNCHANGED composer
        BY <1>0, <3>2
      <3> QED BY <1>7, <3>1, <3>2 DEF Input!Enter
    <2>4. Grows
      BY <2>2, <2>3
    <2> QED BY <1>1, <2>0, <2>1, <2>4
  <1>8. CASE UNCHANGED Input!vars
    <2>1. Flags' /\ Rest' /\ Grows
      BY <1>0, <1>8 DEF Input!vars, Begun
    <2> QED BY <1>1, <2>1
  <1> HIDE DEF Flags, Rest, Grows
  <1> QED BY <1>2, <1>3, <1>4, <1>5, <1>6, <1>7, <1>8 DEF Input!Next

(* A delivery that reports success was submitted, alone or with what others had  *)
(* left in the composer, and a committed reload takes no unsubmitted input with  *)
(* it (deliverToHost; the fence of onClientFrame).                              *)
THEOREM InputIsSubmitted == Input!Spec => []Input!NothingLeftBehind
  <1>1. Input!Init => InputInv
    BY InputInit
  <1>2. InputInv /\ [Input!Next]_Input!vars => InputInv'
    BY InputNext
  <1>3. InputInv => Input!NothingLeftBehind
    BY InputSafe
  <1> QED BY <1>1, <1>2, <1>3, PTL DEF Input!Spec

-----------------------------------------------------------------------------
(* "applied" is said of a request only after a launch that read the            *)
(* configuration it asks for, for any requests, processes, faults and changes. *)
(* One process at a time works in the wake lock, so what it found owed before   *)
(* it read the configuration is still owed, and unchanged, when the session is *)
(* up.                                                                        *)
Inside == {"fence", "owed", "retire", "launch", "spawn", "boot"}
Jobs == [pc : Inside \cup {"idle", "lock", "remove"}, reqs : SUBSET Req, resume : BOOLEAN,
         snap : SUBSET Req, fp : Nat]

ReloadTyped ==
  /\ surf \in Nat /\ runs \in 0 .. surf
  /\ req \in [Req -> [st : {"absent", "pending", "replacing", "failed"}, ver : 0 .. surf, ref : BOOLEAN]]
  /\ applied \subseteq Req /\ registered \in BOOLEAN
  /\ job \in [Rel!Proc -> Jobs]

OneInside == \A p \in Rel!Proc : job[p].pc \in Inside => lock = p

(* What a launch found owed is on file and not applied while it goes on, and   *)
(* once it spawned, the session runs what they ask for.                       *)
OwedSoFar ==
  \A p \in Rel!Proc : job[p].pc \in {"spawn", "boot"} => \A r \in job[p].snap :
     /\ r \notin applied
     /\ registered => req[r].st # "absent"
     /\ job[p].pc = "boot" => req[r].ver <= runs

AppliedOnFile == registered => \A r \in applied : req[r].st # "absent"

ReloadInv == ReloadTyped /\ OneInside /\ OwedSoFar /\ AppliedOnFile /\ Rel!AppliedIsCurrent

LEMMA ReloadInit == ASSUME Rel!Init PROVE ReloadInv
  BY DEF Rel!Init, ReloadInv, ReloadTyped, OneInside, OwedSoFar, AppliedOnFile, Rel!AppliedIsCurrent, Rel!Idle, Rel!Absent,
         Jobs, Inside

(* The step of a process that keeps every version, and neither spawns nor      *)
(* applies: it may take or give up the lock.                                  *)
LEMMA StepKeeps ==
  ASSUME Rel!ReloadAssumption, ReloadInv, NEW p \in Rel!Proc, NEW j \in Jobs, job' = [job EXCEPT ![p] = j],
         UNCHANGED <<surf, applied, runs, registered>>,
         j.pc = "spawn" => j.snap = Rel!Pending,
         j.pc # "boot",
         j.pc \in Inside => lock' = p,
         \/ lock' = lock
         \/ lock' = p /\ lock = "none"
         \/ lock' = "none" /\ lock = p,
         req' \in [Req -> [st : {"absent", "pending", "replacing", "failed"}, ver : 0 .. surf, ref : BOOLEAN]],
         \A r \in Req : req'[r].ver = req[r].ver /\ (req[r].st # "absent" => req'[r].st # "absent")
  PROVE  ReloadInv'
  <1>1. ReloadTyped'
    BY DEF ReloadInv, ReloadTyped
  <1>2. job'[p] = j /\ \A q \in Rel!Proc : q # p => job'[q] = job[q]
    BY DEF ReloadInv, ReloadTyped
  <1>3. OneInside'
    BY <1>2 DEF ReloadInv, OneInside, Rel!ReloadAssumption, Rel!Proc
  <1>4. OwedSoFar'
    <2> SUFFICES ASSUME NEW q \in Rel!Proc, job'[q].pc \in {"spawn", "boot"}, NEW r \in job'[q].snap
                 PROVE  /\ r \notin applied
                        /\ registered => req'[r].st # "absent"
                        /\ job'[q].pc = "boot" => req'[r].ver <= runs
      BY DEF OwedSoFar
    <2>1. CASE q # p
      <3>1. r \in Req
        BY <2>1, <1>2 DEF ReloadInv, ReloadTyped, Jobs
      <3> QED BY <3>1, <2>1, <1>2 DEF ReloadInv, OwedSoFar
    <2>2. CASE q = p
      BY <2>2, <1>2 DEF Rel!Pending
    <2> QED BY <2>1, <2>2
  <1>5. AppliedOnFile' /\ Rel!AppliedIsCurrent'
    BY DEF ReloadInv, ReloadTyped, AppliedOnFile, Rel!AppliedIsCurrent
  <1> QED BY <1>1, <1>3, <1>4, <1>5 DEF ReloadInv

(* The files written for the requests in hand. *)
LEMMA MarkedKeeps ==
  ASSUME ReloadInv, NEW rs, NEW st \in {"pending", "replacing", "failed"}, NEW ref \in BOOLEAN
  PROVE  /\ Rel!Marked(rs, st, ref) \in [Req -> [st : {"absent", "pending", "replacing", "failed"},
                                                ver : 0 .. surf, ref : BOOLEAN]]
         /\ \A r \in Req : /\ Rel!Marked(rs, st, ref)[r].ver = req[r].ver
                           /\ req[r].st # "absent" => Rel!Marked(rs, st, ref)[r].st # "absent"
  BY DEF Rel!Marked, ReloadInv, ReloadTyped

(* Where a process's step takes it. *)
LEMMA GoesTo ==
  ASSUME ReloadInv, NEW p \in Rel!Proc, NEW at \in Inside \cup {"idle", "lock", "remove"}, Rel!Goto(p, at)
  PROVE  \E j \in Jobs : job' = [job EXCEPT ![p] = j] /\ j.pc = at
  <1> DEFINE j == [job[p] EXCEPT !.pc = at]
  <1>1. j \in Jobs /\ j.pc = at
    BY DEF ReloadInv, ReloadTyped, Jobs
  <1>2. job' = [job EXCEPT ![p] = j]
    BY DEF Rel!Goto
  <1> QED BY <1>1, <1>2

LEMMA IsDone ==
  ASSUME NEW p \in Rel!Proc, Rel!Done(p)
  PROVE  \E j \in Jobs : job' = [job EXCEPT ![p] = j] /\ j.pc = "idle"
  <1>1. Rel!Idle \in Jobs /\ Rel!Idle.pc = "idle"
    BY DEF Rel!Idle, Jobs
  <1> QED BY <1>1 DEF Rel!Done

LEMMA ApplierKeeps ==
  ASSUME Rel!ReloadAssumption, ReloadInv, NEW p \in Rel!Proc,
         Rel!Apply(p) \/ Rel!Enter(p) \/ Rel!AcquireFence(p) \/ Rel!Owe(p) \/ Rel!RetireHost(p) \/ Rel!Prepare(p)
  PROVE  ReloadInv'
  <1> DEFINE Files == [Req -> [st : {"absent", "pending", "replacing", "failed"}, ver : 0 .. surf,
                               ref : BOOLEAN]]
             Kept == /\ req' \in Files
                     /\ \A r \in Req : /\ req'[r].ver = req[r].ver
                                       /\ req[r].st # "absent" => req'[r].st # "absent"
             To == \E j \in Jobs : /\ job' = [job EXCEPT ![p] = j]
                                   /\ j.pc = "spawn" => j.snap = Rel!Pending
                                   /\ j.pc # "boot"
                                   /\ j.pc \in Inside => lock' = p
  <1>1. UNCHANGED <<surf, applied, runs, registered>>
    BY DEF Rel!Apply, Rel!Enter, Rel!AcquireFence, Rel!Owe, Rel!RetireHost, Rel!Prepare
  <1>a. UNCHANGED req => Kept
    BY DEF ReloadInv, ReloadTyped
  <1>b. \A rs : \A st \in {"pending", "replacing", "failed"} : \A ref \in BOOLEAN :
          req' = Rel!Marked(rs, st, ref) => Kept
    BY MarkedKeeps
  <1>c. \A st \in {"pending", "replacing", "failed"} : \A ref \in BOOLEAN :
          req' = Rel!Updated(p, st, ref) => Kept
    BY <1>b DEF Rel!Updated
  <1>2. Kept
    <2>1. CASE Rel!Apply(p)
      <3> HIDE DEF Kept
      <3> QED BY <2>1, <1>a, <1>b DEF Rel!Apply
    <2>2. CASE Rel!Enter(p)
      <3> HIDE DEF Kept
      <3> QED BY <2>2, <1>a, <1>c DEF Rel!Enter
    <2>3. CASE Rel!AcquireFence(p)
      <3> HIDE DEF Kept
      <3> QED BY <2>3, <1>a, <1>c DEF Rel!AcquireFence
    <2>4. CASE Rel!Owe(p)
      <3> HIDE DEF Kept
      <3> QED BY <2>4, <1>a, <1>c DEF Rel!Owe
    <2>5. CASE Rel!RetireHost(p)
      <3> HIDE DEF Kept
      <3> QED BY <2>5, <1>a, <1>c DEF Rel!RetireHost
    <2>6. CASE Rel!Prepare(p)
      <3> HIDE DEF Kept
      <3> QED BY <2>6, <1>a, <1>c DEF Rel!Prepare
    <2> QED BY <2>1, <2>2, <2>3, <2>4, <2>5, <2>6
  <1>d. Rel!Done(p) => To
    BY IsDone DEF Inside
  <1>e. \A at \in (Inside \ {"spawn", "boot"}) \cup {"remove"} :
          Rel!Goto(p, at) /\ (at \in Inside => lock' = p) => To
    BY GoesTo DEF Inside
  <1>3. job[p] \in Jobs /\ surf \in Nat /\ Rel!Pending \in SUBSET Req
    BY DEF ReloadInv, ReloadTyped, Rel!Pending
  <1>4. To
    <2>1. CASE Rel!Apply(p)
      <3> DEFINE retires(at) == [Rel!Idle EXCEPT !.pc = at, !.reqs = Rel!Pending]
                 replaces(r) == [Rel!Idle EXCEPT !.pc = "lock", !.reqs = Rel!Pending, !.resume = r]
      <3>1. \A at \in {"remove", "lock"} : retires(at) \in Jobs /\ retires(at).pc = at
        BY <1>3 DEF Rel!Idle, Jobs, Inside
      <3>2. \A r \in BOOLEAN : replaces(r) \in Jobs /\ replaces(r).pc = "lock"
        BY <1>3 DEF Rel!Idle, Jobs, Inside
      <3>3. \/ Rel!Done(p)
            \/ job' = [job EXCEPT ![p] = retires(IF host = "none" THEN "remove" ELSE "lock")]
            \/ job' = [job EXCEPT ![p] = replaces(host = "none")]
        BY <2>1 DEF Rel!Apply
      <3>4. /\ (IF host = "none" THEN "remove" ELSE "lock") \in {"remove", "lock"}
            /\ (host = "none") \in BOOLEAN
        OBVIOUS
      <3> HIDE DEF retires, replaces
      <3> QED BY <3>1, <3>2, <3>3, <3>4, <1>d DEF Inside
    <2>2. CASE Rel!Enter(p)
      <3> HIDE DEF To
      <3> QED BY <2>2, <1>d, <1>e DEF Rel!Enter, Inside
    <2>3. CASE Rel!AcquireFence(p)
      <3>1. lock = p
        BY <2>3 DEF Rel!AcquireFence, ReloadInv, OneInside, Inside
      <3> HIDE DEF To
      <3> QED BY <2>3, <3>1, <1>d, <1>e DEF Rel!AcquireFence, Inside
    <2>4. CASE Rel!Owe(p)
      <3>1. lock = p
        BY <2>4 DEF Rel!Owe, ReloadInv, OneInside, Inside
      <3> HIDE DEF To
      <3> QED BY <2>4, <3>1, <1>d, <1>e DEF Rel!Owe, Inside
    <2>5. CASE Rel!RetireHost(p)
      <3>1. lock = p
        BY <2>5 DEF Rel!RetireHost, ReloadInv, OneInside, Inside
      <3> HIDE DEF To
      <3> QED BY <2>5, <3>1, <1>d, <1>e DEF Rel!RetireHost, Inside
    <2>6. CASE Rel!Prepare(p)
      <3> DEFINE j == [job[p] EXCEPT !.pc = "spawn", !.snap = Rel!Pending, !.fp = surf]
      <3>1. lock = p
        BY <2>6 DEF Rel!Prepare, ReloadInv, OneInside, Inside
      <3>2. j \in Jobs /\ j.pc = "spawn" /\ j.snap = Rel!Pending
        BY <1>3 DEF Jobs, Inside
      <3>3. Rel!Done(p) \/ (job' = [job EXCEPT ![p] = j] /\ lock' = lock)
        BY <2>6 DEF Rel!Prepare
      <3> QED BY <3>1, <3>2, <3>3, <1>d
    <2> QED BY <2>1, <2>2, <2>3, <2>4, <2>5, <2>6
  <1>5. \/ lock' = lock
        \/ lock' = p /\ lock = "none"
        \/ lock' = "none" /\ lock = p
    BY DEF Rel!Apply, Rel!Enter, Rel!AcquireFence, Rel!Owe, Rel!RetireHost, Rel!Prepare, ReloadInv, OneInside, Inside
  <1> QED BY <1>1, <1>2, <1>4, <1>5, StepKeeps

(* A boot that fails or is lost, the death of a process, the first step of a    *)
(* wake: they spawn, apply and change nothing either.                          *)
LEMMA GivesUp ==
  ASSUME Rel!ReloadAssumption, ReloadInv, NEW p \in Rel!Proc, Rel!BootFails(p) \/ Rel!Lost(p) \/ Rel!Die(p)
  PROVE  ReloadInv'
  <1>1. UNCHANGED <<surf, applied, runs, registered>>
    BY DEF Rel!BootFails, Rel!Lost, Rel!Die
  <1>2. Rel!Done(p)
    BY DEF Rel!BootFails, Rel!Lost, Rel!Die
  <1>3. req' = req \/ req' = Rel!Marked(job[p].reqs, "failed", FALSE)
    BY DEF Rel!BootFails, Rel!Lost, Rel!Die, Rel!Updated
  <1>4. /\ req' \in [Req -> [st : {"absent", "pending", "replacing", "failed"}, ver : 0 .. surf,
                            ref : BOOLEAN]]
        /\ \A r \in Req : req'[r].ver = req[r].ver /\ (req[r].st # "absent" => req'[r].st # "absent")
    <2>1. CASE req' = req
      BY <2>1 DEF ReloadInv, ReloadTyped
    <2>2. CASE req' = Rel!Marked(job[p].reqs, "failed", FALSE)
      <3>1. "failed" \in {"pending", "replacing", "failed"} /\ FALSE \in BOOLEAN
        OBVIOUS
      <3> QED BY <2>2, <3>1, MarkedKeeps
    <2> QED BY <1>3, <2>1, <2>2
  <1>5. lock' = lock \/ (lock' = "none" /\ lock = p)
    BY DEF Rel!BootFails, Rel!Lost, Rel!Die, ReloadInv, OneInside, Inside
  <1>6. \E j \in Jobs : job' = [job EXCEPT ![p] = j] /\ j.pc = "idle"
    BY <1>2, IsDone
  <1> QED BY <1>1, <1>4, <1>5, <1>6, StepKeeps DEF Inside

LEMMA WakeBeginsKeeps == ASSUME Rel!ReloadAssumption, ReloadInv, Rel!WakeBegins PROVE ReloadInv'
  <1>1. "wake" \in Rel!Proc /\ Rel!Goto("wake", "lock") /\ UNCHANGED <<surf, req, applied, runs, registered, lock>>
    BY DEF Rel!WakeBegins, Rel!Proc, Rel!Goto
  <1>2. \E j \in Jobs : job' = [job EXCEPT !["wake"] = j] /\ j.pc = "lock"
    BY <1>1, GoesTo
  <1>3. req' \in [Req -> [st : {"absent", "pending", "replacing", "failed"}, ver : 0 .. surf,
                         ref : BOOLEAN]]
    BY <1>1 DEF ReloadInv, ReloadTyped
  <1> QED BY <1>1, <1>2, <1>3, StepKeeps DEF Inside

(* The three steps of a launch and of a removal that touch what was applied:    *)
(* nobody else is in the lock meanwhile.                                       *)
LEMMA AloneInLock ==
  ASSUME ReloadInv, NEW p \in Rel!Proc, job[p].pc \in Inside
  PROVE  lock = p /\ \A q \in Rel!Proc : q # p => job[q].pc \notin Inside
  BY DEF ReloadInv, OneInside

LEMMA RemoveKeeps == ASSUME Rel!ReloadAssumption, ReloadInv, NEW p \in Rel!Proc, Rel!Remove(p) PROVE ReloadInv'
  <1>1. /\ registered' = FALSE /\ applied' = {} /\ req' = [r \in Req |-> Rel!Absent]
        /\ UNCHANGED <<surf, runs>>
    BY DEF Rel!Remove
  <1>2. PICK j \in Jobs : job' = [job EXCEPT ![p] = j] /\ j.pc = "idle"
    BY IsDone DEF Rel!Remove
  <1>3. job'[p] = j /\ \A q \in Rel!Proc : q # p => job'[q] = job[q]
    BY <1>2 DEF ReloadInv, ReloadTyped
  <1>4. ReloadTyped'
    <2>1. surf \in Nat /\ Rel!Absent \in [st : {"absent", "pending", "replacing", "failed"},
                                         ver : 0 .. surf, ref : BOOLEAN]
      BY DEF ReloadInv, ReloadTyped, Rel!Absent
    <2>2. job' \in [Rel!Proc -> Jobs]
      BY <1>2 DEF ReloadInv, ReloadTyped
    <2> QED BY <1>1, <2>1, <2>2 DEF ReloadInv, ReloadTyped
  <1>5. OneInside'
    BY <1>2, <1>3 DEF Rel!Remove, ReloadInv, OneInside, Inside
  <1>6. OwedSoFar'
    <2> SUFFICES ASSUME NEW q \in Rel!Proc, job'[q].pc \in {"spawn", "boot"}, NEW r \in job'[q].snap
                 PROVE  r \notin applied' /\ ~registered' /\ req'[r].ver <= runs'
      BY DEF OwedSoFar
    <2>1. r \in Req
      BY <1>4 DEF ReloadTyped, Jobs
    <2> QED BY <2>1, <1>1 DEF Rel!Absent, ReloadInv, ReloadTyped
  <1> QED BY <1>1, <1>4, <1>5, <1>6 DEF ReloadInv, AppliedOnFile, Rel!AppliedIsCurrent

LEMMA SpawnKeeps == ASSUME Rel!ReloadAssumption, ReloadInv, NEW p \in Rel!Proc, Rel!Spawn(p) PROVE ReloadInv'
  <1>1. runs' = surf /\ UNCHANGED <<surf, req, applied, registered, lock>>
    BY DEF Rel!Spawn
  <1> DEFINE j == [job[p] EXCEPT !.pc = "boot"]
  <1>2. j \in Jobs /\ j.pc = "boot" /\ j.snap = job[p].snap /\ job' = [job EXCEPT ![p] = j]
    BY DEF Rel!Spawn, Rel!Goto, ReloadInv, ReloadTyped, Jobs, Inside
  <1> HIDE DEF j
  <1>3. job'[p] = j /\ \A q \in Rel!Proc : q # p => job'[q] = job[q]
    BY <1>2 DEF ReloadInv, ReloadTyped
  <1>4. job[p].pc = "spawn" /\ lock = p /\ \A q \in Rel!Proc : q # p => job[q].pc \notin Inside
    BY AloneInLock DEF Rel!Spawn, Inside
  <1>5. ReloadTyped'
    BY <1>1, <1>2 DEF ReloadInv, ReloadTyped
  <1>6. OneInside'
    BY <1>1, <1>3, <1>4 DEF OneInside
  <1>7. OwedSoFar'
    <2> SUFFICES ASSUME NEW q \in Rel!Proc, job'[q].pc \in {"spawn", "boot"}, NEW r \in job'[q].snap
                 PROVE  r \notin applied /\ (registered => req[r].st # "absent") /\ req[r].ver <= surf
      BY <1>1 DEF OwedSoFar
    <2>1. q = p
      BY <1>3, <1>4 DEF Inside
    <2>2. r \in job[p].snap /\ r \in Req
      BY <2>1, <1>2, <1>3 DEF ReloadInv, ReloadTyped, Jobs
    <2> QED BY <2>2, <1>4 DEF ReloadInv, ReloadTyped, OwedSoFar
  <1>8. AppliedOnFile' /\ Rel!AppliedIsCurrent'
    BY <1>1 DEF ReloadInv, ReloadTyped, AppliedOnFile, Rel!AppliedIsCurrent
  <1> QED BY <1>5, <1>6, <1>7, <1>8 DEF ReloadInv

LEMMA UpKeeps == ASSUME Rel!ReloadAssumption, ReloadInv, NEW p \in Rel!Proc, Rel!Up(p) PROVE ReloadInv'
  <1>1. Rel!Done(p) /\ lock' = "none" /\ UNCHANGED <<surf, runs, registered>> /\ job[p].pc = "boot"
    BY DEF Rel!Up
  <1>2. lock = p /\ \A q \in Rel!Proc : q # p => job[q].pc \notin Inside
    BY <1>1, AloneInLock DEF Inside
  <1>3. PICK j \in Jobs : job' = [job EXCEPT ![p] = j] /\ j.pc = "idle"
    BY <1>1, IsDone
  <1>4. CASE UNCHANGED applied /\ req' = Rel!Updated(p, "pending", FALSE)
    <2>1. /\ req' \in [Req -> [st : {"absent", "pending", "replacing", "failed"}, ver : 0 .. surf,
                              ref : BOOLEAN]]
          /\ \A r \in Req : req'[r].ver = req[r].ver /\ (req[r].st # "absent" => req'[r].st # "absent")
      <3>1. "pending" \in {"pending", "replacing", "failed"} /\ FALSE \in BOOLEAN
        OBVIOUS
      <3>2. req' = Rel!Marked(job[p].reqs, "pending", FALSE)
        BY <1>4 DEF Rel!Updated
      <3> DEFINE marked == Rel!Marked(job[p].reqs, "pending", FALSE)
      <3>3. /\ marked \in [Req -> [st : {"absent", "pending", "replacing", "failed"}, ver : 0 .. surf,
                                   ref : BOOLEAN]]
            /\ \A r \in Req : marked[r].ver = req[r].ver /\ (req[r].st # "absent" => marked[r].st # "absent")
        BY <3>1, MarkedKeeps
      <3> HIDE DEF marked
      <3> QED BY <3>2, <3>3 DEF marked
    <2> QED BY <1>1, <1>2, <1>3, <1>4, <2>1, StepKeeps DEF Inside
  <1>5. CASE applied' = applied \cup Rel!Covers(p) /\ UNCHANGED req
    <2>1. job'[p] = j /\ \A q \in Rel!Proc : q # p => job'[q] = job[q]
      BY <1>3 DEF ReloadInv, ReloadTyped
    <2>2. \A q \in Rel!Proc : job'[q].pc \notin Inside
      BY <1>2, <1>3, <2>1 DEF Inside
    <2>3. \A r \in job[p].snap : r \in Req /\ (registered => req[r].st # "absent") /\ req[r].ver <= runs
      BY <1>1 DEF ReloadInv, ReloadTyped, Jobs, OwedSoFar
    <2>4. ReloadTyped'
      BY <1>1, <1>3, <1>5, <2>3 DEF Rel!Covers, ReloadInv, ReloadTyped
    <2>5. OneInside' /\ OwedSoFar'
      BY <2>2 DEF OneInside, OwedSoFar, Inside
    <2>6. AppliedOnFile' /\ Rel!AppliedIsCurrent'
      BY <1>1, <1>5, <2>3 DEF Rel!Covers, ReloadInv, ReloadTyped, AppliedOnFile, Rel!AppliedIsCurrent
    <2> QED BY <2>4, <2>5, <2>6 DEF ReloadInv
  <1> QED BY <1>4, <1>5 DEF Rel!Up

(* A request is made, again or for the first time: no launch has it in hand.     *)
LEMMA AskKeeps ==
  ASSUME Rel!ReloadAssumption, ReloadInv, NEW r \in Req, Rel!Ask(r) \/ Rel!AskRetire(r) \/ Rel!Watch(r)
  PROVE  ReloadInv'
  <1>1. UNCHANGED <<runs, registered, lock, job>> /\ registered
    BY DEF Rel!Ask, Rel!AskRetire, Rel!Watch
  <1>2. PICK v \in 0 .. surf' : req' = [req EXCEPT ![r] = [st |-> "pending", ver |-> v, ref |-> FALSE]]
    BY DEF Rel!Ask, Rel!AskRetire, Rel!Watch, ReloadInv, ReloadTyped
  <1>3. surf' \in Nat /\ surf <= surf'
    BY DEF Rel!Ask, Rel!AskRetire, Rel!Watch, ReloadInv, ReloadTyped
  <1>4. applied' \subseteq applied /\ r \notin applied'
    BY DEF Rel!Ask, Rel!AskRetire, Rel!Watch, ReloadInv, AppliedOnFile
  <1>5. \A p \in Rel!Proc : job[p].pc \in {"spawn", "boot"} => r \notin job[p].snap
    BY <1>1 DEF Rel!Ask, Rel!AskRetire, Rel!Watch, ReloadInv, OwedSoFar
  <1>6. \A q \in Req : q # r => req'[q] = req[q]
    BY <1>2 DEF ReloadInv, ReloadTyped
  <1>7. req'[r].st = "pending"
    BY <1>2 DEF ReloadInv, ReloadTyped
  <1>8. ReloadTyped'
    BY <1>1, <1>2, <1>3, <1>4 DEF ReloadInv, ReloadTyped
  <1>9. OwedSoFar'
    <2> SUFFICES ASSUME NEW q \in Rel!Proc, job[q].pc \in {"spawn", "boot"}, NEW s \in job[q].snap
                 PROVE  /\ s \notin applied'
                        /\ req'[s].st # "absent"
                        /\ job[q].pc = "boot" => req'[s].ver <= runs
      BY <1>1 DEF OwedSoFar
    <2>1. s \in Req /\ s # r
      BY <1>5 DEF ReloadInv, ReloadTyped, Jobs
    <2> QED BY <2>1, <1>1, <1>4, <1>6 DEF ReloadInv, OwedSoFar
  <1>10. AppliedOnFile' /\ Rel!AppliedIsCurrent' /\ OneInside'
    BY <1>1, <1>4, <1>6 DEF ReloadInv, ReloadTyped, AppliedOnFile, Rel!AppliedIsCurrent, OneInside
  <1> QED BY <1>8, <1>9, <1>10 DEF ReloadInv

LEMMA EditKeeps == ASSUME ReloadInv, Rel!Edit PROVE ReloadInv'
  <1>1. UNCHANGED <<req, applied, runs, registered, lock, job>> /\ surf' = surf + 1 /\ surf \in Nat
    BY DEF Rel!Edit, ReloadInv, ReloadTyped
  <1>2. ReloadTyped'
    BY <1>1 DEF ReloadInv, ReloadTyped
  <1> QED BY <1>1, <1>2 DEF ReloadInv, OneInside, OwedSoFar, AppliedOnFile, Rel!AppliedIsCurrent

(* The session, the fence and the operator touch none of it. *)
LEMMA Elsewhere ==
  ASSUME ReloadInv, UNCHANGED <<surf, req, applied, runs, registered, lock, job>>
  PROVE  ReloadInv'
  BY DEF ReloadInv, ReloadTyped, OneInside, OwedSoFar, AppliedOnFile, Rel!AppliedIsCurrent

LEMMA ReloadNext == ASSUME Rel!ReloadAssumption, ReloadInv, [Rel!Next]_Rel!vars PROVE ReloadInv'
  <1>1. CASE Rel!Type \/ Rel!EndTurn \/ Rel!Expire \/ Rel!Stop \/ Rel!Start \/ UNCHANGED Rel!vars
    <2>1. UNCHANGED <<surf, req, applied, runs, registered, lock, job>>
      BY <1>1 DEF Rel!Type, Rel!EndTurn, Rel!Expire, Rel!Stop, Rel!Start, Rel!vars
    <2> QED BY <2>1, Elsewhere
  <1>2. CASE \E r \in Req : Rel!Ask(r) \/ Rel!AskRetire(r) \/ Rel!Watch(r)
    BY <1>2, AskKeeps
  <1>3. CASE \E p \in Rel!Proc : \/ Rel!Apply(p) \/ Rel!Enter(p) \/ Rel!AcquireFence(p) \/ Rel!Owe(p) \/ Rel!RetireHost(p)
                                 \/ Rel!Remove(p) \/ Rel!Prepare(p) \/ Rel!Spawn(p) \/ Rel!BootFails(p) \/ Rel!Up(p)
                                 \/ Rel!Lost(p) \/ Rel!Die(p)
    BY <1>3, ApplierKeeps, RemoveKeeps, SpawnKeeps, UpKeeps, GivesUp
  <1>4. CASE Rel!WakeBegins \/ Rel!Edit
    BY <1>4, WakeBeginsKeeps, EditKeeps
  <1> QED BY <1>1, <1>2, <1>3, <1>4 DEF Rel!Next

(* The values of the variables: versions, counts and owners stay within their     *)
(* bounds, and a fingerprint that a launch holds is of a version there was.       *)
Owners == Rel!Proc \cup {"none"}
Fences == [owner : Owners, phase : {"free", "ready"}, expired : BOOLEAN]
HostTyped == host \in {"none", "booting", "ready"} /\ lock \in Owners /\ fence \in Fences
FlagsTyped == turn \in BOOLEAN /\ stopped \in BOOLEAN
CountsTyped == surf \in 0 .. MaxSurf /\ inputs \in 0 .. MaxInput /\ faults \in 0 .. MaxFault
ReadTyped == base \in Nat /\ base <= surf /\ \A p \in Rel!Proc : job[p].fp <= surf

ReloadTypes == HostTyped /\ FlagsTyped /\ CountsTyped /\ ReadTyped

LEMMA ReloadIsTyped == ASSUME Rel!ReloadAssumption, ReloadInv, ReloadTypes PROVE Rel!TypeOK
  <1>1. surf \in 0 .. MaxSurf /\ MaxSurf \in Nat
    BY DEF Rel!ReloadAssumption, ReloadTypes, CountsTyped
  <1>2. 0 .. surf \subseteq 0 .. MaxSurf /\ base \in 0 .. MaxSurf
    BY <1>1 DEF ReloadTypes, ReadTyped
  <1>3. runs \in 0 .. surf /\ \A r \in Req : req[r].ver \in 0 .. surf
    BY DEF ReloadInv, ReloadTyped
  <1>4. {turn, stopped, registered} \subseteq BOOLEAN /\ \A r \in Req : req[r].ref \in BOOLEAN
    BY DEF ReloadInv, ReloadTyped, ReloadTypes, FlagsTyped
  <1>5. \A p \in Rel!Proc : job[p].reqs \subseteq Req /\ job[p].snap \subseteq Req
    BY DEF ReloadInv, ReloadTyped, Jobs
  <1>6. fence.owner \in Rel!Proc \cup {"none"} /\ fence.phase \in {"free", "ready"} /\ lock \in Rel!Proc \cup {"none"}
    BY DEF ReloadTypes, HostTyped, Fences, Owners
  <1>7. applied \subseteq Req /\ \A r \in Req : req[r].st \in {"absent", "pending", "replacing", "failed"}
    BY DEF ReloadInv, ReloadTyped
  <1> QED BY <1>1, <1>2, <1>3, <1>4, <1>5, <1>6, <1>7 DEF ReloadTypes, HostTyped, CountsTyped, Rel!TypeOK

LEMMA ReloadTypeInit == ASSUME Rel!ReloadAssumption, Rel!Init PROVE ReloadTypes
  <1>1. 0 \in 0 .. MaxSurf /\ 0 \in 0 .. MaxInput /\ 0 \in 0 .. MaxFault
    BY DEF Rel!ReloadAssumption
  <1>2. FlagsTyped
    BY DEF Rel!Init, FlagsTyped
  <1>3. Rel!NoFence \in Fences
    BY DEF Rel!NoFence, Fences, Owners
  <1> QED BY <1>1, <1>2, <1>3 DEF Rel!Init, ReloadTypes, HostTyped, CountsTyped, ReadTyped, Owners, Rel!Idle

(* What a process's step makes of the fingerprint it holds. *)
LEMMA FingerprintsKept ==
  ASSUME ReloadInv, ReadTyped, NEW p \in Rel!Proc, NEW j, job' = [job EXCEPT ![p] = j], j.fp <= surf', surf' = surf
  PROVE  \A q \in Rel!Proc : job'[q].fp <= surf'
  BY DEF ReloadInv, ReloadTyped, ReadTyped

LEMMA FingerprintDropped ==
  ASSUME ReloadInv, ReadTyped, CountsTyped, NEW p \in Rel!Proc, surf' = surf, Rel!Done(p) \/ \E at : Rel!Goto(p, at)
  PROVE  \A q \in Rel!Proc : job'[q].fp <= surf'
  <1>1. surf \in Nat /\ job[p].fp <= surf /\ Rel!Idle.fp = 0
    BY DEF ReadTyped, CountsTyped, Rel!Idle
  <1>2. CASE Rel!Done(p)
    <2>1. job' = [job EXCEPT ![p] = Rel!Idle] /\ Rel!Idle.fp <= surf'
      BY <1>1, <1>2 DEF Rel!Done
    <2> QED BY <2>1, FingerprintsKept
  <1>3. ASSUME NEW at, Rel!Goto(p, at) PROVE \A q \in Rel!Proc : job'[q].fp <= surf'
    <2> DEFINE j == [job[p] EXCEPT !.pc = at]
    <2>1. job' = [job EXCEPT ![p] = j]
      BY <1>3 DEF Rel!Goto
    <2>2. j.fp = job[p].fp
      BY DEF ReloadInv, ReloadTyped, Jobs
    <2> HIDE DEF j
    <2> QED BY <1>1, <2>1, <2>2, FingerprintsKept
  <1> QED BY <1>2, <1>3

LEMMA HostTypeNext ==
  ASSUME Rel!ReloadAssumption, ReloadInv, ReloadTypes, [Rel!Next]_Rel!vars
  PROVE  HostTyped'
  <1>0. HostTyped /\ Rel!NoFence \in Fences /\ Rel!Proc \subseteq Owners /\ "none" \in Owners
    BY DEF ReloadTypes, Owners, Fences, Rel!NoFence
  <1>1. CASE Rel!Edit \/ Rel!EndTurn \/ Rel!Start
    BY <1>0, <1>1 DEF Rel!Edit, Rel!EndTurn, Rel!Start, Rel!sessionVars, HostTyped
  <1>2. CASE Rel!Type
    BY <1>0, <1>2 DEF Rel!Type, HostTyped
  <1>3. CASE Rel!Stop
    BY <1>0, <1>3 DEF Rel!Stop, HostTyped
  <1>4. CASE Rel!Expire
    BY <1>0, <1>4 DEF Rel!Expire, Fences, HostTyped
  <1>5. CASE Rel!WakeBegins
    BY <1>0, <1>5 DEF Rel!WakeBegins, Rel!sessionVars, HostTyped
  <1>6. ASSUME NEW r \in Req, Rel!Ask(r) \/ Rel!AskRetire(r) \/ Rel!Watch(r) PROVE HostTyped'
    BY <1>0, <1>6 DEF Rel!Ask, Rel!AskRetire, Rel!Watch, Rel!sessionVars, HostTyped
  <1>7. ASSUME NEW p \in Rel!Proc, Rel!Apply(p) PROVE HostTyped'
    BY <1>0, <1>7 DEF Rel!Apply, Rel!sessionVars, HostTyped
  <1>8. ASSUME NEW p \in Rel!Proc, Rel!Enter(p) PROVE HostTyped'
    BY <1>0, <1>8 DEF Rel!Enter, Rel!sessionVars, HostTyped
  <1>9. ASSUME NEW p \in Rel!Proc, Rel!AcquireFence(p) PROVE HostTyped'
    <2>1. [owner |-> p, phase |-> "ready", expired |-> FALSE] \in Fences
      BY <1>0 DEF Fences
    <2> QED BY <1>0, <1>9, <2>1 DEF Rel!AcquireFence, HostTyped
  <1>10. ASSUME NEW p \in Rel!Proc, Rel!Owe(p) PROVE HostTyped'
    BY <1>0, <1>10 DEF Rel!Owe, Rel!sessionVars, HostTyped
  <1>11. ASSUME NEW p \in Rel!Proc, Rel!RetireHost(p) PROVE HostTyped'
    BY <1>0, <1>11 DEF Rel!RetireHost, Rel!sessionVars, Rel!Holds, HostTyped
  <1>12. ASSUME NEW p \in Rel!Proc, Rel!Remove(p) PROVE HostTyped'
    BY <1>0, <1>12 DEF Rel!Remove, Rel!sessionVars, HostTyped
  <1>13. ASSUME NEW p \in Rel!Proc, Rel!Prepare(p) PROVE HostTyped'
    BY <1>0, <1>13 DEF Rel!Prepare, Rel!sessionVars, HostTyped
  <1>14. ASSUME NEW p \in Rel!Proc, Rel!Spawn(p) PROVE HostTyped'
    BY <1>0, <1>14 DEF Rel!Spawn, Rel!sessionVars, HostTyped
  <1>15. ASSUME NEW p \in Rel!Proc, Rel!BootFails(p) PROVE HostTyped'
    BY <1>0, <1>15 DEF Rel!BootFails, Rel!sessionVars, HostTyped
  <1>16. ASSUME NEW p \in Rel!Proc, Rel!Up(p) PROVE HostTyped'
    BY <1>0, <1>16 DEF Rel!Up, Rel!sessionVars, HostTyped
  <1>17. ASSUME NEW p \in Rel!Proc, Rel!Lost(p) PROVE HostTyped'
    BY <1>0, <1>17 DEF Rel!Lost, Rel!sessionVars, HostTyped
  <1>18. ASSUME NEW p \in Rel!Proc, Rel!Die(p) PROVE HostTyped'
    BY <1>0, <1>18 DEF Rel!Die, Rel!sessionVars, HostTyped
  <1>19. CASE UNCHANGED Rel!vars
    BY <1>0, <1>19 DEF Rel!vars, Rel!sessionVars, HostTyped
  <1> QED BY <1>1, <1>2, <1>3, <1>4, <1>5, <1>6, <1>7, <1>8, <1>9, <1>10, <1>11, <1>12, <1>13, <1>14,
     <1>15, <1>16, <1>17, <1>18, <1>19 DEF Rel!Next

LEMMA FlagsTypeNext ==
  ASSUME Rel!ReloadAssumption, ReloadInv, ReloadTypes, [Rel!Next]_Rel!vars
  PROVE  FlagsTyped'
  <1>0. FlagsTyped
    BY DEF ReloadTypes
  <1>1. CASE Rel!Edit \/ Rel!EndTurn \/ Rel!Start
    BY <1>0, <1>1 DEF Rel!Edit, Rel!EndTurn, Rel!Start, Rel!sessionVars, FlagsTyped
  <1>2. CASE Rel!Type
    BY <1>0, <1>2 DEF Rel!Type, FlagsTyped
  <1>3. CASE Rel!Stop
    BY <1>0, <1>3 DEF Rel!Stop, FlagsTyped
  <1>4. CASE Rel!Expire
    BY <1>0, <1>4 DEF Rel!Expire, FlagsTyped
  <1>5. CASE Rel!WakeBegins
    BY <1>0, <1>5 DEF Rel!WakeBegins, Rel!sessionVars, FlagsTyped
  <1>6. ASSUME NEW r \in Req, Rel!Ask(r) \/ Rel!AskRetire(r) \/ Rel!Watch(r) PROVE FlagsTyped'
    BY <1>0, <1>6 DEF Rel!Ask, Rel!AskRetire, Rel!Watch, Rel!sessionVars, FlagsTyped
  <1>7. ASSUME NEW p \in Rel!Proc, Rel!Apply(p) PROVE FlagsTyped'
    BY <1>0, <1>7 DEF Rel!Apply, Rel!sessionVars, FlagsTyped
  <1>8. ASSUME NEW p \in Rel!Proc, Rel!Enter(p) PROVE FlagsTyped'
    BY <1>0, <1>8 DEF Rel!Enter, Rel!sessionVars, FlagsTyped
  <1>9. ASSUME NEW p \in Rel!Proc, Rel!AcquireFence(p) PROVE FlagsTyped'
    BY <1>0, <1>9 DEF Rel!AcquireFence, Rel!sessionVars, FlagsTyped
  <1>10. ASSUME NEW p \in Rel!Proc, Rel!Owe(p) PROVE FlagsTyped'
    BY <1>0, <1>10 DEF Rel!Owe, Rel!sessionVars, FlagsTyped
  <1>11. ASSUME NEW p \in Rel!Proc, Rel!RetireHost(p) PROVE FlagsTyped'
    BY <1>0, <1>11 DEF Rel!RetireHost, Rel!sessionVars, FlagsTyped
  <1>12. ASSUME NEW p \in Rel!Proc, Rel!Remove(p) PROVE FlagsTyped'
    BY <1>0, <1>12 DEF Rel!Remove, Rel!sessionVars, FlagsTyped
  <1>13. ASSUME NEW p \in Rel!Proc, Rel!Prepare(p) PROVE FlagsTyped'
    BY <1>0, <1>13 DEF Rel!Prepare, Rel!sessionVars, FlagsTyped
  <1>14. ASSUME NEW p \in Rel!Proc, Rel!Spawn(p) PROVE FlagsTyped'
    BY <1>0, <1>14 DEF Rel!Spawn, Rel!sessionVars, FlagsTyped
  <1>15. ASSUME NEW p \in Rel!Proc, Rel!BootFails(p) PROVE FlagsTyped'
    BY <1>0, <1>15 DEF Rel!BootFails, Rel!sessionVars, FlagsTyped
  <1>16. ASSUME NEW p \in Rel!Proc, Rel!Up(p) PROVE FlagsTyped'
    BY <1>0, <1>16 DEF Rel!Up, Rel!sessionVars, FlagsTyped
  <1>17. ASSUME NEW p \in Rel!Proc, Rel!Lost(p) PROVE FlagsTyped'
    BY <1>0, <1>17 DEF Rel!Lost, Rel!sessionVars, FlagsTyped
  <1>18. ASSUME NEW p \in Rel!Proc, Rel!Die(p) PROVE FlagsTyped'
    BY <1>0, <1>18 DEF Rel!Die, Rel!sessionVars, FlagsTyped
  <1>19. CASE UNCHANGED Rel!vars
    BY <1>0, <1>19 DEF Rel!vars, Rel!sessionVars, FlagsTyped
  <1> QED BY <1>1, <1>2, <1>3, <1>4, <1>5, <1>6, <1>7, <1>8, <1>9, <1>10, <1>11, <1>12, <1>13, <1>14,
     <1>15, <1>16, <1>17, <1>18, <1>19 DEF Rel!Next

LEMMA CountsTypeNext ==
  ASSUME Rel!ReloadAssumption, ReloadInv, ReloadTypes, [Rel!Next]_Rel!vars
  PROVE  CountsTyped'
  <1>0. CountsTyped /\ {MaxSurf, MaxInput, MaxFault} \subseteq Nat
    BY DEF ReloadTypes, Rel!ReloadAssumption
  <1>1. CASE Rel!Edit \/ Rel!EndTurn \/ Rel!Start
    BY <1>0, <1>1 DEF Rel!Edit, Rel!EndTurn, Rel!Start, Rel!sessionVars, CountsTyped
  <1>2. CASE Rel!Type
    BY <1>0, <1>2 DEF Rel!Type, CountsTyped
  <1>3. CASE Rel!Stop
    BY <1>0, <1>3 DEF Rel!Stop, CountsTyped
  <1>4. CASE Rel!Expire
    BY <1>0, <1>4 DEF Rel!Expire, CountsTyped
  <1>5. CASE Rel!WakeBegins
    BY <1>0, <1>5 DEF Rel!WakeBegins, Rel!sessionVars, CountsTyped
  <1>6. ASSUME NEW r \in Req, Rel!Ask(r) \/ Rel!AskRetire(r) \/ Rel!Watch(r) PROVE CountsTyped'
    BY <1>0, <1>6 DEF Rel!Ask, Rel!AskRetire, Rel!Watch, Rel!sessionVars, CountsTyped
  <1>7. ASSUME NEW p \in Rel!Proc, Rel!Apply(p) PROVE CountsTyped'
    BY <1>0, <1>7 DEF Rel!Apply, Rel!sessionVars, CountsTyped
  <1>8. ASSUME NEW p \in Rel!Proc, Rel!Enter(p) PROVE CountsTyped'
    BY <1>0, <1>8 DEF Rel!Enter, Rel!sessionVars, CountsTyped
  <1>9. ASSUME NEW p \in Rel!Proc, Rel!AcquireFence(p) PROVE CountsTyped'
    BY <1>0, <1>9 DEF Rel!AcquireFence, Rel!sessionVars, CountsTyped
  <1>10. ASSUME NEW p \in Rel!Proc, Rel!Owe(p) PROVE CountsTyped'
    BY <1>0, <1>10 DEF Rel!Owe, Rel!sessionVars, CountsTyped
  <1>11. ASSUME NEW p \in Rel!Proc, Rel!RetireHost(p) PROVE CountsTyped'
    BY <1>0, <1>11 DEF Rel!RetireHost, Rel!sessionVars, CountsTyped
  <1>12. ASSUME NEW p \in Rel!Proc, Rel!Remove(p) PROVE CountsTyped'
    BY <1>0, <1>12 DEF Rel!Remove, Rel!sessionVars, CountsTyped
  <1>13. ASSUME NEW p \in Rel!Proc, Rel!Prepare(p) PROVE CountsTyped'
    BY <1>0, <1>13 DEF Rel!Prepare, Rel!sessionVars, CountsTyped
  <1>14. ASSUME NEW p \in Rel!Proc, Rel!Spawn(p) PROVE CountsTyped'
    BY <1>0, <1>14 DEF Rel!Spawn, Rel!sessionVars, CountsTyped
  <1>15. ASSUME NEW p \in Rel!Proc, Rel!BootFails(p) PROVE CountsTyped'
    BY <1>0, <1>15 DEF Rel!BootFails, Rel!sessionVars, CountsTyped
  <1>16. ASSUME NEW p \in Rel!Proc, Rel!Up(p) PROVE CountsTyped'
    BY <1>0, <1>16 DEF Rel!Up, Rel!sessionVars, CountsTyped
  <1>17. ASSUME NEW p \in Rel!Proc, Rel!Lost(p) PROVE CountsTyped'
    BY <1>0, <1>17 DEF Rel!Lost, Rel!sessionVars, CountsTyped
  <1>18. ASSUME NEW p \in Rel!Proc, Rel!Die(p) PROVE CountsTyped'
    BY <1>0, <1>18 DEF Rel!Die, Rel!sessionVars, CountsTyped
  <1>19. CASE UNCHANGED Rel!vars
    BY <1>0, <1>19 DEF Rel!vars, Rel!sessionVars, CountsTyped
  <1> QED BY <1>1, <1>2, <1>3, <1>4, <1>5, <1>6, <1>7, <1>8, <1>9, <1>10, <1>11, <1>12, <1>13, <1>14,
     <1>15, <1>16, <1>17, <1>18, <1>19 DEF Rel!Next

LEMMA ReadTypeNext ==
  ASSUME Rel!ReloadAssumption, ReloadInv, ReloadTypes, [Rel!Next]_Rel!vars
  PROVE  ReadTyped'
  <1>0. ReadTyped /\ CountsTyped /\ surf \in Nat /\ \A p \in Rel!Proc : job[p].fp \in Nat
    BY DEF ReloadTypes, CountsTyped, ReloadInv, ReloadTyped, Jobs
  <1>1. CASE Rel!Edit \/ Rel!Type \/ Rel!EndTurn \/ Rel!Expire \/ Rel!Stop \/ Rel!Start
    BY <1>0, <1>1 DEF Rel!Edit, Rel!Type, Rel!EndTurn, Rel!Expire, Rel!Stop, Rel!Start, ReadTyped
  <1>2. ASSUME NEW r \in Req, Rel!Ask(r) \/ Rel!AskRetire(r) \/ Rel!Watch(r) PROVE ReadTyped'
    BY <1>0, <1>2 DEF Rel!Ask, Rel!AskRetire, Rel!Watch, ReadTyped
  <1>3. CASE Rel!WakeBegins
    <2>1. Rel!Goto("wake", "lock") /\ "wake" \in Rel!Proc /\ UNCHANGED <<surf, base>>
      BY <1>3 DEF Rel!WakeBegins, Rel!Goto, Rel!Proc
    <2>2. \A q \in Rel!Proc : job'[q].fp <= surf'
      BY <1>0, <2>1, FingerprintDropped
    <2> QED BY <1>0, <2>1, <2>2 DEF ReadTyped
  <1>4. ASSUME NEW p \in Rel!Proc, Rel!Enter(p) \/ Rel!AcquireFence(p) \/ Rel!Owe(p) \/ Rel!RetireHost(p) \/ Rel!Remove(p)
                                   \/ Rel!Spawn(p) \/ Rel!BootFails(p) \/ Rel!Lost(p) \/ Rel!Die(p)
        PROVE  ReadTyped'
    <2>1. UNCHANGED <<surf, base>> /\ (Rel!Done(p) \/ \E at : Rel!Goto(p, at))
      BY <1>4 DEF Rel!Enter, Rel!AcquireFence, Rel!Owe, Rel!RetireHost, Rel!Remove, Rel!Spawn, Rel!BootFails, Rel!Lost, Rel!Die
    <2>2. \A q \in Rel!Proc : job'[q].fp <= surf'
      BY <1>0, <2>1, FingerprintDropped
    <2> QED BY <1>0, <2>1, <2>2 DEF ReadTyped
  <1>5. ASSUME NEW p \in Rel!Proc, Rel!Apply(p) PROVE ReadTyped'
    <2>1. UNCHANGED <<surf, base>>
      BY <1>5 DEF Rel!Apply
    <2>2. Rel!Done(p) \/ \E j : job' = [job EXCEPT ![p] = j] /\ j.fp = 0
      <3> DEFINE i == [Rel!Idle EXCEPT !.pc = IF host = "none" THEN "remove" ELSE "lock", !.reqs = Rel!Pending]
                 j == [Rel!Idle EXCEPT !.pc = "lock", !.reqs = Rel!Pending, !.resume = (host = "none")]
      <3>1. i.fp = 0 /\ j.fp = 0
        BY DEF Rel!Idle
      <3>2. Rel!Done(p) \/ job' = [job EXCEPT ![p] = i] \/ job' = [job EXCEPT ![p] = j]
        BY <1>5 DEF Rel!Apply
      <3> HIDE DEF i, j
      <3> QED BY <3>1, <3>2
    <2>3. \A q \in Rel!Proc : job'[q].fp <= surf'
      BY <1>0, <2>1, <2>2, FingerprintDropped, FingerprintsKept
    <2> QED BY <1>0, <2>1, <2>3 DEF ReadTyped
  <1>6. ASSUME NEW p \in Rel!Proc, Rel!Prepare(p) PROVE ReadTyped'
    <2>1. UNCHANGED <<surf, base>>
      BY <1>6 DEF Rel!Prepare
    <2>2. Rel!Done(p) \/ \E j : job' = [job EXCEPT ![p] = j] /\ j.fp = surf
      <3> DEFINE j == [job[p] EXCEPT !.pc = "spawn", !.snap = Rel!Pending, !.fp = surf]
      <3>1. j.fp = surf
        BY DEF ReloadInv, ReloadTyped, Jobs
      <3>2. Rel!Done(p) \/ job' = [job EXCEPT ![p] = j]
        BY <1>6 DEF Rel!Prepare
      <3> HIDE DEF j
      <3> QED BY <3>1, <3>2
    <2>3. \A q \in Rel!Proc : job'[q].fp <= surf'
      BY <1>0, <2>1, <2>2, FingerprintDropped, FingerprintsKept
    <2> QED BY <1>0, <2>1, <2>3 DEF ReadTyped
  <1>7. ASSUME NEW p \in Rel!Proc, Rel!Up(p) PROVE ReadTyped'
    <2>1. UNCHANGED surf /\ Rel!Done(p) /\ (base' = base \/ base' = job[p].fp)
      BY <1>7 DEF Rel!Up, Rel!Fingerprint
    <2>2. \A q \in Rel!Proc : job'[q].fp <= surf'
      BY <1>0, <2>1, FingerprintDropped
    <2> QED BY <1>0, <2>1, <2>2 DEF ReadTyped
  <1>8. CASE UNCHANGED Rel!vars
    BY <1>0, <1>8 DEF Rel!vars, ReadTyped
  <1> QED BY <1>1, <1>2, <1>3, <1>4, <1>5, <1>6, <1>7, <1>8 DEF Rel!Next

LEMMA ReloadTypeNext == ASSUME Rel!ReloadAssumption, ReloadInv, ReloadTypes, [Rel!Next]_Rel!vars PROVE ReloadTypes'
  BY HostTypeNext, FlagsTypeNext, CountsTypeNext, ReadTypeNext DEF ReloadTypes

LEMMA ReloadSafe == ASSUME ReloadInv PROVE Rel!AppliedIsCurrent
  BY DEF ReloadInv

(* A request marked applied was met by a launch that read a configuration at     *)
(* least as new as the one it was made for, for any number of requests and       *)
(* appliers (lifecycle/index.ts, completeReloads on the snapshot of before).      *)
THEOREM AppliedWasRead == ASSUME Rel!ReloadAssumption PROVE Rel!Spec => []Rel!AppliedIsCurrent
  <1>1. Rel!Init => ReloadInv
    BY ReloadInit
  <1>2. ReloadInv /\ [Rel!Next]_Rel!vars => ReloadInv'
    BY ReloadNext
  <1>3. ReloadInv => Rel!AppliedIsCurrent
    BY ReloadSafe
  <1> QED BY <1>1, <1>2, <1>3, PTL DEF Rel!Spec

-----------------------------------------------------------------------------
(* A committed reload cuts no delivered message, for any messages, launches and *)
(* compactions: what the runtime has not answered is pending at the plugin, for  *)
(* an answer is heard of after it was given; and once the fence is granted no    *)
(* prompt is under way and none is taken.                                       *)
Event == [type : {"user", "busy", "idle", "finished", "asked", "replied", "compacted"}, of : SUBSET Msg]
Live(m) == nat[m] \in {"queued", "persisted"}

OcTyped ==
  /\ nat \in [Msg -> {"none", "queued", "persisted", "answered", "aborted"}]
  /\ call \in [Msg -> {"new", "op", "sent", "ok", "refused", "unsure"}]
  /\ turn \subseteq Msg /\ pending \subseteq Msg /\ events \in Seq(Event) /\ interrupts \in Nat

(* A message is prompted once, and its turn is the runtime's. *)
PromptedOnce ==
  /\ \A m \in Msg : nat[m] # "none" => call[m] \notin {"new", "op"}
  /\ \A m \in turn : nat[m] = "persisted"

(* What is published as finished is. *)
FinishedIs ==
  \A i \in DOMAIN events : events[i].type = "finished"
    => \A m \in events[i].of : nat[m] \in {"answered", "aborted"}

PendingLives ==
  /\ interrupts = 0 => \A m \in Msg : Live(m) => m \in pending
  /\ up = "none" => pending = {}

FenceHolds ==
  lease \in {"granted", "committed"} =>
    /\ fence /\ \A m \in Msg : call[m] # "op"
    /\ interrupts = 0 => \A m \in Msg : ~Live(m)

OcInv == OcTyped /\ PromptedOnce /\ FinishedIs /\ PendingLives /\ FenceHolds

LEMMA OcInit == ASSUME Oc!OpencodeAssumption, Oc!Init PROVE OcInv
  <1>1. OcTyped
    BY DEF Oc!Init, OcTyped
  <1> QED BY <1>1 DEF Oc!Init, OcInv, PromptedOnce, FinishedIs, PendingLives, FenceHolds, Live

(* What is published is heard after what was. *)
LEMMA Published ==
  ASSUME events \in Seq(Event), NEW es \in Seq(Event), Oc!Publish(es)
  PROVE  /\ events' \in Seq(Event)
         /\ \A i \in DOMAIN events' : \/ \E j \in DOMAIN events : events'[i] = events[j]
                                      \/ \E j \in DOMAIN es : events'[i] = es[j]
  <1>1. events' = events \o es /\ events' \in Seq(Event)
    BY DEF Oc!Publish
  <1>2. /\ DOMAIN events' = 1 .. Len(events) + Len(es) /\ DOMAIN events = 1 .. Len(events) /\ DOMAIN es = 1 .. Len(es)
        /\ Len(events) \in Nat /\ Len(es) \in Nat
    BY <1>1
  <1>3. ASSUME NEW i \in DOMAIN events'
        PROVE  \/ \E j \in DOMAIN events : events'[i] = events[j]
               \/ \E j \in DOMAIN es : events'[i] = es[j]
    <2>1. CASE i <= Len(events)
      BY <1>1, <1>2, <2>1
    <2>2. CASE ~(i <= Len(events))
      <3>1. i - Len(events) \in DOMAIN es /\ events'[i] = es[i - Len(events)]
        BY <1>1, <1>2, <2>2
      <3> QED BY <3>1
    <2> QED BY <2>1, <2>2
  <1> QED BY <1>1, <1>3

LEMMA PublishedOne ==
  ASSUME OcTyped, NEW e \in Event, e.type # "finished", Oc!Publish(<<e>>)
  PROVE  /\ events' \in Seq(Event)
         /\ \A i \in DOMAIN events' : \/ \E j \in DOMAIN events : events'[i] = events[j]
                                      \/ events'[i].type # "finished"
  <1> DEFINE es == <<e>>
  <1>1. es \in Seq(Event) /\ Oc!Publish(es) /\ \A j \in DOMAIN es : es[j] = e
    OBVIOUS
  <1> HIDE DEF es
  <1>2. events \in Seq(Event)
    BY DEF OcTyped
  <1> QED BY <1>1, <1>2, Published

LEMMA FinishedOf ==
  ASSUME OcInv, NEW i \in DOMAIN events, events[i].type = "finished", NEW x \in events[i].of
  PROVE  x \in Msg /\ nat[x] \in {"answered", "aborted"}
  <1>1. events[i] \in Event
    BY DEF OcInv, OcTyped
  <1> QED BY <1>1 DEF OcInv, FinishedIs, Event

(* A step that neither takes nor ends a message. *)
LEMMA NothingMoves ==
  ASSUME OcInv, UNCHANGED <<nat, interrupts>>,
         turn' \in {turn, {}},
         events' \in Seq(Event),
         \A i \in DOMAIN events' : \/ \E j \in DOMAIN events : events'[i] = events[j]
                                   \/ events'[i].type # "finished",
         call' \in [Msg -> {"new", "op", "sent", "ok", "refused", "unsure"}],
         \A m \in Msg : /\ call'[m] \in {"new", "op"} => call[m] \in {"new", "op"}
                        /\ fence /\ call[m] # "op" => call'[m] # "op",
         pending' \subseteq pending,
         \A m \in pending \ pending' : ~Live(m),
         up' = "none" => pending' = {},
         lease' \in {"granted", "committed"} => lease \in {"granted", "committed"} /\ fence' = fence
  PROVE  OcInv'
  <1>1. OcTyped'
    BY DEF OcInv, OcTyped
  <1>2. PromptedOnce'
    BY DEF OcInv, PromptedOnce
  <1>3. FinishedIs'
    BY DEF OcInv, FinishedIs
  <1>4. PendingLives'
    BY DEF OcInv, PendingLives, Live
  <1>5. FenceHolds'
    BY DEF OcInv, FenceHolds, Live
  <1> QED BY <1>1, <1>2, <1>3, <1>4, <1>5 DEF OcInv

LEMMA PersistKeeps == ASSUME OcInv, NEW m \in Msg, Oc!Persist(m) PROVE OcInv'
  <1>1. /\ nat[m] = "queued" /\ nat' = Oc!Set({m}, "persisted") /\ Oc!Publish(<<[type |-> "user", of |-> {m}]>>)
        /\ UNCHANGED <<turn, up, pending, fence, call, lease, interrupts>>
    BY DEF Oc!Persist, Oc!NativeOnly, Oc!plugin, Oc!counts
  <1>2. \A x \in Msg : nat'[x] = IF x = m THEN "persisted" ELSE nat[x]
    BY <1>1 DEF Oc!Set
  <1>3. [type |-> "user", of |-> {m}] \in Event /\ [type |-> "user", of |-> {m}].type # "finished"
    BY DEF Event
  <1>4. OcTyped'
    BY <1>1, <1>3, PublishedOne DEF OcInv, OcTyped, Oc!Set
  <1>5. FinishedIs'
    <2> SUFFICES ASSUME NEW i \in DOMAIN events', events'[i].type = "finished", NEW x \in events'[i].of
                 PROVE  nat'[x] \in {"answered", "aborted"}
      BY DEF FinishedIs
    <2>1. PICK j \in DOMAIN events : events'[i] = events[j]
      BY <1>1, <1>3, PublishedOne DEF OcInv
    <2>2. x \in Msg /\ nat[x] \in {"answered", "aborted"}
      BY <2>1, FinishedOf
    <2> QED BY <1>1, <1>2, <2>2
  <1>6. PromptedOnce' /\ PendingLives' /\ FenceHolds'
    BY <1>1, <1>2 DEF OcInv, OcTyped, PromptedOnce, PendingLives, FenceHolds, Live
  <1> QED BY <1>4, <1>5, <1>6 DEF OcInv

LEMMA BeginTurnKeeps == ASSUME OcInv, Oc!BeginTurn PROVE OcInv'
  <1>1. /\ turn' = {m \in Msg : nat[m] = "persisted"} /\ Oc!Publish(<<[type |-> "busy", of |-> {}]>>)
        /\ UNCHANGED <<nat, up, pending, fence, call, lease, interrupts>>
    BY DEF Oc!BeginTurn, Oc!NativeOnly, Oc!plugin, Oc!counts
  <1>2. [type |-> "busy", of |-> {}] \in Event /\ [type |-> "busy", of |-> {}].type # "finished"
    BY DEF Event
  <1>3. OcTyped'
    BY <1>1, <1>2, PublishedOne DEF OcInv, OcTyped
  <1>4. FinishedIs'
    BY <1>1, <1>2, PublishedOne DEF OcInv, FinishedIs
  <1>5. PromptedOnce' /\ PendingLives' /\ FenceHolds'
    BY <1>1 DEF OcInv, PromptedOnce, PendingLives, FenceHolds, Live
  <1> QED BY <1>3, <1>4, <1>5 DEF OcInv

LEMMA EndTurnKeeps == ASSUME OcInv, Oc!EndTurn PROVE OcInv'
  <1> DEFINE es == <<[type |-> "finished", of |-> turn], [type |-> "idle", of |-> {}]>>
  <1>1. /\ nat' = Oc!Set(turn, "answered") /\ turn' = {} /\ Oc!Publish(es)
        /\ UNCHANGED <<up, pending, fence, call, lease, interrupts>>
    BY DEF Oc!EndTurn, Oc!NativeOnly, Oc!plugin, Oc!counts
  <1>2. \A x \in Msg : nat'[x] = IF x \in turn THEN "answered" ELSE nat[x]
    BY <1>1 DEF Oc!Set
  <1>3. es \in Seq(Event) /\ \A j \in DOMAIN es : es[j].type = "finished" => es[j].of = turn
    BY DEF Event, OcInv, OcTyped
  <1> HIDE DEF es
  <1>4. OcTyped'
    BY <1>1, <1>3, Published DEF OcInv, OcTyped, Oc!Set
  <1>5. FinishedIs'
    <2> SUFFICES ASSUME NEW i \in DOMAIN events', events'[i].type = "finished", NEW x \in events'[i].of
                 PROVE  nat'[x] \in {"answered", "aborted"}
      BY DEF FinishedIs
    <2>1. CASE \E j \in DOMAIN events : events'[i] = events[j]
      <3>1. x \in Msg /\ nat[x] \in {"answered", "aborted"}
        BY <2>1, FinishedOf
      <3> QED BY <1>2, <3>1
    <2>2. CASE \E j \in DOMAIN es : events'[i] = es[j]
      BY <1>2, <1>3, <2>2 DEF OcInv, OcTyped
    <2> QED BY <1>1, <1>3, <2>1, <2>2, Published DEF OcInv, OcTyped
  <1>6. PromptedOnce' /\ PendingLives' /\ FenceHolds'
    BY <1>1, <1>2 DEF OcInv, OcTyped, PromptedOnce, PendingLives, FenceHolds, Live
  <1> QED BY <1>4, <1>5, <1>6 DEF OcInv

(* What publishes something and does nothing else to a message. *)
LEMMA OnlyPublishes ==
  ASSUME OcInv, NEW e \in Event, e.type # "finished", Oc!Publish(<<e>>),
         UNCHANGED <<nat, turn, up, pending, fence, call, lease, interrupts>>
  PROVE  OcInv'
  BY PublishedOne, NothingMoves DEF OcInv, OcTyped, PendingLives

LEMMA PublishersKeep ==
  ASSUME OcInv, Oc!AskPermission \/ Oc!AnswerNatively \/ Oc!Summarised \/ Oc!BrokerAnswers
  PROVE  OcInv'
  <1>1. UNCHANGED <<nat, turn, up, pending, fence, call, lease, interrupts>>
    BY DEF Oc!AskPermission, Oc!AnswerNatively, Oc!Summarised, Oc!BrokerAnswers, Oc!NativeOnly, Oc!plugin, Oc!counts
  <1>2. \E t \in {"asked", "replied", "compacted"} : Oc!Publish(<<[type |-> t, of |-> {}]>>)
    BY DEF Oc!AskPermission, Oc!AnswerNatively, Oc!Summarised, Oc!BrokerAnswers
  <1>3. \A t \in {"asked", "replied", "compacted"} :
          LET e == [type |-> t, of |-> {}] IN e \in Event /\ e.type # "finished"
    BY DEF Event
  <1> QED BY <1>1, <1>2, <1>3, OnlyPublishes

(* The process is gone, and with it all that it had not answered. *)
LEMMA GoneKeeps == ASSUME OcInv, Oc!Gone, UNCHANGED interrupts PROVE OcInv'
  <1>1. /\ up' = "none" /\ events' = <<>> /\ turn' = {} /\ pending' = {} /\ lease' = "none"
        /\ nat' = Oc!Set({m \in Msg : nat[m] \in {"queued", "persisted"}}, "aborted")
        /\ call' = [m \in Msg |-> IF call[m] \in {"op", "sent"} THEN "unsure" ELSE call[m]]
    BY DEF Oc!Gone, Oc!Fresh
  <1>2. \A m \in Msg : nat'[m] = IF Live(m) THEN "aborted" ELSE nat[m]
    BY <1>1 DEF Oc!Set, Live
  <1>3. OcTyped'
    BY <1>1 DEF OcInv, OcTyped, Oc!Set
  <1>4. PromptedOnce'
    BY <1>1, <1>2 DEF OcInv, OcTyped, PromptedOnce, Live
  <1>5. PendingLives'
    BY <1>1, <1>2 DEF PendingLives, Live
  <1> QED BY <1>1, <1>3, <1>4, <1>5 DEF OcInv, FinishedIs, FenceHolds

LEMMA LaunchKeeps == ASSUME OcInv, Oc!Launch PROVE OcInv'
  <1>1. /\ up = "none" /\ up' = "starting" /\ events' = <<>> /\ turn' = {} /\ pending' = {} /\ lease' = "none"
        /\ UNCHANGED <<nat, call, interrupts>>
    BY DEF Oc!Launch, Oc!Fresh, Oc!counts
  <1>2. pending = {}
    BY <1>1 DEF OcInv, PendingLives
  <1>3. events' \in Seq(Event) /\ DOMAIN events' = {}
    BY <1>1
  <1> QED BY <1>1, <1>2, <1>3, NothingMoves DEF OcInv, OcTyped

LEMMA HearKeeps == ASSUME OcInv, Oc!Hear PROVE OcInv'
  <1>1. /\ events # <<>> /\ events' = Tail(events)
        /\ pending' = IF Oc!Heard.type = "finished" THEN pending \ Oc!Heard.of ELSE pending
        /\ UNCHANGED <<up, nat, turn, fence, call, lease, interrupts>> /\ up # "none"
    BY DEF Oc!Hear, Oc!Running, Oc!counts
  <1>2. events' \in Seq(Event) /\ \A i \in DOMAIN events' : i + 1 \in DOMAIN events /\ events'[i] = events[i + 1]
    BY <1>1 DEF OcInv, OcTyped
  <1>3. 1 \in DOMAIN events /\ Oc!Heard = events[1]
    BY <1>1 DEF OcInv, OcTyped, Oc!Heard
  <1>4. \A m \in pending \ pending' : ~Live(m)
    BY <1>1, <1>3 DEF OcInv, FinishedIs, Live
  <1> QED BY <1>1, <1>2, <1>4, NothingMoves DEF OcInv, OcTyped

LEMMA PromptKeeps == ASSUME OcInv, NEW m \in Msg, Oc!Prompt(m) PROVE OcInv'
  <1>1. /\ call[m] = "op" /\ up # "none"
        /\ UNCHANGED <<up, events, turn, fence, lease, interrupts>>
    BY DEF Oc!Prompt, Oc!Running, Oc!counts
  <1>2. CASE call' = [call EXCEPT ![m] = "refused"] /\ UNCHANGED <<nat, pending, waiting>>
    BY <1>1, <1>2, NothingMoves DEF OcInv, OcTyped
  <1>3. CASE /\ call' = [call EXCEPT ![m] = "sent"] /\ nat' = Oc!Set({m}, "queued")
             /\ pending' = pending \cup {m}
    <2>1. \A x \in Msg : nat'[x] = IF x = m THEN "queued" ELSE nat[x]
      BY <1>3 DEF Oc!Set
    <2>2. nat[m] = "none" /\ lease \notin {"granted", "committed"}
      BY <1>1 DEF OcInv, PromptedOnce, FenceHolds
    <2>3. OcTyped'
      BY <1>1, <1>3 DEF OcInv, OcTyped, Oc!Set
    <2>4. PromptedOnce'
      BY <1>1, <1>3, <2>1, <2>2 DEF OcInv, OcTyped, PromptedOnce
    <2>5. FinishedIs'
      <3> SUFFICES ASSUME NEW i \in DOMAIN events, events[i].type = "finished", NEW x \in events[i].of
                   PROVE  nat'[x] \in {"answered", "aborted"}
        BY <1>1 DEF FinishedIs
      <3>1. x \in Msg /\ nat[x] \in {"answered", "aborted"}
        BY FinishedOf
      <3> QED BY <2>1, <2>2, <3>1
    <2>6. PendingLives' /\ FenceHolds'
      BY <1>1, <1>3, <2>1, <2>2 DEF OcInv, PendingLives, FenceHolds, Live
    <2> QED BY <2>3, <2>4, <2>5, <2>6 DEF OcInv
  <1> QED BY <1>2, <1>3 DEF Oc!Prompt

LEMMA InterruptKeeps == ASSUME OcInv, Oc!Interrupt PROVE OcInv'
  <1> DEFINE es == IF turn # {} THEN <<[type |-> "idle", of |-> {}]>> ELSE <<>>
  <1>1. /\ nat' = Oc!Set(turn, "aborted") /\ turn' = {} /\ pending' = {} /\ Oc!Publish(es)
        /\ interrupts' = interrupts + 1
        /\ UNCHANGED <<up, fence, call, lease>>
    BY DEF Oc!Interrupt
  <1>2. \A x \in Msg : nat'[x] = IF x \in turn THEN "aborted" ELSE nat[x]
    BY <1>1 DEF Oc!Set
  <1>3. es \in Seq(Event) /\ \A j \in DOMAIN es : es[j].type # "finished"
    <2>1. CASE turn = {}
      BY <2>1
    <2>2. CASE turn # {}
      BY <2>2 DEF Event
    <2> QED BY <2>1, <2>2
  <1> HIDE DEF es
  <1>4. OcTyped'
    BY <1>1, <1>3, Published DEF OcInv, OcTyped, Oc!Set
  <1>5. FinishedIs'
    <2> SUFFICES ASSUME NEW i \in DOMAIN events', events'[i].type = "finished", NEW x \in events'[i].of
                 PROVE  nat'[x] \in {"answered", "aborted"}
      BY DEF FinishedIs
    <2>1. PICK j \in DOMAIN events : events'[i] = events[j]
      BY <1>1, <1>3, Published DEF OcInv, OcTyped
    <2>2. x \in Msg /\ nat[x] \in {"answered", "aborted"}
      BY <2>1, FinishedOf
    <2> QED BY <1>2, <2>2
  <1>6. PromptedOnce'
    BY <1>1, <1>2 DEF OcInv, OcTyped, PromptedOnce
  <1>7. interrupts' # 0
    BY <1>1 DEF OcInv, OcTyped
  <1> QED BY <1>1, <1>4, <1>5, <1>6, <1>7 DEF OcInv, PendingLives, FenceHolds

(* Finite and how many mean here what they mean in the module. *)
LEMMA OcCounts == ASSUME NEW S PROVE (Oc!IsFiniteSet(S) <=> IsFiniteSet(S)) /\ Oc!Cardinality(S) = Cardinality(S)
  BY DEF Oc!IsFiniteSet, IsFiniteSet, Oc!Cardinality, Cardinality

(* The fence is granted when nothing is in hand and nothing unanswered. *)
LEMMA PrepareReloadKeeps == ASSUME Oc!OpencodeAssumption, OcInv, Oc!PrepareReload PROVE OcInv'
  <1>1. UNCHANGED <<up, nat, events, turn, pending, call, interrupts>> /\ lease = "held" /\ up # "none"
    BY DEF Oc!PrepareReload, Oc!Running, Oc!native, Oc!counts
  <1>2. CASE lease' = "none" /\ UNCHANGED fence
    BY <1>1, <1>2, NothingMoves DEF OcInv, OcTyped
  <1>3. CASE Oc!MayReload /\ fence'
    <2> DEFINE inHand == {m \in Msg : call[m] \in {"op", "sent"}}
    <2>1. IsFiniteSet(inHand) /\ Cardinality(inHand) \in Nat
      BY OcCounts, FS_Subset, FS_CardinalityType DEF Oc!OpencodeAssumption
    <2>2. Cardinality(inHand) = 0
      BY <1>3, <2>1, OcCounts DEF Oc!MayReload, Oc!InputOperations
    <2>3. inHand = {}
      BY <2>1, <2>2, FS_EmptySet
    <2>4. pending = {}
      BY <1>3 DEF Oc!MayReload
    <2>5. FenceHolds'
      BY <1>1, <1>3, <2>3, <2>4 DEF OcInv, PendingLives, FenceHolds, Live
    <2>6. OcTyped' /\ PromptedOnce' /\ FinishedIs' /\ PendingLives'
      BY <1>1 DEF OcInv, OcTyped, PromptedOnce, FinishedIs, PendingLives, Live
    <2> QED BY <2>5, <2>6 DEF OcInv
  <1> QED BY <1>2, <1>3 DEF Oc!PrepareReload

LEMMA CallersKeep ==
  ASSUME OcInv, NEW m \in Msg, Oc!Deliver(m) \/ Oc!Acked(m) \/ Oc!AckTimesOut(m)
  PROVE  OcInv'
  <1>1. UNCHANGED <<up, nat, events, turn, pending, fence, lease, interrupts>> /\ up # "none"
    BY DEF Oc!Deliver, Oc!Acked, Oc!AckTimesOut, Oc!Running, Oc!native, Oc!plugin, Oc!counts
  <1>2. \E a \in {"op", "refused", "ok", "unsure"} :
          /\ call' = [call EXCEPT ![m] = a]
          /\ a = "op" => call[m] = "new" /\ ~fence
    BY DEF Oc!Deliver, Oc!Acked, Oc!AckTimesOut
  <1> QED BY <1>1, <1>2, NothingMoves DEF OcInv, OcTyped

LEMMA OthersKeep ==
  ASSUME OcInv, \/ Oc!Ready \/ Oc!Save \/ Oc!FenceLifts \/ Oc!CompactEnds \/ Oc!Compact
                \/ Oc!AcquireLease \/ Oc!LeaseLapses \/ Oc!Commit \/ UNCHANGED Oc!vars
  PROVE  OcInv'
  <1>1. UNCHANGED <<nat, events, turn, pending, call, interrupts>>
    BY DEF Oc!Ready, Oc!Save, Oc!FenceLifts, Oc!CompactEnds, Oc!Compact, Oc!AcquireLease, Oc!LeaseLapses, Oc!Commit, Oc!vars, Oc!native, Oc!plugin,
           Oc!counts
  <1>2. up' = "none" => up = "none"
    BY DEF Oc!Ready, Oc!Save, Oc!FenceLifts, Oc!CompactEnds, Oc!Compact, Oc!AcquireLease, Oc!LeaseLapses, Oc!Commit, Oc!vars
  <1>3. lease' \in {"granted", "committed"} => lease \in {"granted", "committed"} /\ fence' = fence
    BY DEF Oc!Ready, Oc!Save, Oc!FenceLifts, Oc!CompactEnds, Oc!Compact, Oc!AcquireLease, Oc!LeaseLapses, Oc!Commit, Oc!vars, Oc!plugin
  <1> QED BY <1>1, <1>2, <1>3, NothingMoves DEF OcInv, OcTyped, PendingLives

LEMMA OcNext == ASSUME Oc!OpencodeAssumption, OcInv, [Oc!Next]_Oc!vars PROVE OcInv'
  <1>1. CASE Oc!Native
    BY <1>1, PersistKeeps, BeginTurnKeeps, EndTurnKeeps, PublishersKeep DEF Oc!Native
  <1>2. CASE Oc!AskPermission \/ Oc!AnswerNatively \/ Oc!BrokerAnswers
    BY <1>2, PublishersKeep
  <1>3. CASE Oc!Die \/ Oc!Dispose \/ Oc!Retire
    BY <1>3, GoneKeeps DEF Oc!Die, Oc!Dispose, Oc!Retire, Oc!counts
  <1>4. CASE Oc!Launch \/ Oc!Hear \/ Oc!Interrupt
    BY <1>4, LaunchKeeps, HearKeeps, InterruptKeeps
  <1>5. CASE Oc!Control
    BY <1>5, PrepareReloadKeeps, OthersKeep, CallersKeep, PromptKeeps DEF Oc!Control
  <1>6. CASE Oc!Ready \/ Oc!Save \/ Oc!Compact \/ Oc!AcquireLease \/ Oc!LeaseLapses \/ Oc!Commit \/ UNCHANGED Oc!vars
    BY <1>6, OthersKeep
  <1> QED BY <1>1, <1>2, <1>3, <1>4, <1>5, <1>6 DEF Oc!Next, Oc!Reload

(* The values of the variables. *)
OcFlags == summary \in BOOLEAN /\ fence \in BOOLEAN /\ unsaved \in BOOLEAN
OcStates ==
  /\ up \in {"none", "starting", "ready"} /\ perm \in {"none", "asked", "shown", "allowed", "denied"}
  /\ status \in {"starting", "idle", "busy", "approval"} /\ waiting \subseteq Msg
  /\ lease \in {"none", "held", "granted", "lapsed", "committed"}
OcBounds ==
  /\ launch \in 0 .. MaxLaunch /\ interrupts \in 0 .. MaxInterrupt
  /\ compacts \in 0 .. MaxCompact /\ perms \in 0 .. MaxPerm

OcTypes == OcFlags /\ OcStates /\ OcBounds

LEMMA OcIsTyped == ASSUME OcInv, OcTypes PROVE Oc!TypeOK
  BY DEF OcInv, OcTyped, OcTypes, OcFlags, OcStates, OcBounds, Oc!TypeOK

LEMMA OcTypeInit == ASSUME Oc!OpencodeAssumption, Oc!Init PROVE OcTypes
  <1>1. OcFlags
    BY DEF Oc!Init, OcFlags
  <1>2. OcStates
    BY DEF Oc!Init, OcStates
  <1>3. OcBounds
    BY DEF Oc!Init, OcBounds, Oc!OpencodeAssumption
  <1> QED BY <1>1, <1>2, <1>3 DEF OcTypes

LEMMA OcFlagsNext ==
  ASSUME Oc!OpencodeAssumption, OcInv, OcTypes, [Oc!Next]_Oc!vars
  PROVE  OcFlags'
  <1>0. OcFlags
    BY DEF OcTypes
  <1>1. CASE Oc!BeginTurn \/ Oc!EndTurn \/ Oc!Summarised
    BY <1>0, <1>1 DEF Oc!BeginTurn, Oc!EndTurn, Oc!Summarised, Oc!NativeOnly, Oc!plugin, Oc!counts, OcFlags
  <1>2. ASSUME NEW m \in Msg, Oc!Persist(m) PROVE OcFlags'
    BY <1>0, <1>2 DEF Oc!Persist, Oc!NativeOnly, Oc!plugin, Oc!counts, OcFlags
  <1>3. CASE Oc!AskPermission
    BY <1>0, <1>3 DEF Oc!AskPermission, Oc!plugin, OcFlags
  <1>4. CASE Oc!AnswerNatively \/ Oc!BrokerAnswers
    BY <1>0, <1>4 DEF Oc!AnswerNatively, Oc!BrokerAnswers, Oc!NativeOnly, Oc!plugin, Oc!counts, OcFlags
  <1>5. CASE Oc!Launch
    BY <1>0, <1>5 DEF Oc!Launch, Oc!Fresh, Oc!counts, OcFlags
  <1>6. CASE Oc!Ready
    BY <1>0, <1>6 DEF Oc!Ready, Oc!native, Oc!counts, OcFlags
  <1>7. CASE Oc!Save
    BY <1>0, <1>7 DEF Oc!Save, Oc!native, Oc!counts, OcFlags
  <1>8. CASE Oc!Die \/ Oc!Retire
    BY <1>0, <1>8 DEF Oc!Die, Oc!Retire, Oc!Gone, Oc!Fresh, Oc!counts, OcFlags
  <1>9. CASE Oc!Dispose
    BY <1>0, <1>9 DEF Oc!Dispose, Oc!Gone, Oc!Fresh, Oc!counts, OcFlags
  <1>10. CASE Oc!Hear
    BY <1>0, <1>10 DEF Oc!Hear, Oc!counts, OcFlags
  <1>11. ASSUME NEW m \in Msg, Oc!Deliver(m) \/ Oc!Acked(m) PROVE OcFlags'
    BY <1>0, <1>11 DEF Oc!Deliver, Oc!Acked, Oc!native, Oc!plugin, Oc!counts, OcFlags
  <1>12. ASSUME NEW m \in Msg, Oc!Prompt(m) \/ Oc!AckTimesOut(m) PROVE OcFlags'
    BY <1>0, <1>12 DEF Oc!Prompt, Oc!AckTimesOut, Oc!native, Oc!plugin, Oc!counts, OcFlags
  <1>13. CASE Oc!PrepareReload \/ Oc!FenceLifts \/ Oc!CompactEnds
    BY <1>0, <1>13 DEF Oc!PrepareReload, Oc!FenceLifts, Oc!CompactEnds, Oc!native, Oc!plugin, Oc!counts, OcFlags
  <1>14. CASE Oc!Interrupt
    BY <1>0, <1>14 DEF Oc!Interrupt, OcFlags
  <1>15. CASE Oc!Compact
    BY <1>0, <1>15 DEF Oc!Compact, Oc!plugin, OcFlags
  <1>16. CASE Oc!AcquireLease \/ Oc!LeaseLapses \/ Oc!Commit
    BY <1>0, <1>16 DEF Oc!AcquireLease, Oc!LeaseLapses, Oc!Commit, Oc!native, Oc!plugin, Oc!counts, OcFlags
  <1>17. CASE UNCHANGED Oc!vars
    BY <1>0, <1>17 DEF Oc!vars, Oc!native, Oc!plugin, Oc!counts, OcFlags
  <1> QED BY <1>1, <1>2, <1>3, <1>4, <1>5, <1>6, <1>7, <1>8, <1>9, <1>10, <1>11, <1>12, <1>13, <1>14,
     <1>15, <1>16, <1>17 DEF Oc!Next, Oc!Native, Oc!Control, Oc!Reload

LEMMA OcStatesNext ==
  ASSUME Oc!OpencodeAssumption, OcInv, OcTypes, [Oc!Next]_Oc!vars
  PROVE  OcStates'
  <1>0. OcStates
    BY DEF OcTypes
  <1>1. CASE Oc!BeginTurn \/ Oc!EndTurn \/ Oc!Summarised
    BY <1>0, <1>1 DEF Oc!BeginTurn, Oc!EndTurn, Oc!Summarised, Oc!NativeOnly, Oc!plugin, Oc!counts, OcStates
  <1>2. ASSUME NEW m \in Msg, Oc!Persist(m) PROVE OcStates'
    BY <1>0, <1>2 DEF Oc!Persist, Oc!NativeOnly, Oc!plugin, Oc!counts, OcStates
  <1>3. CASE Oc!AskPermission
    BY <1>0, <1>3 DEF Oc!AskPermission, Oc!plugin, OcStates
  <1>4. CASE Oc!AnswerNatively \/ Oc!BrokerAnswers
    BY <1>0, <1>4 DEF Oc!AnswerNatively, Oc!BrokerAnswers, Oc!NativeOnly, Oc!plugin, Oc!counts, OcStates
  <1>5. CASE Oc!Launch
    BY <1>0, <1>5 DEF Oc!Launch, Oc!Fresh, Oc!counts, OcStates
  <1>6. CASE Oc!Ready
    BY <1>0, <1>6 DEF Oc!Ready, Oc!native, Oc!counts, OcStates
  <1>7. CASE Oc!Save
    BY <1>0, <1>7 DEF Oc!Save, Oc!native, Oc!counts, OcStates
  <1>8. CASE Oc!Die \/ Oc!Retire
    BY <1>0, <1>8 DEF Oc!Die, Oc!Retire, Oc!Gone, Oc!Fresh, Oc!counts, OcStates
  <1>9. CASE Oc!Dispose
    BY <1>0, <1>9 DEF Oc!Dispose, Oc!Gone, Oc!Fresh, Oc!counts, OcStates
  <1>10. CASE Oc!Hear
    BY <1>0, <1>10 DEF Oc!Hear, Oc!counts, Oc!StatusAfter, OcStates
  <1>11. ASSUME NEW m \in Msg, Oc!Deliver(m) \/ Oc!Acked(m) PROVE OcStates'
    BY <1>0, <1>11 DEF Oc!Deliver, Oc!Acked, Oc!native, Oc!plugin, Oc!counts, OcStates
  <1>12. ASSUME NEW m \in Msg, Oc!Prompt(m) \/ Oc!AckTimesOut(m) PROVE OcStates'
    BY <1>0, <1>12 DEF Oc!Prompt, Oc!AckTimesOut, Oc!native, Oc!plugin, Oc!counts, OcStates
  <1>13. CASE Oc!PrepareReload \/ Oc!FenceLifts \/ Oc!CompactEnds
    BY <1>0, <1>13 DEF Oc!PrepareReload, Oc!FenceLifts, Oc!CompactEnds, Oc!native, Oc!plugin, Oc!counts, OcStates
  <1>14. CASE Oc!Interrupt
    BY <1>0, <1>14 DEF Oc!Interrupt, OcStates
  <1>15. CASE Oc!Compact
    BY <1>0, <1>15 DEF Oc!Compact, Oc!plugin, OcStates
  <1>16. CASE Oc!AcquireLease \/ Oc!LeaseLapses \/ Oc!Commit
    BY <1>0, <1>16 DEF Oc!AcquireLease, Oc!LeaseLapses, Oc!Commit, Oc!native, Oc!plugin, Oc!counts, OcStates
  <1>17. CASE UNCHANGED Oc!vars
    BY <1>0, <1>17 DEF Oc!vars, Oc!native, Oc!plugin, Oc!counts, OcStates
  <1> QED BY <1>1, <1>2, <1>3, <1>4, <1>5, <1>6, <1>7, <1>8, <1>9, <1>10, <1>11, <1>12, <1>13, <1>14,
     <1>15, <1>16, <1>17 DEF Oc!Next, Oc!Native, Oc!Control, Oc!Reload

LEMMA OcCountsNext ==
  ASSUME Oc!OpencodeAssumption, OcInv, OcTypes, [Oc!Next]_Oc!vars
  PROVE  OcBounds'
  <1>0. OcBounds /\ {MaxLaunch, MaxInterrupt, MaxCompact, MaxPerm} \subseteq Nat
    BY DEF OcTypes, Oc!OpencodeAssumption
  <1>1. CASE Oc!BeginTurn \/ Oc!EndTurn \/ Oc!Summarised
    BY <1>0, <1>1 DEF Oc!BeginTurn, Oc!EndTurn, Oc!Summarised, Oc!NativeOnly, Oc!plugin, Oc!counts, OcBounds
  <1>2. ASSUME NEW m \in Msg, Oc!Persist(m) PROVE OcBounds'
    BY <1>0, <1>2 DEF Oc!Persist, Oc!NativeOnly, Oc!plugin, Oc!counts, OcBounds
  <1>3. CASE Oc!AskPermission
    BY <1>0, <1>3 DEF Oc!AskPermission, Oc!plugin, OcBounds
  <1>4. CASE Oc!AnswerNatively \/ Oc!BrokerAnswers
    BY <1>0, <1>4 DEF Oc!AnswerNatively, Oc!BrokerAnswers, Oc!NativeOnly, Oc!plugin, Oc!counts, OcBounds
  <1>5. CASE Oc!Launch
    BY <1>0, <1>5 DEF Oc!Launch, Oc!Fresh, Oc!counts, OcBounds
  <1>6. CASE Oc!Ready
    BY <1>0, <1>6 DEF Oc!Ready, Oc!native, Oc!counts, OcBounds
  <1>7. CASE Oc!Save
    BY <1>0, <1>7 DEF Oc!Save, Oc!native, Oc!counts, OcBounds
  <1>8. CASE Oc!Die \/ Oc!Retire
    BY <1>0, <1>8 DEF Oc!Die, Oc!Retire, Oc!Gone, Oc!Fresh, Oc!counts, OcBounds
  <1>9. CASE Oc!Dispose
    BY <1>0, <1>9 DEF Oc!Dispose, Oc!Gone, Oc!Fresh, Oc!counts, OcBounds
  <1>10. CASE Oc!Hear
    BY <1>0, <1>10 DEF Oc!Hear, Oc!counts, OcBounds
  <1>11. ASSUME NEW m \in Msg, Oc!Deliver(m) \/ Oc!Acked(m) PROVE OcBounds'
    BY <1>0, <1>11 DEF Oc!Deliver, Oc!Acked, Oc!native, Oc!plugin, Oc!counts, OcBounds
  <1>12. ASSUME NEW m \in Msg, Oc!Prompt(m) \/ Oc!AckTimesOut(m) PROVE OcBounds'
    BY <1>0, <1>12 DEF Oc!Prompt, Oc!AckTimesOut, Oc!native, Oc!plugin, Oc!counts, OcBounds
  <1>13. CASE Oc!PrepareReload \/ Oc!FenceLifts \/ Oc!CompactEnds
    BY <1>0, <1>13 DEF Oc!PrepareReload, Oc!FenceLifts, Oc!CompactEnds, Oc!native, Oc!plugin, Oc!counts, OcBounds
  <1>14. CASE Oc!Interrupt
    BY <1>0, <1>14 DEF Oc!Interrupt, OcBounds
  <1>15. CASE Oc!Compact
    BY <1>0, <1>15 DEF Oc!Compact, Oc!plugin, OcBounds
  <1>16. CASE Oc!AcquireLease \/ Oc!LeaseLapses \/ Oc!Commit
    BY <1>0, <1>16 DEF Oc!AcquireLease, Oc!LeaseLapses, Oc!Commit, Oc!native, Oc!plugin, Oc!counts, OcBounds
  <1>17. CASE UNCHANGED Oc!vars
    BY <1>0, <1>17 DEF Oc!vars, Oc!native, Oc!plugin, Oc!counts, OcBounds
  <1> QED BY <1>1, <1>2, <1>3, <1>4, <1>5, <1>6, <1>7, <1>8, <1>9, <1>10, <1>11, <1>12, <1>13, <1>14,
     <1>15, <1>16, <1>17 DEF Oc!Next, Oc!Native, Oc!Control, Oc!Reload

LEMMA OcTypeNext == ASSUME Oc!OpencodeAssumption, OcInv, OcTypes, [Oc!Next]_Oc!vars PROVE OcTypes'
  BY OcFlagsNext, OcStatesNext, OcCountsNext DEF OcTypes

LEMMA OcSafe == ASSUME OcInv PROVE Oc!ReloadCutsNothing
  BY DEF OcInv, FenceHolds, Live, Oc!ReloadCutsNothing

(* Once a reload is committed the runtime has answered, or given up, every       *)
(* message it took, unless somebody interrupted it (control.ts, prepareReload).  *)
THEOREM ReloadIsClean == ASSUME Oc!OpencodeAssumption PROVE Oc!Spec => []Oc!ReloadCutsNothing
  <1>1. Oc!Init => OcInv
    BY OcInit
  <1>2. OcInv /\ [Oc!Next]_Oc!vars => OcInv'
    BY OcNext
  <1>3. OcInv => Oc!ReloadCutsNothing
    BY OcSafe
  <1> QED BY <1>1, <1>2, <1>3, PTL DEF Oc!Spec

-----------------------------------------------------------------------------
(* A stop that reports no failure has ended every turn it found, for any        *)
(* runtimes, verbs, turns and faults.  Turns are numbered as they begin, so the  *)
(* turn a session is in is either the one that was found or a later one.        *)
StopTyped ==
  /\ turn \in [Rt -> Nat] /\ turns \in Nat
  /\ pc = [v \in Ctl!Verb |-> pc[v]] /\ ans = [v \in Ctl!Verb |-> ans[v]]
  /\ todo = [v \in Ctl!Verb |-> todo[v]] /\ begun \in [Ctl!Verb -> [Rt -> Nat]]

(* Only a live session is in a turn, and no turn has a number yet to be given.  *)
TurnsRun ==
  /\ \A r \in Rt : turn[r] <= turns /\ (turn[r] # 0 => r \in up)
  /\ \A v \in Ctl!Verb : \A r \in Rt : begun[v][r] <= turns

Over(v, r) == begun[v][r] = 0 \/ turn[r] # begun[v][r]

(* What the verb has done with, and could reach, has ended its turn.            *)
Interrupted ==
  \A v \in Stopper :
    /\ ans[v] = "stopped" => pc[v] = "done" /\ \A r \in Rt : Over(v, r)
    /\ pc[v] = "act" /\ ans[v] = "none" => \A r \in Rt \ todo[v] : Over(v, r)

StopInv == StopTyped /\ TurnsRun /\ Interrupted

LEMMA StopInit == ASSUME Ctl!Init PROVE StopInv
  <1>1. StopTyped
    BY DEF Ctl!Init, StopTyped
  <1>2. TurnsRun /\ Interrupted
    BY DEF Ctl!Init, TurnsRun, Interrupted, Over, Ctl!Verb
  <1> QED BY <1>1, <1>2 DEF StopInv

(* A session's turns only end, or get a number of their own. *)
LEMMA TurnsMove ==
  ASSUME StopInv, NEW r \in Rt, Ctl!Session(r)
  PROVE  /\ UNCHANGED <<pc, ans, todo, begun>>
         /\ turn' \in [Rt -> Nat] /\ turns' \in Nat /\ turns <= turns'
         /\ \A s \in Rt : turn'[s] = turn[s] \/ turn'[s] = 0 \/ (turn'[s] = turns' /\ turns < turns')
         /\ \A s \in Rt : turn'[s] # 0 => s \in up'
  <1>0. UNCHANGED <<pc, ans, todo, begun>>
    BY DEF Ctl!Session, Ctl!TurnBegins, Ctl!TurnEnds, Ctl!AutoCompacts, Ctl!Compacts, Ctl!Dies, Ctl!Reaped, Ctl!World
  <1>1. CASE Ctl!TurnBegins(r)
    BY <1>0, <1>1 DEF Ctl!TurnBegins, StopInv, StopTyped, TurnsRun
  <1>2. CASE Ctl!TurnEnds(r)
    BY <1>0, <1>2 DEF Ctl!TurnEnds, StopInv, StopTyped, TurnsRun
  <1>3. CASE Ctl!AutoCompacts(r) \/ Ctl!Compacts(r)
    BY <1>0, <1>3 DEF Ctl!AutoCompacts, Ctl!Compacts, StopInv, StopTyped, TurnsRun
  <1>4. CASE Ctl!Dies(r) \/ Ctl!Reaped(r)
    <2>1. up' = up \ {r} /\ turn' = [turn EXCEPT ![r] = 0] /\ turns' = turns
      BY <1>4 DEF Ctl!Dies, Ctl!Reaped, Ctl!Ends
    <2> QED BY <1>0, <2>1 DEF StopInv, StopTyped, TurnsRun
  <1> QED BY <1>1, <1>2, <1>3, <1>4 DEF Ctl!Session

LEMMA SessionKeeps == ASSUME StopInv, NEW r \in Rt, Ctl!Session(r) PROVE StopInv'
  <1>1. StopTyped'
    BY TurnsMove DEF StopInv, StopTyped
  <1>2. TurnsRun'
    <2>1. \A s \in Rt : turn[s] \in Nat /\ turn[s] <= turns
      BY DEF StopInv, StopTyped, TurnsRun
    <2>2. \A v \in Ctl!Verb : \A s \in Rt : begun'[v][s] \in Nat /\ begun'[v][s] <= turns
      BY TurnsMove DEF StopInv, StopTyped, TurnsRun
    <2> QED BY <2>1, <2>2, TurnsMove DEF TurnsRun, StopInv, StopTyped
  <1>3. \A v \in Ctl!Verb : \A s \in Rt : Over(v, s) => Over(v, s)'
    <2> SUFFICES ASSUME NEW v \in Ctl!Verb, NEW s \in Rt, Over(v, s) PROVE Over(v, s)'
      OBVIOUS
    <2>1. begun'[v][s] = begun[v][s] /\ begun[v][s] \in Nat /\ begun[v][s] <= turns
      BY TurnsMove DEF StopInv, StopTyped, TurnsRun
    <2> QED BY <2>1, TurnsMove DEF Over, StopInv, StopTyped
  <1>4. Interrupted'
    <2>1. UNCHANGED <<pc, ans, todo>>
      BY TurnsMove
    <2> QED BY <1>3, <2>1 DEF StopInv, Interrupted, Ctl!Verb
  <1> QED BY <1>1, <1>2, <1>4 DEF StopInv

(* A verb of another kind ends no turn, and says nothing a stop says. *)
LEMMA OtherVerb ==
  ASSUME NEW v \in Ctl!Verb, Ctl!CompactVerb(v) \/ Ctl!GoalVerb(v)
  PROVE  /\ UNCHANGED <<turn, turns, todo, begun>> /\ up \subseteq up'
         /\ \E a : a \notin {"act", "stopped"} /\ pc' = [pc EXCEPT ![v] = a]
         /\ \/ \E b : b \notin {"act", "stopped"} /\ ans' = [ans EXCEPT ![v] = b]
            \/ pc[v] # "done" /\ UNCHANGED ans
  <1>1. CASE Ctl!CompactLook(v)
    BY <1>1 DEF Ctl!CompactLook, Ctl!Goto, Ctl!Answer, Ctl!world
  <1>2. CASE Ctl!CompactWake(v)
    BY <1>2 DEF Ctl!CompactWake, Ctl!Goto, Ctl!Answer
  <1>3. CASE Ctl!CompactBase(v)
    BY <1>3 DEF Ctl!CompactBase, Ctl!Goto, Ctl!world
  <1>4. CASE Ctl!CompactType(v)
    BY <1>4 DEF Ctl!CompactType, Ctl!Goto, Ctl!Answer
  <1>5. CASE Ctl!CompactDone(v) \/ Ctl!CompactVanished(v) \/ Ctl!CompactTimesOut(v)
    BY <1>5 DEF Ctl!CompactDone, Ctl!CompactVanished, Ctl!CompactTimesOut, Ctl!Answer, Ctl!Goto, Ctl!world
  <1>6. CASE Ctl!GoalLook(v)
    BY <1>6 DEF Ctl!GoalLook, Ctl!Goto, Ctl!Answer
  <1>7. CASE Ctl!GoalType(v)
    BY <1>7 DEF Ctl!GoalType, Ctl!Goto, Ctl!Answer
  <1>8. CASE Ctl!GoalPoll(v)
    BY <1>8 DEF Ctl!GoalPoll, Ctl!Goto, Ctl!Answer
  <1>9. CASE Ctl!GoalTimesOut(v)
    BY <1>9 DEF Ctl!GoalTimesOut, Ctl!Goto, Ctl!Answer, Ctl!world
  <1> QED BY <1>1, <1>2, <1>3, <1>4, <1>5, <1>6, <1>7, <1>8, <1>9 DEF Ctl!CompactVerb, Ctl!GoalVerb

LEMMA OtherVerbKeeps ==
  ASSUME StopInv, NEW v \in Ctl!Verb, Ctl!CompactVerb(v) \/ Ctl!GoalVerb(v)
  PROVE  StopInv'
  <1>1. UNCHANGED <<turn, turns, todo, begun>> /\ up \subseteq up'
    BY OtherVerb
  <1>2. PICK a : a \notin {"act", "stopped"} /\ pc' = [pc EXCEPT ![v] = a]
    BY OtherVerb
  <1>3. \/ \E b : b \notin {"act", "stopped"} /\ ans' = [ans EXCEPT ![v] = b]
        \/ pc[v] # "done" /\ UNCHANGED ans
    BY OtherVerb
  <1>4. StopTyped'
    BY <1>1, <1>2, <1>3 DEF StopInv, StopTyped
  <1>5. TurnsRun'
    BY <1>1 DEF StopInv, TurnsRun
  <1>6. \A x \in Ctl!Verb : \A s \in Rt : Over(x, s)' <=> Over(x, s)
    BY <1>1 DEF Over
  <1>7. \A x \in Stopper : x # v => pc'[x] = pc[x] /\ ans'[x] = ans[x]
    BY <1>2, <1>3 DEF StopInv, StopTyped, Ctl!Verb
  <1>8. v \in Stopper => pc'[v] # "act" /\ ans'[v] # "stopped"
    BY <1>2, <1>3 DEF StopInv, StopTyped, Interrupted
  <1>9. Interrupted'
    BY <1>1, <1>6, <1>7, <1>8 DEF StopInv, Interrupted, Ctl!Verb
  <1> QED BY <1>4, <1>5, <1>9 DEF StopInv

LEMMA StopLookKeeps == ASSUME StopInv, NEW v \in Stopper, Ctl!StopLook(v) PROVE StopInv'
  <1>1. v \in Ctl!Verb /\ UNCHANGED <<up, turn, turns>> /\ pc[v] = "new"
    BY DEF Ctl!StopLook, Ctl!world, Ctl!Verb
  <1>2. CASE Ctl!Answer(v, "offline") /\ UNCHANGED <<todo, begun>>
    <2>1. StopTyped' /\ TurnsRun'
      BY <1>1, <1>2 DEF Ctl!Answer, Ctl!Goto, StopInv, StopTyped, TurnsRun
    <2>2. Interrupted'
      BY <1>1, <1>2 DEF Ctl!Answer, Ctl!Goto, StopInv, StopTyped, Interrupted, Over, Ctl!Verb
    <2> QED BY <2>1, <2>2 DEF StopInv
  <1>3. CASE /\ todo' = [todo EXCEPT ![v] = up] /\ begun' = [begun EXCEPT ![v] = turn]
             /\ pc' = [pc EXCEPT ![v] = "act"] /\ UNCHANGED ans
    <2>1. StopTyped'
      BY <1>1, <1>3 DEF StopInv, StopTyped
    <2>2. /\ begun'[v] = turn /\ todo'[v] = up /\ pc'[v] = "act"
          /\ \A x \in Ctl!Verb : x # v => begun'[x] = begun[x] /\ todo'[x] = todo[x] /\ pc'[x] = pc[x]
      BY <1>1, <1>3 DEF StopInv, StopTyped
    <2>3. TurnsRun'
      BY <1>1, <2>2 DEF StopInv, TurnsRun
    <2>4. ans'[v] # "stopped"
      BY <1>1, <1>3 DEF StopInv, Interrupted
    <2>5. \A r \in Rt \ up : begun'[v][r] = 0
      BY <2>2 DEF StopInv, TurnsRun
    <2>6. Interrupted'
      BY <1>1, <1>3, <2>2, <2>4, <2>5 DEF StopInv, Interrupted, Over, Ctl!Verb
    <2> QED BY <2>1, <2>3, <2>6 DEF StopInv
  <1> QED BY <1>2, <1>3 DEF Ctl!StopLook, Ctl!Targets, Ctl!Goto

LEMMA StopInterruptKeeps ==
  ASSUME StopInv, NEW v \in Stopper, NEW r \in Rt, Ctl!Interrupt(v, r)
  PROVE  StopInv'
  <1>1. v \in Ctl!Verb /\ UNCHANGED <<up, turns, pc, begun>> /\ pc[v] = "act" /\ todo' = [todo EXCEPT ![v] = @ \ {r}]
    BY DEF Ctl!Interrupt, Ctl!Verb
  <1>2. \/ turn' = [turn EXCEPT ![r] = 0] /\ UNCHANGED ans
        \/ ans' = [ans EXCEPT ![v] = "partial"] /\ UNCHANGED turn
    BY DEF Ctl!Interrupt
  <1>3. StopTyped'
    <2>1. todo' = [x \in Ctl!Verb |-> todo'[x]] /\ begun' \in [Ctl!Verb -> [Rt -> Nat]] /\ pc' = [x \in Ctl!Verb |-> pc'[x]]
      BY <1>1 DEF StopInv, StopTyped
    <2>2. turn' \in [Rt -> Nat] /\ turns' \in Nat
      BY <1>1, <1>2 DEF StopInv, StopTyped
    <2>3. ans' = [x \in Ctl!Verb |-> ans'[x]]
      BY <1>1, <1>2 DEF StopInv, StopTyped
    <2> QED BY <2>1, <2>2, <2>3 DEF StopTyped
  <1>4. \A s \in Rt : turn'[s] = turn[s] \/ turn'[s] = 0
    BY <1>2 DEF StopInv, StopTyped
  <1>5. TurnsRun'
    BY <1>1, <1>4 DEF StopInv, StopTyped, TurnsRun
  <1>6. \A x \in Ctl!Verb : \A s \in Rt : Over(x, s) => Over(x, s)'
    BY <1>1, <1>4 DEF Over
  <1>7. \A x \in Ctl!Verb : x # v => ans'[x] = ans[x] /\ todo'[x] = todo[x]
    BY <1>1, <1>2 DEF StopInv, StopTyped
  <1>8. ans'[v] # "stopped"
    BY <1>1, <1>2 DEF StopInv, StopTyped, Interrupted
  <1>9. ans'[v] = "none" => \A s \in Rt \ todo'[v] : Over(v, s)'
    <2> SUFFICES ASSUME ans'[v] = "none", NEW s \in Rt \ todo'[v] PROVE Over(v, s)'
      OBVIOUS
    <2>1. UNCHANGED ans /\ turn' = [turn EXCEPT ![r] = 0]
      BY <1>1, <1>2 DEF StopInv, StopTyped
    <2>2. CASE s = r
      BY <2>1, <2>2 DEF Over, StopInv, StopTyped
    <2>3. CASE s # r
      <3>1. s \notin todo[v]
        BY <1>1, <2>3 DEF StopInv, StopTyped
      <3> QED BY <1>1, <1>6, <2>1, <3>1 DEF StopInv, Interrupted
    <2> QED BY <2>2, <2>3
  <1>10. Interrupted'
    BY <1>1, <1>6, <1>7, <1>8, <1>9 DEF StopInv, Interrupted, Ctl!Verb
  <1> QED BY <1>3, <1>5, <1>10 DEF StopInv

LEMMA StopAnswersKeeps == ASSUME StopInv, NEW v \in Stopper, Ctl!StopAnswers(v) PROVE StopInv'
  <1>1. v \in Ctl!Verb /\ UNCHANGED <<up, turn, turns, todo, begun>> /\ pc[v] = "act" /\ todo[v] = {}
    BY DEF Ctl!StopAnswers, Ctl!world, Ctl!Verb
  <1> DEFINE a == IF ans[v] = "none" THEN "stopped" ELSE "partial"
  <1>2. pc' = [pc EXCEPT ![v] = "done"] /\ ans' = [ans EXCEPT ![v] = a]
    BY DEF Ctl!StopAnswers, Ctl!Answer, Ctl!Goto
  <1>3. StopTyped' /\ TurnsRun'
    BY <1>1, <1>2 DEF StopInv, StopTyped, TurnsRun
  <1>4. \A x \in Ctl!Verb : \A s \in Rt : Over(x, s)' <=> Over(x, s)
    BY <1>1 DEF Over
  <1>5. /\ pc'[v] = "done" /\ (ans'[v] = "stopped" => ans[v] = "none")
        /\ \A x \in Ctl!Verb : x # v => pc'[x] = pc[x] /\ ans'[x] = ans[x]
    BY <1>1, <1>2 DEF StopInv, StopTyped
  <1>6. Interrupted'
    BY <1>1, <1>4, <1>5 DEF StopInv, Interrupted, Ctl!Verb
  <1> QED BY <1>3, <1>6 DEF StopInv

LEMMA StopNext == ASSUME StopInv, [Ctl!Next]_Ctl!vars PROVE StopInv'
  <1>1. CASE \E r \in Rt : Ctl!Session(r)
    BY <1>1, SessionKeeps
  <1>2. CASE \E v \in Stopper : Ctl!Stop(v)
    BY <1>2, StopLookKeeps, StopInterruptKeeps, StopAnswersKeeps DEF Ctl!Stop
  <1>3. CASE \/ \E v \in Compacter : Ctl!CompactVerb(v)
             \/ \E v \in Goaler : Ctl!GoalVerb(v)
    BY <1>3, OtherVerbKeeps DEF Ctl!Verb
  <1>4. CASE UNCHANGED Ctl!vars
    BY <1>4 DEF Ctl!vars, Ctl!world, StopInv, StopTyped, TurnsRun, Interrupted, Over
  <1> QED BY <1>1, <1>2, <1>3, <1>4 DEF Ctl!Next

(* The values of the variables: a verb that wakes a session, or takes a baseline, *)
(* has a runtime that it acts on.                                               *)
Callers == Compacter \cup {None}
SessionsTyped == up \subseteq Rt /\ idle \subseteq Rt /\ goal \in Ctl!Goal
TurnsTyped == turn \in [Rt -> 0 .. MaxTurn] /\ turns \in 0 .. MaxTurn /\ begun \in [Ctl!Verb -> [Rt -> 0 .. MaxTurn]]
MarksTyped == marks \in [Rt -> Seq(Callers)] /\ asked \in [Rt -> SUBSET Callers]
BaseTyped == base \in [Ctl!Verb -> Nat]
VerbsTyped ==
  /\ pc \in [Ctl!Verb -> {"new", "wake", "base", "type", "wait", "act", "done"}]
  /\ tgt \in [Ctl!Verb -> Rt \cup {None}]
  /\ todo \in [Ctl!Verb -> SUBSET Rt] /\ was \in [Ctl!Verb -> Ctl!Goal]
Targeted == \A v \in Ctl!Verb : pc[v] \in {"wake", "base"} => tgt[v] \in Rt

ControlTypes == SessionsTyped /\ TurnsTyped /\ MarksTyped /\ BaseTyped /\ VerbsTyped /\ Targeted

LEMMA ControlIsTyped == ASSUME ControlTypes PROVE Ctl!TypeOK
  BY DEF ControlTypes, SessionsTyped, TurnsTyped, MarksTyped, BaseTyped, VerbsTyped, Callers, Ctl!TypeOK

LEMMA ControlTypeInit == ASSUME Ctl!ControlAssumption, Ctl!Init PROVE ControlTypes
  <1>1. 0 \in 0 .. MaxTurn
    BY DEF Ctl!ControlAssumption
  <1>2. TurnsTyped
    BY <1>1 DEF Ctl!Init, TurnsTyped
  <1>3. <<>> \in Seq(Callers)
    OBVIOUS
  <1>4. MarksTyped /\ BaseTyped
    BY <1>3 DEF Ctl!Init, MarksTyped, BaseTyped
  <1> QED BY <1>2, <1>4 DEF Ctl!Init, ControlTypes, SessionsTyped, VerbsTyped, Targeted, Ctl!Goal

(* A verb's target is a declared runtime. *)
LEMMA ResolvedIs == ASSUME Ctl!ControlAssumption, up \subseteq Rt, up # {} PROVE Ctl!Resolved \in Rt
  <1>1. (CHOOSE r \in up : TRUE) \in up
    OBVIOUS
  <1> QED BY <1>1 DEF Ctl!Resolved, Ctl!ControlAssumption

LEMMA SessionsTypeNext ==
  ASSUME Ctl!ControlAssumption, ControlTypes, [Ctl!Next]_Ctl!vars
  PROVE  SessionsTyped'
  <1>0. SessionsTyped /\ Targeted /\ Compacter \subseteq Ctl!Verb
    BY DEF ControlTypes, Ctl!Verb
  <1>1. ASSUME NEW r \in Rt, Ctl!TurnBegins(r) \/ Ctl!TurnEnds(r) \/ Ctl!AutoCompacts(r) PROVE SessionsTyped'
    BY <1>0, <1>1 DEF Ctl!TurnBegins, Ctl!TurnEnds, Ctl!AutoCompacts, Ctl!World, Ctl!Goal, SessionsTyped, Targeted
  <1>2. ASSUME NEW r \in Rt, Ctl!Compacts(r) PROVE SessionsTyped'
    BY <1>0, <1>2 DEF Ctl!Compacts, Ctl!World, SessionsTyped, Targeted
  <1>3. ASSUME NEW r \in Rt, Ctl!Dies(r) \/ Ctl!Reaped(r) PROVE SessionsTyped'
    BY <1>0, <1>3 DEF Ctl!Dies, Ctl!Reaped, Ctl!Ends, Ctl!World, SessionsTyped, Targeted
  <1>4. ASSUME NEW v \in Stopper, Ctl!StopLook(v) \/ Ctl!StopAnswers(v) PROVE SessionsTyped'
    BY <1>0, <1>4 DEF Ctl!StopLook, Ctl!StopAnswers, Ctl!world, SessionsTyped, Targeted
  <1>5. ASSUME NEW v \in Stopper, NEW r \in Rt, Ctl!Interrupt(v, r) PROVE SessionsTyped'
    BY <1>0, <1>5 DEF Ctl!Interrupt, SessionsTyped, Targeted
  <1>6. ASSUME NEW v \in Compacter, Ctl!CompactLook(v) PROVE SessionsTyped'
    BY <1>0, <1>6 DEF Ctl!CompactLook, Ctl!world, SessionsTyped, Targeted
  <1>7. ASSUME NEW v \in Compacter, Ctl!CompactWake(v) PROVE SessionsTyped'
    BY <1>0, <1>7 DEF Ctl!CompactWake, SessionsTyped, Targeted
  <1>8. ASSUME NEW v \in Compacter, Ctl!CompactBase(v) PROVE SessionsTyped'
    BY <1>0, <1>8 DEF Ctl!CompactBase, Ctl!world, SessionsTyped, Targeted
  <1>9. ASSUME NEW v \in Compacter, Ctl!CompactType(v) PROVE SessionsTyped'
    BY <1>0, <1>9 DEF Ctl!CompactType, SessionsTyped, Targeted
  <1>10. ASSUME NEW v \in Compacter, Ctl!CompactDone(v) \/ Ctl!CompactVanished(v) \/ Ctl!CompactTimesOut(v) PROVE SessionsTyped'
    BY <1>0, <1>10 DEF Ctl!CompactDone, Ctl!CompactVanished, Ctl!CompactTimesOut, Ctl!world, SessionsTyped,
       Targeted
  <1>11. ASSUME NEW v \in Goaler, Ctl!GoalLook(v) PROVE SessionsTyped'
    BY <1>0, <1>11 DEF Ctl!GoalLook, SessionsTyped, Targeted
  <1>12. ASSUME NEW v \in Goaler, Ctl!GoalType(v) PROVE SessionsTyped'
    BY <1>0, <1>12 DEF Ctl!GoalType, Ctl!Goal, SessionsTyped, Targeted
  <1>13. ASSUME NEW v \in Goaler, Ctl!GoalPoll(v) \/ Ctl!GoalTimesOut(v) PROVE SessionsTyped'
    BY <1>0, <1>13 DEF Ctl!GoalPoll, Ctl!GoalTimesOut, Ctl!world, SessionsTyped, Targeted
  <1>14. CASE UNCHANGED Ctl!vars
    BY <1>0, <1>14 DEF Ctl!vars, Ctl!world, SessionsTyped, Targeted
  <1> QED BY <1>1, <1>2, <1>3, <1>4, <1>5, <1>6, <1>7, <1>8, <1>9, <1>10, <1>11, <1>12, <1>13, <1>14 DEF
     Ctl!Next, Ctl!Session, Ctl!Stop, Ctl!CompactVerb, Ctl!GoalVerb

LEMMA TurnsTypeNext ==
  ASSUME Ctl!ControlAssumption, ControlTypes, [Ctl!Next]_Ctl!vars
  PROVE  TurnsTyped'
  <1>0. TurnsTyped /\ MaxTurn \in Nat /\ 0 \in 0 .. MaxTurn
    BY DEF ControlTypes, Ctl!ControlAssumption
  <1>1. ASSUME NEW r \in Rt, Ctl!TurnBegins(r) \/ Ctl!TurnEnds(r) \/ Ctl!AutoCompacts(r) PROVE TurnsTyped'
    BY <1>0, <1>1 DEF Ctl!TurnBegins, Ctl!TurnEnds, Ctl!AutoCompacts, Ctl!World, TurnsTyped
  <1>2. ASSUME NEW r \in Rt, Ctl!Compacts(r) PROVE TurnsTyped'
    BY <1>0, <1>2 DEF Ctl!Compacts, Ctl!World, TurnsTyped
  <1>3. ASSUME NEW r \in Rt, Ctl!Dies(r) \/ Ctl!Reaped(r) PROVE TurnsTyped'
    BY <1>0, <1>3 DEF Ctl!Dies, Ctl!Reaped, Ctl!Ends, Ctl!World, TurnsTyped
  <1>4. ASSUME NEW v \in Stopper, Ctl!StopLook(v) \/ Ctl!StopAnswers(v) PROVE TurnsTyped'
    BY <1>0, <1>4 DEF Ctl!StopLook, Ctl!StopAnswers, Ctl!world, TurnsTyped
  <1>5. ASSUME NEW v \in Stopper, NEW r \in Rt, Ctl!Interrupt(v, r) PROVE TurnsTyped'
    BY <1>0, <1>5 DEF Ctl!Interrupt, TurnsTyped
  <1>6. ASSUME NEW v \in Compacter, Ctl!CompactLook(v) PROVE TurnsTyped'
    BY <1>0, <1>6 DEF Ctl!CompactLook, Ctl!world, TurnsTyped
  <1>7. ASSUME NEW v \in Compacter, Ctl!CompactWake(v) PROVE TurnsTyped'
    BY <1>0, <1>7 DEF Ctl!CompactWake, TurnsTyped
  <1>8. ASSUME NEW v \in Compacter, Ctl!CompactBase(v) PROVE TurnsTyped'
    BY <1>0, <1>8 DEF Ctl!CompactBase, Ctl!world, TurnsTyped
  <1>9. ASSUME NEW v \in Compacter, Ctl!CompactType(v) PROVE TurnsTyped'
    BY <1>0, <1>9 DEF Ctl!CompactType, TurnsTyped
  <1>10. ASSUME NEW v \in Compacter, Ctl!CompactDone(v) \/ Ctl!CompactVanished(v) \/ Ctl!CompactTimesOut(v) PROVE TurnsTyped'
    BY <1>0, <1>10 DEF Ctl!CompactDone, Ctl!CompactVanished, Ctl!CompactTimesOut, Ctl!world, TurnsTyped
  <1>11. ASSUME NEW v \in Goaler, Ctl!GoalLook(v) PROVE TurnsTyped'
    BY <1>0, <1>11 DEF Ctl!GoalLook, TurnsTyped
  <1>12. ASSUME NEW v \in Goaler, Ctl!GoalType(v) PROVE TurnsTyped'
    BY <1>0, <1>12 DEF Ctl!GoalType, TurnsTyped
  <1>13. ASSUME NEW v \in Goaler, Ctl!GoalPoll(v) \/ Ctl!GoalTimesOut(v) PROVE TurnsTyped'
    BY <1>0, <1>13 DEF Ctl!GoalPoll, Ctl!GoalTimesOut, Ctl!world, TurnsTyped
  <1>14. CASE UNCHANGED Ctl!vars
    BY <1>0, <1>14 DEF Ctl!vars, Ctl!world, TurnsTyped
  <1> QED BY <1>1, <1>2, <1>3, <1>4, <1>5, <1>6, <1>7, <1>8, <1>9, <1>10, <1>11, <1>12, <1>13, <1>14 DEF
     Ctl!Next, Ctl!Session, Ctl!Stop, Ctl!CompactVerb, Ctl!GoalVerb

LEMMA MarksTypeNext ==
  ASSUME Ctl!ControlAssumption, ControlTypes, [Ctl!Next]_Ctl!vars
  PROVE  MarksTyped'
  <1>0. MarksTyped /\ Compacter \subseteq Callers /\ None \in Callers
    BY DEF ControlTypes, Callers
  <1>1. ASSUME NEW r \in Rt, Ctl!TurnBegins(r) \/ Ctl!TurnEnds(r) \/ Ctl!AutoCompacts(r) PROVE MarksTyped'
    BY <1>0, <1>1 DEF Ctl!TurnBegins, Ctl!TurnEnds, Ctl!AutoCompacts, Ctl!World, MarksTyped
  <1>2. ASSUME NEW r \in Rt, Ctl!Compacts(r) PROVE MarksTyped'
    BY <1>0, <1>2 DEF Ctl!Compacts, Ctl!World, MarksTyped
  <1>3. ASSUME NEW r \in Rt, Ctl!Dies(r) \/ Ctl!Reaped(r) PROVE MarksTyped'
    BY <1>0, <1>3 DEF Ctl!Dies, Ctl!Reaped, Ctl!Ends, Ctl!World, MarksTyped
  <1>4. ASSUME NEW v \in Stopper, Ctl!StopLook(v) \/ Ctl!StopAnswers(v) PROVE MarksTyped'
    BY <1>0, <1>4 DEF Ctl!StopLook, Ctl!StopAnswers, Ctl!world, MarksTyped
  <1>5. ASSUME NEW v \in Stopper, NEW r \in Rt, Ctl!Interrupt(v, r) PROVE MarksTyped'
    BY <1>0, <1>5 DEF Ctl!Interrupt, MarksTyped
  <1>6. ASSUME NEW v \in Compacter, Ctl!CompactLook(v) PROVE MarksTyped'
    BY <1>0, <1>6 DEF Ctl!CompactLook, Ctl!world, MarksTyped
  <1>7. ASSUME NEW v \in Compacter, Ctl!CompactWake(v) PROVE MarksTyped'
    BY <1>0, <1>7 DEF Ctl!CompactWake, MarksTyped
  <1>8. ASSUME NEW v \in Compacter, Ctl!CompactBase(v) PROVE MarksTyped'
    BY <1>0, <1>8 DEF Ctl!CompactBase, Ctl!world, MarksTyped
  <1>9. ASSUME NEW v \in Compacter, Ctl!CompactType(v) PROVE MarksTyped'
    BY <1>0, <1>9 DEF Ctl!CompactType, MarksTyped
  <1>10. ASSUME NEW v \in Compacter, Ctl!CompactDone(v) \/ Ctl!CompactVanished(v) \/ Ctl!CompactTimesOut(v) PROVE MarksTyped'
    BY <1>0, <1>10 DEF Ctl!CompactDone, Ctl!CompactVanished, Ctl!CompactTimesOut, Ctl!world, MarksTyped
  <1>11. ASSUME NEW v \in Goaler, Ctl!GoalLook(v) PROVE MarksTyped'
    BY <1>0, <1>11 DEF Ctl!GoalLook, MarksTyped
  <1>12. ASSUME NEW v \in Goaler, Ctl!GoalType(v) PROVE MarksTyped'
    BY <1>0, <1>12 DEF Ctl!GoalType, MarksTyped
  <1>13. ASSUME NEW v \in Goaler, Ctl!GoalPoll(v) \/ Ctl!GoalTimesOut(v) PROVE MarksTyped'
    BY <1>0, <1>13 DEF Ctl!GoalPoll, Ctl!GoalTimesOut, Ctl!world, MarksTyped
  <1>14. CASE UNCHANGED Ctl!vars
    BY <1>0, <1>14 DEF Ctl!vars, Ctl!world, MarksTyped
  <1> QED BY <1>1, <1>2, <1>3, <1>4, <1>5, <1>6, <1>7, <1>8, <1>9, <1>10, <1>11, <1>12, <1>13, <1>14 DEF
     Ctl!Next, Ctl!Session, Ctl!Stop, Ctl!CompactVerb, Ctl!GoalVerb

LEMMA BaseTypeNext ==
  ASSUME Ctl!ControlAssumption, ControlTypes, [Ctl!Next]_Ctl!vars
  PROVE  BaseTyped'
  <1>0. BaseTyped /\ MarksTyped /\ Targeted /\ Compacter \subseteq Ctl!Verb
    BY DEF ControlTypes, Ctl!Verb
  <1>1. ASSUME NEW r \in Rt, Ctl!TurnBegins(r) \/ Ctl!TurnEnds(r) \/ Ctl!AutoCompacts(r) PROVE BaseTyped'
    BY <1>0, <1>1 DEF Ctl!TurnBegins, Ctl!TurnEnds, Ctl!AutoCompacts, Ctl!World, BaseTyped
  <1>2. ASSUME NEW r \in Rt, Ctl!Compacts(r) PROVE BaseTyped'
    BY <1>0, <1>2 DEF Ctl!Compacts, Ctl!World, BaseTyped
  <1>3. ASSUME NEW r \in Rt, Ctl!Dies(r) \/ Ctl!Reaped(r) PROVE BaseTyped'
    BY <1>0, <1>3 DEF Ctl!Dies, Ctl!Reaped, Ctl!Ends, Ctl!World, BaseTyped
  <1>4. ASSUME NEW v \in Stopper, Ctl!StopLook(v) \/ Ctl!StopAnswers(v) PROVE BaseTyped'
    BY <1>0, <1>4 DEF Ctl!StopLook, Ctl!StopAnswers, Ctl!world, BaseTyped
  <1>5. ASSUME NEW v \in Stopper, NEW r \in Rt, Ctl!Interrupt(v, r) PROVE BaseTyped'
    BY <1>0, <1>5 DEF Ctl!Interrupt, BaseTyped
  <1>6. ASSUME NEW v \in Compacter, Ctl!CompactLook(v) PROVE BaseTyped'
    BY <1>0, <1>6 DEF Ctl!CompactLook, Ctl!world, BaseTyped
  <1>7. ASSUME NEW v \in Compacter, Ctl!CompactWake(v) PROVE BaseTyped'
    BY <1>0, <1>7 DEF Ctl!CompactWake, BaseTyped
  <1>8. ASSUME NEW v \in Compacter, Ctl!CompactBase(v) PROVE BaseTyped'
    <2>1. tgt[v] \in Rt
      BY <1>0, <1>8 DEF Ctl!CompactBase, Targeted
    <2>2. Len(marks[tgt[v]]) \in Nat
      BY <1>0, <2>1 DEF MarksTyped
    <2> QED BY <1>0, <1>8, <2>2 DEF Ctl!CompactBase, Ctl!Baseline, BaseTyped
  <1>9. ASSUME NEW v \in Compacter, Ctl!CompactType(v) PROVE BaseTyped'
    BY <1>0, <1>9 DEF Ctl!CompactType, BaseTyped
  <1>10. ASSUME NEW v \in Compacter, Ctl!CompactDone(v) \/ Ctl!CompactVanished(v) \/ Ctl!CompactTimesOut(v) PROVE BaseTyped'
    BY <1>0, <1>10 DEF Ctl!CompactDone, Ctl!CompactVanished, Ctl!CompactTimesOut, Ctl!world, BaseTyped
  <1>11. ASSUME NEW v \in Goaler, Ctl!GoalLook(v) PROVE BaseTyped'
    BY <1>0, <1>11 DEF Ctl!GoalLook, BaseTyped
  <1>12. ASSUME NEW v \in Goaler, Ctl!GoalType(v) PROVE BaseTyped'
    BY <1>0, <1>12 DEF Ctl!GoalType, BaseTyped
  <1>13. ASSUME NEW v \in Goaler, Ctl!GoalPoll(v) \/ Ctl!GoalTimesOut(v) PROVE BaseTyped'
    BY <1>0, <1>13 DEF Ctl!GoalPoll, Ctl!GoalTimesOut, Ctl!world, BaseTyped
  <1>14. CASE UNCHANGED Ctl!vars
    BY <1>0, <1>14 DEF Ctl!vars, Ctl!world, BaseTyped
  <1> QED BY <1>1, <1>2, <1>3, <1>4, <1>5, <1>6, <1>7, <1>8, <1>9, <1>10, <1>11, <1>12, <1>13, <1>14 DEF
     Ctl!Next, Ctl!Session, Ctl!Stop, Ctl!CompactVerb, Ctl!GoalVerb

LEMMA VerbsTypeNext ==
  ASSUME Ctl!ControlAssumption, ControlTypes, [Ctl!Next]_Ctl!vars
  PROVE  VerbsTyped' /\ Targeted'
  <1>0. SessionsTyped /\ VerbsTyped /\ Targeted /\ Default \in Rt /\ (up # {} => Ctl!Resolved \in Rt)
        /\ Stopper \cup Compacter \cup Goaler \subseteq Ctl!Verb
    BY ResolvedIs DEF ControlTypes, SessionsTyped, Ctl!ControlAssumption, Ctl!Verb
  <1>1. ASSUME NEW r \in Rt, Ctl!TurnBegins(r) \/ Ctl!TurnEnds(r) \/ Ctl!AutoCompacts(r) PROVE VerbsTyped' /\ Targeted'
    BY <1>0, <1>1 DEF Ctl!TurnBegins, Ctl!TurnEnds, Ctl!AutoCompacts, Ctl!World, VerbsTyped, Targeted,
       SessionsTyped
  <1>2. ASSUME NEW r \in Rt, Ctl!Compacts(r) PROVE VerbsTyped' /\ Targeted'
    BY <1>0, <1>2 DEF Ctl!Compacts, Ctl!World, VerbsTyped, Targeted, SessionsTyped
  <1>3. ASSUME NEW r \in Rt, Ctl!Dies(r) \/ Ctl!Reaped(r) PROVE VerbsTyped' /\ Targeted'
    BY <1>0, <1>3 DEF Ctl!Dies, Ctl!Reaped, Ctl!Ends, Ctl!World, VerbsTyped, Targeted, SessionsTyped
  <1>4. ASSUME NEW v \in Stopper, Ctl!StopLook(v) \/ Ctl!StopAnswers(v) PROVE VerbsTyped' /\ Targeted'
    BY <1>0, <1>4 DEF Ctl!StopLook, Ctl!StopAnswers, Ctl!Targets, Ctl!world, Ctl!Goto, Ctl!Answer, VerbsTyped, Targeted,
       SessionsTyped
  <1>5. ASSUME NEW v \in Stopper, NEW r \in Rt, Ctl!Interrupt(v, r) PROVE VerbsTyped' /\ Targeted'
    BY <1>0, <1>5 DEF Ctl!Interrupt, VerbsTyped, Targeted, SessionsTyped
  <1>6. ASSUME NEW v \in Compacter, Ctl!CompactLook(v) PROVE VerbsTyped' /\ Targeted'
    BY <1>0, <1>6 DEF Ctl!CompactLook, Ctl!world, Ctl!Goto, Ctl!Answer, VerbsTyped, Targeted, SessionsTyped
  <1>7. ASSUME NEW v \in Compacter, Ctl!CompactWake(v) PROVE VerbsTyped' /\ Targeted'
    BY <1>0, <1>7 DEF Ctl!CompactWake, Ctl!Goto, Ctl!Answer, VerbsTyped, Targeted, SessionsTyped
  <1>8. ASSUME NEW v \in Compacter, Ctl!CompactBase(v) PROVE VerbsTyped' /\ Targeted'
    BY <1>0, <1>8 DEF Ctl!CompactBase, Ctl!world, Ctl!Goto, Ctl!Answer, VerbsTyped, Targeted, SessionsTyped
  <1>9. ASSUME NEW v \in Compacter, Ctl!CompactType(v) PROVE VerbsTyped' /\ Targeted'
    BY <1>0, <1>9 DEF Ctl!CompactType, Ctl!Goto, Ctl!Answer, VerbsTyped, Targeted, SessionsTyped
  <1>10. ASSUME NEW v \in Compacter, Ctl!CompactDone(v) \/ Ctl!CompactVanished(v) \/ Ctl!CompactTimesOut(v) PROVE VerbsTyped' /\ Targeted'
    BY <1>0, <1>10 DEF Ctl!CompactDone, Ctl!CompactVanished, Ctl!CompactTimesOut, Ctl!world, Ctl!Goto, Ctl!Answer,
       VerbsTyped, Targeted, SessionsTyped
  <1>11. ASSUME NEW v \in Goaler, Ctl!GoalLook(v) PROVE VerbsTyped' /\ Targeted'
    BY <1>0, <1>11 DEF Ctl!GoalLook, Ctl!Goto, Ctl!Answer, Ctl!Read, Ctl!Goal, VerbsTyped, Targeted, SessionsTyped
  <1>12. ASSUME NEW v \in Goaler, Ctl!GoalType(v) PROVE VerbsTyped' /\ Targeted'
    BY <1>0, <1>12 DEF Ctl!GoalType, Ctl!Goto, Ctl!Answer, VerbsTyped, Targeted, SessionsTyped
  <1>13. ASSUME NEW v \in Goaler, Ctl!GoalPoll(v) \/ Ctl!GoalTimesOut(v) PROVE VerbsTyped' /\ Targeted'
    BY <1>0, <1>13 DEF Ctl!GoalPoll, Ctl!GoalTimesOut, Ctl!world, Ctl!Goto, Ctl!Answer, VerbsTyped, Targeted,
       SessionsTyped
  <1>14. CASE UNCHANGED Ctl!vars
    BY <1>0, <1>14 DEF Ctl!vars, Ctl!world, VerbsTyped, Targeted, SessionsTyped
  <1> QED BY <1>1, <1>2, <1>3, <1>4, <1>5, <1>6, <1>7, <1>8, <1>9, <1>10, <1>11, <1>12, <1>13, <1>14 DEF
     Ctl!Next, Ctl!Session, Ctl!Stop, Ctl!CompactVerb, Ctl!GoalVerb

LEMMA ControlTypeNext == ASSUME Ctl!ControlAssumption, ControlTypes, [Ctl!Next]_Ctl!vars PROVE ControlTypes'
  BY SessionsTypeNext, TurnsTypeNext, MarksTypeNext, BaseTypeNext, VerbsTypeNext DEF ControlTypes

LEMMA StopSafe == ASSUME StopInv PROVE Ctl!StopStops
  BY DEF StopInv, Interrupted, Ctl!StopStops, Over

(* A stop that reports no failure has ended every turn that the peer was in      *)
(* when it was given (transport/index.ts, interruptAllLive).                    *)
THEOREM StopEndsTurns == Ctl!Spec => []Ctl!StopStops
  <1>1. Ctl!Init => StopInv
    BY StopInit
  <1>2. StopInv /\ [Ctl!Next]_Ctl!vars => StopInv'
    BY StopNext
  <1>3. StopInv => Ctl!StopStops
    BY StopSafe
  <1> QED BY <1>1, <1>2, <1>3, PTL DEF Ctl!Spec

-----------------------------------------------------------------------------
(* What an operator has stopped stays stopped, for any number of verbs that     *)
(* come between the calls of one another: a stop that nobody lifted has the     *)
(* override in place before it takes the job out, and no load gets past that.   *)
(* A stop still has its bootout before it, or the job is out for good. *)
Disabling == \E p \in Proc : pc[p] = "stop.disable"
TakingOut == \E p \in Proc : pc[p] = "stop.bootout"
HeldOff == off => Disabling \/ (disabled /\ (TakingOut \/ job # "up"))

OnInv == On!TypeOK /\ HeldOff

LEMMA OnInit == ASSUME On!AlwaysOnAssumption, On!Init PROVE OnInv
  <1>1. pc \in [Proc -> On!Step] /\ told \in [Proc -> {"nothing", "ok", "failed", "refused"}]
    BY DEF On!Init, On!Step
  <1>2. verbs \in 0 .. MaxVerb /\ faults \in 0 .. MaxFault
    BY DEF On!AlwaysOnAssumption, On!Init
  <1>3. plist \in BOOLEAN /\ disabled \in BOOLEAN /\ stopped \in BOOLEAN /\ off \in BOOLEAN
    BY DEF On!Init
  <1>4. job = "out" /\ watcher = "none" /\ host = "none" /\ ~off
    BY DEF On!Init
  <1> QED BY <1>1, <1>2, <1>3, <1>4 DEF OnInv, On!TypeOK, HeldOff

LEMMA Steps ==
  {"idle", "stop.disable", "stop.bootout", "stop.kill", "start.enable", "start.gone", "start.load",
   "bring.look", "bring.gone", "bring.load", "cycle.out", "cycle.gone", "cycle.load"} = On!Step
  BY DEF On!Step

(* launchd and the watcher: they load nothing. *)
LEMMA OthersLoadNothing ==
  ASSUME On!AlwaysOnAssumption, OnInv, On!Dismantle \/ On!KeepAlive \/ On!Watcher \/ On!HostUp \/ On!SessionDies \/ UNCHANGED On!vars
  PROVE  OnInv'
  <1>1. /\ UNCHANGED <<plist, disabled, stopped, pc, told, off, verbs>> /\ job' \in {job, "out"}
        /\ watcher' \in {"none", "look", "launch", "recheck", "watch", "stopping"}
        /\ host' \in {"none", "starting", "up"} /\ faults' \in 0 .. MaxFault
    BY DEF On!AlwaysOnAssumption, OnInv, On!TypeOK, On!Dismantle, On!KeepAlive, On!Watcher, On!Look, On!Launch, On!LaunchFails, On!HostUp, On!Recheck, On!NaturalDeath,
           On!StopSignal, On!SessionDies, On!WatcherOnly, On!vars
  <1>2. HeldOff'
    BY <1>1 DEF OnInv, HeldOff, Disabling, TakingOut
  <1> QED BY <1>1, <1>2 DEF OnInv, On!TypeOK

(* A verb's step goes on, or answers. *)
LEMMA VerbMoves ==
  ASSUME On!AlwaysOnAssumption, OnInv, NEW p \in Proc, NEW s \in On!Step,
         \/ On!Go(p, s)
         \/ s = "idle" /\ \E a \in {"ok", "failed", "refused"} : On!Answer(p, a)
  PROVE  /\ pc' \in [Proc -> On!Step] /\ told' \in [Proc -> {"nothing", "ok", "failed", "refused"}]
         /\ pc'[p] = s /\ \A q \in Proc : q # p => pc'[q] = pc[q]
  BY Steps DEF OnInv, On!TypeOK, On!Go, On!Answer

(* A bootout takes a job out that is up. *)
LEMMA OutOfTheWay ==
  ASSUME OnInv, On!Bootout
  PROVE  /\ job' \in {"out", "undead"}
         /\ watcher' \in {"none", "look", "launch", "recheck", "watch", "stopping"}
  BY DEF On!Bootout, OnInv, On!TypeOK

LEMMA StopKeeps ==
  ASSUME On!AlwaysOnAssumption, OnInv, NEW p \in Proc, On!StopPeer(p) \/ On!StopDisable(p) \/ On!StopBootout(p) \/ On!StopKill(p)
  PROVE  OnInv'
  <1>1. CASE On!StopPeer(p)
    <2>1. pc' \in [Proc -> On!Step] /\ told' \in [Proc -> {"nothing", "ok", "failed", "refused"}] /\ pc'[p] = "stop.disable"
      BY <1>1, Steps, VerbMoves DEF On!StopPeer
    <2>2. verbs' \in 0 .. MaxVerb
      BY <1>1 DEF On!StopPeer, On!Begin, OnInv, On!TypeOK, On!AlwaysOnAssumption
    <2> QED BY <1>1, <2>1, <2>2 DEF On!StopPeer, On!launchd, OnInv, On!TypeOK, HeldOff, Disabling
  <1>2. CASE On!StopDisable(p)
    <2>1. pc' \in [Proc -> On!Step] /\ told' \in [Proc -> {"nothing", "ok", "failed", "refused"}] /\ pc'[p] = "stop.bootout"
      BY <1>2, Steps, VerbMoves DEF On!StopDisable
    <2> QED BY <1>2, <2>1 DEF On!StopDisable, On!Run, OnInv, On!TypeOK, HeldOff, TakingOut
  <1>3. CASE On!StopBootout(p)
    <2>1. /\ pc' \in [Proc -> On!Step] /\ told' \in [Proc -> {"nothing", "ok", "failed", "refused"}]
          /\ \A q \in Proc : q # p => pc'[q] = pc[q]
      BY <1>3, Steps, VerbMoves DEF On!StopBootout
    <2>2. pc[p] = "stop.bootout"
      BY <1>3 DEF On!StopBootout, On!Run
    <2>3. HeldOff'
      BY <1>3, <2>1, <2>2, OutOfTheWay DEF On!StopBootout, On!Run, OnInv, HeldOff, Disabling
    <2> QED BY <1>3, <2>1, <2>3, OutOfTheWay DEF On!StopBootout, On!Run, OnInv, On!TypeOK
  <1>4. CASE On!StopKill(p)
    <2>1. /\ pc' \in [Proc -> On!Step] /\ told' \in [Proc -> {"nothing", "ok", "failed", "refused"}]
          /\ \A q \in Proc : q # p => pc'[q] = pc[q]
      BY <1>4, Steps, VerbMoves DEF On!StopKill
    <2>2. pc[p] = "stop.kill"
      BY <1>4 DEF On!StopKill, On!Run
    <2>3. HeldOff'
      BY <1>4, <2>1, <2>2 DEF On!StopKill, On!launchd, OnInv, HeldOff, Disabling, TakingOut
    <2> QED BY <1>4, <2>1, <2>3 DEF On!StopKill, On!Run, On!launchd, OnInv, On!TypeOK
  <1> QED BY <1>1, <1>2, <1>3, <1>4

(* Any other step of a verb leaves a stop to whoever is at it, and loads the     *)
(* job only where nothing holds it off.                                       *)
LEMMA VerbKeeps ==
  ASSUME On!AlwaysOnAssumption, OnInv, NEW p \in Proc, pc[p] \notin {"stop.disable", "stop.bootout"},
         NEW s \in On!Step, On!Go(p, s) \/ (s = "idle" /\ \E a \in {"ok", "failed", "refused"} : On!Answer(p, a)),
         plist' \in BOOLEAN, disabled' \in BOOLEAN, stopped' \in BOOLEAN, off' \in BOOLEAN,
         job' \in {"out", "up", "undead"}, watcher' \in {"none", "look", "launch", "recheck", "watch", "stopping"},
         host' = host, verbs' \in 0 .. MaxVerb, faults' \in 0 .. MaxFault,
         off' => off /\ disabled' = disabled,
         job' = "up" => job = "up" \/ ~disabled
  PROVE  OnInv'
  <1>1. /\ pc' \in [Proc -> On!Step] /\ told' \in [Proc -> {"nothing", "ok", "failed", "refused"}]
        /\ \A q \in Proc : q # p => pc'[q] = pc[q]
    BY VerbMoves
  <1>2. HeldOff'
    BY <1>1 DEF OnInv, HeldOff, Disabling, TakingOut
  <1> QED BY <1>1, <1>2 DEF OnInv, On!TypeOK

LEMMA LoadKeeps ==
  ASSUME On!AlwaysOnAssumption, OnInv, NEW p \in Proc, NEW at \in {"bring.load", "start.load", "cycle.load"}, On!Load(p, at)
  PROVE  OnInv'
  <1>1. /\ pc[p] \notin {"stop.disable", "stop.bootout"} /\ UNCHANGED <<plist, disabled, stopped, off, watcher, host, verbs>>
        /\ \E a \in {"ok", "failed", "refused"} : On!Answer(p, a)
    BY DEF On!Load, On!Run
  <1>2. job' \in {job, "up"} /\ (job' = "up" => job = "up" \/ ~disabled) /\ faults' \in 0 .. MaxFault
    BY DEF On!Load, On!Listed, OnInv, On!TypeOK, On!AlwaysOnAssumption
  <1> QED BY <1>1, <1>2, Steps, VerbKeeps DEF OnInv, On!TypeOK

LEMMA WaitKeeps ==
  ASSUME On!AlwaysOnAssumption, OnInv, NEW p \in Proc, On!BringGone(p) \/ On!StartGone(p) \/ On!CycleGone(p)
  PROVE  OnInv'
  <1>1. /\ pc[p] \notin {"stop.disable", "stop.bootout"}
        /\ UNCHANGED <<plist, job, disabled, stopped, off, watcher, host, faults, verbs>>
    BY DEF On!BringGone, On!StartGone, On!CycleGone, On!WaitForGone, On!Run, On!launchd
  <1>2. \/ \E s \in {"bring.load", "start.load", "cycle.load"} : On!Go(p, s)
        \/ \E a \in {"ok", "failed", "refused"} : On!Answer(p, a)
    BY DEF On!BringGone, On!StartGone, On!CycleGone, On!WaitForGone
  <1> QED BY <1>1, <1>2, Steps, VerbKeeps DEF OnInv, On!TypeOK

LEMMA BeginKeeps ==
  ASSUME On!AlwaysOnAssumption, OnInv, NEW p \in Proc, On!InitChannel(p) \/ On!StartPeer(p) \/ On!Cycle(p)
  PROVE  OnInv'
  <1>1. /\ pc[p] \notin {"stop.disable", "stop.bootout"} /\ verbs' \in 0 .. MaxVerb
        /\ UNCHANGED <<job, disabled, off, watcher, host, faults>>
    <2>1. pc[p] = "idle" /\ verbs' \in 0 .. MaxVerb
      BY DEF On!InitChannel, On!StartPeer, On!Cycle, On!Begin, OnInv, On!TypeOK, On!AlwaysOnAssumption
    <2>2. UNCHANGED <<job, disabled, off, watcher, host, faults>>
      BY DEF On!InitChannel, On!StartPeer, On!Cycle, On!launchd
    <2> QED BY <2>1, <2>2
  <1>2. \/ \E s \in {"bring.look", "start.enable", "cycle.out"} : On!Go(p, s)
        \/ \E a \in {"ok", "failed", "refused"} : On!Answer(p, a)
    BY DEF On!InitChannel, On!StartPeer, On!Cycle
  <1>3. plist' \in BOOLEAN /\ stopped' \in BOOLEAN
    BY DEF On!InitChannel, On!StartPeer, On!Cycle, On!launchd, OnInv, On!TypeOK
  <1> QED BY <1>1, <1>2, <1>3, Steps, VerbKeeps DEF OnInv, On!TypeOK

LEMMA BetweenKeeps ==
  ASSUME On!AlwaysOnAssumption, OnInv, NEW p \in Proc, On!BringLook(p) \/ On!StartEnable(p) \/ On!CycleOut(p)
  PROVE  OnInv'
  <1>1. CASE On!BringLook(p)
    BY <1>1, Steps, VerbKeeps DEF On!BringLook, On!Run, On!launchd, OnInv, On!TypeOK
  <1>2. CASE On!StartEnable(p)
    BY <1>2, Steps, VerbKeeps DEF On!StartEnable, On!Run, OnInv, On!TypeOK
  <1>3. CASE On!CycleOut(p)
    <2>1. \/ job' \in {"out", "undead"} /\ watcher' \in {"none", "look", "launch", "recheck", "watch", "stopping"}
          \/ job' = job /\ watcher' = watcher
      BY <1>3, OutOfTheWay DEF On!CycleOut
    <2>2. On!Go(p, "cycle.gone") \/ On!Answer(p, "failed")
      BY <1>3 DEF On!CycleOut
    <2> QED BY <1>3, <2>1, <2>2, Steps, VerbKeeps DEF On!CycleOut, On!Run, OnInv, On!TypeOK
  <1> QED BY <1>1, <1>2, <1>3

LEMMA OnNext == ASSUME On!AlwaysOnAssumption, OnInv, [On!Next]_On!vars PROVE OnInv'
  <1>1. ASSUME NEW p \in Proc, On!Verb(p) PROVE OnInv'
    BY <1>1, StopKeeps, LoadKeeps, WaitKeeps, BeginKeeps, BetweenKeeps DEF On!Verb, On!BringLoad, On!StartLoad, On!CycleLoad
  <1> QED BY <1>1, OthersLoadNothing DEF On!Next

LEMMA OnSafe == ASSUME OnInv PROVE On!OffStaysOff
  BY DEF OnInv, HeldOff, Disabling, TakingOut, On!OffStaysOff, On!Stopping

(* An operator's stop that nobody lifted holds whatever sweep, update or         *)
(* enrolment comes between its calls (stopPeer: the disable before the bootout). *)
THEOREM StoppedStaysStopped == ASSUME On!AlwaysOnAssumption PROVE On!Spec => []On!OffStaysOff
  <1>1. On!Init => OnInv
    BY OnInit
  <1>2. OnInv /\ [On!Next]_On!vars => OnInv'
    BY OnNext
  <1>3. OnInv => On!OffStaysOff
    BY OnSafe
  <1> QED BY <1>1, <1>2, <1>3, PTL DEF On!Spec

-----------------------------------------------------------------------------
(* Two daemons never serve, for any number of starts that overlap and any way   *)
(* they end: from the bind on, whoever comes up has the port, and the port is    *)
(* one process's.                                                              *)
ServesThePort == \A p \in Proc : pc[p] \in {"publish", "up"} => port = p

Listens == \A p \in Proc : pc[p] \in {"port", "publish", "up"} => p \in bound

QueuedOnce == \A p \in Proc : queue[p] <= queued

StartInv == Start!TypeOK /\ ServesThePort /\ Listens /\ QueuedOnce

LEMMA StartInit == ASSUME Start!DaemonAssumption, Start!Init PROVE StartInv
  <1>1. queue \in [Proc -> 0 .. MaxQueued] /\ QueuedOnce
    BY DEF Start!DaemonAssumption, Start!Init, QueuedOnce
  <1>2. pc \in [Proc -> Start!PCs] /\ ServesThePort /\ Listens /\ \A p \in Proc : pc[p] # "up"
    BY DEF Start!Init, Start!PCs, ServesThePort, Listens
  <1>3. /\ {sock, port, disc} \subseteq Proc \cup {None} /\ bound \subseteq Proc /\ lost \in BOOLEAN
        /\ starts \in 0 .. MaxStart /\ faults \in 0 .. StartFault /\ queued \in 0 .. MaxQueued
    <2>1. MaxStart \in Nat /\ StartFault \in Nat /\ MaxQueued \in Nat
      BY DEF Start!DaemonAssumption
    <2>2. starts = 0 /\ faults = 0 /\ queued = 0 /\ sock = None /\ port = None /\ disc = None /\ bound = {}
      BY DEF Start!Init
    <2>3. lost \in BOOLEAN
      BY DEF Start!Init
    <2> QED BY <2>1, <2>2, <2>3
  <1> QED BY <1>1, <1>2, <1>3 DEF StartInv, Start!TypeOK

(* A process moves on or ends: it keeps to itself, and has what it needs there. *)
LEMMA Moved ==
  ASSUME Start!DaemonAssumption, StartInv, NEW p \in Proc, NEW s \in Start!PCs, Start!Goto(p, s),
         {sock', disc', port'} \subseteq Proc \cup {None}, bound' \subseteq Proc,
         queue' = queue \/ queue' = [queue EXCEPT ![p] = 0], lost' \in BOOLEAN,
         starts' \in 0 .. MaxStart, faults' \in 0 .. StartFault, queued' = queued,
         s \in {"publish", "up"} => port' = p,
         s \in {"port", "publish", "up"} => p \in bound',
         \A q \in Proc : q # p /\ port = q => port' = q,
         \A q \in Proc : q # p /\ q \in bound => q \in bound'
  PROVE  StartInv'
  <1>1. pc'[p] = s /\ \A q \in Proc : q # p => pc'[q] = pc[q]
    BY DEF StartInv, Start!TypeOK, Start!Goto
  <1>2. pc' \in [Proc -> Start!PCs]
    BY DEF StartInv, Start!TypeOK, Start!Goto
  <1>3. ServesThePort' /\ Listens'
    BY <1>1 DEF StartInv, ServesThePort, Listens
  <1>4. queue' \in [Proc -> 0 .. MaxQueued] /\ QueuedOnce'
    BY DEF StartInv, Start!TypeOK, QueuedOnce, Start!DaemonAssumption
  <1> QED BY <1>2, <1>3, <1>4 DEF StartInv, Start!TypeOK, Listens

LEMMA Somewhere == {"gone", "probe", "unlink", "listen", "port", "publish", "up", "ending"} = Start!PCs
  BY DEF Start!PCs

LEMMA ExitKeeps ==
  ASSUME Start!DaemonAssumption, StartInv, NEW p \in Proc, Start!Exit(p), UNCHANGED <<sock, disc>>, lost' \in BOOLEAN,
         starts' = starts, faults' \in 0 .. StartFault, queued' = queued
  PROVE  StartInv'
  <1>1. /\ Start!Goto(p, "gone") /\ bound' = bound \ {p} /\ port' = IF port = p THEN None ELSE port
        /\ queue' = [queue EXCEPT ![p] = 0]
    BY DEF Start!Exit
  <1> QED BY <1>1, Moved, Somewhere DEF StartInv, Start!TypeOK

LEMMA StartingKeeps == ASSUME Start!DaemonAssumption, StartInv, NEW p \in Proc, Start!Starting(p) PROVE StartInv'
  <1>1. CASE Start!Start(p)
    BY <1>1, Moved, Somewhere DEF Start!Start, Start!Calm, StartInv, Start!TypeOK, Start!DaemonAssumption
  <1>2. CASE Start!Refused(p) \/ (Start!Unlink(p) /\ sock = None) \/ (Start!Listen(p) /\ sock # None) \/ (Start!Bind(p) /\ port # None)
    BY <1>2, ExitKeeps DEF Start!Refused, Start!Unlink, Start!Listen, Start!Bind, Start!TakePort, Start!Calm, StartInv, Start!TypeOK
  <1>3. CASE Start!Probe(p)
    <2>1. faults' \in 0 .. StartFault
      BY <1>3 DEF Start!Probe, StartInv, Start!TypeOK, Start!DaemonAssumption
    <2> QED BY <1>3, <2>1, Moved, Somewhere DEF Start!Probe, StartInv, Start!TypeOK
  <1>4. CASE (Start!Unlink(p) /\ sock # None) \/ (Start!Listen(p) /\ sock = None)
    BY <1>4, Moved, Somewhere DEF Start!Unlink, Start!Listen, Start!Calm, StartInv, Start!TypeOK
  <1>5. CASE Start!Bind(p) /\ port = None
    <2>1. p \in bound /\ port' = p /\ \A q \in Proc : port # q
      BY <1>5 DEF Start!Bind, Start!TakePort, StartInv, Listens, Start!DaemonAssumption
    <2> QED BY <1>5, <2>1, Moved, Somewhere DEF Start!Bind, Start!TakePort, Start!Calm, StartInv, Start!TypeOK
  <1>6. CASE Start!Publish(p)
    <2>1. p \in bound /\ port = p
      BY <1>6 DEF Start!Publish, StartInv, ServesThePort, Listens
    <2> QED BY <1>6, <2>1, Moved, Somewhere DEF Start!Publish, Start!Calm, StartInv, Start!TypeOK
  <1> QED BY <1>1, <1>2, <1>3, <1>4, <1>5, <1>6 DEF Start!Starting

LEMMA EndingKeeps == ASSUME Start!DaemonAssumption, StartInv, NEW p \in Proc, Start!Ending(p) PROVE StartInv'
  <1>1. CASE Start!Terminate(p)
    <2>1. faults' \in 0 .. StartFault
      BY <1>1 DEF Start!Terminate, StartInv, Start!TypeOK, Start!DaemonAssumption
    <2> QED BY <1>1, <2>1, Moved, Somewhere DEF Start!Terminate, StartInv, Start!TypeOK
  <1>2. CASE Start!Ended(p)
    BY <1>2, Moved, Somewhere DEF Start!Ended, Start!Calm, StartInv, Start!TypeOK
  <1>3. CASE Start!Dies(p) \/ Start!Throws(p)
    <2>1. faults' \in 0 .. StartFault
      BY <1>3 DEF Start!Dies, Start!Throws, StartInv, Start!TypeOK, Start!DaemonAssumption
    <2>2. lost' \in BOOLEAN
      BY <1>3 DEF Start!Dies, Start!Throws, StartInv, Start!TypeOK
    <2> QED BY <1>3, <2>1, <2>2, ExitKeeps DEF Start!Dies, Start!Throws
  <1> QED BY <1>1, <1>2, <1>3 DEF Start!Ending

LEMMA StartNext == ASSUME Start!DaemonAssumption, StartInv, [Start!Next]_Start!vars PROVE StartInv'
  <1>1. ASSUME NEW p \in Proc, Start!Queue(p) \/ Start!Drained(p) PROVE StartInv'
    <2> DEFINE n == IF Start!Queue(p) THEN queue[p] + 1 ELSE queue[p] - 1
    <2>1. /\ queue' = [queue EXCEPT ![p] = n] /\ queued' \in 0 .. MaxQueued /\ queued <= queued'
          /\ n \in 0 .. MaxQueued /\ n <= queued'
      <3>1. CASE Start!Queue(p)
        BY <3>1 DEF Start!Queue, StartInv, Start!TypeOK, QueuedOnce, Start!DaemonAssumption
      <3>2. CASE Start!Drained(p) /\ ~Start!Queue(p)
        BY <3>2 DEF Start!Drained, Start!Calm, StartInv, Start!TypeOK, QueuedOnce, Start!DaemonAssumption
      <3> QED BY <1>1, <3>1, <3>2
    <2> HIDE DEF n
    <2>2. queue' \in [Proc -> 0 .. MaxQueued] /\ QueuedOnce'
      BY <2>1 DEF StartInv, Start!TypeOK, QueuedOnce, Start!DaemonAssumption
    <2>3. UNCHANGED <<pc, sock, bound, port, disc, starts, lost, faults>>
      BY <1>1 DEF Start!Queue, Start!Drained, Start!Calm
    <2> QED BY <2>1, <2>2, <2>3 DEF StartInv, Start!TypeOK, ServesThePort, Listens
  <1>2. CASE UNCHANGED Start!vars
    BY <1>2 DEF Start!vars, StartInv, Start!TypeOK, ServesThePort, Listens, QueuedOnce
  <1> QED BY <1>1, <1>2, StartingKeeps, EndingKeeps DEF Start!Next

(* Finite and how many mean here what they mean in the module. *)
LEMMA StartCounts == ASSUME NEW S PROVE (Start!IsFiniteSet(S) <=> IsFiniteSet(S)) /\ Start!Cardinality(S) = Cardinality(S)
  BY DEF Start!IsFiniteSet, IsFiniteSet, Start!Cardinality, Cardinality

LEMMA StartSafe == ASSUME Start!DaemonAssumption, StartInv PROVE Start!OneServes
  <1>1. \A p, q \in Start!Up : p = q
    BY DEF StartInv, ServesThePort, Start!Up
  <1>2. CASE Start!Up = {}
    BY <1>2, StartCounts, FS_EmptySet DEF Start!OneServes
  <1>3. ASSUME NEW p \in Start!Up PROVE Start!OneServes
    <2>1. Start!Up = {p}
      BY <1>1
    <2>2. Cardinality({p}) = 1
      BY FS_Singleton
    <2>3. Start!Cardinality(Start!Up) = 1
      BY <2>1, <2>2, StartCounts
    <2> QED BY <2>3 DEF Start!OneServes
  <1> QED BY <1>2, <1>3

(* Two daemons never serve, not even when their starts overlap: the probe of     *)
(* the socket does not see to it, the port does (startDaemon).                  *)
THEOREM OneDaemonServes == ASSUME Start!DaemonAssumption PROVE Start!Spec => []Start!OneServes
  <1>1. Start!Init => StartInv
    BY StartInit
  <1>2. StartInv /\ [Start!Next]_Start!vars => StartInv'
    BY StartNext
  <1>3. StartInv => Start!OneServes
    BY StartSafe
  <1> QED BY <1>1, <1>2, <1>3, PTL DEF Start!Spec

-----------------------------------------------------------------------------
(* What holds of BootGate for any start-up screens and any patience: a session *)
(* that is called ready shows its composer, and no dialog is answered wrongly. *)
Keys == {"enter", "down", "two"}

\* The parts of TypeOK: what the program shows, what it is sent, and the verdict.
GateShown == /\ plan \in Seq(Gate!Dialogs) /\ screen \in Gate!Dialogs \cup {"none", "composer", "exited"} /\ cursor \in 1 .. 3
GateSent == queue \in Seq(Keys) /\ looks \in 0 .. MaxLook /\ same \in 0 .. StableLooks
GateSaid == /\ mode \in {"yolo", "gated"} /\ verdict \in {"waiting", "ready", "modal", "failed"}
        /\ painted \in BOOLEAN /\ driving \in BOOLEAN /\ trimmed \in BOOLEAN /\ slow \in BOOLEAN /\ declined \in BOOLEAN

LEMMA GateTypes == Gate!TypeOK <=> GateShown /\ GateSent /\ GateSaid
  BY DEF Gate!TypeOK, GateShown, GateSent, GateSaid, Keys

LEMMA GateTypeInit == ASSUME Gate!BootGateAssumption, Gate!Init PROVE Gate!TypeOK
  <1>1. GateShown
    BY DEF Gate!Init, GateShown, Gate!BootGateAssumption
  <1>2. GateSent
    BY DEF Gate!Init, GateSent, Gate!BootGateAssumption
  <1>3. GateSaid
    BY DEF Gate!Init, GateSaid
  <1> QED BY <1>1, <1>2, <1>3, GateTypes

LEMMA NextShown == ASSUME GateShown, Gate!NextScreen PROVE GateShown'
  BY DEF GateShown, Gate!NextScreen, Gate!Dialogs

(* What the driver presses on each screen. *)
LEMMA KeysPressed ==
  ASSUME NEW s, NEW c
  PROVE  Gate!BootDialogKeys(s, c) =
                CASE s = "trust" -> <<"enter">>
                  [] s \in {"picker", "bypass"} /\ c = 2 -> <<"enter">>
                  [] s \in {"picker", "bypass"} /\ c # 2 -> <<"down">>
                  [] s = "update" -> <<"two", "enter">>
                  [] s = "review" -> <<"two">>
                  [] OTHER -> <<>>
  <1>1. \A q \in Seq(Keys) : q \o <<>> = q /\ <<>> \o q = q
    OBVIOUS
  <1>2. <<"enter">> \in Seq(Keys) /\ <<"down">> \in Seq(Keys) /\ <<"two", "enter">> \in Seq(Keys)
        /\ <<"two">> \in Seq(Keys) /\ <<>> \in Seq(Keys)
    BY DEF Keys
  <1>3. Gate!ClaudeKeys(s, c) = CASE s = "trust" -> <<"enter">>
                                  [] s \in {"picker", "bypass"} /\ c = 2 -> <<"enter">>
                                  [] s \in {"picker", "bypass"} /\ c # 2 -> <<"down">>
                                  [] OTHER -> <<>>
    BY DEF Gate!ClaudeKeys
  <1>4. Gate!CodexKeys(s) = IF s = "update" THEN <<"two", "enter">> ELSE IF s = "review" THEN <<"two">> ELSE <<>>
    BY DEF Gate!CodexKeys
  <1>5. CASE s \in {"trust", "picker", "bypass"}
    <2>1. Gate!CodexKeys(s) = <<>>
      BY <1>4, <1>5
    <2> QED BY <1>1, <1>2, <1>3, <1>5, <2>1 DEF Gate!BootDialogKeys
  <1>6. CASE s \notin {"trust", "picker", "bypass"}
    <2>1. Gate!ClaudeKeys(s, c) = <<>>
      BY <1>3, <1>6
    <2> QED BY <1>1, <1>2, <1>4, <1>6, <2>1 DEF Gate!BootDialogKeys
  <1> QED BY <1>5, <1>6

LEMMA KeysTyped == ASSUME NEW s, NEW c PROVE Gate!BootDialogKeys(s, c) \in Seq(Keys)
  <1>1. <<"enter">> \in Seq(Keys) /\ <<"down">> \in Seq(Keys) /\ <<"two", "enter">> \in Seq(Keys)
        /\ <<"two">> \in Seq(Keys) /\ <<>> \in Seq(Keys)
    BY DEF Keys
  <1> QED BY <1>1, KeysPressed

LEMMA MoreKeys == ASSUME NEW q \in Seq(Keys), NEW r \in Seq(Keys) PROVE q \o r \in Seq(Keys)
  OBVIOUS

LEMMA Turned == ASSUME NEW c \in 1 .. 3, NEW k \in {2, 3} PROVE (c % k) + 1 \in 1 .. 3
  <1>1. CASE k = 2
    BY <1>1
  <1>2. CASE k = 3
    BY <1>2
  <1> QED BY <1>1, <1>2

LEMMA KeyTaken ==
  ASSUME GateShown, GateSent, GateSaid, Gate!TakeKey PROVE GateShown' /\ queue' \in Seq(Keys) /\ declined' \in BOOLEAN
  <1>1. queue' \in Seq(Keys) /\ Head(queue) \in Keys
    BY DEF GateSent, Gate!TakeKey
  <1>2. CASE screen \notin Gate!Dialogs
    BY <1>1, <1>2 DEF GateShown, GateSaid, Gate!TakeKey
  <1>3. CASE screen \in Gate!Dialogs /\ Head(queue) = "enter"
    <2>1. declined' \in BOOLEAN
      BY <1>3 DEF Gate!TakeKey
    <2>2. CASE screen = "bypass" /\ cursor = 1
      BY <1>1, <1>3, <2>1, <2>2 DEF Gate!TakeKey, GateShown
    <2>3. CASE ~(screen = "bypass" /\ cursor = 1)
      <3>1. Gate!NextScreen
        BY <1>3, <2>3 DEF Gate!TakeKey
      <3> QED BY <1>1, <2>1, <3>1, NextShown
    <2> QED BY <2>2, <2>3
  <1>4. CASE screen \in Gate!Dialogs /\ Head(queue) = "down"
    <2>1. cursor' = (cursor % Gate!Options[screen]) + 1 /\ UNCHANGED <<plan, screen, declined>>
      BY <1>4 DEF Gate!TakeKey
    <2>2. Gate!Options[screen] \in {2, 3}
      BY <1>4 DEF Gate!Options, Gate!Dialogs
    <2>3. cursor' \in 1 .. 3
      BY <2>1, <2>2, Turned DEF GateShown
    <2> QED BY <1>1, <2>1, <2>3 DEF GateShown, GateSaid
  <1>5. CASE screen \in Gate!Dialogs /\ Head(queue) = "two"
    <2>1. UNCHANGED declined /\ (Gate!NextScreen \/ (cursor' = 2 /\ UNCHANGED <<plan, screen>>))
      BY <1>5 DEF Gate!TakeKey
    <2> QED BY <1>1, <2>1, NextShown DEF GateShown, GateSaid
  <1> QED BY <1>1, <1>2, <1>3, <1>4, <1>5 DEF Keys

LEMMA GateTypeNext == ASSUME Gate!BootGateAssumption, Gate!TypeOK, [Gate!Next]_Gate!vars PROVE Gate!TypeOK'
  <1>0. GateShown /\ GateSent /\ GateSaid
    BY GateTypes
  <1> USE DEF Gate!child
  <1>1. CASE Gate!Paint
    <2>1. GateShown'
      BY <1>0, <1>1, NextShown DEF Gate!Paint
    <2>2. GateSent' /\ GateSaid'
      BY <1>0, <1>1 DEF Gate!Paint, GateSent, GateSaid
    <2> QED BY <2>1, <2>2 DEF Gate!TypeOK, GateShown, GateSent, GateSaid, Keys
  <1>2. CASE Gate!TakeKey
    <2>1. GateShown' /\ queue' \in Seq(Keys) /\ declined' \in BOOLEAN
      BY <1>0, <1>2, KeyTaken
    <2>2. UNCHANGED <<mode, painted, driving, verdict, looks, same, trimmed, slow>>
      BY <1>2 DEF Gate!TakeKey
    <2>3. GateSent' /\ GateSaid'
      BY <1>0, <2>1, <2>2 DEF GateSent, GateSaid
    <2> QED BY <2>1, <2>3 DEF Gate!TypeOK, GateShown, GateSent, GateSaid, Keys
  <1>3. CASE Gate!DriverLooks
    <2>1. GateShown' /\ UNCHANGED <<mode, verdict, looks, same, trimmed, declined, painted>>
      BY <1>0, <1>3 DEF Gate!DriverLooks, GateShown
    <2>2. queue' \in Seq(Keys)
      <3>1. queue' = queue \/ queue' = queue \o Gate!BootDialogKeys(screen, cursor)
        BY <1>3 DEF Gate!DriverLooks
      <3>2. Gate!BootDialogKeys(screen, cursor) \in Seq(Keys) /\ queue \in Seq(Keys)
        BY <1>0, KeysTyped DEF GateSent
      <3> QED BY <3>1, <3>2, MoreKeys
    <2>3. driving' \in BOOLEAN /\ slow' \in BOOLEAN
      BY <1>0, <1>3 DEF Gate!DriverLooks, GateSaid
    <2>4. GateSent' /\ GateSaid'
      BY <1>0, <2>1, <2>2, <2>3 DEF GateSent, GateSaid
    <2> QED BY <2>1, <2>4 DEF Gate!TypeOK, GateShown, GateSent, GateSaid, Keys
  <1>4. CASE Gate!DriverEnds \/ Gate!Trim
    <2>1. GateShown' /\ GateSent' /\ GateSaid'
      BY <1>0, <1>4 DEF Gate!DriverEnds, Gate!Trim, GateShown, GateSent, GateSaid
    <2> QED BY <2>1 DEF Gate!TypeOK, GateShown, GateSent, GateSaid, Keys
  <1>5. CASE Gate!Look \/ Gate!GiveUp
    <2>1. GateShown' /\ UNCHANGED <<mode, queue, driving, trimmed, slow, declined, painted>>
      BY <1>0, <1>5 DEF Gate!Look, Gate!GiveUp, GateShown
    <2>2. looks' \in 0 .. MaxLook
      BY <1>0, <1>5 DEF Gate!Look, Gate!GiveUp, GateSent, Gate!BootGateAssumption
    <2>3. same' \in 0 .. StableLooks
      BY <1>0, <1>5 DEF Gate!Look, Gate!GiveUp, GateSent, Gate!BootGateAssumption
    <2>4. verdict' \in {"waiting", "ready", "modal", "failed"}
      BY <1>0, <1>5 DEF Gate!Look, Gate!GiveUp, GateSaid
    <2>5. GateSent' /\ GateSaid'
      BY <1>0, <2>1, <2>2, <2>3, <2>4 DEF GateSent, GateSaid
    <2> QED BY <2>1, <2>5 DEF Gate!TypeOK, GateShown, GateSent, GateSaid, Keys
  <1>6. CASE UNCHANGED Gate!vars
    BY <1>6 DEF Gate!vars, Gate!TypeOK
  <1> QED BY <1>1, <1>2, <1>3, <1>4, <1>5, <1>6 DEF Gate!Next

(* While the driver is not ahead of the program, what is on its way is what it    *)
(* pressed for the screen that is still shown, or the rest of it.                *)
Pressed ==
  \/ queue = <<>>
  \/ queue = <<"enter">> /\ (screen \in Gate!Dialogs => cursor \in Gate!Right[screen])
  \/ queue = <<"down">> /\ screen \in {"picker", "bypass"}
  \/ queue = <<"two", "enter">> /\ screen = "update"
  \/ queue = <<"two">> /\ screen = "review"
FirstOption == screen = "trust" => cursor = 1
NothingYet == ~painted => queue = <<>>

GateInv == Gate!TypeOK /\ NothingYet /\ (~slow => Pressed /\ FirstOption /\ ~declined) /\ Gate!ReadyIsReal

LEMMA GateInit == ASSUME Gate!BootGateAssumption, Gate!Init PROVE GateInv
  BY GateTypeInit DEF Gate!Init, GateInv, NothingYet, Pressed, FirstOption, Gate!ReadyIsReal

LEMMA PressKeeps ==
  ASSUME GateInv, Gate!TakeKey, ~slow PROVE (Pressed /\ FirstOption /\ ~declined)'
  <1>1. queue # <<>> /\ queue' = Tail(queue) /\ Pressed /\ FirstOption /\ ~declined
    BY DEF Gate!TakeKey, GateInv
  <1>2. CASE screen \notin Gate!Dialogs
    <2>1. UNCHANGED <<plan, screen, cursor, declined>> /\ queue = <<"enter">>
      BY <1>1, <1>2 DEF Gate!TakeKey, Pressed, Gate!Dialogs
    <2>2. queue' = <<>>
      BY <1>1, <2>1
    <2> QED BY <1>1, <1>2, <2>1, <2>2 DEF Pressed, FirstOption
  <1>3. CASE screen \in Gate!Dialogs /\ queue = <<"enter">>
    <2>1. queue' = <<>> /\ Head(queue) = "enter"
      BY <1>1, <1>3
    <2>2. ~declined' /\ (screen' = "exited" \/ cursor' = 1)
      BY <1>1, <1>3, <2>1 DEF Gate!TakeKey, Pressed, Gate!NextScreen
    <2> QED BY <2>1, <2>2 DEF Pressed, FirstOption
  <1>4. CASE screen \in Gate!Dialogs /\ queue = <<"down">>
    <2>1. queue' = <<>> /\ Head(queue) = "down" /\ screen \in {"picker", "bypass"}
      BY <1>1, <1>4 DEF Pressed
    <2>2. UNCHANGED <<screen, declined>>
      BY <1>4, <2>1 DEF Gate!TakeKey
    <2> QED BY <1>1, <2>1, <2>2 DEF Pressed, FirstOption
  <1>5. CASE screen \in Gate!Dialogs /\ queue = <<"two", "enter">>
    <2>1. queue' = <<"enter">> /\ Head(queue) = "two" /\ screen = "update"
      BY <1>1, <1>5 DEF Pressed
    <2>2. UNCHANGED <<screen, declined>> /\ cursor' = 2
      BY <1>5, <2>1 DEF Gate!TakeKey
    <2> QED BY <1>1, <2>1, <2>2 DEF Pressed, FirstOption, Gate!Right
  <1>6. CASE screen \in Gate!Dialogs /\ queue = <<"two">>
    <2>1. queue' = <<>> /\ Head(queue) = "two" /\ screen = "review"
      BY <1>1, <1>6 DEF Pressed
    <2>2. UNCHANGED declined /\ cursor' = 1
      BY <1>6, <2>1 DEF Gate!TakeKey, Gate!NextScreen
    <2> QED BY <1>1, <2>1, <2>2 DEF Pressed, FirstOption
  <1> QED BY <1>1, <1>2, <1>3, <1>4, <1>5, <1>6 DEF Pressed

LEMMA GateNext == ASSUME Gate!BootGateAssumption, GateInv, [Gate!Next]_Gate!vars PROVE GateInv'
  <1>0. Gate!TypeOK /\ Gate!TypeOK'
    BY GateTypeNext DEF GateInv
  <1> USE DEF Gate!child
  <1>1. CASE Gate!Paint
    <2>1. queue = <<>> /\ queue' = queue /\ cursor' = 1 /\ painted' /\ UNCHANGED <<mode, verdict, trimmed, slow, declined>>
      BY <1>1 DEF Gate!Paint, Gate!NextScreen, GateInv, NothingYet
    <2>2. Gate!ReadyIsReal'
      BY <1>1, <2>1 DEF Gate!Paint, GateInv, Gate!ReadyIsReal
    <2> QED BY <1>0, <2>1, <2>2 DEF GateInv, NothingYet, Pressed, FirstOption
  <1>2. CASE Gate!TakeKey
    <2>1. painted /\ UNCHANGED <<mode, painted, verdict, trimmed, slow>>
      BY <1>2 DEF Gate!TakeKey
    <2>2. Gate!ReadyIsReal'
      BY <1>2, <2>1 DEF Gate!TakeKey, GateInv, Gate!ReadyIsReal, Gate!Dialogs
    <2>3. ~slow => (Pressed /\ FirstOption /\ ~declined)'
      BY <1>2, PressKeeps
    <2> QED BY <1>0, <2>1, <2>2, <2>3 DEF GateInv, NothingYet
  <1>3. CASE Gate!DriverLooks
    <2>1. painted /\ UNCHANGED <<mode, verdict, looks, same, trimmed, declined, plan, screen, cursor, painted>>
      BY <1>3 DEF Gate!DriverLooks
    <2>2. ASSUME ~slow' PROVE ~slow /\ Pressed' /\ FirstOption'
      <3>1. CASE Gate!BootDialogKeys(screen, cursor) = <<>>
        BY <1>3, <2>1, <2>2, <3>1 DEF Gate!DriverLooks, GateInv, Pressed, FirstOption
      <3>2. CASE Gate!BootDialogKeys(screen, cursor) # <<>>
        <4>1. queue = <<>> /\ queue' = queue \o Gate!BootDialogKeys(screen, cursor) /\ ~slow
          BY <1>3, <2>2, <3>2 DEF Gate!DriverLooks
        <4>2. queue' = Gate!BootDialogKeys(screen, cursor)
          BY <4>1, KeysTyped
        <4>3. FirstOption /\ cursor \in 1 .. 3
          BY <1>0, <4>1 DEF GateInv, Gate!TypeOK
        <4>4. Pressed'
          <5>1. screen \in {"trust", "picker", "bypass", "update", "review"}
            BY <3>2, KeysPressed
          <5>2. CASE screen = "trust"
            BY <2>1, <4>2, <4>3, <5>2, KeysPressed DEF Pressed, FirstOption, Gate!Right
          <5>3. CASE screen \in {"picker", "bypass"}
            BY <2>1, <4>2, <5>3, KeysPressed DEF Pressed, Gate!Right
          <5>4. CASE screen = "update"
            BY <2>1, <4>2, <5>4, KeysPressed DEF Pressed
          <5>5. CASE screen = "review"
            BY <2>1, <4>2, <5>5, KeysPressed DEF Pressed
          <5> QED BY <5>1, <5>2, <5>3, <5>4, <5>5
        <4> QED BY <2>1, <4>1, <4>3, <4>4 DEF FirstOption
      <3> QED BY <3>1, <3>2
    <2> QED BY <1>0, <2>1, <2>2 DEF GateInv, NothingYet, Gate!ReadyIsReal
  <1>4. CASE Gate!DriverEnds \/ Gate!Trim \/ UNCHANGED Gate!vars
    BY <1>0, <1>4 DEF Gate!DriverEnds, Gate!Trim, Gate!vars, GateInv, NothingYet, Pressed, FirstOption, Gate!ReadyIsReal
  <1>5. CASE Gate!Look \/ Gate!GiveUp
    <2>1. UNCHANGED <<mode, queue, trimmed, slow, declined, plan, screen, cursor, painted>>
      BY <1>5 DEF Gate!Look, Gate!GiveUp
    <2>2. Gate!ReadyIsReal'
      BY <1>5, <2>1 DEF Gate!Look, Gate!GiveUp, GateInv, Gate!ReadyIsReal, Gate!InputReady, Gate!View
    <2> QED BY <1>0, <2>1, <2>2 DEF GateInv, NothingYet, Pressed, FirstOption
  <1> QED BY <1>1, <1>2, <1>3, <1>4, <1>5 DEF Gate!Next

LEMMA GateTyped == ASSUME GateInv PROVE Gate!TypeOK
  BY DEF GateInv

(* A session is called ready only with its own composer on its screen            *)
(* (waitHostReady), and no start-up dialog gets the wrong answer, while the       *)
(* program takes a key before the driver looks again (bootDialogKeys).           *)
THEOREM BootIsSound == ASSUME Gate!BootGateAssumption PROVE Gate!Spec => [](Gate!ReadyIsReal /\ Gate!NeverDeclined)
  <1>1. Gate!Init => GateInv
    BY GateInit
  <1>2. GateInv /\ [Gate!Next]_Gate!vars => GateInv'
    BY GateNext
  <1>3. GateInv => Gate!ReadyIsReal /\ Gate!NeverDeclined
    BY DEF GateInv, Gate!NeverDeclined
  <1> QED BY <1>1, <1>2, <1>3, PTL DEF Gate!Spec

-----------------------------------------------------------------------------
(* What holds of PaneLog for any sizes, ages and number of copies: a reader finds *)
(* the last Keep units of the screen, whatever the janitor does to the file.     *)
PaneHand == [step : {"none", "rotate", "reclaim", "shrink"}, units : Seq(1 .. MaxUnit), at : 0 .. MaxTime]

\* The parts of TypeOK, with the whole of what the janitor holds.
Clocks == now \in 0 .. MaxTime /\ mtime \in 0 .. MaxTime /\ checked \in 0 .. MaxTime /\ live \in BOOLEAN
Inodes == path \in 0 .. born /\ fd \in 0 .. born /\ born \in Nat
Units == base \in Seq(1 .. MaxUnit) /\ unit \in 0 .. MaxUnit /\ hand \in PaneHand /\ noise \subseteq 1 .. MaxUnit
CopyList == copies \in Seq(Nat) /\ Len(copies) <= Copies

PaneTyped == Clocks /\ Inodes /\ Units /\ CopyList

LEMMA PaneTypes == ASSUME PaneTyped PROVE Pane!TypeOK
  BY DEF PaneTyped, Clocks, Inodes, Units, CopyList, PaneHand, Pane!TypeOK

LEMMA ElementIn == ASSUME NEW S, NEW s \in Seq(S), NEW i \in 1 .. Len(s) PROVE s[i] \in S
  OBVIOUS

(* The end of a list. *)
LEMMA LastNIs ==
  ASSUME NEW S, NEW s \in Seq(S), NEW n \in Nat
  PROVE  /\ Pane!LastN(s, n) \in Seq(S)
         /\ Len(s) <= n => Pane!LastN(s, n) = s
         /\ Len(s) > n => /\ Len(Pane!LastN(s, n)) = n
                          /\ \A i \in 1 .. n : Pane!LastN(s, n)[i] = s[Len(s) - n + i]
  <1>1. CASE Len(s) > n
    <2>1. Pane!LastN(s, n) = SubSeq(s, Len(s) - n + 1, Len(s))
      BY <1>1 DEF Pane!LastN
    <2>2. Len(s) - n + 1 \in 1 .. Len(s) + 1 /\ Len(s) \in Nat
      BY <1>1
    <2> QED BY <1>1, <2>1, <2>2
  <1>2. CASE Len(s) <= n
    <2>1. Len(s) \in Nat /\ ~(Len(s) > n)
      BY <1>2
    <2>2. Pane!LastN(s, n) = SubSeq(s, 1, Len(s))
      BY <2>1 DEF Pane!LastN
    <2>3. SubSeq(s, 1, Len(s)) = s
      OBVIOUS
    <2> QED BY <2>1, <2>2, <2>3
  <1> QED BY <1>1, <1>2

(* Units are written in order, so between two of a file there are as many as      *)
(* were written between them, or more.                                           *)
Spread(s) == \A i, j \in 1 .. Len(s) : i <= j => s[j] - s[i] >= j - i
Until(s) == \A i \in 1 .. Len(s) : s[i] <= unit

\* The last Keep units, but for the noise.
Recent(s) == \A u \in 1 .. unit : u + Keep > unit => u \in noise \/ \E i \in 1 .. Len(s) : s[i] = u

Writes == hand.step \in {"rotate", "shrink"}
NoName == path = 0 => base = <<>> /\ hand.step = "none"
PaneWriter == live => fd # 0

PaneInv == /\ PaneTyped /\ NoName /\ PaneWriter
           /\ Spread(base) /\ Until(base) /\ Recent(base)
           /\ Writes => Spread(hand.units) /\ Until(hand.units) /\ Recent(hand.units)

(* What is kept of a file that has the recent units has them too. *)
LEMMA LastKeeps ==
  ASSUME Pane!PaneLogAssumption, unit \in Nat, NEW s \in Seq(1 .. MaxUnit), NEW n \in Nat, n >= Keep,
         Spread(s), Until(s), Recent(s)
  PROVE  Spread(Pane!LastN(s, n)) /\ Until(Pane!LastN(s, n)) /\ Recent(Pane!LastN(s, n))
  <1>1. CASE Len(s) <= n
    <2>1. Pane!LastN(s, n) = s
      BY <1>1, LastNIs
    <2> QED BY <2>1
  <1>2. CASE Len(s) > n
    <2> DEFINE t == Pane!LastN(s, n)
               k == Len(s) - n
    <2>1. k \in Nat /\ Len(t) = n /\ Len(s) = n + k /\ \A i \in 1 .. n : t[i] = s[k + i]
      <3>1. Len(s) \in Nat
        OBVIOUS
      <3>2. Len(t) = n /\ \A i \in 1 .. n : t[i] = s[k + i]
        BY <1>2, LastNIs
      <3> QED BY <1>2, <3>1, <3>2
    <2> HIDE DEF t, k
    <2>2. \A i \in 1 .. Len(s) : s[i] \in Nat
      <3>1. \A i \in 1 .. Len(s) : s[i] \in 1 .. MaxUnit
        BY ElementIn
      <3> QED BY <3>1 DEF Pane!PaneLogAssumption
    <2>3. \A i \in 1 .. n : k + i \in 1 .. Len(s)
      BY <2>1
    <2>4. Spread(t)
      <3> SUFFICES ASSUME NEW i \in 1 .. n, NEW j \in 1 .. n, i <= j PROVE t[j] - t[i] >= j - i
        BY <2>1 DEF Spread
      <3>1. s[k + j] - s[k + i] >= (k + j) - (k + i)
        <4>1. k + i <= k + j
          BY <2>1
        <4> QED BY <2>3, <4>1 DEF Spread
      <3> QED BY <2>1, <2>2, <2>3, <3>1
    <2>5. Until(t)
      BY <2>1, <2>3 DEF Until
    <2>6. Recent(t)
      <3> SUFFICES ASSUME NEW u \in 1 .. unit, u + Keep > unit, u \notin noise
                   PROVE  \E i \in 1 .. n : t[i] = u
        BY <2>1 DEF Recent
      <3>1. PICK i \in 1 .. Len(s) : s[i] = u
        BY DEF Recent
      <3>2. s[Len(s)] - s[i] >= Len(s) - i /\ s[Len(s)] <= unit
        BY <1>2, <3>1 DEF Spread, Until
      <3>3. Keep \in Nat
        BY DEF Pane!PaneLogAssumption
      <3>4. i > k /\ i - k \in 1 .. n
        BY <2>1, <2>2, <3>1, <3>2, <3>3
      <3>5. t[i - k] = s[k + (i - k)] /\ k + (i - k) = i
        BY <2>1, <3>4
      <3> QED BY <3>1, <3>4, <3>5
    <2> QED BY <2>4, <2>5, <2>6 DEF t
  <1> QED BY <1>1, <1>2

LEMMA PaneInit == ASSUME Pane!PaneLogAssumption, Pane!Init PROVE PaneInv
  <1>1. PaneTyped
    <2>1. Clocks /\ Inodes /\ CopyList
      <3>1. CopyList
        BY DEF Pane!PaneLogAssumption, Pane!Init, CopyList
      <3>2. Inodes
        BY DEF Pane!Init, Inodes
      <3>3. 0 \in 0 .. MaxTime
        BY DEF Pane!PaneLogAssumption
      <3>4. Clocks
        BY <3>3 DEF Pane!Init, Clocks
      <3> QED BY <3>1, <3>2, <3>4
    <2>2. base \in Seq(1 .. MaxUnit) /\ unit \in 0 .. MaxUnit /\ noise \subseteq 1 .. MaxUnit
      BY DEF Pane!PaneLogAssumption, Pane!Init
    <2>3. hand \in PaneHand
      <3>1. 0 \in 0 .. MaxTime
        BY DEF Pane!PaneLogAssumption
      <3> QED BY <3>1 DEF Pane!Init, Pane!Nothing, PaneHand
    <2> QED BY <2>1, <2>2, <2>3 DEF PaneTyped, Units
  <1> QED BY <1>1 DEF Pane!Init, Pane!Nothing, PaneInv, NoName, PaneWriter, Spread, Until, Recent, Writes

(* The supervisor opens the file: none, then a new and empty one. *)
LEMMA OpenKeeps ==
  ASSUME Pane!PaneLogAssumption, PaneInv, Pane!OpenPaneLog, live', checked' = now, UNCHANGED <<now, copies, unit, hand, noise>>
  PROVE  PaneInv'
  <1>1. base' = base /\ fd' # 0 /\ path' # 0 /\ path' \in 0 .. born' /\ fd' \in 0 .. born' /\ born' \in Nat
        /\ mtime' \in {mtime, now}
    BY DEF Pane!OpenPaneLog, PaneInv, NoName, PaneTyped, Inodes
  <1>2. PaneTyped'
    BY <1>1 DEF PaneInv, PaneTyped, Clocks, Inodes, Units, CopyList
  <1> QED BY <1>1, <1>2 DEF PaneInv, NoName, PaneWriter, Spread, Until, Recent, Writes

LEMMA OutputKeeps == ASSUME Pane!PaneLogAssumption, PaneInv, Pane!Output PROVE PaneInv'
  <1>1. /\ unit < MaxUnit /\ unit' = unit + 1 /\ live /\ unit \in Nat /\ base \in Seq(1 .. MaxUnit) /\ MaxUnit \in Nat
        /\ UNCHANGED <<now, live, path, copies, fd, checked, born, hand>>
    BY DEF Pane!Output, PaneInv, PaneTyped, Units, Pane!PaneLogAssumption
  <1>2. noise \subseteq noise' /\ noise' \subseteq noise \cup {unit'} /\ (Writes => unit' \in noise')
    BY DEF Pane!Output, Writes
  <1>3. PaneTyped' /\ Spread(base)' /\ Until(base)' /\ Recent(base)' /\ NoName'
    <2>1. CASE fd = path
      <3>1. base' = Append(base, unit') /\ mtime' = now /\ path # 0
        BY <1>1, <2>1 DEF Pane!Output, PaneInv, PaneWriter
      <3>2. base' \in Seq(1 .. MaxUnit) /\ Len(base') = Len(base) + 1 /\ base'[Len(base) + 1] = unit'
            /\ \A i \in 1 .. Len(base) : base'[i] = base[i]
        BY <1>1, <3>1
      <3>3. PaneTyped'
        BY <1>1, <1>2, <3>1, <3>2 DEF PaneInv, PaneTyped, Clocks, Inodes, Units, CopyList
      <3>4. \A i \in 1 .. Len(base) : base[i] \in Nat /\ base[i] <= unit
        BY <1>1 DEF PaneInv, Until
      <3>5. Until(base)'
        <4> SUFFICES ASSUME NEW i \in 1 .. Len(base) + 1 PROVE base'[i] <= unit'
          BY <3>2 DEF Until
        <4>1. CASE i <= Len(base)
          <5>1. i \in 1 .. Len(base)
            BY <1>1, <4>1
          <5>2. base'[i] = base[i] /\ base[i] \in Nat /\ base[i] <= unit
            BY <3>2, <3>4, <5>1
          <5> QED BY <1>1, <5>2
        <4>2. CASE i = Len(base) + 1
          BY <1>1, <3>2, <4>2
        <4> QED BY <1>1, <4>1, <4>2
      <3>6. Spread(base)'
        <4> SUFFICES ASSUME NEW i \in 1 .. Len(base) + 1, NEW j \in 1 .. Len(base) + 1, i <= j
                     PROVE  base'[j] - base'[i] >= j - i
          BY <3>2 DEF Spread
        <4>1. CASE j <= Len(base)
          BY <3>2, <4>1 DEF PaneInv, Spread
        <4>2. CASE i = Len(base) + 1
          BY <1>1, <3>2, <4>2
        <4>3. CASE i <= Len(base) /\ j = Len(base) + 1
          <5>1. base[Len(base)] - base[i] >= Len(base) - i /\ base[Len(base)] <= unit
            BY <1>1, <3>4, <4>3 DEF PaneInv, Spread
          <5>2. base[Len(base)] \in Nat /\ base[i] \in Nat /\ Len(base) \in Nat /\ i \in Nat
            BY <1>1, <3>4, <4>3
          <5>3. base'[j] = unit + 1 /\ base'[i] = base[i]
            BY <1>1, <3>2, <4>3
          <5> QED BY <1>1, <4>3, <5>1, <5>2, <5>3
        <4> QED BY <1>1, <4>1, <4>2, <4>3
      <3>7. Recent(base)'
        <4> SUFFICES ASSUME NEW u \in 1 .. unit', u + Keep > unit', u \notin noise'
                     PROVE  \E i \in 1 .. Len(base') : base'[i] = u
          BY DEF Recent
        <4>1. CASE u = unit'
          BY <1>1, <3>2, <4>1
        <4>2. CASE u # unit'
          <5>1. u \in 1 .. unit /\ u + Keep > unit /\ u \notin noise
            BY <1>1, <1>2, <4>2 DEF Pane!PaneLogAssumption
          <5>2. PICK i \in 1 .. Len(base) : base[i] = u
            BY <5>1 DEF PaneInv, Recent
          <5> QED BY <1>1, <3>2, <5>2
        <4> QED BY <4>1, <4>2
      <3> QED BY <1>1, <3>1, <3>3, <3>5, <3>6, <3>7 DEF NoName
    <2>2. CASE fd # path
      <3>1. UNCHANGED <<base, mtime>> /\ unit' \in noise'
        BY <2>2 DEF Pane!Output
      <3>2. PaneTyped'
        BY <1>1, <1>2, <3>1 DEF PaneInv, PaneTyped, Clocks, Inodes, Units, CopyList
      <3>3. Until(base)'
        BY <1>1, <3>1 DEF PaneInv, Until
      <3>4. Recent(base)'
        <4> SUFFICES ASSUME NEW u \in 1 .. unit', u + Keep > unit', u \notin noise'
                     PROVE  \E i \in 1 .. Len(base') : base'[i] = u
          BY DEF Recent
        <4>1. u \in 1 .. unit /\ u + Keep > unit /\ u \notin noise
          BY <1>1, <1>2, <3>1 DEF Pane!PaneLogAssumption
        <4> QED BY <3>1, <4>1 DEF PaneInv, Recent
      <3> QED BY <1>1, <3>1, <3>2, <3>3, <3>4 DEF PaneInv, NoName, Spread
    <2> QED BY <2>1, <2>2
  <1>4. ASSUME Writes' PROVE Spread(hand.units)' /\ Until(hand.units)' /\ Recent(hand.units)'
    <2>1. Writes /\ unit' \in noise' /\ Spread(hand.units) /\ Until(hand.units) /\ Recent(hand.units)
      BY <1>1, <1>2, <1>4 DEF Writes, PaneInv
    <2>2. hand.units \in Seq(1 .. MaxUnit)
      BY DEF PaneInv, PaneTyped, Units, PaneHand
    <2>3. Until(hand.units)'
      BY <1>1, <2>1, <2>2 DEF Until
    <2>4. Recent(hand.units)'
      <3> SUFFICES ASSUME NEW u \in 1 .. unit', u + Keep > unit', u \notin noise'
                   PROVE  \E i \in 1 .. Len(hand'.units) : hand'.units[i] = u
        BY DEF Recent
      <3>1. u \in 1 .. unit /\ u + Keep > unit /\ u \notin noise
        BY <1>1, <1>2, <2>1 DEF Pane!PaneLogAssumption
      <3> QED BY <1>1, <2>1, <3>1 DEF Recent
    <2> QED BY <1>1, <2>1, <2>3, <2>4 DEF Spread
  <1> QED BY <1>1, <1>3, <1>4 DEF PaneInv, PaneWriter

LEMMA JanitorKeeps == ASSUME Pane!PaneLogAssumption, PaneInv, Pane!Janitor PROVE PaneInv'
  <1>0. /\ Cap \in Nat /\ Keep \in Nat /\ Keep >= Keep /\ Cap >= Keep /\ unit \in Nat /\ Copies \in Nat \ {0}
        /\ base \in Seq(1 .. MaxUnit) /\ hand \in PaneHand
    BY DEF Pane!PaneLogAssumption, PaneInv, PaneTyped, Units
  <1>1. CASE Pane!RotateRead
    <2>1. /\ hand' = [step |-> "rotate", units |-> Pane!LastN(base, Cap), at |-> mtime] /\ path # 0
          /\ UNCHANGED <<now, live, fd, checked, unit, born, noise, path, base, mtime, copies>>
      BY <1>1 DEF Pane!RotateRead, Pane!file
    <2>2. Pane!LastN(base, Cap) \in Seq(1 .. MaxUnit) /\ Spread(Pane!LastN(base, Cap)) /\ Until(Pane!LastN(base, Cap)) /\ Recent(Pane!LastN(base, Cap))
      BY <1>0, LastNIs, LastKeeps DEF PaneInv
    <2>3. PaneTyped'
      BY <2>1, <2>2 DEF PaneInv, PaneTyped, Clocks, Inodes, Units, CopyList, PaneHand
    <2>4. hand'.units = Pane!LastN(base, Cap)
      BY <2>1
    <2>5. Spread(hand.units)' /\ Until(hand.units)' /\ Recent(hand.units)'
      BY <2>1, <2>2, <2>4 DEF Spread, Until, Recent
    <2> QED BY <2>1, <2>3, <2>5 DEF PaneInv, NoName, PaneWriter, Spread, Until, Recent
  <1>2. CASE Pane!RotateWrite
    <2>1. /\ hand.step = "rotate" /\ base' = Pane!LastN(hand.units, Keep) /\ mtime' = now /\ hand' = Pane!Nothing
          /\ UNCHANGED <<now, live, path, fd, checked, unit, born, noise>>
      BY <1>2 DEF Pane!RotateWrite, Pane!Kept
    <2>2. hand.units \in Seq(1 .. MaxUnit) /\ Spread(hand.units) /\ Until(hand.units) /\ Recent(hand.units) /\ path # 0
      BY <1>0, <2>1 DEF PaneInv, PaneHand, Writes, NoName
    <2>3. base' \in Seq(1 .. MaxUnit) /\ Spread(base') /\ Until(base') /\ Recent(base')
      BY <1>0, <2>1, <2>2, LastNIs, LastKeeps
    <2>4. Spread(base)' /\ Until(base)' /\ Recent(base)'
      BY <2>1, <2>3 DEF Spread, Until, Recent
    <2>5. CopyList'
      <3> DEFINE all == <<Len(hand.units)>> \o copies
      <3>1. all \in Seq(Nat) /\ copies' = IF Len(all) > Copies THEN SubSeq(all, 1, Copies) ELSE all
        BY <1>2, <2>2 DEF Pane!RotateWrite, PaneInv, PaneTyped, CopyList
      <3> HIDE DEF all
      <3> QED BY <1>0, <3>1 DEF CopyList
    <2>6. PaneTyped'
      BY <2>1, <2>3, <2>5 DEF PaneInv, PaneTyped, Clocks, Inodes, Units, PaneHand, Pane!Nothing, Pane!PaneLogAssumption
    <2> QED BY <2>1, <2>2, <2>4, <2>6 DEF PaneInv, NoName, PaneWriter, Writes, Pane!Nothing
  <1>3. CASE Pane!ReclaimScan
    <2>1. /\ hand' = [step |-> "reclaim", units |-> <<>>, at |-> mtime] /\ path # 0
          /\ UNCHANGED <<now, live, fd, checked, unit, born, noise, path, base, mtime, copies>>
      BY <1>3 DEF Pane!ReclaimScan, Pane!file
    <2>2. PaneTyped'
      BY <2>1 DEF PaneInv, PaneTyped, Clocks, Inodes, Units, CopyList, PaneHand
    <2> QED BY <2>1, <2>2 DEF PaneInv, NoName, PaneWriter, Spread, Until, Recent, Writes
  <1>4. CASE Pane!Reclaim
    <2>1. /\ path' = 0 /\ base' = <<>> /\ hand' = Pane!Nothing /\ noise' = noise \cup Pane!Range(base)
          /\ UNCHANGED <<now, live, mtime, copies, fd, checked, unit, born>>
      BY <1>4 DEF Pane!Reclaim
    <2>2. \A i \in 1 .. Len(base) : base[i] \in noise'
      BY <1>0, <2>1 DEF Pane!Range
    <2>3. noise' \subseteq 1 .. MaxUnit
      <3>1. noise \subseteq 1 .. MaxUnit /\ \A i \in 1 .. Len(base) : base[i] \in 1 .. MaxUnit
        BY <1>0, ElementIn DEF PaneInv, PaneTyped, Units
      <3>2. Pane!Range(base) \subseteq 1 .. MaxUnit
        BY <1>0, <3>1 DEF Pane!Range
      <3> QED BY <2>1, <3>1, <3>2
    <2>4. PaneTyped'
      BY <2>1, <2>3 DEF PaneInv, PaneTyped, Clocks, Inodes, Units, CopyList, PaneHand, Pane!Nothing, Pane!PaneLogAssumption
    <2>5. Recent(base)'
      BY <2>1, <2>2 DEF PaneInv, Recent
    <2> QED BY <2>1, <2>4, <2>5 DEF PaneInv, NoName, PaneWriter, Spread, Until, Writes, Pane!Nothing
  <1>5. CASE Pane!DropCopies
    <2>1. copies \in Seq(Nat) /\ copies # <<>> /\ copies' = SubSeq(copies, 1, Len(copies) - 1) /\ Len(copies) <= Copies
      BY <1>5 DEF Pane!DropCopies, Pane!Front, PaneInv, PaneTyped, CopyList
    <2>2. CopyList'
      BY <1>0, <2>1 DEF CopyList
    <2>3. UNCHANGED <<now, live, path, base, mtime, fd, checked, unit, born, hand, noise>>
      BY <1>5 DEF Pane!DropCopies
    <2>4. PaneTyped'
      BY <2>2, <2>3 DEF PaneInv, PaneTyped, Clocks, Inodes, Units
    <2> QED BY <2>3, <2>4 DEF PaneInv, NoName, PaneWriter, Spread, Until, Recent, Writes
  <1>6. CASE Pane!ShrinkRead
    <2>1. /\ hand' = [step |-> "shrink", units |-> Pane!LastN(base, Keep), at |-> mtime] /\ path # 0
          /\ UNCHANGED <<now, live, fd, checked, unit, born, noise, path, base, mtime, copies>>
      BY <1>6 DEF Pane!ShrinkRead, Pane!file
    <2>2. Pane!LastN(base, Keep) \in Seq(1 .. MaxUnit) /\ Spread(Pane!LastN(base, Keep)) /\ Until(Pane!LastN(base, Keep)) /\ Recent(Pane!LastN(base, Keep))
      BY <1>0, LastNIs, LastKeeps DEF PaneInv
    <2>3. PaneTyped'
      BY <2>1, <2>2 DEF PaneInv, PaneTyped, Clocks, Inodes, Units, CopyList, PaneHand
    <2>4. hand'.units = Pane!LastN(base, Keep)
      BY <2>1
    <2>5. Spread(hand.units)' /\ Until(hand.units)' /\ Recent(hand.units)'
      BY <2>1, <2>2, <2>4 DEF Spread, Until, Recent
    <2> QED BY <2>1, <2>3, <2>5 DEF PaneInv, NoName, PaneWriter, Spread, Until, Recent
  <1>7. CASE Pane!ShrinkWrite
    <2>1. /\ hand.step = "shrink" /\ base' = hand.units /\ mtime' = hand.at /\ hand' = Pane!Nothing
          /\ UNCHANGED <<now, live, path, copies, fd, checked, unit, born, noise>>
      BY <1>7 DEF Pane!ShrinkWrite
    <2>2. /\ hand.units \in Seq(1 .. MaxUnit) /\ hand.at \in 0 .. MaxTime /\ path # 0
          /\ Spread(hand.units) /\ Until(hand.units) /\ Recent(hand.units)
      BY <1>0, <2>1 DEF PaneInv, PaneHand, Writes, NoName
    <2>3. Spread(base)' /\ Until(base)' /\ Recent(base)'
      BY <2>1, <2>2 DEF Spread, Until, Recent
    <2>4. PaneTyped'
      BY <2>1, <2>2 DEF PaneInv, PaneTyped, Clocks, Inodes, Units, CopyList, PaneHand, Pane!Nothing, Pane!PaneLogAssumption
    <2> QED BY <2>1, <2>2, <2>3, <2>4 DEF PaneInv, NoName, PaneWriter, Writes, Pane!Nothing
  <1> QED BY <1>1, <1>2, <1>3, <1>4, <1>5, <1>6, <1>7 DEF Pane!Janitor

LEMMA PaneNext == ASSUME Pane!PaneLogAssumption, PaneInv, [Pane!Next]_Pane!vars PROVE PaneInv'
  <1>1. CASE Pane!Start \/ Pane!HealPaneLog
    BY <1>1, OpenKeeps DEF Pane!Start, Pane!HealPaneLog
  <1>2. CASE Pane!Stop \/ Pane!Look \/ Pane!Clock \/ UNCHANGED Pane!vars
    <2>1. UNCHANGED <<path, base, mtime, copies, unit, born, hand, noise>>
      BY <1>2 DEF Pane!Stop, Pane!Look, Pane!Clock, Pane!vars, Pane!file
    <2>2. fd' \in {0, fd} /\ (live' => live /\ fd' = fd)
      BY <1>2 DEF Pane!Stop, Pane!Look, Pane!Clock, Pane!vars
    <2>3. now' \in 0 .. MaxTime /\ checked' \in 0 .. MaxTime
      BY <1>2 DEF Pane!Stop, Pane!Look, Pane!Clock, Pane!vars, PaneInv, PaneTyped, Clocks, Pane!PaneLogAssumption
    <2>4. live' \in BOOLEAN
      BY <1>2 DEF Pane!Stop, Pane!Look, Pane!Clock, Pane!vars, PaneInv, PaneTyped, Clocks
    <2>5. PaneTyped'
      BY <2>1, <2>2, <2>3, <2>4 DEF PaneInv, PaneTyped, Clocks, Inodes, Units, CopyList
    <2> QED BY <2>1, <2>2, <2>5 DEF PaneInv, NoName, PaneWriter, Spread, Until, Recent, Writes
  <1>3. CASE Pane!Output
    BY <1>3, OutputKeeps
  <1>4. CASE Pane!Janitor
    BY <1>4, JanitorKeeps
  <1> QED BY <1>1, <1>2, <1>3, <1>4 DEF Pane!Next

LEMMA PaneSafe == ASSUME PaneInv PROVE Pane!TailKept
  <1> SUFFICES ASSUME NEW u \in 1 .. unit, u + Keep > unit, u \notin noise
               PROVE  \E i \in 1 .. Len(base) : base[i] = u /\ \A j \in 1 .. i : base[j] <= u
    BY DEF Pane!TailKept
  <1>1. PICK i \in 1 .. Len(base) : base[i] = u
    BY DEF PaneInv, Recent
  <1>2. ASSUME NEW j \in 1 .. i PROVE base[j] <= u
    <2>1. base \in Seq(1 .. MaxUnit) /\ i \in Nat /\ j \in 1 .. Len(base) /\ j <= i /\ Len(base) \in Nat
      BY DEF PaneInv, PaneTyped, Units
    <2>2. base[i] - base[j] >= i - j
      BY <2>1 DEF PaneInv, Spread
    <2>3. base[i] \in 1 .. MaxUnit /\ base[j] \in 1 .. MaxUnit
      BY <2>1, ElementIn
    <2> QED BY <1>1, <2>1, <2>2, <2>3
  <1> QED BY <1>1, <1>2

LEMMA PaneIsTyped == ASSUME PaneInv PROVE Pane!TypeOK
  BY PaneTypes DEF PaneInv

(* The last Keep units of a session's output stay in its pane log, in order,     *)
(* through rotations, reclaims and shrinks by the janitor; those it may miss are  *)
(* the ones written while the janitor held the file or the name was gone.        *)
THEOREM TheTailIsKept == ASSUME Pane!PaneLogAssumption PROVE Pane!Spec => []Pane!TailKept
  <1>1. Pane!Init => PaneInv
    BY PaneInit
  <1>2. PaneInv /\ [Pane!Next]_Pane!vars => PaneInv'
    BY PaneNext
  <1>3. PaneInv => Pane!TailKept
    BY PaneSafe
  <1> QED BY <1>1, <1>2, <1>3, PTL DEF Pane!Spec

-----------------------------------------------------------------------------
(* The plugin counts on from the journal's last line as long as its process is  *)
(* there, and the state file never counts a line that is not on disk.           *)
JournalInv ==
  /\ journal \in Seq(Nat) /\ seq \in Nat /\ saved.seq \in Nat
  /\ Oc!SeqRises /\ Oc!StateNotAhead
  /\ up # "none" => seq = Oc!LastSeq

LEMMA TailOfJournal ==
  ASSUME NEW j \in Seq(Nat)
  PROVE  /\ j # <<>> => Oc!Last(j) \in Nat /\ Oc!Last(j) = j[Len(j)]
         /\ Len(j) \in Nat /\ (Len(j) = 0 <=> j = <<>>)
  BY DEF Oc!Last

LEMMA LineAppended ==
  ASSUME NEW j \in Seq(Nat), NEW n \in Nat, NEW k, k = Append(j, n)
  PROVE  /\ k \in Seq(Nat) /\ k # <<>> /\ Len(k) = Len(j) + 1 /\ k[Len(j) + 1] = n
         /\ \A i \in 1 .. Len(j) : k[i] = j[i]
  OBVIOUS

LEMMA LastIs == ASSUME journal \in Seq(Nat) PROVE Oc!LastSeq \in Nat
  BY TailOfJournal DEF Oc!LastSeq, Oc!Last

(* One more line, with a number above the last one. *)
LEMMA OneMoreLine ==
  ASSUME JournalInv, NEW n \in Nat, n > Oc!LastSeq, journal' = Append(journal, n), seq' = n,
         saved' = saved \/ saved'.seq = n
  PROVE  JournalInv'
  <1>0. /\ journal \in Seq(Nat) /\ journal' \in Seq(Nat) /\ journal' # <<>>
        /\ Len(journal) \in Nat /\ Len(journal') = Len(journal) + 1 /\ journal'[Len(journal) + 1] = n
        /\ \A k \in 1 .. Len(journal) : journal'[k] = journal[k]
    BY TailOfJournal, LineAppended DEF JournalInv
  <1>1. Oc!LastSeq' = n
    BY <1>0 DEF Oc!LastSeq, Oc!Last
  <1>2. Oc!SeqRises'
    <2> SUFFICES ASSUME NEW i \in 1 .. Len(journal') - 1 PROVE journal'[i] < journal'[i + 1]
      BY DEF Oc!SeqRises
    <2>1. i \in 1 .. Len(journal)
      BY <1>0
    <2>2. CASE i = Len(journal)
      <3>1. journal[i] = Oc!LastSeq
        BY <1>0, <2>1, <2>2, TailOfJournal DEF Oc!LastSeq, Oc!Last
      <3> QED BY <1>0, <2>1, <2>2, <3>1
    <2>3. CASE i # Len(journal)
      <3>1. i \in 1 .. Len(journal) - 1 /\ i \in 1 .. Len(journal) /\ i + 1 \in 1 .. Len(journal)
        BY <1>0, <2>1, <2>3
      <3> QED BY <1>0, <3>1 DEF JournalInv, Oc!SeqRises
    <2> QED BY <2>2, <2>3
  <1>3. saved'.seq \in Nat /\ saved'.seq <= n
    BY LastIs DEF JournalInv, Oc!StateNotAhead
  <1> QED BY <1>0, <1>1, <1>2, <1>3 DEF JournalInv, Oc!StateNotAhead

LEMMA JournalNext == ASSUME JournalInv, [Oc!Next]_Oc!vars PROVE JournalInv'
  <1>0. Oc!LastSeq \in Nat
    BY LastIs DEF JournalInv
  <1>1. ASSUME UNCHANGED <<journal, saved, seq>>, up' # "none" => up # "none" PROVE JournalInv'
    BY <1>1 DEF JournalInv, Oc!SeqRises, Oc!StateNotAhead, Oc!LastSeq, Oc!Last
  <1>2. CASE Oc!Native \/ Oc!AskPermission \/ Oc!AnswerNatively \/ Oc!BrokerAnswers
    BY <1>1, <1>2 DEF Oc!Native, Oc!BeginTurn, Oc!EndTurn, Oc!Summarised, Oc!Persist, Oc!AskPermission, Oc!AnswerNatively,
                      Oc!BrokerAnswers, Oc!NativeOnly, Oc!plugin, Oc!files
  <1>3. CASE Oc!Launch
    <2>1. UNCHANGED journal /\ seq' = Oc!LastSeq /\ saved'.seq = Oc!LastSeq
      BY <1>3 DEF Oc!Launch
    <2> QED BY <1>0, <2>1 DEF JournalInv, Oc!SeqRises, Oc!StateNotAhead, Oc!LastSeq, Oc!Last
  <1>4. CASE Oc!Ready \/ Oc!Hear
    <2>1. seq' = seq + 1 /\ journal' = Append(journal, seq') /\ up # "none" /\ UNCHANGED saved
      BY <1>4 DEF Oc!Ready, Oc!Hear, Oc!Running, Oc!Record
    <2> QED BY <1>0, <2>1, OneMoreLine DEF JournalInv
  <1>5. CASE Oc!Save
    <2>1. UNCHANGED <<journal, seq, up>> /\ saved'.seq = seq /\ up # "none"
      BY <1>5 DEF Oc!Save, Oc!WriteState
    <2> QED BY <1>0, <2>1 DEF JournalInv, Oc!SeqRises, Oc!StateNotAhead, Oc!LastSeq, Oc!Last
  <1>6. CASE Oc!Die \/ Oc!Retire
    <2>1. up' = "none" /\ Oc!RecordStopped
      BY <1>6 DEF Oc!Die, Oc!Retire, Oc!Gone
    <2>2. CASE UNCHANGED <<seq, Oc!files>>
      BY <1>1, <2>1, <2>2 DEF Oc!files
    <2>3. CASE ~UNCHANGED <<seq, Oc!files>>
      <3>1. journal' = Append(journal, Oc!LastSeq + 1) /\ seq' = Oc!LastSeq + 1 /\ saved'.seq = Oc!LastSeq + 1
        BY <2>1, <2>3 DEF Oc!RecordStopped, Oc!NextSeq
      <3> QED BY <1>0, <3>1, OneMoreLine
    <2> QED BY <2>2, <2>3
  <1>7. CASE Oc!Dispose
    <2>1. seq' = seq + 1 /\ journal' = Append(journal, seq') /\ up # "none" /\ saved'.seq = seq'
      BY <1>7 DEF Oc!Dispose, Oc!Running
    <2> QED BY <1>0, <2>1, OneMoreLine DEF JournalInv
  <1>8. CASE Oc!Control \/ Oc!Interrupt \/ Oc!Compact \/ Oc!AcquireLease \/ Oc!LeaseLapses \/ Oc!Commit \/ UNCHANGED Oc!vars
    BY <1>1, <1>8 DEF Oc!Control, Oc!PrepareReload, Oc!FenceLifts, Oc!CompactEnds, Oc!Deliver, Oc!Prompt, Oc!Acked,
                      Oc!AckTimesOut, Oc!Interrupt, Oc!Compact, Oc!AcquireLease, Oc!LeaseLapses, Oc!Commit, Oc!vars,
                      Oc!plugin, Oc!files
  <1> QED BY <1>2, <1>3, <1>4, <1>5, <1>6, <1>7, <1>8 DEF Oc!Next, Oc!Reload

(* The journal's numbers rise and its state file is never ahead of it, over any  *)
(* number of launches, deaths between a line and the state, and records that the *)
(* supervisor adds (lastSeq, recordOpencodeStopped).                            *)
THEOREM JournalRises == Oc!Spec => [](Oc!SeqRises /\ Oc!StateNotAhead)
  <1>1. Oc!Init => JournalInv
    BY DEF Oc!Init, Oc!NoState, JournalInv, Oc!SeqRises, Oc!StateNotAhead, Oc!LastSeq
  <1>2. JournalInv /\ [Oc!Next]_Oc!vars => JournalInv'
    BY JournalNext
  <1>3. JournalInv => Oc!SeqRises /\ Oc!StateNotAhead
    BY DEF JournalInv
  <1> QED BY <1>1, <1>2, <1>3, PTL DEF Oc!Spec

-----------------------------------------------------------------------------
(* A fence that holds means an idle session: input that is let through gives a  *)
(* fence past its time up first.                                               *)
FenceTyped ==
  fence = [owner |-> fence.owner, phase |-> fence.phase, expired |-> fence.expired]
FencedIsIdle ==
  /\ fence.owner # "none" => fence.phase = "ready"
  /\ fence.phase = "ready" /\ ~fence.expired => ~turn
FenceInv == FenceTyped /\ FencedIsIdle

LEMMA FenceNext == ASSUME Rel!ReloadAssumption, FenceInv, [Rel!Next]_Rel!vars PROVE FenceInv'
  <1>0. "none" \notin Rel!Proc /\ (FenceInv /\ UNCHANGED <<turn, fence>> => FenceInv')
    BY DEF Rel!ReloadAssumption, Rel!Proc, FenceInv, FenceTyped, FencedIsIdle
  <1>1. CASE \/ Rel!Edit \/ Rel!Start \/ Rel!WakeBegins \/ UNCHANGED Rel!vars
             \/ \E r \in Req : Rel!Ask(r) \/ Rel!AskRetire(r) \/ Rel!Watch(r)
    BY <1>0, <1>1 DEF Rel!Edit, Rel!Start, Rel!WakeBegins, Rel!vars, Rel!Ask, Rel!AskRetire, Rel!Watch, Rel!sessionVars
  <1>2. CASE Rel!Type \/ Rel!Stop
    <2>1. fence' = [owner |-> "none", phase |-> "free", expired |-> FALSE]
      BY <1>2 DEF Rel!Type, Rel!Stop, Rel!NoFence
    <2> QED BY <2>1 DEF FenceInv, FenceTyped, FencedIsIdle
  <1>3. CASE Rel!EndTurn \/ Rel!Expire
    BY <1>3 DEF Rel!EndTurn, Rel!Expire, FenceInv, FenceTyped, FencedIsIdle
  <1>4. ASSUME NEW p \in Rel!Proc, \/ Rel!Apply(p) \/ Rel!Enter(p) \/ Rel!Remove(p) \/ Rel!Prepare(p) \/ Rel!Spawn(p)
                                   \/ Rel!BootFails(p) \/ Rel!Up(p) \/ Rel!Lost(p)
        PROVE  FenceInv'
    BY <1>0, <1>4 DEF Rel!Apply, Rel!Enter, Rel!Remove, Rel!Prepare, Rel!Spawn, Rel!BootFails, Rel!Up, Rel!Lost,
                      Rel!sessionVars
  <1>5. ASSUME NEW p \in Rel!Proc, Rel!AcquireFence(p) PROVE FenceInv'
    <2>1. CASE UNCHANGED <<turn, fence>>
      BY <1>0, <2>1
    <2>2. CASE fence' = [owner |-> p, phase |-> "ready", expired |-> FALSE] /\ ~turn /\ turn' = turn
      BY <2>2 DEF FenceInv, FenceTyped, FencedIsIdle
    <2> QED BY <1>5, <2>1, <2>2 DEF Rel!AcquireFence
  <1>6. ASSUME NEW p \in Rel!Proc, Rel!Owe(p) \/ Rel!RetireHost(p) \/ Rel!Die(p) PROVE FenceInv'
    <2>1. (UNCHANGED <<turn, fence>>) \/ (fence' = Rel!NoFence /\ turn' \in {turn, FALSE})
      BY <1>6 DEF Rel!Owe, Rel!RetireHost, Rel!Die
    <2>2. CASE fence' = [owner |-> "none", phase |-> "free", expired |-> FALSE]
      BY <2>2 DEF FenceInv, FenceTyped, FencedIsIdle
    <2> QED BY <1>0, <2>1, <2>2 DEF Rel!NoFence
  <1> QED BY <1>1, <1>2, <1>3, <1>4, <1>5, <1>6 DEF Rel!Next

(* Only the fence's owner takes the host away from a reload that is about to    *)
(* retire it: nobody else boots or fails meanwhile.                             *)
LEMMA RetiresFenced ==
  ASSUME Rel!ReloadAssumption, ReloadInv, FenceInv, Rel!Next, NEW p \in Rel!Proc,
         job[p].pc = "retire", host = "ready", host' = "none", ~stopped'
  PROVE  ~turn
  <1>1. lock = p /\ \A q \in Rel!Proc : q # p => job[q].pc \notin Inside
    BY AloneInLock DEF Inside
  <1>2. PICK q \in Rel!Proc : Rel!RetireHost(q) \/ Rel!BootFails(q)
    BY DEF Rel!Next, Rel!Edit, Rel!Type, Rel!EndTurn, Rel!Expire, Rel!Stop, Rel!Start, Rel!WakeBegins, Rel!Ask, Rel!AskRetire,
           Rel!Watch, Rel!Apply, Rel!Enter, Rel!AcquireFence, Rel!Owe, Rel!Remove, Rel!Prepare, Rel!Spawn, Rel!Up, Rel!Lost,
           Rel!Die, Rel!sessionVars
  <1>3. CASE Rel!RetireHost(q)
    <2>1. Rel!Holds(q)
      BY <1>3 DEF Rel!RetireHost
    <2> QED BY <2>1 DEF Rel!Holds, FenceInv, FencedIsIdle, Rel!ReloadAssumption, Rel!Proc
  <1>4. CASE Rel!BootFails(q)
    BY <1>1, <1>4 DEF Rel!BootFails, Inside
  <1> QED BY <1>2, <1>3, <1>4

(* A reload takes a host away only while its session is idle, for any number of  *)
(* requests, processes, prompts, stops and deaths (the fence of                 *)
(* supervisor/daemon.ts).                                                       *)
THEOREM ReloadCutsNoTurn == ASSUME Rel!ReloadAssumption PROVE Rel!Spec => Rel!RetiredIdle
  <1>1. Rel!Init => ReloadInv /\ FenceInv
    <2>1. Rel!Init => fence = [owner |-> "none", phase |-> "free", expired |-> FALSE]
      BY DEF Rel!Init, Rel!NoFence
    <2> QED BY <2>1, ReloadInit DEF FenceInv, FenceTyped, FencedIsIdle
  <1>2. ReloadInv /\ FenceInv /\ [Rel!Next]_Rel!vars => (ReloadInv /\ FenceInv)'
    BY ReloadNext, FenceNext
  <1>3. ReloadInv /\ FenceInv /\ [Rel!Next]_Rel!vars
        => [\A p \in Rel!Proc : job[p].pc = "retire" /\ host = "ready" /\ host' = "none" /\ ~stopped' => ~turn]_Rel!vars
    BY RetiresFenced
  <1> QED BY <1>1, <1>2, <1>3, PTL DEF Rel!Spec, Rel!RetiredIdle

-----------------------------------------------------------------------------
(* Until its verb has typed, no compaction of its own is asked for or marked;    *)
(* from its baseline on, the marks it causes come behind the baseline.           *)
Early == {"new", "wake", "base", "type"}
Behind(v) ==
  /\ pc[v] = "new" => base[v] = 0
  /\ pc[v] \in Early => \A r \in Rt : v \notin asked[r] /\ \A i \in 1 .. Len(marks[r]) : marks[r][i] # v
  /\ pc[v] \in {"type", "wait"} /\ tgt[v] \in Rt => base[v] <= Len(marks[tgt[v]])
  /\ pc[v] = "wait" /\ tgt[v] \in Rt
       => \A i \in 1 .. Len(marks[tgt[v]]) : marks[tgt[v]][i] = v => base[v] < i
DoneInv == \A v \in Compacter : Behind(v)

LEMMA MarkAdded ==
  ASSUME NEW S, NEW q \in Seq(S), NEW x \in S, NEW k, k = Append(q, x)
  PROVE  /\ Len(k) = Len(q) + 1 /\ Len(q) \in Nat /\ k[Len(q) + 1] = x
         /\ \A i \in 1 .. Len(q) : k[i] = q[i]
  OBVIOUS

LEMMA DoneInit == ASSUME Ctl!Init PROVE DoneInv
  <1>1. \A v \in Compacter : v \in Ctl!Verb /\ pc[v] = "new" /\ base[v] = 0
    BY DEF Ctl!Init, Ctl!Verb
  <1>2. \A r \in Rt : asked[r] = {} /\ Len(marks[r]) = 0
    BY DEF Ctl!Init
  <1> QED BY <1>1, <1>2 DEF DoneInv, Behind, Early

(* A session marks what was asked of it, and asks only for what is nobody's. *)
LEMMA SessionMarks ==
  ASSUME ControlTypes, NEW r \in Rt, Ctl!Session(r)
  PROVE  /\ UNCHANGED <<pc, base, tgt>>
         /\ \A s \in Rt : /\ asked'[s] \subseteq asked[s] \cup {None}
                          /\ marks'[s] = marks[s] \/ \E w \in asked[s] : marks'[s] = Append(marks[s], w)
  <1>0. MarksTyped
    BY DEF ControlTypes
  <1>1. CASE Ctl!TurnBegins(r) \/ Ctl!TurnEnds(r)
    BY <1>1 DEF Ctl!TurnBegins, Ctl!TurnEnds, Ctl!World
  <1>2. CASE Ctl!AutoCompacts(r)
    BY <1>0, <1>2 DEF Ctl!AutoCompacts, Ctl!World, MarksTyped
  <1>3. CASE Ctl!Compacts(r)
    BY <1>0, <1>3 DEF Ctl!Compacts, Ctl!World, MarksTyped
  <1>4. CASE Ctl!Dies(r) \/ Ctl!Reaped(r)
    BY <1>0, <1>4 DEF Ctl!Dies, Ctl!Reaped, Ctl!Ends, Ctl!World, MarksTyped
  <1> QED BY <1>1, <1>2, <1>3, <1>4 DEF Ctl!Session

LEMMA SessionBehind ==
  ASSUME Ctl!ControlAssumption, ControlTypes, DoneInv, NEW r \in Rt, Ctl!Session(r)
  PROVE  DoneInv'
  <1> SUFFICES ASSUME NEW v \in Compacter PROVE Behind(v)'
    BY DEF DoneInv
  <1>1. /\ Behind(v) /\ v # None /\ UNCHANGED <<pc, base, tgt>>
        /\ base[v] \in Nat
    BY SessionMarks DEF DoneInv, Ctl!ControlAssumption, ControlTypes, BaseTyped, Ctl!Verb
  <1>2. ASSUME NEW s \in Rt
        PROVE  /\ Len(marks[s]) \in Nat /\ Len(marks'[s]) \in {Len(marks[s]), Len(marks[s]) + 1}
               /\ \A i \in 1 .. Len(marks[s]) : marks'[s][i] = marks[s][i]
               /\ Len(marks'[s]) = Len(marks[s]) + 1 => marks'[s][Len(marks[s]) + 1] \in asked[s]
    <2>1. marks[s] \in Seq(Callers) /\ asked[s] \subseteq Callers /\ Len(marks[s]) \in Nat
      BY DEF ControlTypes, MarksTyped
    <2>2. CASE marks'[s] = marks[s]
      BY <2>1, <2>2
    <2>3. CASE \E w \in asked[s] : marks'[s] = Append(marks[s], w)
      <3>1. PICK w \in asked[s] : marks'[s] = Append(marks[s], w)
        BY <2>3
      <3> QED BY <2>1, <3>1, MarkAdded
    <2> QED BY <2>2, <2>3, SessionMarks
  <1>3. pc[v] \in Early => \A s \in Rt : v \notin asked'[s] /\ \A i \in 1 .. Len(marks'[s]) : marks'[s][i] # v
    <2> SUFFICES ASSUME pc[v] \in Early, NEW s \in Rt
                 PROVE  v \notin asked'[s] /\ \A i \in 1 .. Len(marks'[s]) : marks'[s][i] # v
      OBVIOUS
    <2>1. v \notin asked[s] /\ \A i \in 1 .. Len(marks[s]) : marks[s][i] # v
      BY <1>1 DEF Behind
    <2>2. v \notin asked'[s]
      BY <1>1, <2>1, SessionMarks
    <2>3. ASSUME NEW i \in 1 .. Len(marks'[s]) PROVE marks'[s][i] # v
      <3>1. i \in 1 .. Len(marks[s]) \/ (i = Len(marks[s]) + 1 /\ Len(marks'[s]) = Len(marks[s]) + 1)
        BY <1>2
      <3> QED BY <1>2, <2>1, <3>1
    <2> QED BY <2>2, <2>3
  <1>4. ASSUME pc[v] \in {"type", "wait"}, tgt[v] \in Rt PROVE base[v] <= Len(marks'[tgt[v]])
    <2>1. base[v] <= Len(marks[tgt[v]])
      BY <1>1, <1>4 DEF Behind
    <2> QED BY <1>1, <1>2, <1>4, <2>1
  <1>5. ASSUME pc[v] = "wait", tgt[v] \in Rt, NEW i \in 1 .. Len(marks'[tgt[v]]), marks'[tgt[v]][i] = v
        PROVE  base[v] < i
    <2>1. /\ base[v] <= Len(marks[tgt[v]])
          /\ \A k \in 1 .. Len(marks[tgt[v]]) : marks[tgt[v]][k] = v => base[v] < k
      BY <1>1, <1>5 DEF Behind
    <2>2. CASE i \in 1 .. Len(marks[tgt[v]])
      BY <1>2, <1>5, <2>1, <2>2
    <2>3. CASE i \notin 1 .. Len(marks[tgt[v]])
      BY <1>1, <1>2, <1>5, <2>1, <2>3
    <2> QED BY <2>2, <2>3
  <1> QED BY <1>1, <1>3, <1>4, <1>5 DEF Behind

(* A verb that goes on without asking for a compaction or looking at the marks. *)
LEMMA GoesOn ==
  ASSUME ControlTypes, DoneInv, NEW x \in Ctl!Verb, NEW a, pc' = [pc EXCEPT ![x] = a],
         UNCHANGED <<base, asked, marks, tgt>>,
         \/ a \in {"done", "act"}
         \/ a = "base" /\ pc[x] = "wake"
         \/ a = "type" /\ pc[x] = "new"
         \/ a = "wait" /\ pc[x] = "type"
  PROVE  DoneInv'
  <1> SUFFICES ASSUME NEW v \in Compacter PROVE Behind(v)'
    BY DEF DoneInv
  <1>1. Behind(v) /\ v \in Ctl!Verb /\ pc'[v] = IF v = x THEN a ELSE pc[v]
    BY DEF DoneInv, Ctl!Verb, ControlTypes, VerbsTyped
  <1>2. tgt[v] \in Rt => Len(marks[tgt[v]]) \in Nat
    BY DEF ControlTypes, MarksTyped
  <1> QED BY <1>1, <1>2 DEF Behind, Early

LEMMA VerbBehind ==
  ASSUME Ctl!ControlAssumption, ControlTypes, DoneInv, NEW v \in Compacter, Ctl!CompactVerb(v)
  PROVE  DoneInv'
  <1>0. v \in Ctl!Verb /\ \A x \in Compacter : Behind(x) /\ x \in Ctl!Verb
    BY DEF Ctl!Verb, DoneInv
  <1>1. CASE Ctl!CompactLook(v)
    <2>1. UNCHANGED <<base, asked, marks>> /\ pc[v] = "new"
      BY <1>1 DEF Ctl!CompactLook, Ctl!world
    <2>2. \E a \in {"wake", "base", "done"} : pc' = [pc EXCEPT ![v] = a]
      BY <1>1 DEF Ctl!CompactLook, Ctl!Goto, Ctl!Answer
    <2>3. \A x \in Ctl!Verb : x # v => tgt'[x] = tgt[x]
      BY <1>1 DEF Ctl!CompactLook, ControlTypes, VerbsTyped
    <2> QED BY <1>0, <2>1, <2>2, <2>3 DEF DoneInv, Behind, Early, ControlTypes, VerbsTyped
  <1>2. CASE Ctl!CompactWake(v)
    <2>1. UNCHANGED <<base, asked, marks, tgt>> /\ pc[v] = "wake"
      BY <1>2 DEF Ctl!CompactWake
    <2>2. \E a \in {"base", "done"} : pc' = [pc EXCEPT ![v] = a]
      BY <1>2 DEF Ctl!CompactWake, Ctl!Goto, Ctl!Answer
    <2> QED BY <1>0, <2>1, <2>2, GoesOn
  <1>3. CASE Ctl!CompactBase(v)
    <2>1. UNCHANGED <<asked, marks, tgt>> /\ pc[v] = "base" /\ tgt[v] \in Rt
      BY <1>0, <1>3 DEF Ctl!CompactBase, Ctl!world, ControlTypes, Targeted
    <2>2. pc'[v] = "type" /\ base'[v] = Len(marks[tgt[v]])
          /\ \A x \in Ctl!Verb : x # v => pc'[x] = pc[x] /\ base'[x] = base[x]
      BY <1>0, <1>3 DEF Ctl!CompactBase, Ctl!Goto, Ctl!Baseline, ControlTypes, VerbsTyped, BaseTyped
    <2>3. Len(marks[tgt[v]]) \in Nat
      BY <2>1 DEF ControlTypes, MarksTyped
    <2>4. Behind(v)'
      BY <1>0, <2>1, <2>2, <2>3 DEF Behind, Early
    <2>5. \A x \in Compacter : x # v => Behind(x)'
      BY <1>0, <2>1, <2>2 DEF Behind
    <2> QED BY <2>4, <2>5 DEF DoneInv
  <1>4. CASE Ctl!CompactType(v)
    <2>1. UNCHANGED <<base, marks, tgt>> /\ pc[v] = "type"
      BY <1>4 DEF Ctl!CompactType
    <2>2. CASE UNCHANGED asked /\ pc' = [pc EXCEPT ![v] = "done"]
      BY <1>0, <2>1, <2>2, GoesOn
    <2>3. CASE asked' = [asked EXCEPT ![tgt[v]] = @ \cup {v}] /\ pc' = [pc EXCEPT ![v] = "wait"]
      <3>1. pc'[v] = "wait" /\ \A x \in Ctl!Verb : x # v => pc'[x] = pc[x]
        BY <1>0, <2>3 DEF ControlTypes, VerbsTyped
      <3>2. \A s \in Rt : asked'[s] \subseteq asked[s] \cup {v}
        BY <2>3 DEF ControlTypes, MarksTyped
      <3>3. Behind(v)'
        BY <1>0, <2>1, <3>1 DEF Behind, Early
      <3>4. \A x \in Compacter : x # v => Behind(x)'
        BY <1>0, <2>1, <3>1, <3>2 DEF Behind
      <3> QED BY <3>3, <3>4 DEF DoneInv
    <2> QED BY <1>4, <2>2, <2>3 DEF Ctl!CompactType, Ctl!Goto, Ctl!Answer
  <1>5. CASE Ctl!CompactDone(v) \/ Ctl!CompactVanished(v) \/ Ctl!CompactTimesOut(v)
    <2>1. UNCHANGED <<base, asked, marks, tgt>> /\ pc' = [pc EXCEPT ![v] = "done"]
      BY <1>5 DEF Ctl!CompactDone, Ctl!CompactVanished, Ctl!CompactTimesOut, Ctl!Answer, Ctl!Goto, Ctl!world
    <2> QED BY <1>0, <2>1, GoesOn
  <1> QED BY <1>1, <1>2, <1>3, <1>4, <1>5 DEF Ctl!CompactVerb

LEMMA DoneNext == ASSUME Ctl!ControlAssumption, ControlTypes, DoneInv, [Ctl!Next]_Ctl!vars PROVE DoneInv'
  <1>1. ASSUME NEW v \in Stopper, Ctl!Stop(v) PROVE DoneInv'
    <2>1. v \in Ctl!Verb /\ UNCHANGED <<base, asked, marks, tgt>>
      BY <1>1 DEF Ctl!Stop, Ctl!StopLook, Ctl!StopAnswers, Ctl!Interrupt, Ctl!world, Ctl!Verb
    <2>2. UNCHANGED pc \/ \E a \in {"done", "act"} : pc' = [pc EXCEPT ![v] = a]
      BY <1>1 DEF Ctl!Stop, Ctl!StopLook, Ctl!StopAnswers, Ctl!Interrupt, Ctl!Goto, Ctl!Answer
    <2> QED BY <2>1, <2>2, GoesOn DEF DoneInv, Behind
  <1>2. ASSUME NEW v \in Goaler, Ctl!GoalVerb(v) PROVE DoneInv'
    <2>1. v \in Ctl!Verb /\ UNCHANGED <<base, asked, marks, tgt>>
      BY <1>2 DEF Ctl!GoalVerb, Ctl!GoalLook, Ctl!GoalType, Ctl!GoalPoll, Ctl!GoalTimesOut, Ctl!world, Ctl!Verb
    <2>2. \E a : /\ pc' = [pc EXCEPT ![v] = a]
                 /\ a = "done" \/ (a = "type" /\ pc[v] = "new") \/ (a = "wait" /\ pc[v] = "type")
      BY <1>2 DEF Ctl!GoalVerb, Ctl!GoalLook, Ctl!GoalType, Ctl!GoalPoll, Ctl!GoalTimesOut, Ctl!Goto, Ctl!Answer
    <2> QED BY <2>1, <2>2, GoesOn
  <1>3. CASE UNCHANGED Ctl!vars
    BY <1>3 DEF Ctl!vars, Ctl!world, DoneInv, Behind
  <1> QED BY <1>1, <1>2, <1>3, SessionBehind, VerbBehind DEF Ctl!Next

(* Only the wait of a compact runs out of time, and it sees its own mark. *)
LEMMA TimesOutUnmarked ==
  ASSUME StopInv, ControlTypes, DoneInv, Ctl!Next, NEW v \in Compacter, ans[v] # "timeout", ans'[v] = "timeout"
  PROVE  \A i \in 1 .. Len(marks[tgt[v]]) : marks[tgt[v]][i] # v
  <1>1. ASSUME NEW x \in Ctl!Verb, NEW a, ans' = [ans EXCEPT ![x] = a] PROVE a = "timeout" /\ x = v
    BY <1>1 DEF StopInv, StopTyped, Ctl!Verb
  <1>2. ~UNCHANGED ans
    OBVIOUS
  <1>3. Compacter \cup Goaler \cup Stopper = Ctl!Verb
    BY DEF Ctl!Verb
  <1>4. ~\E r \in Rt : Ctl!Session(r)
    BY <1>2, TurnsMove
  <1>5. ~\E x \in Stopper : Ctl!Stop(x)
    BY <1>1, <1>2, <1>3 DEF Ctl!Stop, Ctl!StopLook, Ctl!StopAnswers, Ctl!Interrupt, Ctl!Answer
  <1>6. ~\E x \in Goaler : Ctl!GoalVerb(x)
    BY <1>1, <1>2, <1>3 DEF Ctl!GoalVerb, Ctl!GoalLook, Ctl!GoalType, Ctl!GoalPoll, Ctl!GoalTimesOut, Ctl!Answer
  <1>7. Ctl!CompactTimesOut(v)
    <2>1. PICK x \in Compacter : Ctl!CompactVerb(x)
      BY <1>2, <1>4, <1>5, <1>6 DEF Ctl!Next, Ctl!vars
    <2>2. ~Ctl!CompactLook(x) /\ ~Ctl!CompactWake(x)
      BY <1>1, <1>2, <1>3 DEF Ctl!CompactLook, Ctl!CompactWake, Ctl!Answer
    <2>3. ~Ctl!CompactBase(x) /\ ~Ctl!CompactType(x)
      BY <1>1, <1>2, <1>3 DEF Ctl!CompactBase, Ctl!CompactType, Ctl!Answer
    <2>4. ~Ctl!CompactDone(x) /\ ~Ctl!CompactVanished(x)
      BY <1>1, <1>3 DEF Ctl!CompactDone, Ctl!CompactVanished, Ctl!Answer
    <2>5. Ctl!CompactTimesOut(x)
      BY <2>1, <2>2, <2>3, <2>4 DEF Ctl!CompactVerb
    <2>6. x = v
      BY <1>1, <1>3, <2>5 DEF Ctl!CompactTimesOut, Ctl!Answer
    <2> QED BY <2>5, <2>6
  <1>8. pc[v] = "wait" /\ tgt[v] \in Rt /\ Len(marks[tgt[v]]) \in Nat /\ base[v] \in Nat /\ Len(marks[tgt[v]]) <= base[v]
    BY <1>3, <1>7 DEF Ctl!CompactTimesOut, Ctl!DoneIn, ControlTypes, SessionsTyped, MarksTyped, BaseTyped
  <1> QED BY <1>8 DEF DoneInv, Behind

(* A compaction that its verb brought about is never reported as one that did    *)
(* not come, for any number of runtimes, verbs, turns and deaths                *)
(* (compactDoneBaseline, waitForCompactDone).                                   *)
THEOREM CompactionIsSeen == ASSUME Ctl!ControlAssumption PROVE Ctl!Spec => Ctl!DoneIsSeen
  <1>1. Ctl!Init => StopInv /\ ControlTypes /\ DoneInv
    BY StopInit, ControlTypeInit, DoneInit
  <1>2. StopInv /\ ControlTypes /\ DoneInv /\ [Ctl!Next]_Ctl!vars => (StopInv /\ ControlTypes /\ DoneInv)'
    BY StopNext, ControlTypeNext, DoneNext
  <1>3. StopInv /\ ControlTypes /\ DoneInv /\ [Ctl!Next]_Ctl!vars
        => [\A v \in Compacter : ans[v] # "timeout" /\ ans'[v] = "timeout"
              => \A i \in 1 .. Len(marks[tgt[v]]) : marks[tgt[v]][i] # v]_Ctl!vars
    BY TimesOutUnmarked
  <1> QED BY <1>1, <1>2, <1>3, PTL DEF Ctl!Spec, Ctl!DoneIsSeen

=============================================================================
