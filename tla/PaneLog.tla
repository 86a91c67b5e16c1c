------------------------------- MODULE PaneLog -------------------------------
(***************************************************************************)
(* A peer's pane log (launch/cmdlog.ts, supervisor/daemon.ts): the bytes   *)
(* its session paints, appended by the supervisor through a descriptor it  *)
(* keeps open.  The janitor of the daemon's supervise tick, another        *)
(* process, rotates the file, reclaims it when nobody has touched it for   *)
(* long, and shrinks it when the directory is over its budget.  Readers    *)
(* take the tail of the path for the screen.                               *)
(*                                                                         *)
(* A unit of output is named by its place in the order of writing.         *)
(***************************************************************************)
EXTENDS Naturals, Sequences, SequencesExt

CONSTANTS Cap,      \* size above which the log is rotated
          Keep,     \* what a reader needs, and the janitor leaves
          Copies,   \* rotated copies kept
          Stale,    \* age after which a log is reclaimed
          Heal,     \* time between two looks of the supervisor at its path
          MaxUnit, MaxTime

PaneLogAssumption == /\ Keep \in Nat \ {0} /\ Cap \in Nat /\ Cap > Keep
                     /\ Copies \in Nat \ {0} /\ Stale \in Nat \ {0} /\ Heal \in Nat
                     /\ MaxUnit \in Nat /\ MaxTime \in Nat

VARIABLES now, live,
          path,     \* the file under the log's name: its inode, 0 if there is none
          base,     \* its units
          mtime,    \* its time of modification
          copies,   \* sizes of the rotated copies, the newest first
          fd,       \* the inode the supervisor writes to, 0 if none
          checked,  \* when the supervisor last looked at the path
          unit,     \* units written so far
          born,     \* inodes so far
          hand,     \* what the janitor has read: step, units, time
          noise     \* units written while the janitor had the file in its hands,
                    \* or to a file that was no longer the log

file == <<path, base, mtime, copies>>
vars == <<now, live, path, base, mtime, copies, fd, checked, unit, born, hand, noise>>

Nothing == [step |-> "none", units |-> <<>>, at |-> 0]

TypeOK == /\ now \in 0 .. MaxTime /\ live \in BOOLEAN
          /\ path \in 0 .. born /\ fd \in 0 .. born /\ born \in Nat
          /\ base \in Seq(1 .. MaxUnit) /\ mtime \in 0 .. MaxTime
          /\ copies \in Seq(Nat) /\ Len(copies) <= Copies
          /\ checked \in 0 .. MaxTime /\ unit \in 0 .. MaxUnit
          /\ hand.step \in {"none", "rotate", "reclaim", "shrink"}
          /\ noise \subseteq 1 .. MaxUnit

Init == /\ now = 0 /\ live = FALSE /\ path = 0 /\ base = <<>> /\ mtime = 0 /\ copies = <<>>
        /\ fd = 0 /\ checked = 0 /\ unit = 0 /\ born = 0 /\ hand = Nothing /\ noise = {}

LastN(s, n) == SubSeq(s, IF Len(s) > n THEN Len(s) - n + 1 ELSE 1, Len(s))

-----------------------------------------------------------------------------
(***************************************************************************)
(* The supervisor                                                          *)
(***************************************************************************)
\* openPaneLog: the file is made if the name has none, and appended to.
OpenPaneLog == IF path = 0 THEN /\ born' = born + 1 /\ path' = born' /\ fd' = born'
                                /\ base' = <<>> /\ mtime' = now
               ELSE fd' = path /\ UNCHANGED <<born, path, base, mtime>>

Start == /\ ~live /\ live' = TRUE /\ OpenPaneLog /\ checked' = now
         /\ UNCHANGED <<now, copies, unit, hand, noise>>

Stop == /\ live /\ live' = FALSE /\ fd' = 0
        /\ UNCHANGED <<now, checked, unit, born, hand, noise>> /\ UNCHANGED file

\* The name is gone, or is another file's.
Lost == fd = 0 \/ path # fd

\* healPaneLog: before a write, and no more often than the interval.
HealPaneLog == /\ live /\ now >= checked + Heal /\ unit < MaxUnit
               /\ Lost
               /\ OpenPaneLog /\ checked' = now
               /\ UNCHANGED <<now, live, copies, unit, hand, noise>>

Look == /\ live /\ now >= checked + Heal /\ checked # now /\ ~Lost /\ checked' = now
        /\ UNCHANGED <<now, live, fd, unit, born, hand, noise>> /\ UNCHANGED file

\* Output of the session, after the look its time has come for.
Output == /\ live /\ unit < MaxUnit /\ now < checked + Heal
          /\ unit' = unit + 1
          /\ IF fd = path THEN base' = Append(base, unit') /\ mtime' = now ELSE UNCHANGED <<base, mtime>>
          /\ noise' = IF hand.step # "none" \/ fd # path THEN noise \cup {unit'} ELSE noise
          /\ UNCHANGED <<now, live, path, copies, fd, checked, born, hand>>

-----------------------------------------------------------------------------
(***************************************************************************)
(* The janitor                                                             *)
(***************************************************************************)
\* rotateFile reads what it will keep before it shifts the copies.
RotateRead == /\ hand.step = "none" /\ path # 0 /\ Len(base) > Cap
              /\ hand' = [step |-> "rotate", units |-> LastN(base, Cap), at |-> mtime]
              /\ UNCHANGED <<now, live, fd, checked, unit, born, noise>> /\ UNCHANGED file

\* Mutant of Kept: one unit short.
KeptShort(units) == LastN(units, Keep - 1)

\* What stays in the file: the tail a reader needs.
Kept(units) == LastN(units, Keep)

\* The file is overwritten in place; what was appended since it was read goes.
RotateWrite ==
  /\ hand.step = "rotate"
  /\ copies' = LET all == <<Len(hand.units)>> \o copies
               IN IF Len(all) > Copies THEN SubSeq(all, 1, Copies) ELSE all
  /\ base' = Kept(hand.units) /\ mtime' = now /\ hand' = Nothing
  /\ UNCHANGED <<now, live, path, fd, checked, unit, born, noise>>

\* gcPaneLogs looks at every file, then drops the ones nobody touched for long.
ReclaimScan == /\ hand.step = "none" /\ path # 0 /\ now > mtime + Stale
               /\ hand' = [step |-> "reclaim", units |-> <<>>, at |-> mtime]
               /\ UNCHANGED <<now, live, fd, checked, unit, born, noise>> /\ UNCHANGED file

Reclaim == /\ hand.step = "reclaim"
           /\ path' = 0 /\ base' = <<>> /\ hand' = Nothing
           /\ noise' = noise \cup Range(base)
           /\ UNCHANGED <<now, live, mtime, copies, fd, checked, unit, born>>

\* Over the budget, the copies go first.
DropCopies == /\ hand.step = "none" /\ copies # <<>> /\ copies' = Front(copies)
              /\ UNCHANGED <<now, live, path, base, mtime, fd, checked, unit, born, hand, noise>>

\* Then a base is shrunk, and its time of modification put back.
ShrinkRead == /\ hand.step = "none" /\ copies = <<>> /\ path # 0 /\ Len(base) > Keep
              /\ hand' = [step |-> "shrink", units |-> LastN(base, Keep), at |-> mtime]
              /\ UNCHANGED <<now, live, fd, checked, unit, born, noise>> /\ UNCHANGED file

ShrinkWrite == /\ hand.step = "shrink"
               /\ base' = hand.units /\ mtime' = hand.at /\ hand' = Nothing
               /\ UNCHANGED <<now, live, path, copies, fd, checked, unit, born, noise>>

Clock == /\ now < MaxTime /\ now' = now + 1
         /\ UNCHANGED <<live, fd, checked, unit, born, hand, noise>> /\ UNCHANGED file

Janitor == RotateRead \/ RotateWrite \/ ReclaimScan \/ Reclaim \/ DropCopies \/ ShrinkRead \/ ShrinkWrite
Next == Start \/ Stop \/ HealPaneLog \/ Look \/ Output \/ Janitor \/ Clock
Spec == Init /\ [][Next]_vars

-----------------------------------------------------------------------------
(***************************************************************************)
(* Properties                                                              *)
(***************************************************************************)
\* A reader finds the last screenful under the name, in its order: of the
\* last Keep units only those written while the janitor held the file, or
\* while the name was gone, can be missing.
TailKept == \A u \in 1 .. unit :
  u + Keep > unit => \/ u \in noise
                     \/ \E i \in 1 .. Len(base) : base[i] = u /\ \A j \in 1 .. i : base[j] <= u
===============================================================================
