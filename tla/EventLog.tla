------------------------------- MODULE EventLog -------------------------------
(***************************************************************************)
(* The durable event logs: the rotated append every process of the host    *)
(* shares (storage/rotatelog.ts) and the follower of the daemon that feeds *)
(* the fleet's event stream and the boot alert from them (FleetEventTailer *)
(* in daemon/fleet.ts, daemon/bootalert.ts).                               *)
(*                                                                         *)
(* A line is one unit of size and is named by its place in the order of    *)
(* appends.  The CLI, the daemon and the supervisors append to one file    *)
(* with no lock; only a rotation is exclusive, through a lock directory.   *)
(***************************************************************************)
EXTENDS Naturals, Sequences, FiniteSets, SequencesExt

CONSTANTS Writer,   \* processes that append
          Cap,      \* lines a file holds before it is rotated
          Keep,     \* backups kept
          MaxLine,  \* bound: lines appended
          MaxFault  \* bound: dead rotators, failed reads

EventLogAssumption == /\ IsFiniteSet(Writer) /\ Cap \in Nat \ {0} /\ Keep \in Nat \ {0}
                      /\ MaxLine \in Nat /\ MaxFault \in Nat

\* No tick is under way.
NoSize == MaxLine + 1

VARIABLES base,     \* the lines of the file appended to
          there,    \* the base file exists
          backup,   \* the rotated files, the newest first
          lock,     \* the writer that holds the rotation lock, "stale", or "free"
          at,       \* per writer: where its append stands
          lines,    \* lines appended
          offset,   \* the size of the base the follower has read to
          sized,    \* the size its tick has just found, or NoSize
          seen,     \* the lines its subscribers were given
          faults    \* faults so far

file == <<base, there, backup>>
tail == <<offset, sized, seen>>
vars == <<base, there, backup, lock, at, lines, offset, sized, seen, faults>>

TypeOK ==
  /\ base \in Seq(1 .. MaxLine) /\ there \in BOOLEAN
  /\ backup \in Seq(Seq(1 .. MaxLine)) /\ Len(backup) <= Keep
  /\ lock \in Writer \cup {"free", "stale"}
  /\ at \in [Writer -> {"idle", "lock", "rotate", "append"}]
  /\ lines \in 0 .. MaxLine
  /\ offset \in 0 .. MaxLine
  /\ sized \in 0 .. NoSize
  /\ seen \in Seq(1 .. MaxLine)
  /\ faults \in 0 .. MaxFault

Init ==
  /\ base = <<>> /\ there = FALSE /\ backup = <<>>
  /\ lock = "free" /\ at = [w \in Writer |-> "idle"] /\ lines = 0
  /\ offset = 0 /\ sized = NoSize /\ seen = <<>> /\ faults = 0

(***************************************************************************)
(* appendRotatedEvent                                                      *)
(***************************************************************************)
Full == there /\ Len(base) >= Cap

\* The size is looked at without the lock: no rotation is due most times.
Look(w) == /\ at[w] = "idle" /\ lines + Cardinality({v \in Writer : at[v] # "idle"}) < MaxLine
           /\ at' = [at EXCEPT ![w] = IF Full THEN "lock" ELSE "append"]
           /\ UNCHANGED file /\ UNCHANGED tail /\ UNCHANGED <<lock, lines, faults>>

\* The winner rotates.  Who finds the lock taken appends without rotating,
\* and removes the lock when its holder died long ago.
TakeLock(w) ==
  /\ at[w] = "lock"
  /\ IF lock = "free" THEN lock' = w /\ at' = [at EXCEPT ![w] = "rotate"]
     ELSE /\ lock' = IF lock = "stale" THEN "free" ELSE lock
          /\ at' = [at EXCEPT ![w] = "append"]
  /\ UNCHANGED file /\ UNCHANGED tail /\ UNCHANGED <<lines, faults>>

\* Mutant of Due: what was seen before the lock was taken is believed.
DueAsSeen == there

\* The size is looked at again under the lock: another may have rotated.
Due == Full

\* Mutant of Backups: the oldest one is not removed.
BackupsUncut == <<base>> \o backup

\* The base becomes the newest backup, and the one too many goes.
Backups == SubSeq(<<base>> \o backup, 1, IF Len(backup) < Keep THEN Len(backup) + 1 ELSE Keep)

Rotated == IF Due
           THEN /\ backup' = Backups
                /\ base' = <<>> /\ there' = FALSE
           ELSE UNCHANGED file
Rotate(w) == /\ at[w] = "rotate" /\ lock = w
             /\ Rotated
             /\ lock' = "free" /\ at' = [at EXCEPT ![w] = "append"]
             /\ UNCHANGED tail /\ UNCHANGED <<lines, faults>>

\* One append to whatever file the name has now.
Append1(w) == /\ at[w] = "append"
              /\ lines' = lines + 1
              /\ base' = Append(base, lines') /\ there' = TRUE
              /\ at' = [at EXCEPT ![w] = "idle"]
              /\ UNCHANGED <<backup, lock, faults>> /\ UNCHANGED tail

\* A process dies with the rotation lock in its hands.
DieRotating(w) == /\ at[w] = "rotate" /\ faults < MaxFault /\ faults' = faults + 1
                  /\ lock' = "stale" /\ at' = [at EXCEPT ![w] = "idle"]
                  /\ UNCHANGED <<lines>> /\ UNCHANGED file /\ UNCHANGED tail

(***************************************************************************)
(* FleetEventTailer.tick: stat, then read from the offset to that size     *)
(***************************************************************************)
\* A base smaller than what was read has been rotated away: start anew.
TickStat == /\ sized = NoSize
            /\ IF ~there THEN offset' = 0 /\ UNCHANGED sized
               ELSE /\ offset' = IF Len(base) < offset THEN 0 ELSE offset
                    /\ sized' = IF Len(base) = offset' THEN NoSize ELSE Len(base)
            /\ UNCHANGED seen /\ UNCHANGED file /\ UNCHANGED <<lock, at, lines, faults>>

TickRead == /\ sized # NoSize /\ there
            /\ seen' = seen \o SubSeq(base, offset + 1, IF sized < Len(base) THEN sized ELSE Len(base))
            /\ offset' = sized /\ sized' = NoSize
            /\ UNCHANGED file /\ UNCHANGED <<lock, at, lines, faults>>

\* A failed read is tried again from the same place at the next tick.
TickFails == /\ sized # NoSize
             /\ \/ ~there /\ UNCHANGED faults
                \/ faults < MaxFault /\ faults' = faults + 1
             /\ sized' = NoSize
             /\ UNCHANGED <<offset, seen>> /\ UNCHANGED file /\ UNCHANGED <<lock, at, lines>>

Tick == TickStat \/ TickRead \/ TickFails
Next == Tick \/ \E w \in Writer : Look(w) \/ TakeLock(w) \/ Rotate(w) \/ Append1(w) \/ DieRotating(w)

Spec == Init /\ [][Next]_vars
\* The daemon's poll comes round.
FairSpec == Spec /\ WF_vars(TickStat) /\ WF_vars(TickRead)

-------------------------------------------------------------------------------
(***************************************************************************)
(* Properties                                                              *)
(***************************************************************************)
Kept(i) == \/ i \in Range(base)
           \/ \E k \in 1 .. Len(backup) : i \in Range(backup[k])

\* However many processes find the file full at once, it is rotated once:
\* the newest Keep * Cap lines are always still in the log.
NewestKept == \A i \in 1 .. lines : i + Keep * Cap > lines => Kept(i)

\* What the follower's comment promises of rotation: no event is passed
\* over once the base has been rotated away and read again.  The code does not
\* keep it: what was appended between the last read and the rotation is missed.
NoneSkipped == \A i \in 1 .. lines :
  (\E j \in Range(seen) : j > i) => i \in Range(seen)
===============================================================================
