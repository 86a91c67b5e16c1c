------------------------------ MODULE BootGate ------------------------------
(***************************************************************************)
(* From the spawn of a session to "ready": the program goes through its    *)
(* start-up screens; the supervisor's boot driver looks at them every two  *)
(* seconds and presses the keys its adapter knows (supervisor/boot.ts,     *)
(* supervisor/daemon.ts, launch/adapters); the launcher reads the same     *)
(* screens from the pane log, which earlier sessions have written to, and  *)
(* says ready, blocked by a dialog, or failed (launch/ptyHost.ts,          *)
(* launch/readyGateModel.ts).  Keys wait in the pty until the program      *)
(* takes them.                                                             *)
(***************************************************************************)
EXTENDS Naturals, Sequences, SequencesExt

CONSTANTS Plans,       \* the start-up screens a program may show, in order
          StableLooks, \* looks at one dialog before it is taken to block
          MaxLook      \* looks before the launcher gives up

Dialogs == {"trust", "bypass", "picker", "update", "review", "unknown"}

BootGateAssumption == /\ Plans \subseteq Seq(Dialogs)
                      /\ StableLooks \in Nat \ {0} /\ MaxLook \in Nat

VARIABLES mode,      \* approval mode of the launch
          plan,      \* screens still to come
          screen,    \* the dialog or the composer shown
          cursor,    \* the option its cursor is on
          painted,   \* this session has written to the pane log
          queue,     \* keys the program has not taken yet
          driving,   \* the boot driver runs
          verdict,   \* what the launcher says
          looks,     \* how often it looked
          same,      \* how often in a row it saw the dialog it cannot answer
          trimmed,   \* the log was cut below the place where this session began
          slow,      \* the driver pressed again before the program took a key
          declined   \* a dialog was answered with the wrong option

child == <<plan, screen, cursor, painted>>
vars == <<mode, plan, screen, cursor, painted, queue, driving,
          verdict, looks, same, trimmed, slow, declined>>

TypeOK == /\ mode \in {"yolo", "gated"}
          /\ plan \in Seq(Dialogs)
          /\ screen \in Dialogs \cup {"none", "composer", "exited"}
          /\ cursor \in 1 .. 3 /\ painted \in BOOLEAN
          /\ queue \in Seq({"enter", "down", "two"})
          /\ driving \in BOOLEAN
          /\ verdict \in {"waiting", "ready", "modal", "failed"}
          /\ looks \in 0 .. MaxLook /\ same \in 0 .. StableLooks
          /\ trimmed \in BOOLEAN /\ slow \in BOOLEAN /\ declined \in BOOLEAN

Init == /\ mode \in {"yolo", "gated"} /\ plan \in Plans
        /\ screen = "none" /\ cursor = 1 /\ painted = FALSE /\ queue = <<>>
        /\ driving = TRUE /\ verdict = "waiting" /\ looks = 0 /\ same = 0
        /\ trimmed = FALSE /\ slow = FALSE /\ declined = FALSE

-----------------------------------------------------------------------------
(***************************************************************************)
(* The program                                                             *)
(***************************************************************************)
NextScreen == /\ screen' = IF plan = <<>> THEN "composer" ELSE Head(plan)
              /\ plan' = IF plan = <<>> THEN <<>> ELSE Tail(plan)
              /\ cursor' = 1

Paint == /\ ~painted /\ painted' = TRUE /\ NextScreen
         /\ UNCHANGED <<mode, queue, driving, verdict, looks, same, trimmed, slow, declined>>

\* The option Enter must be pressed on; any other is a refusal, a fresh
\* conversation or an update.
Right == [trust |-> {1}, bypass |-> {2}, picker |-> {2}, update |-> {2}, review |-> {2},
          unknown |-> {1, 2, 3}]
Options == [trust |-> 2, bypass |-> 2, picker |-> 3, update |-> 2, review |-> 2, unknown |-> 3]

TakeKey ==
  /\ painted /\ queue # <<>>
  /\ queue' = Tail(queue)
  /\ IF screen \notin Dialogs THEN UNCHANGED <<plan, screen, cursor, declined>>
     ELSE CASE Head(queue) = "enter" ->
                 /\ declined' = (declined \/ cursor \notin Right[screen])
                 /\ IF screen = "bypass" /\ cursor = 1
                    THEN screen' = "exited" /\ UNCHANGED <<plan, cursor>>
                    ELSE NextScreen
            [] Head(queue) = "down" ->
                 /\ cursor' = (cursor % Options[screen]) + 1
                 /\ UNCHANGED <<plan, screen, declined>>
            [] Head(queue) = "two" ->
                 /\ IF screen = "review" THEN NextScreen
                    ELSE cursor' = 2 /\ UNCHANGED <<plan, screen>>
                 /\ UNCHANGED declined
  /\ UNCHANGED <<mode, painted, driving, verdict, looks, same, trimmed, slow>>

-----------------------------------------------------------------------------
(***************************************************************************)
(* The boot driver                                                         *)
(***************************************************************************)
\* Mutant of ClaudeKeys: Enter, wherever the cursor is.
ClaudeKeysBlind(s, c) == IF s \in {"trust", "picker", "bypass"} THEN <<"enter">> ELSE <<>>

\* The cursor is moved first where the option it starts on is the wrong one.
ClaudeKeys(s, c) ==
  CASE s = "trust" -> <<"enter">>
    [] s \in {"picker", "bypass"} -> IF c = 2 THEN <<"enter">> ELSE <<"down">>
    [] OTHER -> <<>>

\* codex takes the number of an option.
CodexKeys(s) ==
  CASE s = "update" -> <<"two", "enter">>
    [] s = "review" -> <<"two">>
    [] OTHER -> <<>>

BootDialogKeys(s, c) == ClaudeKeys(s, c) \o CodexKeys(s)

\* A select that no adapter knows is found by its numbered options and footer.
NamedModal(s) == s = "unknown"

\* isInputReady: without the bypass banner of yolo, any screen that is no
\* known dialog and shows the select glyph will do.
InputReady(s, m) == s = "composer" \/ (m = "gated" /\ NamedModal(s))

\* The driver asks without the mode: in gated mode it never sees "ready".
DriverLooks ==
  /\ driving /\ verdict # "failed" /\ verdict # "modal" /\ painted
  /\ LET keys == BootDialogKeys(screen, cursor)
     IN IF keys # <<>>
        THEN /\ queue' = queue \o keys
             /\ slow' = (slow \/ queue # <<>>)
             /\ Len(queue) < 2
             /\ UNCHANGED driving
        ELSE /\ driving' = ~(mode = "yolo" /\ InputReady(screen, "yolo"))
             /\ UNCHANGED <<queue, slow>>
  /\ UNCHANGED <<mode, verdict, looks, same, trimmed, declined>> /\ UNCHANGED child

\* It stops after two minutes in any case.
DriverEnds == /\ driving /\ driving' = FALSE
              /\ UNCHANGED <<mode, queue, verdict, looks, same, trimmed, slow, declined>>
              /\ UNCHANGED child

-----------------------------------------------------------------------------
(***************************************************************************)
(* The launcher: waitHostReady                                             *)
(***************************************************************************)
\* Mutant of View: the log is read from its tail, whoever wrote it.
ViewTail == IF painted THEN screen ELSE "composer"

\* The log is read from where this session began.  If it was cut in between,
\* its tail is read, and an earlier session's last frame was its composer.
View == IF painted THEN screen ELSE IF trimmed THEN "composer" ELSE "none"

Look ==
  /\ verdict = "waiting" /\ looks < MaxLook
  /\ looks' = looks + 1
  /\ CASE screen = "exited" -> verdict' = "failed" /\ UNCHANGED same
       [] screen # "exited" /\ InputReady(View, mode) -> verdict' = "ready" /\ UNCHANGED same
       [] screen # "exited" /\ ~InputReady(View, mode) /\ NamedModal(View) ->
            IF same = StableLooks THEN verdict' = "modal" /\ UNCHANGED same
            ELSE same' = same + 1 /\ UNCHANGED verdict
       [] OTHER -> same' = 0 /\ UNCHANGED verdict
  /\ UNCHANGED <<mode, queue, driving, trimmed, slow, declined>> /\ UNCHANGED child

GiveUp == /\ verdict = "waiting" /\ looks = MaxLook
          /\ verdict' = "failed"
          /\ UNCHANGED <<mode, queue, driving, looks, same, trimmed, slow, declined>>
          /\ UNCHANGED child

\* The cap of the pane logs cuts the file during the boot.
Trim == /\ ~trimmed /\ verdict = "waiting" /\ trimmed' = TRUE
        /\ UNCHANGED <<mode, queue, driving, verdict, looks, same, slow, declined>>
        /\ UNCHANGED child

Next == Paint \/ TakeKey \/ DriverLooks \/ DriverEnds \/ Look \/ GiveUp \/ Trim
Spec == Init /\ [][Next]_vars

-----------------------------------------------------------------------------
(***************************************************************************)
(* Properties                                                              *)
(***************************************************************************)
\* In yolo mode a session is called ready, and is given its first message,
\* only when it shows its own composer; an earlier session's last frame in
\* the shared log does not count, unless the log was cut during the boot.
ReadyIsReal == (verdict = "ready" /\ mode = "yolo" /\ ~trimmed) => (painted /\ screen = "composer")

\* As long as the program takes a key before the driver's next look, no
\* start-up dialog is ever answered with the wrong option, whatever screens
\* follow each other.
NeverDeclined == ~slow => ~declined
===============================================================================
