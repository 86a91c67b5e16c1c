---------------------------- MODULE Components -----------------------------
(***************************************************************************)
(* The components that have a module of their own, next to each other.       *)
(* They are alternatives, not a composition: they share no variable, so a    *)
(* behaviour here is a behaviour of the one component that the initial state  *)
(* picks with "part".  The components' variables are kept in one bank of     *)
(* slots s1, s2, ...: each INSTANCE says which slot holds which variable, and  *)
(* the slots the picked component does not need stay "off".  Every property    *)
(* below is the component's own, asked of the behaviours that are its own.     *)
(***************************************************************************)
EXTENDS Naturals, Sequences

CONSTANTS None,   \* nobody, nothing: the components' value for it
          InfMsg, CallerOf, CliSent, Runtime, Uncertain, Pass,  \* the inflight ledger
          MaxSession,  \* the inflight ledger and the turn watch
          MaxCrash,  \* the inflight ledger and failover
          NoticeDelivery, NoticeMaxRestart,  \* delivery acceptance
          Task, Other, MaxHost,  \* failover
          NoticeMsg, MaxGen,  \* routing
          Modal, ClassOf, Tool, MaxTries, MaxId, GuardMaxRestart,  \* the approvals
          Gated,  \* the approvals and opencode
          TurnTime, FilesStale,  \* the turn watch
          Overlap,  \* the turn watch and the mute watch and the goal watch
          FilesMaxRestart,  \* the turn watch and the mute watch
          File, FilesMaxTime, Horizon, Window, FilesTtl,  \* the mute watch
          Req, Applier, HostRetire, MaxSurf, MaxInput,  \* reload
          HostMaxFault,  \* reload and the verbs stop and compact
          Viewer, MaxOut,  \* attach
          Sender, MaxTyped,  \* the host's input
          MaxVersion, Good, Peer, MaxVerb,  \* update
          Writer, Cap, Keep, MaxLine, FilesMaxFault,  \* the event log
          Thread, CwdOf, PeerCwd, Stall, NoticeMaxTime, NoticeTtl, NoticeMaxFault,  \* the goal watch
          Dir, FilesProc, ConfVerb, MaxEdit,  \* the host's config files
          HostMsg, MaxLaunch, MaxInterrupt, MaxCompact, MaxPerm,  \* opencode
          Rt, Default, Stopper, Compacter, Goaler, MaxTurn, MaxAuto,  \* the verbs stop and compact
          Agent, Channel, GuardProc, MaxOp, MaxHold, GuardMaxTime, ArmTtl, HoldTtl, GuardMaxFault,  \* the origin guard
          Pid, Root, Passes, MaxFork, MaxExit, MaxReuse, MaxBlind,  \* the teardown
          IdleLimit, FilesQuiet, Unarmed, Ephemeral, Shared, TailWindow, Big, MaxRec, IdleTime  \* the idle clock

VARIABLES part,  \* the component that runs
          s1, s2, s3, s4, s5, s6, s7, s8, s9, s10, s11, s12, s13, s14, s15,
          s16, s17, s18, s19, s20, s21, s22, s23

\* The slots from k on, and what they hold in a component that has fewer variables.
From23 == <<s23>>
From22 == <<s22, From23>>
From21 == <<s21, From22>>
From20 == <<s20, From21>>
From19 == <<s19, From20>>
From18 == <<s18, From19>>
From17 == <<s17, From18>>
From16 == <<s16, From17>>
From15 == <<s15, From16>>
From14 == <<s14, From15>>
From13 == <<s13, From14>>
From12 == <<s12, From13>>
From11 == <<s11, From12>>
From10 == <<s10, From11>>
From9 == <<s9, From10>>
Off23 == s23 = "off"
Off22 == s22 = "off" /\ Off23
Off21 == s21 = "off" /\ Off22
Off20 == s20 = "off" /\ Off21
Off19 == s19 = "off" /\ Off20
Off18 == s18 = "off" /\ Off19
Off17 == s17 = "off" /\ Off18
Off16 == s16 = "off" /\ Off17
Off15 == s15 = "off" /\ Off16
Off14 == s14 = "off" /\ Off15
Off13 == s13 = "off" /\ Off14
Off12 == s12 = "off" /\ Off13
Off11 == s11 = "off" /\ Off12
Off10 == s10 = "off" /\ Off11
Off9 == s9 = "off" /\ Off10

vars == <<part, s1, s2, s3, s4, s5, s6, s7, s8, From9>>

-----------------------------------------------------------------------------
Inf == INSTANCE InflightProofs WITH
       Msg <- InfMsg, Free <- None,
       token <- s1, sessions <- s2, at <- s3, order <- s4, native <- s5,
       acc <- s6, ledger <- s7, orphans <- s8, interrupted <- s9, held <- s10,
       selfEnded <- s11, step <- s12, seen <- s13, base <- s14, cur <- s15,
       todo <- s16, kept <- s17, hand <- s18, busy <- s19, told <- s20,
       closed <- s21, lost <- s22, crashes <- s23

Guard == INSTANCE GuardProofs WITH
       MaxRestart <- GuardMaxRestart, Proc <- GuardProc,
       MaxTime <- GuardMaxTime, MaxFault <- GuardMaxFault,
       screen <- s1, fence <- s2, watch <- s3, ask <- s4, card <- s5,
       lastId <- s6, faces <- s7, yes <- s8, keys <- s9, passed <- s10,
       restarts <- s11, stamps <- s1, serial <- s2, held <- s3, proc <- s4,
       sent <- s5, missed <- s6, clock <- s7, ops <- s8, faults <- s9,
       parent <- s2, born <- s3, ours <- s4, forked <- s5, shot <- s6,
       pc <- s7, pass <- s8, rootToken <- s9, todo <- s10, above <- s11,
       refused <- s1, spent <- s12, host <- s2, hosts <- s3, carries <- s4,
       work <- s5, failing <- s6, blocked <- s7, stopped <- s8, rec <- s9,
       active <- s10, claim <- s11, quarantined <- s12, queue <- s13,
       now <- s14, at <- s15, offered <- s16, crashes <- s17

\* The dialogs a runtime shows at its start: none, or any two in any order.
Dialog == {"trust", "bypass", "picker", "update", "review", "unknown"}
Screens == {<<>>} \cup {<<a>> : a \in Dialog} \cup {<<a, b>> : a, b \in Dialog}

Host == INSTANCE HostProofs WITH
       Retire <- HostRetire, MaxFault <- HostMaxFault, Msg <- HostMsg,
       Proc <- {"j", "p"}, Job <- "j", MaxStart <- 2, StartFault <- 2,
       MaxQueued <- 1, Plans <- Screens, StableLooks <- 2, MaxLook <- 5,
       Cap <- 3, Keep <- 2, Copies <- 1, Stale <- 1, Heal <- 1, MaxUnit <- 6,
       MaxTime <- 4,
       out <- s4, parsed <- s5, pc <- s1, seq <- s2, snap <- s6, live <- s3,
       hasty <- s7, redrawn <- s8, composer <- s2, turns <- s5, typed <- s6,
       consumed <- s7, fence <- s3, child <- s8, host <- s4, exitLogged <- s9,
       lines <- s10, surf <- s1, req <- s9, applied <- s10, base <- s7,
       runs <- s11, turn <- s8, inputs <- s12, stopped <- s5,
       registered <- s13, lock <- s14, job <- s6, faults <- s2, up <- s4,
       launch <- s1, events <- s5, nat <- s6, summary <- s7, perm <- s9,
       status <- s10, pending <- s11, waiting <- s12, compactedAfter <- s13,
       unsaved <- s14, journal <- s15, saved <- s16, call <- s17,
       compact <- s18, lease <- s19, interrupts <- s20, compacts <- s21,
       perms <- s22, idle <- s3, asked <- s6, marks <- s9, goal <- s10,
       autos <- s11, ans <- s12, tgt <- s13, todo <- s14, begun <- s15,
       was <- s16, plist <- s3, disabled <- s7, watcher <- s8, told <- s9,
       off <- s10, verbs <- s11, sock <- s4, bound <- s5, port <- s6,
       disc <- s7, queue <- s3, lost <- s8, starts <- s9, queued <- s10,
       mode <- s1, plan <- s2, screen <- s4, cursor <- s5, painted <- s6,
       driving <- s7, verdict <- s8, looks <- s9, same <- s10, trimmed <- s11,
       slow <- s12, declined <- s13, now <- s1, path <- s2, mtime <- s4,
       copies <- s5, fd <- s6, checked <- s8, unit <- s9, born <- s10,
       hand <- s11, noise <- s12

Notice == INSTANCE NoticeProofs WITH
       Delivery <- NoticeDelivery, MaxRestart <- NoticeMaxRestart,
       Msg <- NoticeMsg, MaxTime <- NoticeMaxTime, Ttl <- NoticeTtl,
       MaxFault <- NoticeMaxFault, Pass <- {"p"}, MaxEvent <- 2, Name <- {"x"},
       Dir <- {"d"}, Proc <- {"p", "q"}, MaxVerb <- 3, Verb <- {"v", "w"},
       Token <- {"t", "u"}, ConnectRestart <- 1, Job <- {"daemon", "i"},
       Session <- {"s", "r"}, Daemon <- "daemon", MaxWake <- 1, MaxRun <- 2,
       Late <- FALSE, VoiceVerb <- 2, MaxHand <- 1, VoiceFault <- 0,
       writer <- s4, pasted <- s5, landed <- s7, old <- s8, disk <- s9,
       resolved <- s10, resNotice <- s11, copy <- s1, closing <- s12,
       pending <- s13, now <- s2, slot <- s14, board <- s3, sent <- s15,
       restarts <- s6, host <- s1, inbox <- s2, pc <- s4, path <- s3,
       answer <- s6, told <- s7, queue <- s8, token <- s9, drain <- s10,
       tail <- s11, daemon <- s12, row <- s4, latest <- s5, since <- s6,
       sweep <- s7, stalls <- s8, heard <- s9, excused <- s10, faults <- s1,
       event <- s2, session <- s3, due <- s4, halted <- s5, park <- s6,
       at <- s7, nudges <- s8, profile <- s1, marks <- s4, index <- s5,
       live <- s2, retiring <- s6, changed <- s7, sync <- s8, job <- s9,
       verbs <- s3, killed <- s10, installed <- s2, human <- s5, router <- s7,
       loaded <- s3, stored <- s8, face <- s9, seen <- s10, tok <- s11,
       before <- s12, ans <- s13, plists <- s5, foreign <- s6, binary <- s7,
       tree <- s8, lines <- s9, todo <- s10, planned <- s11, term <- s12,
       stuckJob <- s13, wakes <- s14, runs <- s15, keys <- s5, helper <- s6,
       started <- s7, closed <- s8, idle <- s9, intent <- s10, lock <- s11,
       asked <- s12, receipt <- s13, rank <- s14, hands <- s15

Files == INSTANCE FilesProofs WITH
       MaxFault <- FilesMaxFault, Quiet <- FilesQuiet, Stale <- FilesStale,
       MaxRestart <- FilesMaxRestart, MaxTime <- FilesMaxTime, Ttl <- FilesTtl,
       Proc <- FilesProc,
       npm <- s2, bin <- s3, prev <- s4, stamp <- s5, daemon <- s6, live <- s7,
       proven <- s8, pack <- s9, config <- s10, pc <- s11, cli <- s12,
       report <- s13, verbs <- s1, base <- s1, there <- s2, backup <- s3,
       lock <- s4, at <- s5, lines <- s6, offset <- s7, sized <- s8,
       seen <- s9, faults <- s10, clock <- s1, ses <- s2, own <- s3,
       partial <- s4, ownMt <- s5, other <- s6, child <- s7, delivered <- s8,
       worked <- s9, rendered <- s10, reaped <- s11, runtime <- s2, now <- s3,
       log <- s4, session <- s1, turn <- s8, board <- s5, since <- s6,
       truth <- s9, restarts <- s7, call <- s1, catchUp <- s8, heard <- s9,
       parked <- s10, deaths <- s11, toml <- s2, settings <- s3, hooks <- s4,
       mode <- s5, todo <- s6, snap <- s7, torn <- s8, killed <- s9,
       edits <- s10

ASSUME InfAssumption == Inf!InflightAssumption
ASSUME AccAssumption == Notice!Acc!AcceptanceAssumption
ASSUME LimitAssumption == Notice!Limit!LimitParkAssumption
ASSUME FailAssumption == Guard!Fail!FailoverAssumption
ASSUME RouteAssumption == Notice!Route!RoutingAssumption
ASSUME ApprAssumption == Guard!Appr!ApprovalsAssumption
ASSUME TurnAssumption == Files!Turn!TurnWatchAssumption
ASSUME MuteAssumption == Files!Mute!MuteWatchAssumption
ASSUME RelAssumption == Host!Rel!ReloadAssumption
ASSUME AttAssumption == Host!Att!AttachAssumption
ASSUME InputAssumption == Host!Input!HostInputAssumption
ASSUME UpdAssumption == Files!Upd!UpdateAssumption
ASSUME MemAssumption == Notice!Mem!MembershipAssumption
ASSUME EvAssumption == Files!Ev!EventLogAssumption
ASSUME GoalAssumption == Notice!Goal!GoalWatchAssumption
ASSUME ConfAssumption == Files!Conf!HostConfigAssumption
ASSUME GateAssumption == Host!Gate!BootGateAssumption
ASSUME PaneAssumption == Host!Pane!PaneLogAssumption
ASSUME OnAssumption == Host!On!AlwaysOnAssumption
ASSUME VoAssumption == Notice!Vo!VoiceAssumption
ASSUME OcAssumption == Host!Oc!OpencodeAssumption
ASSUME CtlAssumption == Host!Ctl!ControlAssumption
ASSUME StartAssumption == Host!Start!DaemonAssumption
ASSUME ConAssumption == Notice!Con!ConnectAssumption
ASSUME UnAssumption == Notice!Un!UninstallAssumption
ASSUME OrigAssumption == Guard!Orig!OriginGuardAssumption
ASSUME TearAssumption == Guard!Tear!TeardownAssumption
ASSUME IdleAssumption == Files!Idle!IdleClockAssumption

-----------------------------------------------------------------------------
Init ==
  \/ part = "inflight" /\ Inf!Init
  \/ part = "acceptance" /\ Notice!Acc!Init /\ Off16
  \/ part = "failover" /\ Guard!Fail!Init /\ Off18
  \/ part = "limit" /\ Notice!Limit!Init /\ Off9
  \/ part = "routing" /\ Notice!Route!Init /\ Off13
  \/ part = "approvals" /\ Guard!Appr!Init /\ Off12
  \/ part = "turns" /\ Files!Turn!Init /\ Off10
  \/ part = "mute" /\ Files!Mute!Init /\ Off12
  \/ part = "reload" /\ Host!Rel!Init /\ Off15
  \/ part = "attach" /\ Host!Att!Init /\ Off9
  \/ part = "input" /\ Host!Input!Init /\ Off11
  \/ part = "update" /\ Files!Upd!Init /\ Off14
  \/ part = "members" /\ Notice!Mem!Init /\ Off11
  \/ part = "events" /\ Files!Ev!Init /\ Off11
  \/ part = "goals" /\ Notice!Goal!Init /\ Off11
  \/ part = "config" /\ Files!Conf!Init /\ Off11
  \/ part = "boot" /\ Host!Gate!Init /\ Off14
  \/ part = "panelog" /\ Host!Pane!Init /\ Off13
  \/ part = "alwayson" /\ Host!On!Init /\ Off12
  \/ part = "voice" /\ Notice!Vo!Init /\ Off16
  \/ part = "opencode" /\ Host!Oc!Init /\ Off23
  \/ part = "control" /\ Host!Ctl!Init /\ Off17
  \/ part = "start" /\ Host!Start!Init /\ Off11
  \/ part = "connect" /\ Notice!Con!Init /\ Off14
  \/ part = "uninstall" /\ Notice!Un!Init /\ Off16
  \/ part = "origin" /\ Guard!Orig!Init /\ Off10
  \/ part = "teardown" /\ Guard!Tear!Init /\ Off13
  \/ part = "clock" /\ Files!Idle!Init /\ Off12

\* One step of the component that runs.
Next ==
  \/ part = "inflight" /\ Inf!Next /\ UNCHANGED part
  \/ part = "acceptance" /\ Notice!Acc!Next /\ UNCHANGED <<part, From16>>
  \/ part = "failover" /\ Guard!Fail!Next /\ UNCHANGED <<part, From18>>
  \/ part = "limit" /\ Notice!Limit!Next /\ UNCHANGED <<part, From9>>
  \/ part = "routing" /\ Notice!Route!Next /\ UNCHANGED <<part, From13>>
  \/ part = "approvals" /\ Guard!Appr!Next /\ UNCHANGED <<part, From12>>
  \/ part = "turns" /\ Files!Turn!Next /\ UNCHANGED <<part, From10>>
  \/ part = "mute" /\ Files!Mute!Next /\ UNCHANGED <<part, From12>>
  \/ part = "reload" /\ Host!Rel!Next /\ UNCHANGED <<part, From15>>
  \/ part = "attach" /\ Host!Att!Next /\ UNCHANGED <<part, From9>>
  \/ part = "input" /\ Host!Input!Next /\ UNCHANGED <<part, From11>>
  \/ part = "update" /\ Files!Upd!Next /\ UNCHANGED <<part, From14>>
  \/ part = "members" /\ Notice!Mem!Next /\ UNCHANGED <<part, From11>>
  \/ part = "events" /\ Files!Ev!Next /\ UNCHANGED <<part, From11>>
  \/ part = "goals" /\ Notice!Goal!Next /\ UNCHANGED <<part, From11>>
  \/ part = "config" /\ Files!Conf!Next /\ UNCHANGED <<part, From11>>
  \/ part = "boot" /\ Host!Gate!Next /\ UNCHANGED <<part, From14>>
  \/ part = "panelog" /\ Host!Pane!Next /\ UNCHANGED <<part, From13>>
  \/ part = "alwayson" /\ Host!On!Next /\ UNCHANGED <<part, From12>>
  \/ part = "voice" /\ Notice!Vo!Next /\ UNCHANGED <<part, From16>>
  \/ part = "opencode" /\ Host!Oc!Next /\ UNCHANGED <<part, From23>>
  \/ part = "control" /\ Host!Ctl!Next /\ UNCHANGED <<part, From17>>
  \/ part = "start" /\ Host!Start!Next /\ UNCHANGED <<part, From11>>
  \/ part = "connect" /\ Notice!Con!Next /\ UNCHANGED <<part, From14>>
  \/ part = "uninstall" /\ Notice!Un!Next /\ UNCHANGED <<part, From16>>
  \/ part = "origin" /\ Guard!Orig!Next /\ UNCHANGED <<part, From10>>
  \/ part = "teardown" /\ Guard!Tear!Next /\ UNCHANGED <<part, From13>>
  \/ part = "clock" /\ Files!Idle!Next /\ UNCHANGED <<part, From12>>

\* The daemon's timers and launchd go on, in the components where something
\* must happen in the end: the host's reset time passes, launchd takes a job
\* down and keeps a loaded one running, the index sweep comes round; a pass, a
\* verb and the watcher that is not killed takes its next step.
InLimit == part = "limit" /\ UNCHANGED <<part, From9>>
InAlwaysOn == part = "alwayson" /\ UNCHANGED <<part, From12>>
InMembers == part = "members" /\ UNCHANGED <<part, From11>>
Timer == \/ InLimit /\ Notice!Limit!ResetPasses
         \/ InAlwaysOn /\ Host!On!Dismantle
         \/ InMembers /\ Notice!Mem!SyncTick
Sweep == \/ InLimit /\ Notice!Limit!PassStep("p")
         \/ InAlwaysOn /\ Host!On!KeepAlive
         \/ InMembers /\ Notice!Mem!SyncReindex
Watch == \/ InAlwaysOn /\ Host!On!Watcher
         \/ InMembers /\ Notice!Mem!SyncDone
HostUp == InAlwaysOn /\ Host!On!HostUp
VerbGoesOn(p) == InMembers /\ Notice!Mem!Step(p)

Spec == /\ Init /\ [][Next]_vars
        /\ WF_vars(Timer) /\ WF_vars(Sweep) /\ WF_vars(Watch) /\ WF_vars(HostUp)
        /\ WF_vars(VerbGoesOn("p")) /\ WF_vars(VerbGoesOn("q"))

-----------------------------------------------------------------------------
(***************************************************************************)
(* Properties                                                              *)
(***************************************************************************)
\* Every component's variables have the values its module says they have.
TypeOK ==
  /\ part = "inflight" => Inf!TypeOK
  /\ part = "acceptance" => Notice!Acc!TypeOK
  /\ part = "failover" => Guard!Fail!TypeOK
  /\ part = "limit" => Notice!Limit!TypeOK
  /\ part = "routing" => Notice!Route!TypeOK
  /\ part = "approvals" => Guard!Appr!TypeOK
  /\ part = "turns" => Files!Turn!TypeOK
  /\ part = "mute" => Files!Mute!TypeOK
  /\ part = "reload" => Host!Rel!TypeOK
  /\ part = "attach" => Host!Att!TypeOK
  /\ part = "input" => Host!Input!TypeOK
  /\ part = "update" => Files!Upd!TypeOK
  /\ part = "members" => Notice!Mem!TypeOK
  /\ part = "events" => Files!Ev!TypeOK
  /\ part = "goals" => Notice!Goal!TypeOK
  /\ part = "config" => Files!Conf!TypeOK
  /\ part = "boot" => Host!Gate!TypeOK
  /\ part = "panelog" => Host!Pane!TypeOK
  /\ part = "alwayson" => Host!On!TypeOK
  /\ part = "voice" => Notice!Vo!TypeOK
  /\ part = "opencode" => Host!Oc!TypeOK
  /\ part = "control" => Host!Ctl!TypeOK
  /\ part = "start" => Host!Start!TypeOK
  /\ part = "connect" => Notice!Con!TypeOK
  /\ part = "uninstall" => Notice!Un!TypeOK
  /\ part = "origin" => Guard!Orig!TypeOK
  /\ part = "teardown" => Guard!Tear!TypeOK
  /\ part = "clock" => Files!Idle!TypeOK

\* inflight.ts: a message is sent to a second session only when the first one
\* never worked on it and its delivery was proved, whatever two passes and a
\* dying daemon make of the ledger.
NothingRunsTwice == part = "inflight" => Inf!NothingRunsTwice

\* main.ts, flushHeldNotices: a held notice leaves the file only when it was
\* delivered or dropped by the rules, although two passes overlap and one may
\* die.
HeldUntilTold == [][part = "inflight" => Inf!KeepsHeld]_vars

\* acceptance.ts: the notice of one verdict is sent once, unless that send was
\* refused, over restarts between its claim, its send and its record.
NeverToldTwice == [][part = "acceptance" => Notice!Acc!TellsOnce]_vars

\* failover.ts: a task goes to another runtime only when the first session
\* never worked on it, provider retries and a restart in the middle included.
ReplayedUnstarted == part = "failover" => Guard!Fail!ReplayedUnstarted

\* limitresume.ts: a park does not stay, whatever fails and whoever resumes.
ParkResolves == \A e \in 1 .. 2 :
  (part = "limit" /\ Notice!Limit!Parked(e)) ~> (part = "limit" => ~Notice!Limit!Parked(e))

\* transport/index.ts: a message that was answered "queued" is in the queue, in
\* the drain's hand, delivered, or its sender was told, at every moment.
QueuedHasAFate == part = "routing" => Notice!Route!QueuedHasAFate

\* approvals.ts: every affirmative key and every tool call let through goes back
\* to a human's allow of that very request and that very modal.
OnlyTheHumanAllows == part = "approvals" => Guard!Appr!OnlyTheHumanAllows

\* activity.ts: the activity shown is the one the session's own last line
\* stands for, whatever other sessions and sub-agents write beside it.
ActivityHonest == part = "turns" => Files!Turn!ActivityHonest

\* mutewatch.ts: a notice or a park stands for a turn that died on a refusal,
\* and the same line read again is not another one.
MuteIsReal == part = "mute" => Files!Mute!MuteIsReal

\* reload.ts and launch: a request that says "applied" was met by a launch that
\* read the configuration it asks for.
AppliedIsCurrent == part = "reload" => Host!Rel!AppliedIsCurrent

\* supervisor/daemon.ts: a client that attaches while the child writes gets each
\* output once.
SeesItOnce == part = "attach" => Host!Att!SeesItOnce

\* supervisor/daemon.ts: a delivery that reports success was submitted, and a
\* committed reload takes no typed input with it.
NothingLeftBehind == part = "input" => Host!Input!NothingLeftBehind

\* install/index.ts and update: "already-latest" is said only when the loaded
\* daemon runs the installed binary.
SaysWhatRuns == part = "update" => Files!Upd!SaysWhatRuns

\* identity and storage: again and again the index says what the folders'
\* profiles say, whichever verbs overlap and are killed half way.
IndexFollows == []<>(part = "members" => (Notice!Mem!InSync \/ ~Notice!Mem!Writable))

\* events.ts: of several writers that find the log full at once one rotates it,
\* and the newest lines stay.
NewestKept == part = "events" => Files!Ev!NewestKept

\* goalwatch.ts: a stall is told, however long the sweep took.
NoStallMissed == part = "goals" => Notice!Goal!NoStallMissed

\* cli/index.ts, codexHooksTrust.ts: the host's configuration says what the peers' folders need when
\* no verb is at work.
AtRestAgrees == part = "config" => Files!Conf!AtRestAgrees

\* launchdRun.ts: the session of a loaded job comes back, or the job is stopped.
KeptUp == []<>(part = "alwayson" => Host!On!Up)

\* iapeer-plugin.mjs: a committed reload cuts no message the runtime took.
ReloadCutsNothing == part = "opencode" => Host!Oc!ReloadCutsNothing

\* transport/index.ts: a stop that reports success has ended every turn of the peer.
StopStops == part = "control" => Host!Ctl!StopStops

\* originGuard.ts: of two confirms one wins; a held send goes out once.
HeldOnce == part = "origin" => Guard!Orig!HeldOnce

\* processTree.ts: a pid that changed hands is never signalled.
NeverAStranger == part = "teardown" => Guard!Tear!NeverAStranger

\* lifecycle/index.ts: no session is reaped that worked within its bound.
RecentWorkKeeps == part = "clock" => Files!Idle!RecentWorkKeeps
=============================================================================
