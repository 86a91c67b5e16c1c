\* The components next to each other, each on its small instance.
CONSTANTS
  None = None
  InfMsg = {"m"}
  CallerOf <- MCCallerOf
  CliSent = {}
  Runtime = "claude"
  Uncertain = {}
  Pass = {"p", "q"}
  MaxSession = 2
  MaxCrash = 1
  NoticeDelivery = {"d"}
  NoticeMaxRestart = 2
  Task = {"t"}
  Other = {"o"}
  MaxHost = 2
  NoticeMsg = {"m", "n"}
  MaxGen = 2
  Modal = {"u"}
  ClassOf <- MCClassOf
  Tool = {"t"}
  Gated = TRUE
  MaxTries = 1
  MaxId = 2
  GuardMaxRestart = 0
  TurnTime = 3
  FilesStale = 2
  Overlap = 1
  FilesMaxRestart = 1
  File = {"a"}
  FilesMaxTime = 4
  Horizon = 4
  Window = 3
  FilesTtl = 3
  Req = {"r", "s", "x"}
  Applier = {"tick"}
  HostRetire = {"x"}
  MaxSurf = 2
  MaxInput = 1
  HostMaxFault = 1
  Viewer = {"v"}
  MaxOut = 4
  Sender = {"s", "t"}
  MaxTyped = 1
  MaxVersion = 3
  Good = {1, 3}
  Peer = {"p"}
  MaxVerb = 4
  Writer = {"a", "b"}
  Cap = 2
  Keep = 1
  MaxLine = 6
  FilesMaxFault = 1
  Thread = {"a", "b"}
  CwdOf <- MCCwdOf
  PeerCwd = {"peer"}
  Stall = {"blocked"}
  NoticeMaxTime = 3
  NoticeTtl = 2
  NoticeMaxFault = 1
  Dir = {"d", "e"}
  FilesProc = {"p", "q"}
  ConfVerb = 3
  MaxEdit = 1
  HostMsg = {"m"}
  MaxLaunch = 2
  MaxInterrupt = 0
  MaxCompact = 1
  MaxPerm = 1
  Rt = {"c", "k"}
  Default = "c"
  Stopper = {"s"}
  Compacter = {"p"}
  Goaler = {}
  MaxTurn = 1
  MaxAuto = 1
  Agent = {"a"}
  Channel = {"web", "tg"}
  GuardProc = {"p", "q"}
  MaxOp = 4
  MaxHold = 1
  GuardMaxTime = 1
  ArmTtl = 1
  HoldTtl = 0
  GuardMaxFault = 0
  Pid = {"1", "2", "3"}
  Root = "1"
  Passes = 2
  MaxFork = 2
  MaxExit = 1
  MaxReuse = 1
  MaxBlind = 1
  IdleLimit = 0
  FilesQuiet = 0
  Unarmed = 0
  Ephemeral = TRUE
  Shared = FALSE
  TailWindow = 2
  Big = 4
  MaxRec = 2
  IdleTime = 1
SPECIFICATION Spec
INVARIANTS
  TypeOK
  NothingRunsTwice
  ReplayedUnstarted
  QueuedHasAFate
  OnlyTheHumanAllows
  
  
  AppliedIsCurrent
  SeesItOnce
  NothingLeftBehind
  SaysWhatRuns
  NewestKept
  NoStallMissed
  
  ReloadCutsNothing
  StopStops
  HeldOnce
  NeverAStranger
  RecentWorkKeeps
PROPERTIES
  HeldUntilTold
  NeverToldTwice
  
  
  KeptUp
\* Bounded instances come to rest when their bounds are used up.
CHECK_DEADLOCK FALSE
