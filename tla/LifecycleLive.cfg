CONSTANTS
  t = t
  w = w
  w2 = w2
  none = none
  Proc <- OneWake
  Timers <- Tick1
  NoProc = none
  Verbs <- LiveVerbs
  Boots <- AllBoots
  MayDie <- Nobody
  Human = TRUE
  CrashLoopMax = 2
  Ring = 2
SPECIFICATION FairSpec
PROPERTY HostSupervised
PROPERTY EagerIsTaken
PROPERTY StopIsEnforced
