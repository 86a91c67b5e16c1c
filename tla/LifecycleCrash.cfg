CONSTANTS
  t = t
  w = w
  w2 = w2
  none = none
  Proc <- OneWake
  Timers <- Tick1
  NoProc = none
  Verbs <- CrashVerbs
  Boots <- HungBoots
  MayDie <- Launcher
  Human = TRUE
  CrashLoopMax = 2
  Ring = 2
SPECIFICATION FairSpec
INVARIANT TypeOK
INVARIANT LockHeld
INVARIANT LaunchIntoVacancy
PROPERTY NeverReadyIsReaped
