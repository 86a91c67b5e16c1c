CONSTANTS
  t = t
  w = w
  w2 = w2
  none = none
  Proc <- TwoWakes
  Timers <- Tick1
  NoProc = none
  Verbs <- ParkVerbs
  Boots <- HealthyBoots
  MayDie <- Nobody
  Human = FALSE
  CrashLoopMax = 2
  Ring = 2
SPECIFICATION Spec
INVARIANT LaunchIntoVacancy
PROPERTY CrashIsNotResumed
PROPERTY MarkersOutliveFailedBoot
