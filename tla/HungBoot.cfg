CONSTANTS
  t = t
  w = w
  w2 = w2
  none = none
  Proc <- OneWake
  Timers <- Tick1
  NoProc = none
  Verbs <- Nobody
  Boots <- HungBoots
  MayDie <- Nobody
  Human = TRUE
  CrashLoopMax = 2
  Ring = 2
SPECIFICATION Spec
PROPERTY MarkersOutliveFailedBoot
