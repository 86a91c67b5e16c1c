CONSTANTS
  t1 = t1
  t2 = t2
  t3 = t3
  claude = claude
  codex = codex
  d1 = d1
  d2 = d2
  none = none
  visitor = visitor
  Task <- ThreeTasks
  Endpoint <- Endpoints
  Home <- ThreeHomes
  Pinned <- ThreePinned
  Drain <- Drains
  None = none
  Visitor = visitor
  Mischief = 0
SPECIFICATION Spec
INVARIANT TypeOK
INVARIANT NoLoss
PROPERTY IsWorkQueue
CHECK_DEADLOCK FALSE
