CONSTANTS
  t1 = t1
  t2 = t2
  t3 = t3
  claude = claude
  codex = codex
  d1 = d1
  d2 = d2
  none = none
  visitor = visitor
  Task <- TwoTasks
  Endpoint <- Endpoints
  Home <- TwoHomes
  Pinned <- TwoPinned
  Drain <- Drains
  None = none
  Visitor = visitor
  Mischief = 1
SPECIFICATION FairSpec
INVARIANT NoLoss
PROPERTY IsWorkQueue
PROPERTY Served
CHECK_DEADLOCK FALSE
