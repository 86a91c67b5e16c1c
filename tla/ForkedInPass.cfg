\* Nothing exits by itself and every reading succeeds: is a child that is
\* forked during a pass caught by the next?
CONSTANTS
  Pid = {"1", "2", "3", "4"}
  Root = "1"
  Passes = 3
  MaxFork = 3
  MaxExit = 0
  MaxReuse = 0
  MaxBlind = 0
SPECIFICATION Spec
INVARIANT ForkedInPassIsCaught
CHECK_DEADLOCK FALSE
