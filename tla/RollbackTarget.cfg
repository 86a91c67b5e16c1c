\* A broken release is retried: is .prev still the version that worked?
CONSTANTS
  MaxVersion = 3
  Good = {1}
  Peer = {"p"}
  MaxVerb = 4
SPECIFICATION Spec
INVARIANT RollbackTargetProven
CHECK_DEADLOCK FALSE
