SPECIFICATION FairSpec
CONSTANTS
  Allowance = 1
  MaxReclaims = 1
  MaxAttempts = 3
  MaxFaults = 2
INVARIANTS
  EvidenceIsTrue
  NeverBodyRunsOnce
  StatusWritesAreOwn
PROPERTY
  Recovers
CHECK_DEADLOCK FALSE
