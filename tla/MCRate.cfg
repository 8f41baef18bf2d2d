SPECIFICATION Spec
CONSTANTS
  Rate = 2
  Grain = 2
  MaxTime = 8
CHECK_DEADLOCK FALSE
INVARIANTS
  TokenBucket
