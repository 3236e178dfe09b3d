SPECIFICATION Spec
CONSTANTS
  Threads = {t1, t2, t3}
  Limits = {1, 2}
  Second = 2
  Window = 2
  MaxTime = 6
  MaxCalls = 6
SYMMETRY Symm
INVARIANT TypeOK
INVARIANT WindowBound
INVARIANT RetryHonest
CHECK_DEADLOCK FALSE
