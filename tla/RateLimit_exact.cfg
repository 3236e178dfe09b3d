SPECIFICATION Spec
CONSTANTS
  Threads = {t1, t2, t3}
  Limits = {1, 2}
  Second = 2
  Window = 2
  MaxTime = 6
  MaxCalls = 5
SYMMETRY Symm
INVARIANT WindowExact
CHECK_DEADLOCK FALSE
