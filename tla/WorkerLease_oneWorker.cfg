SPECIFICATION Spec
CONSTANTS
  Workers = {w1, w2}
  Interval = 1
  MinLease = 1
  Grace = 2
  JobMax = 0
  MaxTime = 8
  None = None
SYMMETRY Symm
INVARIANT OneWorkerActs
CHECK_DEADLOCK FALSE
