SPECIFICATION PromptSpec
CONSTANTS
  Workers = {w1, w2, w3}
  Interval = 2
  MinLease = 1
  Grace = 2
  JobMax = 5
  MaxTime = 16
  None = None
SYMMETRY Symm
INVARIANT TakeoverBound
CHECK_DEADLOCK FALSE
