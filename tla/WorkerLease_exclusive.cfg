SPECIFICATION Spec
CONSTANTS
  Workers = {w1, w2}
  Interval = 2
  MinLease = 1
  Grace = 0
  JobMax = 0
  MaxTime = 13
  None = None
SYMMETRY Symm
INVARIANT LeaseExclusive
PROPERTY ExpiryAdvances
PROPERTY TakeoverAfterExpiry
INVARIANT IInv
CHECK_DEADLOCK FALSE
