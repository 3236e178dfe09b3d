SPECIFICATION Spec
CONSTANTS
  Members = {m1, m2}
  Admins = {a}
  Flags = {f1, f2}
  Wrong = wrong
  MaxAttempts = 2
  MaxCalls = 7
  MaxDeaths = 0
SYMMETRY Symm
INVARIANT AwardExact
CHECK_DEADLOCK FALSE
