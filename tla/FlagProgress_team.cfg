SPECIFICATION Spec
CONSTANTS
  Members = {m1, m2, m3}
  Admins = {a}
  Flags = {f1, f2, f3}
  Wrong = wrong
  MaxAttempts = 2
  MaxCalls = 7
  MaxDeaths = 1
SYMMETRY Symm
INVARIANT TypeOK
INVARIANT NoOverAward
INVARIANT NoUnderAward
INVARIANT AttemptsBounded
INVARIANT IInv
CHECK_DEADLOCK FALSE
