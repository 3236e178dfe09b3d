SPECIFICATION Spec
CONSTANTS
  Owners = {o1}
  Chals = {x, y}
  Workers = {w1, w2}
  Sweepers = {}
  Reconcilers = {}
  Routes = {"spawn"}
  Cap = 1
  Cids = {c1, c2, c3, c4}
  MaxCalls = 3
  MaxFaults = 0
  FaultKinds = {}
  None = None
SYMMETRY Symm
INVARIANT CapHolds
CHECK_DEADLOCK FALSE
