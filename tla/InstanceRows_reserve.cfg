SPECIFICATION Spec
CONSTANTS
  Owners = {o1}
  Chals = {x}
  Workers = {w1, w2}
  Sweepers = {}
  Reconcilers = {}
  Routes = {"spawn", "teardown"}
  Cap = 2
  Cids = {c1, c2, c3, c4}
  MaxCalls = 3
  MaxFaults = 0
  FaultKinds = {}
  None = None
SYMMETRY Symm
INVARIANT OneEnsurePerKey
CHECK_DEADLOCK FALSE
