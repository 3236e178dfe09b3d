SPECIFICATION Spec
CONSTANTS
  Owners = {o1}
  Chals = {x}
  Workers = {w1}
  Sweepers = {s}
  Reconcilers = {}
  Routes = {"spawn", "extend"}
  Cap = 2
  Cids = {c1, c2, c3, c4}
  MaxCalls = 3
  MaxFaults = 0
  FaultKinds = {}
  None = None
SYMMETRY Symm
PROPERTY SweepOnlyExpired
CHECK_DEADLOCK FALSE
