SPECIFICATION Spec
CONSTANTS
  Owners = {o1}
  Chals = {x}
  Workers = {w1}
  Sweepers = {s}
  Reconcilers = {}
  Routes = {"spawn"}
  Cap = 2
  Cids = {c1, c2, c3, c4}
  MaxCalls = 3
  MaxFaults = 1
  FaultKinds = {"docker"}
  None = None
SYMMETRY Symm
PROPERTY SweepKeepsFailed
CHECK_DEADLOCK FALSE
