SPECIFICATION Spec
CONSTANTS
  Owners = {o1}
  Chals = {x}
  Workers = {w1}
  Sweepers = {}
  Reconcilers = {}
  Routes = {"spawn"}
  Cap = 2
  Cids = {c1, c2, c3, c4}
  MaxCalls = 3
  MaxFaults = 1
  FaultKinds = {"timeout"}
  None = None
SYMMETRY Symm
PROPERTY SpawnFailsClean
CHECK_DEADLOCK FALSE
