SPECIFICATION Spec
CONSTANTS
  Owners = {o1}
  Chals = {x}
  Workers = {w1}
  Sweepers = {}
  Reconcilers = {r}
  Routes = {"spawn", "kill"}
  Cap = 2
  Cids = {c1, c2, c3, c4}
  MaxCalls = 3
  MaxFaults = 1
  FaultKinds = {"exit"}
  None = None
SYMMETRY Symm
PROPERTY SpawnedRuns
CHECK_DEADLOCK FALSE
