SPECIFICATION Spec
CONSTANTS
  Owners = {o1}
  Chals = {x, y}
  Workers = {w1, w2, w3}
  Sweepers = {}
  Reconcilers = {}
  Routes = {"spawn"}
  Cap = 2
  Cids = {c1, c2, c3, c4}
  MaxCalls = 4
  MaxFaults = 1
  FaultKinds = {"spawn", "exit"}
  None = None
SYMMETRY Symm
INVARIANT OneEnsurePerKey
PROPERTY SpawnFailsClean
CHECK_DEADLOCK FALSE
