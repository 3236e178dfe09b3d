SPECIFICATION OrderlySpec
CONSTANTS
  Owners = {o1}
  Chals = {x, y, z}
  Workers = {w1, w2}
  Sweepers = {s}
  Reconcilers = {r}
  Routes = {"spawn", "teardown", "force", "kill", "extend"}
  Cap = 1
  Cids = {c1, c2, c3, c4, c5, c6}
  MaxCalls = 5
  MaxFaults = 2
  FaultKinds = {"remove", "spawn", "exit"}
  None = None
SYMMETRY Symm
INVARIANT CapBounded
INVARIANT QuietAgree
CHECK_DEADLOCK FALSE
