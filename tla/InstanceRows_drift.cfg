SPECIFICATION FairSpec
CONSTANTS
  Owners = {o1}
  Chals = {x}
  Workers = {w1}
  Sweepers = {}
  Reconcilers = {r}
  Routes = {"spawn", "teardown"}
  Cap = 2
  Cids = {c1, c2, c3, c4}
  MaxCalls = 3
  MaxFaults = 1
  FaultKinds = {"down"}
  None = None
PROPERTY AliveHealed
CHECK_DEADLOCK FALSE
