SPECIFICATION FairSpec
CONSTANTS
  Owners = {o1}
  Chals = {x}
  Workers = {w1, w2}
  Sweepers = {s}
  Reconcilers = {r}
  Routes = {"spawn", "teardown", "force", "kill", "extend"}
  Cap = 2
  Cids = {c1, c2, c3}
  MaxCalls = 2
  MaxFaults = 1
  FaultKinds = {"spawn", "docker", "firewall", "timeout", "down", "die", "remove", "exit"}
  None = None
INVARIANT TypeOK
INVARIANT PendingAccounted
INVARIANT IInv
PROPERTY RowsHeal
PROPERTY PendingResolves
PROPERTY ImplementsTable
CHECK_DEADLOCK FALSE
