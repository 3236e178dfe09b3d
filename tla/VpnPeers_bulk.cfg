SPECIFICATION Spec
CONSTANTS
  Users <- MCUsers
  Ips <- MCIps
  Procs = {p1}
  Routes = {"download", "bulk", "revoke"}
  MaxCalls = 3
  MaxFaults = 0
  FaultKinds = {}
PROPERTY BulkProvides
CHECK_DEADLOCK FALSE
