SPECIFICATION Spec
CONSTANTS
  Users <- MCUsers
  Ips <- MCIps
  Procs = {p1, p2}
  Routes = {"download", "bulk", "revoke"}
  MaxCalls = 3
  MaxFaults = 1
  FaultKinds = {"wg", "disk", "firewall", "timeout", "down", "crash", "reboot"}
SYMMETRY Symm
INVARIANT TypeOK
INVARIANT DaemonAgrees
INVARIANT RowsHavePeers
INVARIANT RevokedGone
CHECK_DEADLOCK FALSE
