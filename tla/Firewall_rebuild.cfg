SPECIFICATION Spec
CONSTANTS
  Owners = {o1, o2}
  Ips = {i1}
  Octets = {n1, n2}
  Inet = inet
  None = None
  Threads = {t1, t2}
  MaxCalls = 2
  MaxFaults = 2
  FaultKinds = {"start", "hook", "flush", "rule", "crash", "reboot"}
SYMMETRY Symm
INVARIANT TypeOK
INVARIANT ChainAgrees
INVARIANT NoDrift
INVARIANT Hooked
CHECK_DEADLOCK FALSE
