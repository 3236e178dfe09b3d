SPECIFICATION Spec
CONSTANTS
  Owners = {o1, o2}
  Ips = {i1}
  Octets = {n1, n2}
  Inet = inet
  None = None
  Threads = {t1, t2}
  MaxCalls = 1
  MaxFaults = 0
  FaultKinds = {}
SYMMETRY Symm
CHECK_DEADLOCK FALSE
INVARIANT PeersConfined
