SPECIFICATION Spec
CONSTANTS
  Owners = {o1}
  Chals = {x}
  Public = {}
  Octets = {1, 2}
  Hosts = {2, 3}
  Ports = {1}
  HostPorts = {}
  Threads = {t1, t2}
  MaxSpawns = 2
  Tries = 2
  OctetTries = 2
  Cids = {c1, c2, c3, c4}
  MaxCalls = 2
  MaxFaults = 1
  FaultKinds = {"crash"}
  Main = main
  None = None
SYMMETRY Symm
INVARIANT QuietTracked
CHECK_DEADLOCK FALSE
