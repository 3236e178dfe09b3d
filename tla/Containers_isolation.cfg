SPECIFICATION Spec
CONSTANTS
  Owners = {o1, o2}
  Chals = {x}
  Public = {}
  Octets = {1, 2}
  Hosts = {2}
  Ports = {1}
  HostPorts = {}
  Threads = {t1, t2}
  MaxSpawns = 2
  Tries = 1
  OctetTries = 2
  Cids = {c1, c2, c3, c4}
  MaxCalls = 4
  MaxFaults = 0
  FaultKinds = {}
  Main = main
  None = None
SYMMETRY Symm
INVARIANT OwnNetwork
CHECK_DEADLOCK FALSE
