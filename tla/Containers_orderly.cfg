SPECIFICATION OrderlySpec
CONSTANTS
  Owners = {o1, o2}
  Chals = {x, y}
  Public = {y}
  Octets = {1}
  Hosts = {2}
  Ports = {1}
  HostPorts = {}
  Threads = {t1, t2}
  MaxSpawns = 2
  Tries = 2
  OctetTries = 2
  Cids = {c1, c2, c3, c4, c5, c6, c7, c8}
  MaxCalls = 5
  MaxFaults = 2
  FaultKinds = {"build", "exit", "crash"}
  Main = main
  None = None
SYMMETRY Symm
INVARIANT OwnNetwork
INVARIANT OwnersKeepSubnet
INVARIANT QuietTracked
PROPERTY OnlyReleaseRemoves
CHECK_DEADLOCK FALSE
