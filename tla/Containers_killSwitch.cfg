SPECIFICATION Spec
CONSTANTS
  Owners = {o1}
  Chals = {x}
  Public = {}
  Octets = {1, 2}
  Hosts = {2, 3}
  Ports = {1}
  HostPorts = {}
  Threads = {t1}
  MaxSpawns = 2
  Tries = 2
  OctetTries = 2
  Cids = {c1, c2, c3, c4}
  MaxCalls = 3
  MaxFaults = 1
  FaultKinds = {"exit"}
  Main = main
  None = None
SYMMETRY Symm
PROPERTY KillSwitchStopsAll
CHECK_DEADLOCK FALSE
