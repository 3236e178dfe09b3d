SPECIFICATION FairSpec
CONSTANTS
  Owners = {o1}
  Chals = {x, y}
  Public = {x}
  Octets = {1, 2}
  Hosts = {2, 3}
  Ports = {1, 2}
  HostPorts = {1}
  Threads = {t1, t2, t3}
  MaxSpawns = 2
  Tries = 2
  OctetTries = 2
  Cids = {c1, c2, c3, c4, c5, c6}
  MaxCalls = 3
  MaxFaults = 1
  FaultKinds = {"docker", "remove", "crash", "build", "exit"}
  Main = main
  None = None
INVARIANT TypeOK
INVARIANT ContainersAccounted
INVARIANT IInv
PROPERTY RowsOutliveContainers
PROPERTY RequestsReturn
PROPERTY ImplementsTable
CHECK_DEADLOCK FALSE
