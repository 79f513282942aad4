SPECIFICATION FairSpec
CONSTANTS
  b1 = b1
  b2 = b2
  b3 = b3
  w1 = w1
  w2 = w2
  a1 = a1
  a2 = a2
  r1 = r1
  r2 = r2
  Missing = Missing
  None = None
  NoId = NoId
  Askers = {a1, a2}
  ScanModes <- AllModes
  Signals = TRUE
  Paths <- LivePaths
  Kind <- LiveKind
  Holds <- LiveHolds
  AtFirst = {}
  Tarball <- NoTarball
  Ids <- AllIds
  Stamps <- TwoStamps
  Workers = {w1}
  CacheMax = 1
  LazyModes = {TRUE}
  FaultKinds = {"walk", "needs", "mark", "add", "dwarf"}
  MaxFaults = 1
  MaxWrites = 3
  Requests = {}
  MaxAsked = 0
  Upstream = {}
  MaxStops = 1
INVARIANTS
  RequestKept
PROPERTIES
  RescanHonoured
  EventuallyIndexed
CHECK_DEADLOCK FALSE
