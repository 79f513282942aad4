SPECIFICATION Spec
CONSTANTS
  b1 = b1
  b2 = b2
  b3 = b3
  w1 = w1
  w2 = w2
  a1 = a1
  a2 = a2
  r1 = r1
  r2 = r2
  Missing = Missing
  None = None
  NoId = NoId
  Askers = {}
  ScanModes <- Periodic
  Signals = FALSE
  Paths <- ScanPaths
  Kind <- ScanKind
  Holds <- ScanHolds
  AtFirst = {"copy"}
  Tarball <- NoTarball
  Ids <- AllIds
  Stamps <- TwoStamps
  Workers = {w1, w2}
  CacheMax = 1
  LazyModes = {TRUE, FALSE}
  FaultKinds = {"walk", "needs", "mark", "add", "dwarf", "extract"}
  MaxFaults = 1
  MaxWrites = 2
  Requests = {}
  MaxAsked = 0
  Upstream = {}
  MaxStops = 1
SYMMETRY SameWorkers
INVARIANTS
  ScannedIsIndexed
  CleanScanCovers
  RowsTrue
PROPERTIES
  RowsOnlyRenewed
