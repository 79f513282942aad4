SPECIFICATION Spec
CONSTANTS
  b1 = b1
  b2 = b2
  b3 = b3
  w1 = w1
  w2 = w2
  a1 = a1
  a2 = a2
  r1 = r1
  r2 = r2
  Missing = Missing
  None = None
  NoId = NoId
  Askers = {}
  ScanModes <- Periodic
  Signals = FALSE
  Paths <- ServePaths
  Kind <- ServeKind
  Holds <- ServeHolds
  AtFirst = {"dsc", "tgz"}
  Tarball <- ServeTarball
  Ids <- TwoIds
  Stamps <- TwoStamps
  Workers = {w1}
  CacheMax = 1
  LazyModes = {TRUE, FALSE}
  FaultKinds = {"copy", "member"}
  MaxFaults = 1
  MaxWrites = 1
  Requests = {r1, r2}
  MaxAsked = 2
  Upstream = {b1}
  MaxStops = 0
SYMMETRY SameRequests
INVARIANTS
  TypeOK
  WrongOnlyIfChanged
  SectionsLeaveNothing
