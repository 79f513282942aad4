SPECIFICATION FairSpec
CONSTANTS
  Files <- FourBuilds
  Dirs <- TwoDirs
  Projects <- TwoProjects
  Runs = {r1}
  None = None
  DirOf <- DirOfBuild
  GroupOf <- OneLibrary
  ProjectOf <- ProjectOfDir
  BuildNum <- NumOfFile
  DirNum <- NumOfDir
  SizeOf <- SameSize
  Preprocess = TRUE
  CompressBase = FALSE
  Overwrites = FALSE
  Workers = 2
  FileWorkers = 2
  Batch = 1
  Modes = {"ingest", "backfill"}
  Faults = {"tool"}
  MaxFaults = 1
INVARIANTS
  IInv
  Recoverable
PROPERTIES
  NeverHarmful
  BasesFrozen
  StoreSafety
  StoreSpec
