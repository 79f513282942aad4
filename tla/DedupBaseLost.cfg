SPECIFICATION Spec
CONSTANTS
  Files <- ThreeBuilds
  Dirs <- TwoDirs
  Projects <- TwoProjects
  Runs = {r1}
  None = None
  DirOf <- DirOfBuild
  GroupOf <- OneLibrary
  ProjectOf <- ProjectOfDir
  BuildNum <- NumOfFile
  DirNum <- NumOfDir
  SizeOf <- OwnSize
  Preprocess = TRUE
  CompressBase = TRUE
  Overwrites = FALSE
  Workers = 2
  FileWorkers = 2
  Batch = 1
  Modes = {"ingest"}
  Faults = {}
  MaxFaults = 0
INVARIANTS
  BaseKept
