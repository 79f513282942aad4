SPECIFICATION FairSpec
CONSTANTS
  Files <- FiveBuilds
  Dirs <- TwoDirs
  Projects <- TwoProjects
  Runs = {r1}
  None = None
  DirOf <- DirOfBuild
  GroupOf <- TwoLibraries
  ProjectOf <- ProjectOfDir
  BuildNum <- NumOfFile
  DirNum <- NumOfDir
  SizeOf <- OwnSize
  Preprocess = TRUE
  CompressBase = TRUE
  Overwrites = FALSE
  Workers = 1
  FileWorkers = 1
  Batch = 1
  Modes = {"ingest"}
  Faults = {}
  MaxFaults = 0
PROPERTIES
  Converges
  RunsEnd
