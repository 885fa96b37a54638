SPECIFICATION MCSpec
CONSTANTS
  SectorNum = 3
  Items = 3
  DataLen = 2
  Files <- MCFiles
  Ops = {"init", "format", "write", "delete", "collect"}
  Cuts = {}
  Fails = {}
INVARIANTS TypeOK ProgramsErased RestartInvisible FreeSizeExact
PROPERTIES CollectReclaims StoreSpec
