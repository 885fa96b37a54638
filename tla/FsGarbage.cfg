SPECIFICATION MCSpec
CONSTANTS
  SectorNum = 3
  Items = 3
  DataLen = 2
  Files <- MCFiles
  Ops = {"init", "write", "delete"}
  Cuts = {}
  Fails = {}
INVARIANT GarbageCounted
