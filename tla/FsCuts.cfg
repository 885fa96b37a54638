SPECIFICATION MCSpec
CONSTANTS
  SectorNum = 3
  Items = 3
  DataLen = 2
  Files <- ShortFiles
  Ops = {"init", "format", "write", "delete"}
  Cuts = {"init", "write", "delete"}
  Fails = {"init", "delete"}
PROPERTIES StoreCutSpec
