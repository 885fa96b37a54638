SPECIFICATION MCSpec
CONSTANTS
  SectorNum = 3
  Items = 3
  DataLen = 2
  Files <- MCFiles
  Ops = {"init", "write", "collect"}
  Cuts = {"write"}
  Fails = {}
PROPERTY CollectKeepsFiles
