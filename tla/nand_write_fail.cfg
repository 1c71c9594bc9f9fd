CONSTANTS
  Ppb = 5
  NBlocks = 8
  Images = {"a", "b", "c"}
  Boards <- ProtectedBoards
  SplPages = 2
  EccCnt = 4
SPECIFICATION Spec
INVARIANTS SkipsWriteFailBlock
