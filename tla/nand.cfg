CONSTANTS
  Ppb = 5
  NBlocks = 8
  Images = {"a", "b", "c"}
  Boards <- AllBoards
  SplPages = 2
  EccCnt = 4
SPECIFICATION FairSpec
INVARIANTS TypeOK EraseCounts ErasedOrMarked Stored CodeAsConfigured ReadBack NoFalseAlarm
PROPERTIES MarksKept SessionEnds
