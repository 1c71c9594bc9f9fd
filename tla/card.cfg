CONSTANTS
  Boards <- AllBoards
SPECIFICATION FairSpec
INVARIANTS OpenComplete OwnLoaders InitMeansReady
PROPERTIES RequestsAnswered
CHECK_DEADLOCK FALSE
