CONSTANTS
  PatchedArgs <- AllArgs
  MAX_TSEL_VALUE = 4
  MAX_DELAY_VALUES = 16
  ADJRDQS_MAX = 31
  Memories <- MCMemories
  Works <- MCWorks
  Rdqs <- MCRdqs
  PartOf <- MCPartOf
  SdrArgs <- MCSdrArgs
  Rams <- MCRams
SPECIFICATION MCSpec
INVARIANTS MainTypeOK FinalWorks RefusesOnlyHopeless Balanced TimingCovers RefreshInTime  RightVerdict SdrSetUp
CHECK_DEADLOCK FALSE
