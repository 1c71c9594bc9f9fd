CONSTANTS
  PatchedArgs <- BoardArgs
  MAX_TSEL_VALUE = 4
  MAX_DELAY_VALUES = 16
  ADJRDQS_MAX = 31
  Memories <- MCMemories
  Works <- MCWorks
  Rdqs <- MCRdqs
  PartOf <- MCPartOf
  SdrArgs <- MCSdrArgs
  Rams <- MCRams
SPECIFICATION MCSpec
INVARIANT SpeedAsConfigured
CHECK_DEADLOCK FALSE
