CONSTANTS
  NoFile = NoFile
  Short = Short
  Bases = {"ddr1", "ddr2", "mddr"}
  Configs <- MCConfigs
  Faults = {"file", "open"}
  MaxRuns = 2
SPECIFICATION Spec
INVARIANTS TypeOK PatchedForThisBoard SpeedKept SizeIsExact
CHECK_DEADLOCK FALSE
