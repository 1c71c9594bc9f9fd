CONSTANTS
  a = a
  b = b
  Base = Base
  At = At
  Junk = Junk
  Unset = Unset
  Configs <- MCConfigs
  CpuId <- MCCpuId
  Jobs <- MCJobs
  Addrs <- MCAddrs
  Faults = {"kill", "power", "card", "stage1"}
  MaxRuns = 3
SPECIFICATION FairSpec
INVARIANTS TypeOK NeverStrays WrittenForThisRun DoneMeansDownloaded
PROPERTY ScriptEnds
CHECK_DEADLOCK FALSE
