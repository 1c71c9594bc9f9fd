CONSTANTS
  a = a
  b = b
  Base = Base
  At = At
  Junk = Junk
  Unset = Unset
  Configs <- MCConfigs
  CpuId <- OldCpuId
  Jobs <- OldJobs
  Addrs <- MCAddrs
  Faults = {}
  MaxRuns = 1
SPECIFICATION Spec
INVARIANT NeverStrays
CHECK_DEADLOCK FALSE
