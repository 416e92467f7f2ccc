SPECIFICATION FairSpec
CONSTANTS
  Job = {j1}
  Pid = {p1, p2}
  NoJob = NoJob
  NoPid = NoPid
  MaxAttempts = 2
  MaxExits = 1
  MaxFaults = 0
  LaunchKillMayFail = FALSE
PROPERTIES
  ProcessingEnds
CHECK_DEADLOCK FALSE
