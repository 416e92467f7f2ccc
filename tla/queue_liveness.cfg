SPECIFICATION FairSpec
CONSTANTS
  Job = {j1, j2}
  Pid = {p1}
  NoJob = NoJob
  NoPid = NoPid
  MaxAttempts = 1
  MaxExits = 0
  MaxFaults = 0
  LaunchKillMayFail = FALSE
PROPERTIES
  QueuedIsClaimed
CHECK_DEADLOCK FALSE
