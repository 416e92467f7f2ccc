SPECIFICATION Spec
CONSTANTS
  Job = {j1, j2}
  Pid = {p1, p2}
  NoJob = NoJob
  NoPid = NoPid
  MaxAttempts = 1
  MaxExits = 1
  MaxFaults = 1
  LaunchKillMayFail = TRUE
SYMMETRY Symmetry
INVARIANTS
  TypeOK
  CompletedTranscriptIsWhole
  LaunchFindsRunnerFree
CHECK_DEADLOCK FALSE
