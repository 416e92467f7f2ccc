SPECIFICATION Spec
CONSTANTS
  Job = {j1}
  Pid = {p1, p2}
  NoJob = NoJob
  NoPid = NoPid
  MaxAttempts = 2
  MaxExits = 2
  MaxFaults = 1
  LaunchKillMayFail = FALSE
SYMMETRY Symmetry
INVARIANTS
  OneRunningWorker
  RunningWorkerOwnsRow
  BlockedRowsProcess
  SupervisionInv
  CompletedIsWholeOrStale
PROPERTIES
  SlotContract
CHECK_DEADLOCK FALSE
