SPECIFICATION FairSpec
CONSTANTS
  Job = {j1, j2}
  NoJob = NoJob
  MaxFaults = 1
INVARIANTS
  TypeOK
  LockIsOneRequest
  WorkerKeepsItsRow
  ProcessingIsAttended
PROPERTIES
  QueuedIsPickedUp
  UiReturns
  PassContract
CHECK_DEADLOCK FALSE
