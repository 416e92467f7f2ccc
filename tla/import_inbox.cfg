SPECIFICATION FairSpec
CONSTANTS
  Job = {j1}
  Inbox = {i1}
  Elsewhere = {m1}
  Recording = {r1, r2}
  NoJob = NoJob
  NoFile = NoFile
  MaxLength = 1
  MaxFiles = 2
  MaxRetries = 1
  MaxExits = 1
  MaxFaults = 1
  StableMayChange = FALSE
INVARIANTS
  TypeOK
  QueuedHasOriginal
  ArchivedInboxIsRetryable
PROPERTIES
  RemovedOnlyWhenArchived
  ImportSettles
