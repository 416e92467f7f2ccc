SPECIFICATION Spec
CONSTANTS
  Job = {j1}
  Inbox = {i1}
  Elsewhere = {}
  Recording = {r1}
  NoJob = NoJob
  NoFile = NoFile
  MaxLength = 2
  MaxFiles = 1
  MaxRetries = 0
  MaxExits = 0
  MaxFaults = 0
  StableMayChange = TRUE
SYMMETRY Symmetry
PROPERTIES
  RemovedOnlyWhenArchived
