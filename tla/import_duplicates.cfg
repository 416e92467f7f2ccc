SPECIFICATION Spec
CONSTANTS
  Job = {j1, j2}
  Inbox = {i1}
  Elsewhere = {}
  Recording = {r1, r2}
  NoJob = NoJob
  NoFile = NoFile
  MaxLength = 1
  MaxFiles = 2
  MaxRetries = 0
  MaxExits = 1
  MaxFaults = 0
  StableMayChange = FALSE
SYMMETRY Symmetry
INVARIANTS
  DuplicateOfCompleted
