SPECIFICATION Spec
CONSTANTS
  Option = {standard, changed, bad}
  DefaultOption = standard
  BadOption = bad
  MaxDialogs = 2
  MaxMisreads = 1
  MaxFaults = 2
  MaxExits = 1
INVARIANTS
  TypeOK
  StoresAgree
  RefusedSaveKeepsFile
  WatcherFollowsFile
PROPERTIES
  SaveKeepsAutomatic
