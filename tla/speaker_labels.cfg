SPECIFICATION Spec
CONSTANTS
  Recording = {"r1", "r2"}
  Label = {"A", "B"}
  Name = {n1, n2}
  NoName = none
  Voice <- MCVoice
  Speaks <- MCSpeaks
  Threshold = {8}
  Margin = 2
  MaxSimilarity = 10
  MaxRuns = 2
  MaxRenames = 1
  MaxReferences = 2
  MaxFaults = 1
SYMMETRY MCSymmetry
INVARIANTS TypeOK JsonIsNewest CompletedExportsAgree NamesAreConsented UndiarizedIsWarned NamesAreKept
