SPECIFICATION Spec
CONSTANTS
  d1 = d1
  d2 = d2
  n1 = n1
  Docs = {d1, d2}
  Names = {n1}
  FileOf <- OneName
  NoFile = NoFile
  Faults = FALSE
  Crashes = FALSE
INVARIANTS IngestsOwnUpload
CHECK_DEADLOCK FALSE
