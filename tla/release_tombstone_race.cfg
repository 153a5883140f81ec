SPECIFICATION Spec
CONSTANTS
  Procs = {p1, p2}
  c1 = c1
  c2 = c2
  Payloads = {c1}
  Governed = {}
  NoFile = NoFile
  MaxVersion = 2
  MaxEdits = 1
  Offered = {"delete"}
  Faults = FALSE
  Crashes = FALSE
  Redelivery = FALSE
INVARIANTS DeletedIsArchived
CHECK_DEADLOCK FALSE
