SPECIFICATION Spec
CONSTANTS
  Procs = {p1, p2}
  c1 = c1
  c2 = c2
  Payloads = {c1, c2}
  Governed = {}
  NoFile = NoFile
  MaxVersion = 2
  MaxEdits = 0
  Offered = {}
  Faults = FALSE
  Crashes = FALSE
  Redelivery = FALSE
PROPERTIES ReleaseImmutable
CHECK_DEADLOCK FALSE
