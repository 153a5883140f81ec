SPECIFICATION Spec
CONSTANTS
  Procs = {p1}
  c1 = c1
  c2 = c2
  Payloads = {c1}
  Governed = {c1}
  NoFile = NoFile
  MaxVersion = 1
  MaxEdits = 1
  Offered = {"deploy"}
  Faults = FALSE
  Crashes = FALSE
  Redelivery = FALSE
INVARIANTS CurrentPassedGate
CHECK_DEADLOCK FALSE
