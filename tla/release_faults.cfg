SPECIFICATION Spec
CONSTANTS
  Procs = {p1, p2}
  c1 = c1
  c2 = c2
  Payloads = {c1}
  Governed = {c1}
  NoFile = NoFile
  MaxVersion = 2
  MaxEdits = 1
  Offered = {"deploy", "delete"}
  Faults = TRUE
  Crashes = TRUE
  Redelivery = FALSE
SYMMETRY ProcSymmetry
INVARIANTS TypeOK VersionsContiguous CurrentPointsToRelease GateHolds
CHECK_DEADLOCK FALSE
