SPECIFICATION Spec
CONSTANTS
  Procs = {p1}
  c1 = c1
  c2 = c2
  Payloads = {c1, c2}
  Governed = {c1}
  NoFile = NoFile
  MaxVersion = 3
  MaxEdits = 2
  Offered = {"deploy", "delete", "sync"}
  Faults = FALSE
  Crashes = TRUE
  Redelivery = TRUE
INVARIANTS ActiveWasEvaluated
PROPERTIES ImplementsLedger 
CHECK_DEADLOCK FALSE
