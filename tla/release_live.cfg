SPECIFICATION FairSpec
CONSTANTS
  Procs = {p1, p2}
  c1 = c1
  c2 = c2
  Payloads = {c1}
  Governed = {c1}
  NoFile = NoFile
  MaxVersion = 2
  MaxEdits = 2
  Offered = {"delete"}
  Faults = FALSE
  Crashes = FALSE
  Redelivery = FALSE
INVARIANTS ActiveImpliesCurrent
PROPERTIES PendingIsDecided
CHECK_DEADLOCK FALSE
