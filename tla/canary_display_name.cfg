SPECIFICATION Spec
CONSTANTS
  p1 = p1
  p2 = p2
  v1 = v1
  v2 = v2
  Procs = {p1}
  Releases = {v1, v2}
  Requested = {0, 20}
  None = None
  Gone = Gone
  NameIsSlug = FALSE
  Faults = FALSE
  Crashes = FALSE
PROPERTIES WeightTakesEffect
