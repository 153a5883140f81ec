SPECIFICATION FairSpec
CONSTANTS
  d1 = d1
  d2 = d2
  n1 = n1
  Docs = {d1, d2}
  Names = {d1, d2}
  FileOf <- OwnNames
  NoFile = NoFile
  Faults = TRUE
  Crashes = TRUE
INVARIANTS TypeOK IngestsOwnUpload UploadKeptUntilRead ProcessingHasWorker
PROPERTIES ReadyStays Settles
CHECK_DEADLOCK FALSE
