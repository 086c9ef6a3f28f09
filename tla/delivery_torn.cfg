CONSTANTS
  Keys <- MCKeys
  Data <- MCData
  Contents <- MCContents
  Modes = {TRUE}
  Faults = {}
  TornReads = TRUE
  Buffer = 1
  MaxRevision = 2
  MaxWire = 1
SPECIFICATION Spec
INVARIANTS LatestRevisionMeansLatestRow
CHECK_DEADLOCK FALSE
