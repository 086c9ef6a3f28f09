CONSTANTS
  Keys <- MCKeys
  Data <- MCData
  Contents <- MCContents
  Modes = {TRUE}
  Faults = {"listener", "loader", "initial", "fetch", "stream"}
  TornReads = FALSE
  Buffer = 1
  MaxRevision = 3
  MaxWire = 1
SPECIFICATION Spec
INVARIANTS ExactAtRevision
CHECK_DEADLOCK FALSE
