CONSTANTS
  Keys <- MCKeys
  Data <- MCData
  History <- MCHistory
  Connections = {c1, c2}
  None = None
  TornReads = FALSE
  Modes = {TRUE}
  Outcomes = {"return", "throw", "close"}
  Faults = {"stream", "frame"}
  MaxWire = 2
  MaxAsked = 2
SPECIFICATION Spec
PROPERTIES NothingSwappedAfterClose
CHECK_DEADLOCK FALSE
