CONSTANTS
  Keys <- MCKeys
  Data <- MCData
  History <- MCHistory
  Connections = {c1, c2}
  None = None
  TornReads = FALSE
  Modes = {TRUE, FALSE}
  Outcomes = {"return", "throw", "close"}
  Faults = {"stream", "frame"}
  MaxWire = 2
  MaxAsked = 2
SPECIFICATION Spec
INVARIANTS HoldsTheRowOfItsRevision OneConnectionOrReconnect ClosedLeavesNothingRunning
PROPERTIES NeverGoesBack ClosedSwapsOnlyWhatWasRead
CHECK_DEADLOCK FALSE
