CONSTANTS
  Keys <- MCKeys
  Data <- MCData
  Contents <- MCContents
  Modes = {FALSE}
  Faults = {"listener", "loader", "reload", "initial", "fetch", "stream"}
  TornReads = TRUE
  Buffer = 1
  MaxRevision = 2
  MaxWire = 1
SPECIFICATION FairSpec
INVARIANTS TypeOK NeverStalerThanRevision QuietMeansDelivered
PROPERTIES EveryWriteArrives OnlyNewerIsSwappedIn ImplementsConfigFeed
CHECK_DEADLOCK FALSE
