CONSTANTS
  Callers = {"ready"}
  Listeners = {"l1"}
  Hashes = {"b", "c"}
  Expected = "a"
  NoHash = ""
  MaxReadies = 2
  MaxHistory = 3
  MaxFrames = 1
SPECIFICATION FairSpec
INVARIANTS ChangesAreHeard DriftIsReported
PROPERTIES OutOfOrderOnlyWhenOvertaken ClosedLearnsNothing CloseIsFinal FreshForGood
CHECK_DEADLOCK FALSE
