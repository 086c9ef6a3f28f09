CONSTANTS
  Instances = {"i1", "i2"}
  MaxStarts = 2
  MaxAttempts = 1
  Window = 1
  Requests = {"r1", "r2", "r3"}
  Workloads <- MCWorkloads
  Keys = {"k1"}
  None = "none"
  OrgNames <- MCOrgNames
  Words <- MCWords
  ProjectSlugs <- MCProjectSlugs
  MaxSlugAttempts = 2
SPECIFICATION FairSpec
INVARIANTS StreamsAreFed TrailsAreExact ConflictMeansTaken OwnerlessOnlyIfInterrupted
PROPERTIES DrainsUnlessClientStalls UncountedGuessOverlapped
CHECK_DEADLOCK FALSE
