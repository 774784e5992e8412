SPECIFICATION FairSpec
CONSTANTS
  N = 4
  Keyless = {2, 3}
  PageSize = 2
  OrphanCap = 2
  Staged = FALSE
  Modes = {"full", "incremental"}
  MaxRuns = 2
  MaxTime = 2
  MaxFaults = 1
  MaxCrashes = 1
  AllowStop = TRUE
INVARIANTS TypeOK SuccessIsComplete CheckpointIsDurable
PROPERTIES LiveRowsKept FormEnds
CHECK_DEADLOCK FALSE
