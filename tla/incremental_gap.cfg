SPECIFICATION Spec
CONSTANTS
  N = 2
  Keyless = {}
  PageSize = 2
  OrphanCap = 10
  Staged = TRUE
  Modes = {"full", "incremental"}
  MaxRuns = 2
  MaxTime = 2
  MaxFaults = 0
  MaxCrashes = 0
  AllowStop = FALSE
PROPERTIES IncrementalCatchesUp
CHECK_DEADLOCK FALSE
