SPECIFICATION Spec
CONSTANTS
  N = 4
  Keyless = {}
  PageSize = 2
  OrphanCap = 10
  Staged = TRUE
  Modes = {"incremental"}
  MaxRuns = 2
  MaxTime = 3
  MaxFaults = 0
  MaxCrashes = 1
  AllowStop = FALSE
INVARIANTS RecoveryIsComplete
CHECK_DEADLOCK FALSE
