SPECIFICATION Spec
CONSTANTS
  light = light
  light2 = light2
  heavy = heavy
  MaxRuns = 3
  Forms = {heavy}
  Group <- MCGroup
  Concurrency = 1
  Requests <- AllForms
  Kinds = {"schedule"}
  AllowStop = FALSE
  MaxFaults = 1
  MaxShutdowns = 0
  MaxStarts = 2
  MaxCrashes = 2
CHECK_DEADLOCK FALSE
INVARIANTS
  SingleSuccessfulRecovery
PROPERTIES
  LifecycleSpec
