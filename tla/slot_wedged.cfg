SPECIFICATION Spec
CONSTANTS
  light = light
  light2 = light2
  heavy = heavy
  MaxRuns = 1
  Forms = {light}
  Group <- MCGroup
  Concurrency = 1
  Requests <- AllForms
  Kinds = {"api"}
  AllowStop = TRUE
  MaxFaults = 0
  MaxShutdowns = 0
  MaxStarts = 0
  MaxCrashes = 0
CHECK_DEADLOCK FALSE
INVARIANTS
  SlotHasRunner
