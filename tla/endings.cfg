SPECIFICATION FairSpec
CONSTANTS
  light = light
  light2 = light2
  heavy = heavy
  MaxRuns = 1
  Forms = {light, light2, heavy}
  Group <- MCGroup
  Concurrency = 1
  Requests <- AnyNumber
  Kinds = {"api", "schedule"}
  AllowStop = TRUE
  MaxFaults = 2
  MaxShutdowns = 1
  MaxStarts = 0
  MaxCrashes = 0
CHECK_DEADLOCK FALSE
CONSTRAINT ManyFormsNoFault
INVARIANTS
  StopIsDurable
PROPERTIES
  WriterKeepsContext
  ShutdownEnds
  StopEnds
  EveryRunEnds
  SuccessMeansAllForms
