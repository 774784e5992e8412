SPECIFICATION FairSpec
CONSTANTS
  daily = daily
  Jobs = {daily}
  DefaultJobs = {daily}
  MaxRuns = 2
  MaxEntries = 2
  Handlers = {"api"}
  Operations = {"create", "edit", "enable", "disable", "delete", "start", "stop"}
  MaxActivity = 4
  MaxFaults = 1
  Day = 4
  Window <- MCWindow
CHECK_DEADLOCK FALSE
INVARIANTS
  TypeOK
  ScheduleFollowsRun
  SummaryIsRecorded
  FailureIsTold
PROPERTIES
  ScheduledRunsKeepContract
  EveryScheduleRunEnds
