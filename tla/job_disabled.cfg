SPECIFICATION Spec
CONSTANTS
  daily = daily
  Jobs = {daily}
  DefaultJobs = {daily}
  MaxRuns = 1
  MaxEntries = 2
  Handlers = {"api"}
  Operations = {"create", "edit", "enable", "disable", "delete", "start", "stop"}
  MaxActivity = 4
  MaxFaults = 0
  Day = 4
  Window <- MCWindow
CHECK_DEADLOCK FALSE
PROPERTIES
  DisabledStays
