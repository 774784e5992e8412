SPECIFICATION FairSpec
CONSTANTS
  a1 = a1  a2 = a2  b = b  x = x
  ka = ka  kb = kb  spring = spring  summer = summer
  NoKey = NoKey  NoScope = NoScope
  Rows <- MCRows
  KeyOf <- MCKeyOf
  ScopeOf <- MCScopeOf
  NoStock <- MCNoStock
  Modes = {"full", "reset"}
  DirectBelow = 3
  DirectBatch = 1
  MaxRounds = 2
  MaxFaults = 1
  MaxCrashes = 1
INVARIANTS
  TypeOK
  SuccessIsWritten
  LeaksAreFaults
PROPERTIES
  WritesAsATable
  FormEnds
CHECK_DEADLOCK FALSE
