SPECIFICATION Spec
CONSTANTS
  k1 = k1  k2 = k2  k3 = k3
  c1 = c1  c2 = c2
  Keys <- MCKeys
  Sources <- MCSources
  Callers = {c1, c2}
  Previous = {2}
  InsertBatch = 1
  AutoCap = 1
  AutoShare = 3
  KeptPercent = 90
  Approvals = {"first"}
  MaxWrites = 1
  MaxFaults = 1
SYMMETRY MCSymmetry
INVARIANTS
  TypeOK
  ApprovedOnce
  DeletionIsBounded
  OnlyTargetOnly
CHECK_DEADLOCK FALSE
