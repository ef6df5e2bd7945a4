SPECIFICATION Spec
CONSTANTS
  Users = {u1, u2}
  Pairs = {p1}
  Nodes = {0}
  MaxTrades = 1
  MaxStamp = 2
  MaxChange = 1
  MaxFault = 2
  MaxCrash = 1
  Absent = Absent
  Bad = Bad
INVARIANTS CleanIsMirrored SkippedIsStored
PROPERTIES RemovedKnowingly
SYMMETRY UserSymmetry
CHECK_DEADLOCK FALSE
