SPECIFICATION Spec
CONSTANTS
  Slots <- MCSlots
  MaxBegin = 2
  Cap = 2
  Goods = 3
  MaxFault = 2
INVARIANTS
  ReportIsTrue
  StrandedIsRecorded
  LeftoverIsKept
CHECK_DEADLOCK FALSE
