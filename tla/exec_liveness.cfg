SPECIFICATION FairSpec
CONSTANTS
  Requests <- MCRequests
  Part = 2
  Chest <- MCChest
  Hand <- MCHand
  Balance = 2
  MaxOrders = 2
  MaxExtra = 0
  Capacity = 1
  Faults = {"chest", "late", "whisper"}
  Buffer = TRUE
PROPERTY EveryOrderEnds
CHECK_DEADLOCK FALSE
