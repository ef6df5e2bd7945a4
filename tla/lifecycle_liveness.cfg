SPECIFICATION FairSpec
CONSTANTS
  Users = {u1, u2}
  Kinds = {"buy", "sell", "deposit", "withdraw"}
  MaxQueueSize = 2
  MaxOrdersPerUser = 1
  MaxOrders = 2
  MaxRestarts = 2
  Faults = {}
PROPERTIES
  EveryOrderLeavesQueue
CHECK_DEADLOCK FALSE
