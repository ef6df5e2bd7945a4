SPECIFICATION Spec
CONSTANTS
  Goods = {"diamond", "iron", "gold"}
  ChestsPerNode = 3
  MaxNode = 1
  Built = {0, 1}
  Room <- MCRoom
  Supply <- MCSupply
  MaxQty = 2
  MaxFault = 1
  MaxGrowth = 2
INVARIANTS
  StockFollowsChests
  PictureIsTrue
  PlanFitsWorld
CHECK_DEADLOCK FALSE
