SPECIFICATION Spec
CONSTANTS
  Requests <- MCRequests
  Part = 2
  Chest <- MCChest
  Hand <- MCHand
  Balance = 2
  MaxOrders = 3
  MaxExtra = 1
  Capacity = 2
  Faults = {"chest", "full", "late", "cancel", "blind"}
  Buffer = FALSE
INVARIANT NoDebt
INVARIANT Solvent
INVARIANT CommitIsExchange
INVARIANT AbortIsNoExchange
INVARIANT NothingForgotten
INVARIANT RollbackHasGoods
INVARIANT CreditIsStored
CHECK_DEADLOCK FALSE
