SPECIFICATION Spec
CONSTANTS
  Users = {u1}
  Kinds = {"sell"}
  MaxQueueSize = 2
  MaxOrdersPerUser = 3
  MaxOrders = 3
  MaxRestarts = 1
  Faults = {"write", "read", "archive"}
INVARIANTS
  OnlyWaitingQueued
  QueueMatchesFile
  QueueInArrivalOrder
  OneInFlight
  Handover
  MirrorNeverAhead
  UnsavedIsDirty
PROPERTIES
  FirstComeFirstServed
  HeldUntilReleased
  ImplementsService
CHECK_DEADLOCK FALSE
