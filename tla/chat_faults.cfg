SPECIFICATION Spec
CONSTANTS
  ann = ann
  bob = bob
  NoOne = NoOne
  Players = {ann, bob}
  FirstDay = 2
  MaxDay = 3
  RetainDays = 1
  InboxCap = 2
  UsdCap = 3
  ComposerCap = 9
  ClassifierCap = 9
  Estimate = 1
  MaxNotes = 1
  Costs = {2}
  MaxIterations = 2
  MaxShorten = 1
  BusCap = 1
  MinSenders = 1
  Plans <- MCPlans
SYMMETRY MCPlayers
CHECK_DEADLOCK FALSE
INVARIANTS
  ForgottenIsGone
  HandleIsCurrent
  SpendBounded
