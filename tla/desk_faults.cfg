SPECIFICATION Spec
CONSTANTS
  ann = ann
  bob = bob
  A = A
  B = B
  Nobody = Nobody
  Names = {ann, bob}
  Accounts = {A, B}
  Callers = {"store", "chat"}
  TimeToLive = 2
  NegTimeToLive = 1
  MaxRetryAfter = 2
  MaxCache = 1
  MaxLookup = 1
  StaleLookup = 2
  Renames <- MCRenames
  Keys <- MCKeys
  BaseCooldown = 1
  MaxCooldown = 2
  ResetAfter = 3
  StaleAfter = 3
  Saturation = 1
  MaxEntries = 2
  Commands <- MCCommands
  ChatNames = {ann}
  FirstOwner <- MCFirstOwner
  Deposit <- MCDeposit
  Operators = {B}
  MaxCommands = 4
  MaxChatCalls = 1
INVARIANTS
  PenaltyKept
  HonestWait
  NoticesBounded
  AnswerIsRecent
