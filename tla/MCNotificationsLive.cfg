CONSTANTS
  Notification = {n1, old}
  Unreadable = {old}
  FlushSize = 2
  BatchSize = 2
  MaxConcurrent = 2
  MaxRetries = 2
  Forcer = {op}
  ForceLimit = 1
  Faults = {}
SPECIFICATION FairSpec
INVARIANTS
  HandledOrSpent
PROPERTIES
  Stored
  TakenUp
  ForceReturns
