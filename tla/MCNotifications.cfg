CONSTANTS
  Notification = {n1, n2}
  Unreadable = {}
  FlushSize = 2
  BatchSize = 2
  MaxConcurrent = 1
  MaxRetries = 2
  Forcer = {op}
  ForceLimit = 1
  Faults = {"disk", "crash", "timeout"}
SPECIFICATION Spec
SYMMETRY MCSymmetry
INVARIANTS
  TypeOK
  Exclusive
  TriesBounded
PROPERTIES
  NothingVanishes
  SentOnce
  DeliveryKept
