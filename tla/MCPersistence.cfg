CONSTANTS
  Entity = {lamp, tank, pump}
  MaxBatch = 2
  MaxRetries = 2
  MaxUpdates = 2
  Faults = {"disk", "crash", "timeout"}
SPECIFICATION FairSpec
INVARIANTS
  OnItsWay
PROPERTIES
  NeverBack
  EventuallyStored
