CONSTANTS
  Interface = {can0, can1}
  MaxMessages = 4
  MaxStarts = 3
SPECIFICATION FairSpec
INVARIANTS
  FirstInOrder
  NewestLast
PROPERTIES
  SentTwice
CHECK_DEADLOCK FALSE
