CONSTANTS
  Interface = {can0, can1}
  MaxMessages = 4
  MaxStarts = 2
SPECIFICATION Spec
INVARIANTS
  WriterLives
CHECK_DEADLOCK FALSE
