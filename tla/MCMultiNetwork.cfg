CONSTANTS
  house = house
  chassis = chassis
  spare = spare
  can0 = can0
  can1 = can1
  Network = {house, chassis, spare}
  Default = {chassis, spare}
  Channel = {can0, can1}
  Interface <- MCInterface
  FaultIsolation = TRUE
  MaxCalls = 3
  MaxOpen = 1
SPECIFICATION FairSpec
INVARIANTS
  OperationalHasBus
PROPERTIES
  NoneOpenedUnregistered
  SilenceNoticed
