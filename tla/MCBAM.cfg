CONSTANTS
  tank = tank
  charger = charger
  inverter = inverter
  id = id
  status = status
  short = short
  long = long
  other = other
  Source = {tank, charger, inverter}
  Message = {short, long, other}
  Pgn = {id, status}
  PgnOf <- MCPgnOf
  Packets <- MCPackets
  Sends <- MCSends
  Loses <- MCLoses
  MaxSessions = 2
SPECIFICATION Spec
INVARIANTS
  TypeOK
  SessionBound
  WholeMessages
  NoLeftover
