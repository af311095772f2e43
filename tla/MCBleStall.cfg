SPECIFICATION FairSpec
CONSTANTS
  MaxClients = 1
  MaxPieces = 0
  MaxSent = 2
  InbufCap = 2
  SocketCap = 1
PROPERTIES
  TickReturns
CHECK_DEADLOCK FALSE
