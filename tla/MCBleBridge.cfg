SPECIFICATION ReadingSpec
CONSTANTS
  MaxClients = 3
  MaxPieces = 4
  MaxSent = 2
  InbufCap = 2
  SocketCap = 1
INVARIANTS
  TypeOK
  DeviceGetsPrefixes
  StreamedInOrder
PROPERTIES
  InterruptEndsServe
CHECK_DEADLOCK FALSE
