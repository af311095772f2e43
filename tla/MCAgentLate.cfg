SPECIFICATION FairSpec
CONSTANTS
  MaxSent = 4
  MaxRestarts = 1
  UartCap = 2
  LinkCap = 3
CHECK_DEADLOCK FALSE
INVARIANTS
  OwnReply
