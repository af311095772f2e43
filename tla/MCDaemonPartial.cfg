SPECIFICATION FairSpec
CONSTANTS
  LineMax = 3
  MaxBytes = 7
  MaxWidgets = 1
  Centers = {1, 2}
\* The session ends, or waits for a client that has nothing more to send.
CHECK_DEADLOCK FALSE
PROPERTIES
  SignalEndsSession
