SPECIFICATION FairSpec
CONSTANTS
  MaxSent = 5
  MaxRestarts = 1
  UartCap = 2
  LinkCap = 3
\* The host may have made its last call when the child has exited.
CHECK_DEADLOCK FALSE
INVARIANTS
  TypeOK
  AnswersInOrder
  SlipIsAccounted
  AppliedOnce
  FingerDownOnlyAfterFailure
PROPERTIES
  EveryCallReturns
