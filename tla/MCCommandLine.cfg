SPECIFICATION FairCmdSpec
CONSTANTS
  LineMax = 3
  MaxBytes = 6
  MaxWidgets = 2
  Centers = {1, 2}
  Targets <- MCTargets
  MaxSteps = 3
\* The process ends, or waits for a client that has nothing more to send.
CHECK_DEADLOCK FALSE
INVARIANTS
  CommandOK
  Answers
  ChildHasAUse
  RefsAsShown
PROPERTIES
  EverythingEnds
