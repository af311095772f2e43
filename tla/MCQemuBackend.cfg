SPECIFICATION FairSpec
CONSTANTS
  MaxBoots = 3
  Children <- MCChildren
  Targets <- MCTargets
INVARIANTS
  TypeOK
  NothingLeaks
  SignalsOwnChild
  FailedBootLeavesNothing
  DirOutlivesChild
  AgentIsOfThisChild
  ActiveTargetRuns
PROPERTIES
  EveryCallReturns
