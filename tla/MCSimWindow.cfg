CONSTANTS
  Boards <- MCBoards
  Scales = {1, 2}
  MaxEdges = 2
SPECIFICATION MCSpec
CHECK_DEADLOCK FALSE
INVARIANTS
  TypeOK
  HoldsAreReal
  LayoutSound
PROPERTIES
  PowerSpec
