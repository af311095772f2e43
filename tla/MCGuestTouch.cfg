SPECIFICATION FairSpec
CONSTANTS
  MaxRequests = 4
  Points = {1, 2}
  Colors = {1, 2}
INVARIANTS
  SquareFollowsPress
