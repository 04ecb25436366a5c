CONSTANTS
  p1 = p1
  p2 = p2
  None = None
  Projects = {p1, p2}
  MaxEdits = 3
  MaxRequests = 3

SPECIFICATION FairSpec

INVARIANT IndicatorIsTrue
PROPERTY StoreMovesForward
PROPERTY DirtyIsResolved

CHECK_DEADLOCK FALSE
