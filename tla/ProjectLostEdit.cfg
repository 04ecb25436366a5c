CONSTANTS
  p1 = p1
  p2 = p2
  None = None
  Projects = {p1, p2}
  MaxEdits = 2
  MaxRequests = 3

SPECIFICATION SpecByTimer

INVARIANT EditsAutosave

CHECK_DEADLOCK FALSE
