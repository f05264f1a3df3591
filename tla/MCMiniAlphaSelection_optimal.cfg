SPECIFICATION Spec
CONSTANTS
  NumCands = 3
  NumSlots = 3
  p1 = p1
  p2 = p2
  Profiles = {p1, p2}
  Hard = 9
  Pools <- MCPools
INVARIANT SearchIsExact
CHECK_DEADLOCK FALSE
