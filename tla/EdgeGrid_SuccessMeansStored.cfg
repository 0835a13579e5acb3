SPECIFICATION Spec
CONSTANTS
  ROW = 2
  COL = 2
  LENGTH = 2
  MAX_EDGE_GRID = 2
  Edges <- MCEdges
  Junk <- MCJunk
  MaxLen = 3
  MaxMaps = 1
INVARIANT SuccessMeansStored
CHECK_DEADLOCK FALSE
