\* Two maps after each other on a grid malloc may have left in any of 16 states.
\* The model stops when MaxMaps messages were handled.
SPECIFICATION FairSpec
CONSTANTS
  ROW = 2
  COL = 2
  LENGTH = 2
  MAX_EDGE_GRID = 2
  Edges <- MCEdges
  Junk <- MCJunk
  MaxLen = 3
  MaxMaps = 2
INVARIANTS
  TypeOK
  CellsWellFormed
  NoOldWalls
  EveryWallEntered
  InsideUnlessBelow
  FailureMeansRefused
PROPERTIES
  WallsStay
  MessageEnds
CHECK_DEADLOCK FALSE
