SPECIFICATION Spec
CONSTANTS
  a = a
  b = b
  here = here
  there = there
  Nobody = Nobody
  NotSet = NotSet
  NoMap = NoMap
  Clients <- MCClients
  Positions <- MCPositions
  Requests <- MCRequests
  MaxSend = 4
  N = 1
  MaxReflect = 1
  MaxAfterDiffraction = 0
  Slots = 3
  MaxRuns = 4
  ROW = 1
  COL = 1
  LENGTH = 2
  MAX_EDGE_GRID = 1
  Edges <- MCEdges
  Junk <- MCJunk
  MaxLen = 1
  MaxMaps = 4
INVARIANT CellsSetBeforeRun
CHECK_DEADLOCK FALSE
