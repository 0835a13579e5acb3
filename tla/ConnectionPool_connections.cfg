SPECIFICATION Spec
CONSTANTS
  h1 = h1
  h2 = h2
  Handlers = {h1, h2}
  NoHandler = NoHandler
  c1 = c1
  c2 = c2
  c3 = c3
  Conns = {c1, c2, c3}
  Readers = {c1, c2}
  NoConn = NoConn
  MaxThreads = 2
  MinThreads = 1
  MaxPieces = 1
INVARIANTS
  TypeOK
  BusyHasReason
  OwnRequest
  TimerRuns
  HeldByOne
PROPERTIES
  ConnectionsEnd
  ShutdownEnds
CHECK_DEADLOCK FALSE
