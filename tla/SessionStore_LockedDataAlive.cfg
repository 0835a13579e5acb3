SPECIFICATION Spec
CONSTANTS
  Threads = {t1, t2}
  Timer = Timer
  Store = Store
  Ids = {i1, i2}
  NoId = NoId
  NoHandle = NoHandle
  Nobody = Nobody
  expirationTime = 0
  MaxRequests = 2
  MaxEvents = 1
  MaxNow = 1
INVARIANT LockedDataAlive
CHECK_DEADLOCK FALSE
