CONSTANTS
  a1 = a1
  a2 = a2
  s1 = s1
  d1 = d1
  u1 = u1
  NoMsg = NoMsg
  Message = {a1, a2, s1, d1, u1}
  aliveMsg = {a1, a2}
  userMsg = {u1}
  maxQueueDepth = 2
  MaxTries = 2
SPECIFICATION TransportFairSpec
INVARIANTS Accounted NothingLeftOpen
PROPERTIES WokenDrains BuildReturnsUnlessBusy ShutdownReturnsUnlessFull GoroutinesEnd
CHECK_DEADLOCK FALSE
