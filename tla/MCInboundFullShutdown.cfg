CONSTANTS
  a1 = a1
  a2 = a2
  s1 = s1
  d1 = d1
  u1 = u1
  NoMsg = NoMsg
  Message = {a1, s1, d1, u1}
  aliveMsg = {a1}
  userMsg = {u1}
  maxQueueDepth = 1
SPECIFICATION FairSpec
PROPERTY ShutdownReturns
CHECK_DEADLOCK FALSE
