CONSTANTS
  m = m
  p1 = p1
  p2 = p2
  p3 = p3
  NoNode = NoNode
  Self = m
  Peer = {p1, p2, p3}
SPECIFICATION FairSpec
INVARIANT ListMatchesMap
PROPERTIES RoundsImplemented EveryoneProbed
CHECK_DEADLOCK FALSE
