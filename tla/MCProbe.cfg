CONSTANTS
  p = p
  q = q
  Prober = p
  Peer = {q}
  Max = 2
  MaxProbes = 2
  MaxRepeats = 1
  MaxSeqNo = 20
SPECIFICATION FairSpec
INVARIANTS AliveIsFresh NacksAccounted
PROPERTY ProbeEnds
ACTION_CONSTRAINTS Repeated SecondProbe
CHECK_DEADLOCK FALSE
