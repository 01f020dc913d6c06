CONSTANTS
  n1 = n1
  n2 = n2
  c1 = c1
  c2 = c2
  c3 = c3
  k1 = k1
  k2 = k2
  Conn = {c1, c2, c3}
  MaxPushPulls = 2
  Word = 4
  Key = {k1, k2}
  NoKey = NoKey
  ByteValues = 3
  Node = {n1, n2}
  Server = n2
  Length = {1, 4}
  MaxGossip = 3
  MaxPiggyback = 2
SPECIFICATION WireFairSpec
CONSTRAINTS OneKind ThirdWithoutKeys
INVARIANTS CounterExact ExchangesBounded RotationReadable BatchIntact PullImpliesPush
PROPERTY RequestEnds
CHECK_DEADLOCK FALSE
