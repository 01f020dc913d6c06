CONSTANTS
  n1 = n1
  n2 = n2
  n3 = n3
  t1 = t1
  t2 = t2
  Node = {n1, n2}
  TagValue = {t1}
  DefaultTags = t1
  Allowed <- AllowAll
  SuspicionMult = 3
  Subject = {n1}
  MaxLives = 2
  MaxMerging = 0
  TimerSlot = {1}
SPECIFICATION FairSpec
INVARIANT SelfAlive
PROPERTIES SuspicionResolved TableImplemented
CHECK_DEADLOCK FALSE
