CONSTANTS
  g1 = g1
  g2 = g2
  t1 = t1
  t2 = t2
  Thread = {g1, g2}
  TagValue = {t1, t2}
  ChSize = 1
  MaxLives = 3
SPECIFICATION FairSpec
INVARIANTS EventsAccounted QueuedIsNewest
PROPERTY MembersReturns
CHECK_DEADLOCK FALSE
