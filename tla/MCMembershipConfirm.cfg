CONSTANTS
  n1 = n1
  n2 = n2
  n3 = n3
  t1 = t1
  t2 = t2
  Node = {n1, n2, n3}
  TagValue = {t1}
  DefaultTags = t1
  Allowed <- AllowAll
  SuspicionMult = 3
  Subject = {n1}
  MaxLives = 2
  MaxMerging = 0
  TimerSlot = {1}
SPECIFICATION Spec
INVARIANTS SuspicionMatchesState SuspectHasTimer
CONSTRAINTS NoLeave NoCrash NoUpdate UntilDeath
ACTION_CONSTRAINT NoReap
SYMMETRY Observers
CHECK_DEADLOCK FALSE
