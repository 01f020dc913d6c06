CONSTANTS
  n1 = n1
  n2 = n2
  n3 = n3
  t1 = t1
  t2 = t2
  Node = {n1, n2}
  TagValue = {t1, t2}
  DefaultTags = t1
  Allowed <- AllowAll
  SuspicionMult = 3
  Subject = {n1}
  MaxLives = 3
  MaxMerging = 1
  TimerSlot = {1}
SPECIFICATION Spec
INVARIANTS TypeOK LivesDrawn OwnEntryNewest AliveTagsAgree DeathNeedsSuspicion LeftNeedsLeave
CONSTRAINTS LeaveUnsuspected NoCrash PushPullEarly
CHECK_DEADLOCK FALSE
