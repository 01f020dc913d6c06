CONSTANTS
  n0 = n0
  n1 = n1
  n2 = n2
  n3 = n3
  n4 = n4
  From = {n0, n1, n2, n3, n4}
  ConfirmCap = 4
  MinTimeout = 2
  MaxTimeout = 30
  Interpolated <- FourConfirms
  Slack = 2
SPECIFICATION SuspicionFairSpec
INVARIANTS StartedOnce DeadlineMatchesConfirms StartedInTime
PROPERTY TimeoutFnRuns
CHECK_DEADLOCK FALSE
