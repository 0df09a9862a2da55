SPECIFICATION Spec
CONSTANTS
  r1 = r1
  r2 = r2
  w1 = w1
  w2 = w2
  a1 = a1
  a2 = a2
  Requests = {r1, r2}
  Executors = {w1, w2}
  Reviewers = {a1}
  Savings <- MCSavings
  WantsBackup = {}
  Snapshottable = {}
  Threshold = 4
  BreakerLimit = 5
  JobsAreLost = FALSE
  MaxCrashes = 0
CHECK_DEADLOCK FALSE
INVARIANT
  KillSwitchLimitsTheDay
