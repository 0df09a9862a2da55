SPECIFICATION FairSpec
CONSTANTS
  r1 = r1
  r2 = r2
  w1 = w1
  w2 = w2
  a1 = a1
  a2 = a2
  Requests = {r1, r2}
  Executors = {w1, w2}
  Reviewers = {a1}
  Savings <- MCSavings
  WantsBackup = {r1}
  Snapshottable = {r1}
  Threshold = 10
  BreakerLimit = 5
  JobsAreLost = TRUE
  MaxCrashes = 1
CHECK_DEADLOCK FALSE
INVARIANTS
  TypeOK
  
  BackupBeforeAct
  OneActPerRequest
PROPERTIES
  GraceBeforeAct
  
  LifecycleSpec
