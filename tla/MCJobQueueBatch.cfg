SPECIFICATION FairSpec
CONSTANTS
  j1 = j1
  j2 = j2
  j3 = j3
  p1 = p1
  p2 = p2
  NoOne = NoOne
  Jobs = {j1, j2}
  Processors = {p1, p2}
  MaxAttempts <- MCMaxAttempts
  BatchLimit = 2
  DetectorOn = TRUE
  Cancellable = TRUE
  MaxCrashes = 1
CHECK_DEADLOCK FALSE
INVARIANTS
  TypeOK
  AttemptsBounded
  RunningIsOwned
PROPERTY
  EventuallySettled
