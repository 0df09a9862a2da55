SPECIFICATION Spec
CONSTANTS
  j1 = j1
  j2 = j2
  j3 = j3
  p1 = p1
  p2 = p2
  NoOne = NoOne
  Jobs = {j1, j2}
  Processors = {p1, p2}
  MaxAttempts <- MCMaxAttempts
  BatchLimit = 2
  DetectorOn = FALSE
  Cancellable = FALSE
  MaxCrashes = 0
CHECK_DEADLOCK FALSE
INVARIANT
  OneRunner
