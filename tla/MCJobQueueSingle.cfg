SPECIFICATION Spec
CONSTANTS
  j1 = j1
  j2 = j2
  j3 = j3
  p1 = p1
  p2 = p2
  NoOne = NoOne
  Jobs = {j1, j2, j3}
  Processors = {p1, p2}
  MaxAttempts <- MCMaxAttempts
  BatchLimit = 1
  DetectorOn = FALSE
  Cancellable = TRUE
  MaxCrashes = 1
CHECK_DEADLOCK FALSE
SYMMETRY QueueSymmetry
INVARIANTS
  OneRunner
  EveryRunCounted
  DeadLetterExhausted
PROPERTIES
  StartsOnlyDueJobs
  LifecycleSpec
