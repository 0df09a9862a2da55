SPECIFICATION WorkersFairSpec
CONSTANTS
  s1 = s1
  s2 = s2
  activation = activation
  creation = creation
  invoice = invoice
  Sessions = {s1}
  Events = {activation, invoice}
  Kind <- MCKind
  MaxCalls = 1
  JobSlots = {1, 2, 3}
  JobAttempts = 2
  MaxDunning = 2
  JobsAreLost = TRUE
  MaxDays = 1
  MaxFaults = 1
  t1 = t1
  t2 = t2
  c1 = c1
  c2 = c2
  c3 = c3
  Tenants = {t1, t2}
  Plan <- MCPlan
  Connections = {c1, c2, c3}
  Owner <- MCOwner
  SweepHours = {18, 20, 24}
  SweepWorkers = {w1, w2}
  SweepMessages = {1, 2}
  MaxSweepTries = 2
  MaxSweepFaults = 1
  LlmCalls = {a1, a2}
  LlmSettings <- MCLlmSettings
  MaxLlmCost = 1
  HasAzureKey = TRUE
  ProvidersFail = TRUE
  MaxLlmFaults = 1
  FirstDay = 1
  Bills = {1}
  BillDays = {1, 2}
  ServiceOf <- MCServiceOf
  Ingestions = {i1, i2}
  IngestAttempts = 2
  MaxRestated = 1
  MaxIngestFaults = 1
  CircuitCallers = {p1, p2}
  FailureThreshold = 2
  SuccessThreshold = 2
  RecoveryTime = 2
CHECK_DEADLOCK FALSE
INVARIANTS
  WorkersTypeOK
  SweepInv
PROPERTIES
  
  AttentionEnds
  
  SweepReachesTenants
  
  
