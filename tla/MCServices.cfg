SPECIFICATION ServicesSpec
CONSTANTS
  s1 = s1
  s2 = s2
  activation = activation
  creation = creation
  invoice = invoice
  Sessions = {s1, s2}
  Events = {activation, invoice}
  Kind <- MCKind
  MaxCalls = 2
  JobSlots = {1, 2}
  JobAttempts = 2
  MaxDunning = 2
  JobsAreLost = TRUE
  MaxDays = 1
  MaxFaults = 1
  RateCharges = {s1, s2}
  MaxHour = 2
  RateTtl = 1
  FirstDay = 2
  Bills = {1, 2}
  BillDays = {1, 2, 3}
  ServiceOf <- MCServiceOf
  Ingestions = {s1, s2}
  IngestAttempts = 2
  MaxRestated = 1
  MaxIngestFaults = 0
  AttributionRules <- MCRules
  Buckets = {"a", "b", "c", "Unallocated"}
  RecordCosts = {100, 160}
  RecordServices = {"ec2", "s3"}
  Resources = {"x", "y"}
  DayBills <- MCDayBills
  DaysCompared = 2
  TopMovers = 1
  Dollar = 8
  Users = {"u1"}
  CloudAccounts = {"a1", "a2", "az", "gp"}
  CloudOf <- MCCloudOf
  TrustedAtFirst = {"a1", "az"}
  OrgMembers <- MCOrgMembers
  ConnIds = {1, 2}
  Visits = {s1, s2}
  Wavering = {"a1"}
  MaxChanges = 1
  Pages = {1, 2, 3, 4}
  MaxPages = 3
  FetchAttempts = 3
  BatchSize = 2
  TokenLife = 4
  ReportRows <- MCReportRows
  RecordLimit = 2
  MaxSetups = 2
  MaxFetchFaults = 2
  ScanConnections = {"a1", "g"}
  Provider <- MCProvider
  Inventory <- MCInventory
  ScanRegions = {"us-east-1"}
  Scans = {s1, s2}
  MaxScanHours = 1
  MaxScanFaults = 1
  Acquirers = {q1, q2, q3}
  BucketRate = 2
  MaxTicks = 8
  Readers = {s1, s2}
  MaxAlertDays = 2
  MaxCarbon = 1
  Budgets = {1}
  Switches = {"exceeded", "slack"}
  HasSlack = TRUE
  HasSmtp = TRUE
  Processes = {"p1", "p2"}
  MaxKeys = 4
  Unset = Unset
  Members = {"u1", "u2", "u3"}
  TenantOf <- MCTenantOf
  DbSessions = {s1, s2}
  Pool = {1}
  TierLimit <- MCTierLimit
  TokenHours = 1
  MaxWindows = 1
  Operations = {"o1", "o2", "o3"}
  PageSize = 1
  Ascending = TRUE
  ExportLimit = 2
  JobTables = {"cost_records", "llm_usage", "background_jobs", "cost_allocations"}
  MaxInserts = 1
  SettingsRequests = {s1, s2}
  SettingValues = {0, 1}
SYMMETRY SessionSymmetry
CHECK_DEADLOCK FALSE
INVARIANTS
  ServicesTypeOK
  BillingInv
  ChargedAtRecentRate
  
  AttributionInv
  
  ConnInv
  FetchInv
  
  TwiceTheRateIsKept
  
  
  AccessInv
  
  
  SettingsInv
