SPECIFICATION AccessSpec
CONSTANTS
  Members = {"u1", "u2", "u3"}
  TenantOf <- MCTenantOf
  DbSessions = {1, 2}
  Pool = {1, 2}
  TierLimit <- MCTierLimit
  TokenHours = 1
  MaxWindows = 1
CHECK_DEADLOCK FALSE
INVARIANT
  SystemIsNeverRefused
