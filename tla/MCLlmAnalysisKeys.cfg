SPECIFICATION LlmFairSpec
CONSTANTS
  LlmCalls = {a1, a2}
  LlmSettings <- MCLlmSettings
  MaxLlmCost = 1
  HasAzureKey = FALSE
  ProvidersFail = FALSE
  MaxLlmFaults = 0
CHECK_DEADLOCK FALSE
PROPERTY
  AnalysesSucceed
