SPECIFICATION Spec
CONSTANTS
  om = om
  past = past
  Calls = {om, past}
  HistoryCalls = {past}
  MaxIterations = 3
  MaxRateLimitRetries = 1
  MaxCallsPerTurn = 1
  Scores <- MCScores
  Claims <- MCClaims
INVARIANT ToolFailuresNeverAbort
CHECK_DEADLOCK FALSE
