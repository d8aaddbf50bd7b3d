SPECIFICATION FairSpec
CONSTANTS
  om = om
  past = past
  Calls = {om, past}
  HistoryCalls = {past}
  MaxIterations = 3
  MaxRateLimitRetries = 1
  MaxCallsPerTurn = 2
  Scores <- MCScores
  Claims <- MCClaims
INVARIANTS
  TypeOK
  TranscriptAnswered
  EvidenceAccounted
  CacheMatchesLog
  RequestsBounded
  PromptsSentOnce
PROPERTIES ContractHolds LoopAdvances Terminates
CHECK_DEADLOCK FALSE
