SPECIFICATION FairSpec
CONSTANTS
  t = t
  a = a
  b = b
  c = c
  d = d
  Nodes = {t, a, b, c, d}
  NoId = NoId
  Names <- MCNames
  Catalog <- MCCatalog
  Requested <- MCRequested
  NotANumber = NotANumber
  MaxDepth = 3
  Responses <- MCResponses
  NoList = NoList
INVARIANTS TypeOK TableFound LevelsShortest AnswerExact
PROPERTIES CallAdvances CallEnds
CHECK_DEADLOCK FALSE
