SPECIFICATION FairSpec
CONSTANTS
  t1 = t1
  w1 = w1
  w2 = w2
  Tasks = {t1}
  Threads = {w1, w2}
  NoTask = NoTask
  MaxCrashes = 1
  MaxEarlyRestores = 1
INVARIANTS TypeOK OneRunPerIncident NoTaskLost SuccessMeansComplete
PROPERTIES LedgerHolds TasksSettle
CHECK_DEADLOCK FALSE
