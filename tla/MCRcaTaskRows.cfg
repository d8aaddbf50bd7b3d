SPECIFICATION Spec
CONSTANTS
  t1 = t1
  w1 = w1
  w2 = w2
  Tasks = {t1}
  Threads = {w1, w2}
  NoTask = NoTask
  MaxCrashes = 1
  MaxEarlyRestores = 0
SYMMETRY Symmetry
INVARIANT OneRowPerTask
CHECK_DEADLOCK FALSE
