SPECIFICATION Spec
CONSTANTS
  w1 = w1
  w2 = w2
  w3 = w3
  Threads = {w1, w2, w3}
  StaticToken = "none"
  NoLoop = NoLoop
  ClosedLoop = ClosedLoop
  MaxLogins = 2
  MaxExpiries = 1
SYMMETRY Symmetry
INVARIANT NoSharedState
