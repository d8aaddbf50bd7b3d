SPECIFICATION FairSpec
CONSTANTS
  w1 = w1
  w2 = w2
  w3 = w3
  Threads = {w1, w2}
  StaticToken = "none"
  NoLoop = NoLoop
  ClosedLoop = ClosedLoop
  MaxLogins = 2
  MaxExpiries = 1
INVARIANTS TypeOK NeverUnauthenticated LockNotAbandoned
PROPERTIES TokenRenewed RequestEnds
