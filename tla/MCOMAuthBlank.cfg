SPECIFICATION Spec
CONSTANTS
  w1 = w1
  w2 = w2
  w3 = w3
  Threads = {w1}
  StaticToken = "blank"
  NoLoop = NoLoop
  ClosedLoop = ClosedLoop
  MaxLogins = 1
  MaxExpiries = 1
PROPERTY TokenRenewed
