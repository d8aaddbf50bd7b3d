SPECIFICATION Spec
CONSTANTS
  i1 = i1
  i2 = i2
  i3 = i3
  i4 = i4
  Incidents = {i1, i2, i3, i4}
  Times = {1, 2, 3}
  Entities = {"orders", "staging", "mart", "board"}
  Reports <- MCReports
  Root = "orders"
  PageSize = 2
  MaxPolls = 3
  None = None
SYMMETRY MCSymmetry
INVARIANTS TypeOK PageIsWhole GraphFlows BrowsingMissesNone WaitPassesOnlyOld WaitEndsWithNew
CHECK_DEADLOCK FALSE
