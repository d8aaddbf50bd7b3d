SPECIFICATION FairSpec
CONSTANTS
  Callers = {"c1", "c2"}
  Plan <- MCPlan
  Needs <- MCNeeds
  MaxPolls = 1
  MaxFaulty = 1
INVARIANTS TypeOK SuccessMeansSeeded OverlapLosesNothing ReseedIsQuiet
PROPERTIES SomeCallAdvances CallAnswered
CHECK_DEADLOCK FALSE
