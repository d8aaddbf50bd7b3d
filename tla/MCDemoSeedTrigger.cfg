SPECIFICATION Spec
CONSTANTS
  Callers = {"c1"}
  Plan <- MCPlan
  Needs <- MCNeeds
  MaxPolls = 1
  MaxFaulty = 0
INVARIANT SuccessMeansTriggered
CHECK_DEADLOCK FALSE
