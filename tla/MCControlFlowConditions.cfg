SPECIFICATION LockstepSpec
CONSTANTS
  Names = {"a", "b", "c", "x", "y", "z"}
  Depth = 5
  Programs <- MCConditionPrograms
INVARIANT ConditionsAreEvaluated
CHECK_DEADLOCK FALSE
