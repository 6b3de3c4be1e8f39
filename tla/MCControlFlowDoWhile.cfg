SPECIFICATION LockstepSpec
CONSTANTS
  Names = {"a", "b", "c", "x", "y", "z"}
  Depth = 5
  Programs <- MCDoWhilePrograms
INVARIANT DoWhileRunsItsBody
CHECK_DEADLOCK FALSE
