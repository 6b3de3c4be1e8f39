SPECIFICATION LockstepSpec
CONSTANTS
  Names = {"a", "b", "c", "x", "y", "z"}
  Depth = 5
  Programs <- MCPrograms
INVARIANTS TypeOK TestsWhatWasComputed JumpsLand
PROPERTIES RunsAsWritten KeepsGoing
\* The function returns, and its code is not entered again.
CHECK_DEADLOCK FALSE
