SPECIFICATION Spec
CONSTANTS
  a = a
  f = f
  Names <- MCNames
  Prelude <- MCPrelude
  ParameterNames <- MCParameterNames
  Types = {4, 8}
  MaxParameters = 1
  MaxDepth = 3
INVARIANT
  MismatchIsReported
CHECK_DEADLOCK FALSE
