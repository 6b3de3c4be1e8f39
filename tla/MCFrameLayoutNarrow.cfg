SPECIFICATION Spec
CONSTANTS
  a = a
  b = b
  unnamed = unnamed
  Names <- MCNames
  Unnamed <- MCUnnamed
  Widths = {0, 1, 4}
  ArrayParamWidths = {1}
  ArgRegisters = 1
  MaxParameters = 2
  MaxLength = 2
  MaxBlock = 6
  DuplicateParameters = FALSE
INVARIANT
  ArrayArgumentsArePointers
CHECK_DEADLOCK FALSE
