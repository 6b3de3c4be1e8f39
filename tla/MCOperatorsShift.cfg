SPECIFICATION Spec
CONSTANTS
  c = c
  x = x
  z = z
  Char = 2
  Int32 = 3
  Int64 = 4
  CharVars = {}
  Int32Vars = {x}
  Int64Vars = {}
  ElementType = 3
  Length = 2
  Literals = {0, 1}
  Place <- MCPlace
  ArrayPlace <- MCArrayPlace
  Locals <- MCLocals
  Initials <- MCInitials
  MaxStart = 13
  MaxFrame = 26
  MaxPending = 3
  Careful = FALSE
INVARIANT
  OperandsKeepValues
CHECK_DEADLOCK FALSE
