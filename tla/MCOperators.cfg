SPECIFICATION Spec
CONSTANTS
  c = c
  x = x
  z = z
  Char = 2
  Int32 = 3
  Int64 = 4
  CharVars = {c}
  Int32Vars = {x}
  Int64Vars = {z}
  ElementType = 3
  Length = 2
  Literals = {0, 1}
  Place <- MCPlace
  ArrayPlace <- MCArrayPlace
  Locals <- MCLocals
  Initials <- MCInitials
  MaxStart = 19
  MaxFrame = 26
  MaxPending = 2
  Careful = TRUE
INVARIANTS
  TypeOK
  OperandsKeepValues
  SavedBaseKept
PROPERTY
  ImplementsEvaluation
CHECK_DEADLOCK FALSE
