CONSTANTS
  ArgRegisters = 2
  DataRegister = 1
  CounterRegister = 1
  Values = {1, 2}
  Junk = {3}
  MaxArity = 3
  MaxCalls = 4
  MaxStack = 8
  Careful = FALSE
SPECIFICATION Spec
INVARIANT ArgumentsArrive
