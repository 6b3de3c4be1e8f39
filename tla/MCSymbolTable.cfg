SPECIFICATION Spec
CONSTANTS
  a = a
  f = f
  Names <- MCNames
  Prelude <- MCPrelude
  ParameterNames <- MCParameterNames
  Types = {4, 8}
  MaxParameters = 1
  MaxDepth = 3
INVARIANTS
  TypeOK
  VariablesKeepDeclarations
  TablesAreLive
  UsagesStayBound
PROPERTIES
  FinishedDefinitionsSurvive
  ImplementsScopes
CHECK_DEADLOCK FALSE
