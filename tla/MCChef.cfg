CONSTANTS
  right = right
  wrong = wrong
  bad = bad
  unlinked = unlinked
  odd = odd
  newer = newer
  loud = loud
  Programs <- MCPrograms
  Fate <- MCFate
  Output <- MCOutput
  GccRejects = {odd}
  Said <- MCSaid
  PipeCapacity = 2
  Endless = {newer}
  Suites <- MCSuites
  Unparsable = {2}
  Sessions <- MCSessions
  MaxVersion = 3
  MaxSessions = 3
  MaxMishaps = 1
SPECIFICATION Spec
CHECK_DEADLOCK FALSE
INVARIANTS
  TypeOK
  StaleIsSeen
  OwnVerdicts
  StopsForCause
PROPERTIES
  BuildsAreCurrent
  
