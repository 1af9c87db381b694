SPECIFICATION Spec
CONSTANTS
  Program <- MCProgram
  MaxAddr = 1000
  NoBlock = NoBlock
INVARIANTS
  BlocksExact
  FlowExact
  UndefinedByOverlap
PROPERTIES
  JoinedInTheEnd
CHECK_DEADLOCK FALSE
