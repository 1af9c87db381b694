SPECIFICATION Spec
CONSTANTS
  Node <- MCNode
  NoNode <- MCNoNode
  Program <- MCProgram
  RegName <- MCReg
  MaxParams = 2
  Type <- MCType
INVARIANTS
  WalkExact
  FrameExact
  OperandsSound
  KnownExact
  LastPassDecides
  InferredByCaller
PROPERTIES
  PassesEnd
CHECK_DEADLOCK FALSE
