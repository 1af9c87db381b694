SPECIFICATION Spec
CONSTANT Inputs <- MCInputs
INVARIANTS
  TreeRead
  Rewritten
  ExprsKept
PROPERTIES
  Outcome
