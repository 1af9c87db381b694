\* Refuted: see the comment on BitOffsetKept.
SPECIFICATION Spec
CONSTANTS
  VoidName = "void"
  N = 1
  Databases <- ModuleDatabases
INVARIANTS
  BitOffsetKept
