\* Every well-founded module of three types, and several modules with the same
\* types at other idents.
SPECIFICATION FairSpec
CONSTANTS
  VoidName = "void"
  N = 3
  Databases <- AllDatabases
INVARIANTS
  Faithful
  RedundantSum
PROPERTIES
  NeverRemapped
  Termination
