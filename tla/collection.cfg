SPECIFICATION Spec
CONSTANTS Programs <- MCPrograms
          Redundant <- MCRedundant
INVARIANTS
  FunctionsAgree
  SameGlobals
PROPERTIES
  CollectionsEnd
