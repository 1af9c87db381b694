\* Offsets, lengths and scopes of the DIEs, for about 200 programs.
SPECIFICATION Spec
CONSTANTS
  Programs <- MCPrograms
  Limit = 65536
INVARIANTS
  RefsResolve
  Decodable
  VariablesScoped
