SPECIFICATION SpecMerging
CONSTANTS
  Text <- Strings
  Inputs <- TimelyInputs
INVARIANTS
  TypesEmitted
  NamesTell
