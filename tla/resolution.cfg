\* Every unit of three types, cyclic ones included; cycles of C declarations,
\* inputs that the tool refuses, odd arrays.
SPECIFICATION FairSpec
CONSTANTS
  Text <- Strings
  N = 3
  Inputs <- AllInputs
INVARIANTS
  OwnComplete
  TargetsAgree
  MembersArePrefix
PROPERTIES
  FinishedStays
  Termination
