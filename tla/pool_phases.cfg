\* More analyses than threads: the queue, the join and the two loops after it.
\* No symmetry, for the sake of liveness.
SPECIFICATION FairSpec
CONSTANTS
  NFunc = 3
  NThread = 2
  MaxOps = 1
  int = int
  float = float
  struct = struct
  structPtr = structPtr
  h1 = h1
  h2 = h2
  h3 = h3
  h4 = h4
  NoType = NoType
  Scalar = {int}
  Aggregate = {struct}
  FactoryPtr = {structPtr}
  FactoryRef <- MCFactoryRef
  FactoryCache <- MCFactoryCache
  Heap = {h1, h2, h3}
PROPERTIES
  ResultsFrozen
  ImplementsPhases
  Termination
