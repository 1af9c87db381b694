\* --single-thread: one worker runs the analyses in turn.
SPECIFICATION Spec
CONSTANTS
  NFunc = 2
  NThread = 1
  MaxOps = 2
  int = int
  float = float
  struct = struct
  structPtr = structPtr
  h1 = h1
  h2 = h2
  h3 = h3
  h4 = h4
  NoType = NoType
  Scalar = {int, float}
  Aggregate = {struct}
  FactoryPtr = {structPtr}
  FactoryRef <- MCFactoryRef
  FactoryCache <- MCFactoryCache
  Heap = {h1, h2, h3, h4}
SYMMETRY HeapSymmetry
INVARIANTS
  SingleThreaded
