\* Two worker threads race for the caches of the same types.
SPECIFICATION Spec
CONSTANTS
  NFunc = 2
  NThread = 2
  MaxOps = 2
  int = int
  float = float
  struct = struct
  structPtr = structPtr
  h1 = h1
  h2 = h2
  h3 = h3
  h4 = h4
  NoType = NoType
  Scalar = {int}
  Aggregate = {struct}
  FactoryPtr = {structPtr}
  FactoryRef <- MCFactoryRef
  FactoryCache <- MCFactoryCache
  Heap = {h1, h2, h3, h4}
SYMMETRY HeapSymmetry
INVARIANTS
  CacheSound
  HeldLive
  FactoryCacheKept
  CleanEnd
