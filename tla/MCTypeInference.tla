--------------------------- MODULE MCTypeInference ---------------------------
(***************************************************************************)
(* Programs with scalar types and one structure whose pointer type the     *)
(* debug info has.                                                         *)
(***************************************************************************)
EXTENDS TypeInference, TLC

CONSTANTS int, float, struct, structPtr, h1, h2, h3, h4

MCFactoryRef   == structPtr :> struct
MCFactoryCache == struct :> structPtr @@ [t \in Factory \ {struct} |-> NoType]

HeapSymmetry == Permutations(Heap)
=============================================================================
