--------------------------- MODULE MCTypeResolution ---------------------------
(***************************************************************************)
(* Inputs for TypeResolution: all small units that a compiler can write, a *)
(* few broken ones, and declarations of C that lead to cycles.             *)
(***************************************************************************)
EXTENDS TypeResolution, TLC

Strings == STRING

Die(kind, name, type) ==
  [kind |-> kind, name |-> name, type |-> type, base |-> IF kind = "base" THEN 8 ELSE 0,
   subranges |-> <<>>, members |-> <<>>]
Anonymous(kind, type) == Die(kind, <<>>, type)
Array(type, subranges) == [Anonymous("array", type) EXCEPT !.subranges = subranges]
At(type, loc) == [type |-> type, loc |-> loc, bits |-> 0]
Agg(kind, name, members) == [Die(kind, name, NoType) EXCEPT !.members = members]

(***************************************************************************)
(* Every unit of N types in which each cycle goes through a structure or   *)
(* union: 1 is one of these or an alias, 2 .. N are anything.              *)
(***************************************************************************)
CONSTANT N
Id == 1 .. N
Members == {<<>>} \union {<<At(a, 0)>> : a \in Id} \union {<<At(a, 0), At(b, 8)>> : a, b \in Id}
AliasDies == {Die("typedef", <<"T">>, a) : a \in {NoType} \union Id} \union {Anonymous("const", a) : a \in Id}
AggregateDies ==
  {Agg("structure", <<"S">>, ms) : ms \in Members}
  \union {Agg("union", <<>>, <<At(a, 0)>>) : a \in Id}
Dies ==
  AliasDies \union AggregateDies
  \union {Anonymous("pointer", a) : a \in {NoType} \union Id}
  \union {Array(a, <<<<2>>>>) : a \in Id}
  \union {Anonymous("subroutine", a) : a \in {NoType} \union Id}
  \union {Anonymous("base", NoType), Anonymous("enumeration", NoType)}

\* No type consists of derived types and aliases alone.
WellFounded(unit) ==
  \A S \in (SUBSET DOMAIN unit) \ {{}} :
     \E id \in S : unit[id].kind \in Aggregate \/ unit[id].type \notin S

SmallInputs ==
  {unit \in {(1 :> d) @@ f : d \in AliasDies \union AggregateDies, f \in [2 .. N -> Dies]} : WellFounded(unit)}

\* typedef struct S T; struct S { T *next; };
ListTypedef == 1 :> Agg("structure", <<"S">>, <<At(2, 0)>>) @@ 2 :> Anonymous("pointer", 3) @@
               3 :> Die("typedef", <<"T">>, 1)

\* typedef struct S *A[2]; struct S { A *all; };
ArrayTypedef == 1 :> Agg("structure", <<"S">>, <<At(2, 0)>>) @@ 2 :> Anonymous("pointer", 3) @@
                3 :> Die("typedef", <<"A">>, 4) @@ 4 :> Array(5, <<<<1>>>>) @@
                5 :> Anonymous("pointer", 1)


\* An array without an element type, a member and a reference without a DIE, and
\* arrays of several or large dimensions.
BrokenInputs == {1 :> Array(NoType, <<<<>>>>), 1 :> Agg("structure", <<"S">>, <<At(2, 0)>>),
                 1 :> Anonymous("pointer", 2)}
OddInputs == {ListTypedef, ArrayTypedef} \union BrokenInputs
             \union {1 :> Array(2, <<<<1>>, ns>>) @@ 2 :> Array(3, <<ns>>) @@
                     3 :> Anonymous("unspecified", NoType) : ns \in {<<>>, <<511>>, <<512>>}}
AllInputs == SmallInputs \union OddInputs
==============================================================================
