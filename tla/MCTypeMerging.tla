---------------------------- MODULE MCTypeMerging ----------------------------
(***************************************************************************)
(* Inputs for TypeMerging: all small units of named types in which no type *)
(* is read while it is in progress, but structures and unions.             *)
(***************************************************************************)
EXTENDS TypeMerging, TLC

Id == 1 .. 3
Strings == STRING

Die(kind, name, type) ==
  [kind |-> kind, name |-> name, type |-> type, base |-> IF kind = "base" THEN 8 ELSE 0,
   subranges |-> <<>>, members |-> <<>>]
At(type) == [type |-> type, loc |-> 0, bits |-> 0]
Agg(kind, id, types) ==
  [Die(kind, <<kind \o ToString(id)>>, NoType) EXCEPT !.members = [i \in DOMAIN types |-> At(types[i])]]

Dies(id) ==
  {Die("typedef", <<"alias" \o ToString(id)>>, a) : a \in {NoType} \union Id}
  \union {Die("const", <<>>, a) : a \in Id}
  \union {Die("pointer", <<>>, a) : a \in {NoType} \union Id}
  \union {[Die("array", <<>>, a) EXCEPT !.subranges = <<<<id>>>>] : a \in Id}
  \union {Agg("structure", id, types) : types \in {<<>>} \union {<<a>> : a \in Id} \union {<<a, b>> : a, b \in Id}}
  \union {Agg("union", id, <<a>>) : a \in Id}
  \union {Die("subroutine", <<>>, a) : a \in {NoType, 1}}
  \union {Die("base", <<>>, NoType), Die("enumeration", <<"enumeration" \o ToString(id)>>, NoType)}

Units == {[id \in Id |-> (1 :> a @@ 2 :> b @@ 3 :> c)[id]] : a \in Dies(1), b \in Dies(2), c \in Dies(3)}
\* A unit that the tool refuses.
Refused == 1 :> [Die("array", <<>>, NoType) EXCEPT !.subranges = <<<<>>>>]
TimelyInputs == {unit \in Units : Timely(unit)} \union {Refused}
=============================================================================
