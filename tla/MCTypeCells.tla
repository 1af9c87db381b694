----------------------------- MODULE MCTypeCells -----------------------------
(***************************************************************************)
(* Inputs for TypeCells: all small databases of one module, and a few with *)
(* several modules that have more of everything.                           *)
(***************************************************************************)
EXTENDS TypeCells, TLC

E0(name, tag) == [name |-> name, tag |-> tag, base |-> 0, ref |-> 0, upper |-> <<>>,
                  members |-> <<>>, attrs |-> 1]
BaseInt(attrs)       == [E0("int32", "BASE") EXCEPT !.base = 8, !.attrs = attrs]
Ptr(name, r)     == [E0(name, "POINTER") EXCEPT !.ref = r]
Arr(name, r, u)  == [E0(name, "ARRAY") EXCEPT !.ref = r, !.upper = u]
Agg(name, t, ms) == [E0(name, t) EXCEPT !.members = ms, !.attrs = 3]
At(type, loc)    == [type |-> type, loc |-> loc, bits |-> 0]
Bits(type, loc, size) == [type |-> type, loc |-> loc, bits |-> size]

(***************************************************************************)
(* One module: 1 is int, 2 .. N are anything that refers to 1 .. N.  Names *)
(* are derived as initVTypeInfo derives them; structures and unions may    *)
(* share a name only with a copy of themselves (a const or typedef of it). *)
(***************************************************************************)
CONSTANT N
Id == 1 .. N
Members == {<<>>} \union {<<At(a, 0)>> : a \in Id} \union {<<At(a, 0), At(b, 8)>> : a, b \in Id}
Shapes ==
  {Ptr("", r) : r \in {0} \union Id} \union {Arr("", r, <<2>>) : r \in Id}
  \union {Agg("", t, ms) : t \in Aggregate, ms \in Members}
  \union {E0("", "ENUMERATION"), E0("", "FUNCTION")}

RECURSIVE Name(_, _)
Name(map, id) ==
  CASE map[id].tag = "POINTER" -> IF map[id].ref = 0 THEN "void*" ELSE Name(map, map[id].ref) \o "*"
    [] map[id].tag = "ARRAY" -> Name(map, map[id].ref) \o "[3]"
    [] map[id].tag = "BASE" -> "int32"
    [] OTHER -> map[id].tag \o ToString(CHOOSE j \in Id : map[j] = map[id])

SmallDatabases ==
  LET maps == {[id \in Id |-> IF id = 1 THEN BaseInt(2) ELSE s[id]] : s \in [2 .. N -> Shapes]}
  IN {<<[id \in Id |-> [map[id] EXCEPT !.name = Name(map, id)]]>> : map \in {f \in maps : WellFounded(f)}}

(***************************************************************************)
(* Several modules: a list node, a union with a structure and a pointer,   *)
(* bit fields, an array, an enumeration, a callback; then the same types   *)
(* at other idents, and a declaration of the node.                         *)
(***************************************************************************)
Lists ==
  << (1 :> BaseInt(2) @@
      2 :> Agg("Node", "STRUCTURE", <<At(1, 0), At(3, 8), At(5, 16)>>) @@
      3 :> Ptr("Node*", 2) @@
      4 :> E0("(void)", "FUNCTION") @@
      5 :> Ptr("(void)*", 4)),
     (1 :> BaseInt(3) @@
      2 :> Ptr("Node*", 3) @@
      3 :> E0("Node", "STRUCTURE") @@
      4 :> Ptr("Node**", 2)) >>

Fields ==
  << (1 :> BaseInt(2) @@
      2 :> Agg("Flags", "STRUCTURE", <<Bits(1, 0, 3), Bits(1, 3, 5), At(1, 4)>>) @@
      3 :> Arr("Flags[4]", 2, <<3>>) @@
      4 :> Agg("Any", "UNION", <<At(1, 0), At(3, 0)>>) @@
      5 :> Ptr("Any*", 4)),
     (1 :> E0("Color", "ENUMERATION") @@
      2 :> Agg("Flags", "STRUCTURE", <<Bits(3, 0, 3), Bits(3, 3, 5), At(3, 4)>>) @@
      3 :> BaseInt(2) @@
      4 :> Arr("int32[16]", 3, <<600>>)) >>

ModuleDatabases == {Lists, Fields}
AllDatabases == SmallDatabases \union ModuleDatabases

\* The hypothesis of the theorems about what the cells stand for.
ASSUME NamesAssumption == \A d \in Databases : NamesTell(d)
==============================================================================
