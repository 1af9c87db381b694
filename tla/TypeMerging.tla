----------------------------- MODULE TypeMerging -----------------------------
(***************************************************************************)
(* From type DIEs to type cells: initVTypeInfo (TypeResolution) resolves   *)
(* the types of a unit, then Linker::initTypeCells (TypeCells) merges what *)
(* it left.  DIReducerContext runs the one after the other.                *)
(***************************************************************************)
EXTENDS TypeResolution

(***************************************************************************)
(* The units to consider: no alias is read while it is in progress, and    *)
(* the names that the source gives are told apart.                         *)
(***************************************************************************)
\* What the recursion visits from id.
Successors(unit, id) ==
  {unit[id].members[i].type : i \in DOMAIN unit[id].members}
    \union (IF unit[id].kind = "enumeration" THEN {} ELSE {unit[id].type} \ {NoType})
Circular(unit, id) ==
  \A S \in SUBSET DOMAIN unit :
    unit[id].type \in S /\ (\A a \in S : Successors(unit, a) \subseteq S) => id \in S

\* The recursion comes back to a type only through a structure or union that
\* the type refers to directly.
Timely(unit) ==
  \A id \in DOMAIN unit : unit[id].kind \notin Aggregate /\ Successors(unit, id) # {} =>
    \/ ~Circular(unit, id)
    \/ unit[id].kind \notin Alias /\ unit[unit[id].type].kind \in Aggregate

\* A DIE whose type is called as in the source, in a name space of types that C
\* keeps free of the names of base types.
Titled(unit, id) ==
  /\ unit[id].name # <<>>
  /\ \/ unit[id].kind \in {"enumeration", "structure", "union"}
     \/ unit[id].kind = "typedef" /\ unit[id].type = NoType
WellNamed(unit) ==
  /\ \A id \in DOMAIN unit : Titled(unit, id) =>
       \A i \in 1 .. Len(BaseName) : unit[id].name[1] # BaseName[i]
  /\ \A id1, id2 \in DOMAIN unit :
       Titled(unit, id1) /\ Titled(unit, id2) /\ unit[id1].name[1] = unit[id2].name[1] =>
         unit[id1].kind = unit[id2].kind /\ unit[id1].members = unit[id2].members

ASSUME UnitsAssumption == \A unit \in Inputs : Timely(unit) /\ WellNamed(unit)

VARIABLES cellModule, cellTodo, cellAt, cellStack, typeCellVec, typeNameMap, typeVecMap,
          redundantTypes, redundantAttrs

cellVars == <<cellModule, cellTodo, cellAt, cellStack, typeCellVec, typeNameMap,
              typeVecMap, redundantTypes, redundantAttrs>>

\* A VTypeInfo as recursiveInitType reads it.  TypeCells computes the bound of
\* an array from an upper bound, which is one less; sizes of attribute lists do
\* not matter here.
Entry(info) ==
  [name |-> info.name, tag |-> info.typeTag, base |-> info.baseType, ref |-> info.refer,
   upper |-> IF info.arrayBound = 0 THEN <<>> ELSE <<info.arrayBound - 1>>,
   members |-> info.members, attrs |-> 1]

Database == <<[id \in DOMAIN vTypeInfo |-> Entry(vTypeInfo[id])]>>

Cells == INSTANCE TypeCells WITH
  Databases <- {}, VoidName <- Named("void"), db <- Database,
  module <- cellModule, todo <- cellTodo, at <- cellAt, stack <- cellStack

InitMerging == Init /\ Cells!InitCells

Resolve == Next /\ ~Stopped /\ UNCHANGED cellVars
Merge   == Done /\ UNCHANGED vars /\ Cells!Next
GaveUp  == at = Panic /\ UNCHANGED <<vars, cellVars>>

NextMerging == Resolve \/ Merge \/ GaveUp
SpecMerging == InitMerging /\ [][NextMerging]_<<vars, cellVars>>

Merged == Done /\ Cells!Done

(***************************************************************************)
(* Properties.                                                             *)
(***************************************************************************)
\* target is what id is an alias of: it is in every set that holds id and what
\* the aliases of the set refer to.  An alias of void has no target.
AliasOf(id, target) ==
  /\ dies[target].kind \notin Alias
  /\ \A S \in SUBSET DOMAIN dies :
       id \in S /\ (\A a \in S : dies[a].kind \in Alias => Reference(a) \in S \union {NoType})
         => target \in S

\* The cell with serial number n is of the kind that stands for the DIE d, which
\* is no alias, and a structure or union has as many members as d.
Emitted(n, d) ==
  CASE d.kind = "base" -> n = d.base
    [] d.kind = "enumeration" -> n = Cells!Int32Sn
    [] d.kind = "subroutine" -> n = Cells!VoidSn
    [] d.kind \in Aggregate ->
         IF d.members = <<>> THEN n = Cells!VoidSn
         ELSE /\ Cells!Cell(n).tag = TypeTag(d.kind)
              /\ Len(Cells!Cell(n).members) = Len(d.members)
    [] OTHER -> Cells!Cell(n).tag = TypeTag(d.kind)

\* A variable declared with a typedef of a type is given a cell for that type:
\* through both recursions, the merging by name, and for every order of the two
\* hash maps.  It needs that no alias is met while its target is in progress.
AliasesEmitted ==
  Merged => \A id, target \in DOMAIN dies :
    AliasOf(id, target) => Emitted(typeVecMap[1][id], dies[target])

\* The same for what a pointer or an array refers to, with or without typedefs
\* in between.  A reference to a union is not looked at: what becomes of it is
\* left open in ReferencesFaithful of TypeCells, too.
ReferencesEmitted ==
  Merged => \A id, target \in DOMAIN dies :
    /\ dies[id].kind \in {"pointer", "array"} /\ Reference(id) # NoType
    /\ AliasOf(Reference(id), target) /\ dies[target].kind # "union"
    => Emitted(Cells!Cell(typeVecMap[1][id]).ref, dies[target])

\* The two recursions in a row lose no type and mix up none.
TypesEmitted == AliasesEmitted /\ ReferencesEmitted

\* recursiveInitType takes a name for the type: types of equal names must be of
\* equal kind, bound and members, and refer to types of equal names.
ReferName(info) == IF info.refer = NoType THEN Named("void") ELSE vTypeInfo[info.refer].name
NamesTell ==
  Done => \A id1, id2 \in DOMAIN dies :
    LET a == vTypeInfo[id1]  b == vTypeInfo[id2] IN
    a.name = b.name =>
      /\ a.typeTag = b.typeTag /\ a.arrayBound = b.arrayBound /\ a.members = b.members
      /\ a.typeTag \in {"POINTER", "ARRAY"} => ReferName(a) = ReferName(b)

\* So the input of the merging is one that the linker can tell types apart in,
\* as initTypeCells takes for granted.
MergeTold == Done => Cells!NamesTell(Database)
=============================================================================
