------------------------------ MODULE TypeCells ------------------------------
(***************************************************************************)
(* Linker::initTypeCells (lib/DWARFLinker/Linker.cpp): the types of every  *)
(* compilation unit are merged by name into one list of type cells, the    *)
(* types of the reduced debug info.                                        *)
(*                                                                         *)
(* The input is the database of VTypeInfo: for each module (compilation    *)
(* unit) an unordered map from the offset of a type's DIE, its ident, to   *)
(* its description.  Each description carries the pointers of its members  *)
(* and of its reference; here they are idents of the same module, 0 for    *)
(* nullptr.  recursiveInitType recurses over that graph, which has cycles  *)
(* through structures and unions; its stack is explicit here.              *)
(***************************************************************************)
EXTENDS Naturals, Sequences, SequencesExt, FiniteSetsExt

CONSTANTS
  Databases, \* the inputs to consider, see WellFormed
  VoidName   \* the name "void"

Tag == {"BASE", "POINTER", "ARRAY", "ENUMERATION", "FUNCTION", "VOID",
        "STRUCTURE", "UNION"}
Derived   == {"POINTER", "ARRAY"}
Aggregate == {"STRUCTURE", "UNION"}

\* Enumerators of CFG::BASETYPE, from 0, and the cells of initBaseType, whose
\* serial numbers they must equal: recursiveInitType uses them as indexes.
BaseType == <<"void", "uint8", "uint16", "uint32", "uint64", "uint128", "int8",
              "int16", "int32", "int64", "int128", "float32", "float64",
              "float128", "bool">>
VoidSn  == 0
Int32Sn == 8

MaxArrayBound     == 512
DefaultArrayBound == 16

\* A member of a structure: its type, the DW_AT_data_member_location, or for a
\* bit field the DW_AT_data_bit_offset and a non-zero DW_AT_bit_size.
Member == [type : Nat, loc : Nat, bits : Nat]

\* What a VTypeInfo says; `base` is a BASETYPE, `upper` the DW_AT_upper_bound
\* of an array, a sequence of length 0 when its subrange has none.  No type
\* consists of pointers and arrays alone.
WellFormedEntry(map, e) ==
  /\ e.tag \in Tag /\ e.base \in 0 .. Len(BaseType) - 1 /\ e.attrs \in Nat
  /\ e.ref \in DOMAIN map \union {0} /\ (e.tag = "ARRAY" => e.ref # 0)
  /\ e.upper \in Seq(Nat) /\ e.members \in Seq(Member)
  /\ \A i \in DOMAIN e.members : e.members[i].type \in DOMAIN map

WellFounded(map) ==
  \A S \in (SUBSET DOMAIN map) \ {{}} :
     \E id \in S : map[id].tag \notin Derived \/ map[id].ref \notin S

WellFormed(d) ==
  /\ Len(d) \in Nat \ {0}
  /\ \A m \in 1 .. Len(d) :
       /\ DOMAIN d[m] \subseteq Nat \ {0}
       /\ \A id \in DOMAIN d[m] : WellFormedEntry(d[m], d[m][id])
       /\ WellFounded(d[m])

ASSUME DatabaseAssumption == \A d \in Databases : WellFormed(d)

\* The code takes equal names for equal types.  This is what it relies on: a name
\* tells the kind of a type, and of a pointer or an array the name of what it
\* refers to; initVTypeInfo appends to that name, and so makes it never "void".
ReferName(map, id) == IF map[id].ref = 0 THEN VoidName ELSE map[map[id].ref].name
NamesTell(d) ==
  \A m, n \in 1 .. Len(d) : \A i \in DOMAIN d[m], j \in DOMAIN d[n] :
     d[m][i].name = d[n][j].name =>
       /\ d[m][i].tag = d[n][j].tag
       /\ d[m][i].tag \in Derived =>
            d[m][i].name # VoidName /\ ReferName(d[m], i) = ReferName(d[n], j)

VARIABLES
  db,            \* the input
  module,        \* the module initTypeCells works on
  todo,          \* idents of that module it has not visited
  at,            \* control: the next step, a call or a return, and its argument
  stack,         \* frames of the calls in progress, the innermost last
  typeCellVec,   \* the cells; the one with serial number n is at n + 1
  typeNameMap,   \* name -> serial number
  typeVecMap,    \* per module, ident -> serial number
  redundantTypes,\* per module, the idents counted as redundant
  redundantAttrs \* linkInfo.redundantTypeAttrs

input == <<db, module, todo>>
vars == <<input, at, stack, typeCellVec, typeNameMap, typeVecMap, redundantTypes,
          redundantAttrs>>

Module    == 1 .. Len(db)
E(id)     == db[module][id]
Cell(sn)  == typeCellVec[sn + 1]
NextSn    == Len(typeCellVec)
Idle      == [op |-> "next", arg |-> 0]
Call(id)  == [op |-> "call", arg |-> id]
Return(sn) == [op |-> "return", arg |-> sn]

\* The bound getMultiType gives the array: the number of elements, and a fixed
\* one for an array that is too large.
ArrayBound(e) ==
  IF e.upper = <<>> THEN 0
  ELSE IF e.upper[1] + 1 > MaxArrayBound THEN DefaultArrayBound
  ELSE e.upper[1] + 1

BaseCell(sn) ==
  [name |-> BaseType[sn + 1], tag |-> IF sn = VoidSn THEN "VOID" ELSE "BASE",
   ref |-> VoidSn, bound |-> 0, members |-> <<>>]
NewCell(e, ref) ==
  [name |-> e.name, tag |-> e.tag, ref |-> ref,
   bound |-> IF e.tag = "ARRAY" THEN ArrayBound(e) ELSE 0, members |-> <<>>]

\* Mutant: operator[] in place of insert.
InsertOrAssign(map, key, value) ==
  [k \in DOMAIN map \union {key} |-> IF k = key THEN value ELSE map[k]]
\* std::map::insert keeps the value of a key that is there.
Insert(map, key, value) ==
  [k \in DOMAIN map \union {key} |-> IF k \in DOMAIN map THEN map[k] ELSE value]

InitCells ==
  /\ module = 1 /\ todo = DOMAIN db[1]
  /\ at = Idle /\ stack = <<>>
  /\ typeCellVec = [i \in 1 .. Len(BaseType) |-> BaseCell(i - 1)]
  /\ typeNameMap = <<>>
  /\ typeVecMap  = [m \in 1 .. Len(db) |-> <<>>]
  /\ redundantTypes = [m \in 1 .. Len(db) |-> {}]
  /\ redundantAttrs = 0

Init == db \in Databases /\ InitCells

(***************************************************************************)
(* initTypeCells: the modules in order, the types of one in any order.     *)
(***************************************************************************)
\* Mutant: an iterator that is not advanced.
NextTypeAgain(id) ==
  /\ at = Idle /\ id \in todo
  /\ at' = Call(id)
  /\ UNCHANGED <<input, stack, typeCellVec, typeNameMap, typeVecMap,
                 redundantTypes, redundantAttrs>>

NextType(id) ==
  /\ at = Idle /\ id \in todo
  /\ todo' = todo \ {id}
  /\ at' = Call(id)
  /\ UNCHANGED <<db, module, stack, typeCellVec, typeNameMap, typeVecMap,
                 redundantTypes, redundantAttrs>>

NextModule ==
  /\ at = Idle /\ todo = {} /\ module < Len(db)
  /\ module' = module + 1
  /\ todo' = DOMAIN db[module + 1]
  /\ UNCHANGED <<db, at, stack, typeCellVec, typeNameMap, typeVecMap,
                 redundantTypes, redundantAttrs>>

\* The call made by initTypeCells returns; the result is dropped.
TypeDone ==
  /\ at.op = "return" /\ stack = <<>>
  /\ at' = Idle
  /\ UNCHANGED <<input, stack, typeCellVec, typeNameMap, typeVecMap,
                 redundantTypes, redundantAttrs>>

(***************************************************************************)
(* recursiveInitType: calls that return at once.                           *)
(***************************************************************************)
MapIdent(id, sn) ==
  typeVecMap' = [typeVecMap EXCEPT ![module] = Insert(@, id, sn)]

\* Mutant: no look at redundantTypes.
CountRedundantAgain(id) ==
  /\ redundantAttrs' = redundantAttrs + E(id).attrs
  /\ redundantTypes' = [redundantTypes EXCEPT ![module] = @ \union {id}]

\* The attributes of an ident are added once, however often it is reached.
CountRedundant(id) ==
  IF id \in redundantTypes[module]
    THEN UNCHANGED <<redundantTypes, redundantAttrs>>
    ELSE /\ redundantAttrs' = redundantAttrs + E(id).attrs
         /\ redundantTypes' = [redundantTypes EXCEPT ![module] = @ \union {id}]

\* The name has a cell.
Known(id) ==
  /\ at = Call(id) /\ E(id).name \in DOMAIN typeNameMap
  /\ CountRedundant(id)
  /\ MapIdent(id, typeNameMap[E(id).name])
  /\ at' = Return(typeNameMap[E(id).name])
  /\ UNCHANGED <<input, stack, typeCellVec, typeNameMap>>

New(id) == at = Call(id) /\ E(id).name \notin DOMAIN typeNameMap

\* A base type, an enumeration or a structure without members (a declaration)
\* gets one of the cells of initBaseType.
Replaced(e) == e.tag \in {"BASE", "ENUMERATION"} \/ (e.tag \in Aggregate /\ e.members = <<>>)
PresetSn(e) ==
  CASE e.tag = "BASE" -> e.base
    [] e.tag = "ENUMERATION" -> Int32Sn
    [] OTHER -> VoidSn

Preset(id) ==
  /\ New(id) /\ Replaced(E(id))
  /\ CountRedundant(id)
  /\ MapIdent(id, PresetSn(E(id)))
  /\ at' = Return(PresetSn(E(id)))
  /\ UNCHANGED <<input, stack, typeCellVec, typeNameMap>>

VoidOrFunction(id) ==
  /\ New(id) /\ E(id).tag \in {"VOID", "FUNCTION"}
  /\ MapIdent(id, PresetSn(E(id)))
  /\ at' = Return(PresetSn(E(id)))
  /\ UNCHANGED <<input, stack, typeCellVec, typeNameMap, redundantTypes, redundantAttrs>>

(***************************************************************************)
(* Pointers and arrays: the cell is made after the call for its reference, *)
(* which may have made a cell for the same name.                           *)
(***************************************************************************)
Create(id, ref) ==
  /\ typeCellVec' = Append(typeCellVec, NewCell(E(id), ref))
  /\ typeNameMap' = Insert(typeNameMap, E(id).name, NextSn)
  /\ MapIdent(id, NextSn)

VoidPointer(id) ==
  /\ New(id) /\ E(id).tag = "POINTER" /\ E(id).ref = 0
  /\ Create(id, VoidSn)
  /\ at' = Return(NextSn)
  /\ UNCHANGED <<input, stack, redundantTypes, redundantAttrs>>

\* A frame of a pointer or an array has no cell yet.
DerivedCall(id) ==
  /\ New(id) /\ E(id).tag \in Derived /\ E(id).ref # 0
  /\ stack' = Append(stack, [id |-> id, sn |-> 0])
  /\ at' = Call(E(id).ref)
  /\ UNCHANGED <<input, typeCellVec, typeNameMap, typeVecMap, redundantTypes, redundantAttrs>>

\* Mutant: the name of the new pointer or array is not recorded.
DerivedReturnUnnamed ==
  /\ at.op = "return" /\ stack # <<>> /\ Last(stack).sn = 0
  /\ typeCellVec' = Append(typeCellVec, NewCell(E(Last(stack).id), at.arg))
  /\ MapIdent(Last(stack).id, NextSn)
  /\ at' = Return(NextSn)
  /\ stack' = Front(stack)
  /\ UNCHANGED <<input, typeNameMap, redundantTypes, redundantAttrs>>

DerivedReturn ==
  /\ at.op = "return" /\ stack # <<>> /\ Last(stack).sn = 0
  /\ Create(Last(stack).id, at.arg)
  /\ at' = Return(NextSn)
  /\ stack' = Front(stack)
  /\ UNCHANGED <<input, redundantTypes, redundantAttrs>>

(***************************************************************************)
(* Structures and unions: the cell is made first, then one member after    *)
(* the other is appended to it.                                            *)
(***************************************************************************)
AggregateCall(id) ==
  /\ New(id) /\ E(id).tag \in Aggregate /\ E(id).members # <<>>
  /\ Create(id, VoidSn)
  /\ stack' = Append(stack, [id |-> id, sn |-> NextSn])
  /\ at' = Call(E(id).members[1].type)
  /\ UNCHANGED <<input, redundantTypes, redundantAttrs>>

\* A bit field keeps only it.second, which is its size; a member of a union is
\* always at 0.
CellMember(e, i, sn) ==
  LET m == e.members[i] IN
  IF e.tag = "UNION" THEN [type |-> sn, bit |-> FALSE, loc |-> 0]
  ELSE [type |-> sn, bit |-> m.bits # 0, loc |-> IF m.bits # 0 THEN m.bits ELSE m.loc]

\* Mutant: the structure returns like the union.
MemberReturnBack ==
  /\ at.op = "return" /\ stack # <<>> /\ Last(stack).sn # 0
  /\ LET e  == E(Last(stack).id)
         sn == Last(stack).sn
         i  == Len(Cell(sn).members) + 1
     IN
     /\ typeCellVec' = [typeCellVec EXCEPT ![sn + 1].members = Append(@, CellMember(e, i, at.arg))]
     /\ IF i < Len(e.members)
          THEN at' = Call(e.members[i + 1].type) /\ UNCHANGED stack
          ELSE /\ at' = Return(NextSn - 1)
               /\ stack' = Front(stack)
  /\ UNCHANGED <<input, typeNameMap, typeVecMap, redundantTypes, redundantAttrs>>

\* After the last member a structure returns its cell, and a union the cell
\* at the end of typeCellVec, which is its own only if its members made none.
MemberReturn ==
  /\ at.op = "return" /\ stack # <<>> /\ Last(stack).sn # 0
  /\ LET e  == E(Last(stack).id)
         sn == Last(stack).sn
         i  == Len(Cell(sn).members) + 1
     IN
     /\ typeCellVec' = [typeCellVec EXCEPT ![sn + 1].members = Append(@, CellMember(e, i, at.arg))]
     /\ IF i < Len(e.members)
          THEN at' = Call(e.members[i + 1].type) /\ UNCHANGED stack
          ELSE /\ at' = Return(IF e.tag = "UNION" THEN NextSn - 1 ELSE sn)
               /\ stack' = Front(stack)
  /\ UNCHANGED <<input, typeNameMap, typeVecMap, redundantTypes, redundantAttrs>>

Enter(id) ==
  \/ Known(id) \/ Preset(id) \/ VoidOrFunction(id) \/ VoidPointer(id)
  \/ DerivedCall(id) \/ AggregateCall(id)

Done == at = Idle /\ todo = {} /\ module = Len(db)

Next ==
  \/ \E id \in todo : NextType(id)
  \/ NextModule
  \/ TypeDone
  \/ \E id \in DOMAIN db[module] : Enter(id)
  \/ DerivedReturn
  \/ MemberReturn
  \/ Done /\ UNCHANGED vars

Spec == Init /\ [][Next]_vars
\* A sequential program: it runs on as long as it can.
FairSpec == Spec /\ WF_vars(Next)

(***************************************************************************)
(* Properties.                                                             *)
(***************************************************************************)
Sn == 0 .. NextSn - 1
IsCell(c) ==
  /\ DOMAIN c = {"name", "tag", "ref", "bound", "members"}
  /\ c.tag \in Tag /\ c.ref \in Sn /\ c.bound \in 0 .. MaxArrayBound
  /\ \A i \in 1 .. Len(c.members) :
       c.members[i] \in [type : Sn, bit : BOOLEAN, loc : Nat]

\* Serial numbers, in the maps and in the cells, are indexes of typeCellVec.
TypeOK ==
  /\ module \in Module /\ todo \subseteq DOMAIN db[module]
  /\ \/ at \in [op : {"next"}, arg : {0}]
     \/ at \in [op : {"call"}, arg : DOMAIN db[module]]
     \/ at \in [op : {"return"}, arg : Sn]
  /\ stack \in Seq([id : DOMAIN db[module], sn : Sn])
  /\ \A n \in Sn : IsCell(Cell(n))
  /\ \A name \in DOMAIN typeNameMap : typeNameMap[name] \in Sn
  /\ DOMAIN typeVecMap = Module
  /\ \A m \in Module : \A id \in DOMAIN typeVecMap[m] : typeVecMap[m][id] \in Sn
  /\ redundantTypes \in [Module -> SUBSET Nat] /\ redundantAttrs \in Nat

\* The cell with serial number n stands for the type e: the cell of its base
\* type, int32 for an enumeration, void for what has no layout, and otherwise
\* a cell of its name and kind.
Represents(n, e) ==
  CASE e.tag = "BASE" -> n = e.base
    [] e.tag = "ENUMERATION" -> n = Int32Sn
    [] e.tag \in {"VOID", "FUNCTION"} -> n = VoidSn
    [] e.tag \in Aggregate /\ e.members = <<>> ->
         n = VoidSn \/ (Cell(n).name = e.name /\ Cell(n).tag = e.tag)
    [] OTHER -> Cell(n).name = e.name /\ Cell(n).tag = e.tag

\* recursiveCollect looks the type of every variable and function up by ident:
\* what it finds is a cell for that type, whichever call mapped the ident.
MapFaithful ==
  \A m \in Module : \A id \in DOMAIN typeVecMap[m] :
     Represents(typeVecMap[m][id], db[m][id])

\* ... and it finds one: FIG_ASSERT(typeVecMap.contains(typeIndex)) cannot fail
\* for an ident of the database, at whatever depth of a recursion it was seen.
MapComplete == Done => \A m \in Module : DOMAIN typeVecMap[m] = DOMAIN db[m]

\* Variables and functions hold serial numbers, so neither map ever gives an
\* ident or a name another cell, and no cell changes but by getting members.
NeverRemapped ==
  [][/\ \A m \in Module : \A id \in DOMAIN typeVecMap[m] : typeVecMap'[m][id] = typeVecMap[m][id]
     /\ \A name \in DOMAIN typeNameMap : typeNameMap'[name] = typeNameMap[name]
     /\ \A i \in 1 .. Len(typeCellVec) :
          [typeCellVec[i] EXCEPT !.members = <<>>] = [typeCellVec'[i] EXCEPT !.members = <<>>]
    ]_vars

\* The entries of all modules that the cell c may have been made for.
Sources(c) ==
  UNION {{<<m, id>> : id \in {j \in DOMAIN db[m] : db[m][j].name = c.name /\ db[m][j].tag = c.tag}}
            : m \in Module}
Made == Len(BaseType) .. NextSn - 1

\* Refers(c, m, e): c refers to a cell that stands for what e refers to.
Refers(c, m, e) == IF e.ref = 0 THEN c.ref = VoidSn ELSE Represents(c.ref, db[m][e.ref])
ToUnion(m, e)   == e.ref # 0 /\ db[m][e.ref].tag = "UNION"

\* A pointer or array cell refers to the cell of its object type although the
\* call for that type may have made any number of cells, or have met a
\* structure that is still in progress.  References to unions are left out:
\* for a union whose members made cells the code returns the end of
\* typeCellVec, the cell of one of them.
ReferencesFaithful ==
  \A n \in Made : Cell(n).tag \in Derived =>
     \E s \in Sources(Cell(n)) :
        LET e == db[s[1]][s[2]] IN ToUnion(s[1], e) \/ Refers(Cell(n), s[1], e)

\* The members of a cell are those of a type of that name, in order, up to the
\* one in progress, and all of them in the end: nested calls that make cells
\* or meet the same structure again do not lose or mix up any.
MembersFaithful ==
  \A n \in Made : Cell(n).tag \in Aggregate =>
     \E s \in Sources(Cell(n)) :
        LET e == db[s[1]][s[2]] IN
        /\ Len(Cell(n).members) <= Len(e.members)
        /\ Done => Len(Cell(n).members) = Len(e.members)
        /\ \A i \in 1 .. Len(Cell(n).members) :
             LET c == Cell(n).members[i]  m == e.members[i] IN
             /\ db[s[1]][m.type].tag = "UNION" \/ Represents(c.type, db[s[1]][m.type])
             /\ c.bit <=> m.bits # 0 /\ e.tag = "STRUCTURE"
             /\ m.bits = 0 => c.loc = IF e.tag = "UNION" THEN 0 ELSE m.loc

\* Merging: a name has one structure or union, in any number of modules, and
\* at most two pointers or arrays: a second one is made when the call for the
\* object type comes back to the same pointer through a structure.
CellsOf(name, tag) == {n \in Made : Cell(n).name = name /\ Cell(n).tag = tag}
Merged ==
  \A n \in Made :
     Cardinality(CellsOf(Cell(n).name, Cell(n).tag)) <= IF Cell(n).tag \in Aggregate THEN 1 ELSE 2

\* The output has the types of the input: an ident has a cell for its own
\* type, with its references and members, made once for all modules.
Faithful == TypeOK /\ MapFaithful /\ MapComplete /\ ReferencesFaithful /\ MembersFaithful /\ Merged

\* The attributes of every ident found redundant are counted exactly once.
RedundantSum ==
  redundantAttrs =
    MapThenSumSet(LAMBDA s : db[s[1]][s[2]].attrs,
                  UNION {{<<m, id>> : id \in redundantTypes[m]} : m \in Module})

\* DW_AT_data_bit_offset of a bit field is where the input has the field.
BitOffsetKept ==
  \A m \in Module : \A id \in DOMAIN typeVecMap[m] :
     LET e == db[m][id]  c == Cell(typeVecMap[m][id]) IN
     c.tag = "STRUCTURE" => \A i \in 1 .. Len(c.members) : c.members[i].loc = e.members[i].loc

\* The recursion ends, although the graph of types has cycles, because a
\* structure has its name in the map before its members are visited.
Termination == <>Done
=============================================================================
