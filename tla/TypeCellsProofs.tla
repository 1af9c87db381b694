-------------------------- MODULE TypeCellsProofs --------------------------
(***************************************************************************)
(* The merging of types for any units of any size, in any order of their   *)
(* types: every ident gets a serial number, which it keeps; the cell of    *)
(* that number is its type's, with its reference and its members, and is   *)
(* made once; the redundant attributes are counted once.  Proofs about     *)
(* TypeCells.                                                              *)
(***************************************************************************)
EXTENDS TypeCells, FoldFacts, TLAPS

(***************************************************************************)
(* Facts about maps and sequences.                                         *)
(***************************************************************************)
\* insert adds a key and changes none.
LEMMA Inserted ==
  ASSUME NEW map, NEW key, NEW value
  PROVE  /\ DOMAIN Insert(map, key, value) = DOMAIN map \union {key}
         /\ \A k \in DOMAIN map : Insert(map, key, value)[k] = map[k]
         /\ \A k \in DOMAIN map \union {key} : k \notin DOMAIN map => Insert(map, key, value)[k] = value
  BY DEF Insert

\* A push and a pop.
LEMMA Pushed ==
  ASSUME NEW S, NEW s \in Seq(S), NEW x \in S
  PROVE  /\ Append(s, x) \in Seq(S) /\ Len(Append(s, x)) = Len(s) + 1 /\ Len(s) \in Nat
         /\ \A i \in 1 .. Len(s) : Append(s, x)[i] = s[i]
         /\ Append(s, x)[Len(s) + 1] = x /\ Append(s, x) # <<>>
  OBVIOUS

LEMMA Popped ==
  ASSUME NEW S, NEW s \in Seq(S), s # <<>>
  PROVE  /\ Front(s) \in Seq(S) /\ Len(s) \in Nat \ {0} /\ Last(s) \in S /\ Last(s) = s[Len(s)]
         /\ Len(Front(s)) = Len(s) - 1
         /\ \A i \in 1 .. Len(s) - 1 : Front(s)[i] = s[i]
<1>1. Len(s) \in Nat \ {0}
  OBVIOUS
<1>2. Front(s) \in Seq(S) /\ Len(Front(s)) = Len(s) - 1
  <2>1. Front(s) \in Seq(S)
    BY DEF Front
  <2>2. DOMAIN Front(s) = 1 .. Len(s) - 1
    BY <1>1 DEF Front
  <2> QED
    BY <1>1, <2>1, <2>2
<1>3. \A i \in 1 .. Len(s) - 1 : Front(s)[i] = s[i]
  <2>1. DOMAIN Front(s) = 1 .. Len(s) - 1
    BY <1>1, <1>2
  <2>2. \A i \in DOMAIN Front(s) : Front(s)[i] = s[i]
    BY DEF Front
  <2> QED
    BY <2>1, <2>2
<1> QED
  BY <1>1, <1>2, <1>3 DEF Last

(***************************************************************************)
(* The invariant.                                                          *)
(***************************************************************************)
Names == (UNION {{db[m][id].name : id \in DOMAIN db[m]} : m \in Module})
           \union {BaseType[i] : i \in 1 .. 15}
MemberCell == [type : Nat, bit : BOOLEAN, loc : Nat]
CellRecord == [name : Names, tag : Tag, ref : Nat, bound : 0 .. MaxArrayBound, members : Seq(MemberCell)]
Frame      == [id : DOMAIN db[module], sn : Nat]

\* Where initTypeCells is.
Control ==
  /\ db \in Databases /\ module \in Module /\ todo \subseteq DOMAIN db[module]
  /\ \/ at = Idle /\ stack = <<>>
     \/ \E id \in DOMAIN db[module] : at = Call(id)
     \/ \E sn \in Sn : at = Return(sn)
  /\ stack \in Seq(Frame)

\* The cells refer to cells; those of initBaseType come first.
Cells ==
  /\ typeCellVec \in Seq(CellRecord) /\ Len(typeCellVec) >= 15
  /\ \A n \in Sn : /\ Cell(n).ref \in Sn
                   /\ \A i \in 1 .. Len(Cell(n).members) : Cell(n).members[i].type \in Sn

Maps ==
  /\ \A name \in DOMAIN typeNameMap : typeNameMap[name] \in Sn
  /\ DOMAIN typeVecMap = Module
  /\ \A m \in Module : /\ DOMAIN typeVecMap[m] \subseteq DOMAIN db[m]
                       /\ \A id \in DOMAIN typeVecMap[m] : typeVecMap[m][id] \in Sn

Counts == redundantTypes \in [Module -> SUBSET Nat] /\ redundantAttrs \in Nat

\* A frame of a structure has a cell of its own, which lacks a member.
Lacks(id, sn) == /\ sn \in Sn /\ id \in DOMAIN typeVecMap[module]
                 /\ Len(Cell(sn).members) < Len(E(id).members)
Frames ==
  \A k \in 1 .. Len(stack) : stack[k].sn # 0 =>
    /\ Lacks(stack[k].id, stack[k].sn)
    /\ \A j \in 1 .. k - 1 : stack[j].sn # stack[k].sn

\* No ident is forgotten: it has a cell, or a call for it waits or is going on.
Accounted ==
  /\ \A m \in 1 .. module - 1 : DOMAIN typeVecMap[m] = DOMAIN db[m]
  /\ \A id \in DOMAIN db[module] :
       \/ id \in todo \/ id \in DOMAIN typeVecMap[module] \/ at = Call(id)
       \/ \E k \in 1 .. Len(stack) : stack[k].id = id

Inv == Control /\ Cells /\ Maps /\ Counts /\ Frames /\ Accounted

-----------------------------------------------------------------------------
\* What the input says of a type.
LEMMA Entry ==
  ASSUME Control, NEW id \in DOMAIN db[module]
  PROVE  /\ E(id).tag \in Tag /\ E(id).base \in 0 .. 14 /\ E(id).attrs \in Nat /\ id \in Nat
         /\ E(id).ref # 0 => E(id).ref \in DOMAIN db[module]
         /\ E(id).upper \in Seq(Nat) /\ E(id).members \in Seq(Member)
         /\ \A i \in 1 .. Len(E(id).members) : E(id).members[i].type \in DOMAIN db[module]
         /\ E(id).name \in Names /\ Len(db) \in Nat \ {0}
<1>1. WellFormed(db) /\ module \in 1 .. Len(db) /\ Len(BaseType) = 15
  BY DatabaseAssumption DEF Control, Module, BaseType
<1>2. WellFormedEntry(db[module], db[module][id]) /\ DOMAIN db[module] \subseteq Nat \ {0}
  BY <1>1 DEF WellFormed
<1>3. E(id).name \in Names
  <2>1. E(id).name \in {db[module][i].name : i \in DOMAIN db[module]}
    BY DEF E
  <2> QED
    BY <1>1, <2>1 DEF Names, Module
<1> QED
  BY <1>1, <1>2, <1>3 DEF WellFormedEntry, WellFormed, E

\* A cell made for a type.
LEMMA NewCells ==
  ASSUME Control, NEW id \in DOMAIN db[module], NEW ref \in Nat
  PROVE  NewCell(E(id), ref) \in CellRecord /\ NewCell(E(id), ref).ref = ref
         /\ NewCell(E(id), ref).members = <<>>
<1> DEFINE e == E(id)
<1>1. e.upper # <<>> => e.upper[1] \in Nat
  BY Entry
<1>2. ArrayBound(e) \in 0 .. MaxArrayBound
  <2> DEFINE bound == e.upper[1]
  <2>1. ArrayBound(e) = IF e.upper = <<>> THEN 0 ELSE IF bound + 1 > 512 THEN 16 ELSE bound + 1
    BY DEF ArrayBound, MaxArrayBound, DefaultArrayBound
  <2>2. e.upper # <<>> => bound \in Nat
    BY <1>1
  <2> HIDE DEF bound, e
  <2>3. CASE e.upper = <<>>
    BY <2>1, <2>3 DEF MaxArrayBound
  <2>4. CASE e.upper # <<>>
    <3>1. bound \in Nat /\ ArrayBound(e) = IF bound + 1 > 512 THEN 16 ELSE bound + 1
      BY <2>1, <2>2, <2>4
    <3> QED
      BY <3>1 DEF MaxArrayBound
  <2> QED
    BY <2>3, <2>4
<1>3. e.name \in Names /\ e.tag \in Tag
  BY Entry
<1> HIDE DEF e
<1>4. NewCell(e, ref) \in CellRecord /\ NewCell(e, ref).ref = ref /\ NewCell(e, ref).members = <<>>
  BY <1>2, <1>3 DEF NewCell, CellRecord, MaxArrayBound
<1> QED
  BY <1>4 DEF e

\* typeCellVec.push_back.
LEMMA Appended ==
  ASSUME Cells, NEW c \in CellRecord, c.ref \in Sn, c.members = <<>>, db' = db,
         typeCellVec' = Append(typeCellVec, c)
  PROVE  /\ Cells' /\ NextSn' = NextSn + 1 /\ NextSn \in Nat /\ NextSn >= 15
         /\ Sn \subseteq Sn' /\ NextSn \in Sn'
         /\ \A n \in Sn : Cell(n)' = Cell(n)
<1>1. /\ typeCellVec' \in Seq(CellRecord) /\ Len(typeCellVec') = Len(typeCellVec) + 1
      /\ Len(typeCellVec) \in Nat /\ Len(typeCellVec) >= 15
      /\ \A i \in 1 .. Len(typeCellVec) : typeCellVec'[i] = typeCellVec[i]
      /\ typeCellVec'[Len(typeCellVec) + 1] = c
  BY Pushed DEF Cells
<1>2. Sn \subseteq Sn' /\ NextSn \in Sn'
  BY <1>1 DEF Sn, NextSn
<1>3. \A n \in Sn : Cell(n)' = Cell(n)
  BY <1>1 DEF Sn, NextSn, Cell
<1>4. CellRecord' = CellRecord
  BY DEF CellRecord, Names, Module
<1>5. ASSUME NEW n \in Sn' PROVE n \in Sn \/ Cell(n)' = c
  BY <1>1 DEF Sn, NextSn, Cell
<1>6. \A i \in 1 .. Len(c.members) : FALSE
  OBVIOUS
<1>7. \A n \in Sn' : /\ Cell(n).ref' \in Sn'
                     /\ \A i \in 1 .. Len(Cell(n).members') : Cell(n).members[i].type' \in Sn'
  BY <1>2, <1>3, <1>5, <1>6 DEF Cells
<1> QED
  BY <1>1, <1>2, <1>3, <1>4, <1>7 DEF Cells, NextSn

-----------------------------------------------------------------------------
\* typeVecMap.at(module).insert.
LEMMA Mapped ==
  ASSUME Maps, Control, NEW id \in DOMAIN db[module], NEW sn \in Sn', MapIdent(id, sn),
         UNCHANGED <<db, module>>, Sn \subseteq Sn'
  PROVE  /\ DOMAIN typeVecMap' = Module' /\ Module' = Module
         /\ \A m \in Module' : \A x \in DOMAIN typeVecMap'[m] : typeVecMap'[m][x] \in Sn'
         /\ \A m \in Module : m # module => typeVecMap'[m] = typeVecMap[m]
         /\ DOMAIN typeVecMap'[module] = DOMAIN typeVecMap[module] \union {id}
         /\ \A m \in Module : \A x \in DOMAIN typeVecMap[m] :
              x \in DOMAIN typeVecMap'[m] /\ typeVecMap'[m][x] = typeVecMap[m][x]
<1>1. /\ DOMAIN typeVecMap = Module /\ module \in Module /\ Module' = Module
      /\ \A m \in Module : \A x \in DOMAIN typeVecMap[m] : typeVecMap[m][x] \in Sn'
  BY DEF Maps, Control, Module
<1>2. /\ DOMAIN typeVecMap' = Module
      /\ typeVecMap'[module] = Insert(typeVecMap[module], id, sn)
      /\ \A m \in Module : m # module => typeVecMap'[m] = typeVecMap[m]
  BY <1>1 DEF MapIdent
<1>3. /\ DOMAIN typeVecMap'[module] = DOMAIN typeVecMap[module] \union {id}
      /\ \A x \in DOMAIN typeVecMap[module] : typeVecMap'[module][x] = typeVecMap[module][x]
      /\ \A x \in DOMAIN typeVecMap'[module] : x \notin DOMAIN typeVecMap[module] => typeVecMap'[module][x] = sn
  <2> DEFINE map == typeVecMap[module]  new == Insert(map, id, sn)
  <2>1. /\ DOMAIN new = DOMAIN map \union {id}
        /\ \A x \in DOMAIN map : new[x] = map[x]
        /\ \A x \in DOMAIN map \union {id} : x \notin DOMAIN map => new[x] = sn
    <3> HIDE DEF map
    <3> QED
      BY Inserted
  <2> QED
    BY <1>2, <2>1
<1> QED
  BY <1>1, <1>2, <1>3

\* A cell is made, the name and the ident mapped to it.
LEMMA Created ==
  ASSUME Control, Cells, Maps, NEW id \in DOMAIN db[module], NEW ref \in Sn, Create(id, ref),
         UNCHANGED <<db, module>>
  PROVE  /\ Cells' /\ Maps'
         /\ NextSn \in Nat /\ NextSn >= 15 /\ Sn \subseteq Sn' /\ NextSn \in Sn' /\ NextSn \notin Sn
         /\ \A n \in Sn : Cell(n)' = Cell(n)
         /\ typeCellVec' = Append(typeCellVec, NewCell(E(id), ref))
         /\ \A m \in Module : DOMAIN typeVecMap[m] \subseteq DOMAIN typeVecMap'[m]
         /\ id \in DOMAIN typeVecMap'[module]
<1>1. ref \in Nat
  BY DEF Sn
<1>2. /\ Cells' /\ NextSn \in Nat /\ NextSn >= 15 /\ Sn \subseteq Sn' /\ NextSn \in Sn'
      /\ \A n \in Sn : Cell(n)' = Cell(n)
  BY <1>1, NewCells, Appended DEF Create
<1>3. NextSn \notin Sn
  BY <1>2 DEF Sn
<1>4. \A x \in DOMAIN typeNameMap' : typeNameMap'[x] \in Sn'
  <2> DEFINE key == E(id).name  new == Insert(typeNameMap, key, NextSn)
  <2>1. /\ DOMAIN new = DOMAIN typeNameMap \union {key}
        /\ \A x \in DOMAIN typeNameMap : new[x] = typeNameMap[x]
        /\ \A x \in DOMAIN typeNameMap \union {key} : x \notin DOMAIN typeNameMap => new[x] = NextSn
    <3> HIDE DEF key
    <3> QED
      BY Inserted
  <2>2. typeNameMap' = new
    BY DEF Create
  <2> HIDE DEF key, new
  <2> QED
    BY <1>2, <2>1, <2>2 DEF Maps
<1>5. /\ Maps' /\ \A m \in Module : DOMAIN typeVecMap[m] \subseteq DOMAIN typeVecMap'[m]
      /\ id \in DOMAIN typeVecMap'[module]
  BY <1>2, <1>4, Mapped DEF Create, Maps, Control
<1>6. typeCellVec' = Append(typeCellVec, NewCell(E(id), ref))
  BY DEF Create
<1> QED
  BY <1>2, <1>3, <1>5, <1>6

\* Idents that were accounted for are, when nothing but the call in progress
\* changes hands.
LEMMA StillAccounted ==
  ASSUME Accounted, Control, UNCHANGED <<db, module, todo>>,
         \A m \in Module : DOMAIN typeVecMap[m] \subseteq DOMAIN typeVecMap'[m],
         \A m \in Module : DOMAIN typeVecMap'[m] \subseteq DOMAIN db[m],
         \A id \in DOMAIN db[module] : at = Call(id) =>
           \/ id \in DOMAIN typeVecMap'[module]
           \/ \E k \in 1 .. Len(stack') : stack'[k].id = id,
         \A k \in 1 .. Len(stack) :
           \/ stack[k].id \in DOMAIN typeVecMap'[module]
           \/ \E j \in 1 .. Len(stack') : stack'[j].id = stack[k].id
  PROVE  Accounted'
<1>1. module \in Module /\ \A m \in 1 .. module - 1 : m \in Module
  BY DatabaseAssumption DEF Control, Module, WellFormed
<1>2. \A m \in 1 .. module - 1 : DOMAIN typeVecMap'[m] = DOMAIN db[m]
  BY <1>1 DEF Accounted
<1>3. ASSUME NEW id \in DOMAIN db[module]
      PROVE  \/ id \in todo \/ id \in DOMAIN typeVecMap'[module]
             \/ \E k \in 1 .. Len(stack') : stack'[k].id = id
  BY <1>1, <1>3 DEF Accounted
<1> QED
  BY <1>2, <1>3 DEF Accounted

\* Calls that return at once.
LEMMA Returned ==
  ASSUME Inv, NEW id \in DOMAIN db[module], at = Call(id), NEW sn \in Sn, MapIdent(id, sn),
         at' = Return(sn), UNCHANGED <<input, stack, typeCellVec, typeNameMap>>, Counts'
  PROVE  Inv'
<1> USE DEF Inv, input
<1>1. Sn' = Sn /\ Module' = Module
  BY DEF Sn, NextSn, Module
<1>2. Control'
  BY <1>1 DEF Control, Frame
<1>3. Cells'
  BY <1>1 DEF Cells, Cell, CellRecord, Names, Module
<1>4. Maps' /\ id \in DOMAIN typeVecMap'[module]
      /\ \A m \in Module : DOMAIN typeVecMap[m] \subseteq DOMAIN typeVecMap'[m]
  BY <1>1, Mapped DEF Maps, Control
<1>5. Frames'
  BY <1>1, <1>4 DEF Frames, Lacks, Cell, E, Control
<1>6. Accounted'
  <2>1. \A x \in DOMAIN db[module] : at = Call(x) => x = id
    BY DEF Call
  <2>2. \A k \in 1 .. Len(stack) : \E j \in 1 .. Len(stack') : stack'[j].id = stack[k].id
    OBVIOUS
  <2>3. \A m \in Module : DOMAIN typeVecMap'[m] \subseteq DOMAIN db[m]
    BY <1>1, <1>4 DEF Maps
  <2> QED
    BY <1>4, <2>1, <2>2, <2>3, StillAccounted
<1> QED
  BY <1>2, <1>3, <1>4, <1>5, <1>6

\* A pointer to nothing.
LEMMA VoidPointers == ASSUME Inv, NEW id \in DOMAIN db[module], VoidPointer(id) PROVE Inv'
<1> USE DEF VoidPointer, New, Inv, input
<1>0. VoidSn \in Sn /\ Module' = Module
  BY DEF Cells, Sn, NextSn, VoidSn, Module
<1>1. /\ Cells' /\ Maps' /\ NextSn \in Sn' /\ Sn \subseteq Sn'
      /\ \A n \in Sn : Cell(n)' = Cell(n)
      /\ \A m \in Module : DOMAIN typeVecMap[m] \subseteq DOMAIN typeVecMap'[m]
      /\ id \in DOMAIN typeVecMap'[module]
  BY <1>0, Created
<1>2. Control'
  BY <1>0, <1>1 DEF Control, Frame
<1>3. Counts'
  BY <1>0 DEF Counts
<1>4. Frames'
  BY <1>0, <1>1 DEF Frames, Lacks, E, Control
<1>5. Accounted'
  <2>1. \A x \in DOMAIN db[module] : at = Call(x) => x = id
    BY DEF Call
  <2>2. \A m \in Module : DOMAIN typeVecMap'[m] \subseteq DOMAIN db[m]
    BY <1>0, <1>1 DEF Maps
  <2>3. \A k \in 1 .. Len(stack) : \E j \in 1 .. Len(stack') : stack'[j].id = stack[k].id
    OBVIOUS
  <2> QED
    BY <1>1, <2>1, <2>2, <2>3, StillAccounted
<1> QED
  BY <1>1, <1>2, <1>3, <1>4, <1>5

\* A pointer or an array waits for its reference.
LEMMA DerivedCalls == ASSUME Inv, NEW id \in DOMAIN db[module], DerivedCall(id) PROVE Inv'
<1> USE DEF DerivedCall, New, Inv, input
<1> DEFINE frame == [id |-> id, sn |-> 0]
<1>0. Sn' = Sn /\ Module' = Module /\ frame \in Frame /\ stack \in Seq(Frame)
  BY DEF Sn, NextSn, Module, Frame, Control
<1>1. /\ stack' \in Seq(Frame) /\ Len(stack') = Len(stack) + 1 /\ Len(stack) \in Nat
      /\ \A i \in 1 .. Len(stack) : stack'[i] = stack[i]
      /\ stack'[Len(stack) + 1] = frame
  BY <1>0, Pushed
<1>2. Control'
  <2>1. E(id).ref \in DOMAIN db[module]
    BY Entry
  <2> QED
    BY <1>0, <1>1, <2>1 DEF Control, Frame
<1>3. Cells' /\ Maps' /\ Counts'
  BY <1>0 DEF Cells, Maps, Counts, Cell, CellRecord, Names, Module
<1>4. Frames'
  <2>1. \A x \in DOMAIN db[module], n \in Nat : Lacks(x, n) => Lacks(x, n)'
    BY <1>0 DEF Lacks, Cell, E
  <2> SUFFICES ASSUME NEW k \in 1 .. Len(stack'), stack'[k].sn # 0,
                      NEW x, NEW n, x = stack'[k].id, n = stack'[k].sn
               PROVE  Lacks(x, n)' /\ \A j \in 1 .. k - 1 : stack'[j].sn # n
    BY DEF Frames, Lacks, Cell, E
  <2>2. k \in 1 .. Len(stack) /\ stack'[k] = stack[k] /\ \A j \in 1 .. k - 1 : stack'[j] = stack[j]
    BY <1>1
  <2>3. stack[k] \in Frame
    BY <1>0, <2>2
  <2> QED
    BY <2>1, <2>2, <2>3 DEF Frames, Frame
<1>5. Accounted'
  <2>1. \A x \in DOMAIN db[module] : at = Call(x) => x = id
    BY DEF Call
  <2>2. \E j \in 1 .. Len(stack') : stack'[j].id = id
    BY <1>1
  <2>3. \A k \in 1 .. Len(stack) : \E j \in 1 .. Len(stack') : stack'[j].id = stack[k].id
    BY <1>1
  <2>4. \A m \in Module : DOMAIN typeVecMap'[m] \subseteq DOMAIN db[m]
    BY DEF Maps
  <2> QED
    BY <2>1, <2>2, <2>3, <2>4, StillAccounted
<1> QED
  BY <1>2, <1>3, <1>4, <1>5

\* A structure or union gets its cell, which has no members yet.
LEMMA AggregateCalls == ASSUME Inv, NEW id \in DOMAIN db[module], AggregateCall(id) PROVE Inv'
<1> USE DEF AggregateCall, New, Inv, input
<1> DEFINE frame == [id |-> id, sn |-> NextSn]
<1>0. /\ VoidSn \in Sn /\ Module' = Module /\ stack \in Seq(Frame)
      /\ typeCellVec \in Seq(CellRecord) /\ NewCell(E(id), VoidSn) \in CellRecord
      /\ NewCell(E(id), VoidSn).members = <<>>
  BY NewCells DEF Cells, Sn, NextSn, VoidSn, Module, Control
<1>1. /\ Cells' /\ Maps' /\ NextSn \in Sn' /\ Sn \subseteq Sn' /\ NextSn \notin Sn /\ NextSn \in Nat
      /\ NextSn >= 15 /\ typeCellVec' = Append(typeCellVec, NewCell(E(id), VoidSn))
      /\ \A n \in Sn : Cell(n)' = Cell(n)
      /\ \A m \in Module : DOMAIN typeVecMap[m] \subseteq DOMAIN typeVecMap'[m]
      /\ id \in DOMAIN typeVecMap'[module]
  BY <1>0, Created
<1>2. /\ stack' \in Seq(Frame) /\ Len(stack') = Len(stack) + 1 /\ Len(stack) \in Nat
      /\ \A i \in 1 .. Len(stack) : stack'[i] = stack[i]
      /\ stack'[Len(stack) + 1] = frame
  <2>1. frame \in Frame
    BY <1>1 DEF Frame
  <2> QED
    BY <1>0, <2>1, Pushed
<1>3. Len(E(id).members) > 0 /\ E(id).members[1].type \in DOMAIN db[module]
  <2>1. E(id).members \in Seq(Member) /\ Len(E(id).members) > 0
    BY Entry
  <2> QED
    BY <2>1, Entry
<1>4. Control'
  BY <1>0, <1>2, <1>3 DEF Control, Frame
<1>5. Counts'
  BY <1>0 DEF Counts
<1>6. ASSUME NEW n, n = NextSn PROVE Lacks(id, n)'
  <2>1. typeCellVec'[n + 1] = NewCell(E(id), VoidSn)
    BY <1>0, <1>1, <1>6, Pushed DEF NextSn
  <2>2. Len(Cell(n)'.members) = 0
    BY <1>0, <2>1 DEF Cell
  <2> QED
    BY <1>1, <1>3, <1>6, <2>2 DEF Lacks, E
<1>7. Frames'
  <2>1. \A x \in DOMAIN db[module], n \in Nat : Lacks(x, n) => Lacks(x, n)'
    BY <1>0, <1>1 DEF Lacks, E, Control
  <2> SUFFICES ASSUME NEW k \in 1 .. Len(stack'), stack'[k].sn # 0,
                      NEW x, NEW n, x = stack'[k].id, n = stack'[k].sn
               PROVE  Lacks(x, n)' /\ \A j \in 1 .. k - 1 : stack'[j].sn # n
    BY DEF Frames, Lacks, Cell, E
  <2>2. CASE k \in 1 .. Len(stack)
    <3>1. stack'[k] = stack[k] /\ \A j \in 1 .. k - 1 : stack'[j] = stack[j]
      BY <1>2, <2>2
    <3>2. stack[k] \in Frame
      BY <1>0, <2>2
    <3> QED
      BY <2>1, <2>2, <3>1, <3>2 DEF Frames, Frame
  <2>3. CASE k = Len(stack) + 1
    <3>1. x = id /\ n = NextSn
      BY <1>2, <2>3
    <3>2. ASSUME NEW j \in 1 .. Len(stack) PROVE stack[j].sn # NextSn
      <4>1. stack[j].sn = 0 \/ stack[j].sn \in Sn
        BY DEF Frames, Lacks
      <4> QED
        BY <1>1, <4>1
    <3> QED
      BY <1>2, <1>6, <2>3, <3>1, <3>2
  <2> QED
    BY <1>2, <2>2, <2>3
<1>8. Accounted'
  <2>1. \A x \in DOMAIN db[module] : at = Call(x) => x = id
    BY DEF Call
  <2>2. \A k \in 1 .. Len(stack) : \E j \in 1 .. Len(stack') : stack'[j].id = stack[k].id
    BY <1>2
  <2>3. \A m \in Module : DOMAIN typeVecMap'[m] \subseteq DOMAIN db[m]
    BY <1>0, <1>1 DEF Maps
  <2> QED
    BY <1>1, <2>1, <2>2, <2>3, StillAccounted
<1> QED
  BY <1>1, <1>4, <1>5, <1>7, <1>8

\* What a return finds.
LEMMA ReturnArg == ASSUME Control, at.op = "return" PROVE at.arg \in Sn /\ at = Return(at.arg)
  BY DEF Control, Idle, Call, Return

\* A pointer or an array gets its cell.
LEMMA DerivedReturns == ASSUME Inv, DerivedReturn PROVE Inv'
<1> USE DEF DerivedReturn, Inv, input
<1> DEFINE id == Last(stack).id
<1>0. /\ Module' = Module /\ stack \in Seq(Frame) /\ at.arg \in Sn /\ at = Return(at.arg)
      /\ stack' \in Seq(Frame) /\ Len(stack) \in Nat \ {0} /\ Len(stack') = Len(stack) - 1
      /\ \A i \in 1 .. Len(stack) - 1 : stack'[i] = stack[i]
      /\ id = stack[Len(stack)].id /\ id \in DOMAIN db[module]
  <2>1. stack \in Seq(Frame) /\ stack # <<>> /\ stack' = Front(stack) /\ Module' = Module
    BY DEF Control, Module
  <2>2. /\ stack' \in Seq(Frame) /\ Len(stack) \in Nat \ {0} /\ Len(stack') = Len(stack) - 1
        /\ \A i \in 1 .. Len(stack) - 1 : stack'[i] = stack[i]
        /\ Last(stack) = stack[Len(stack)] /\ Last(stack) \in Frame
    BY <2>1, Popped
  <2>3. at.arg \in Sn /\ at = Return(at.arg)
    BY ReturnArg
  <2> QED
    BY <2>1, <2>2, <2>3 DEF Frame
<1>1. /\ Cells' /\ Maps' /\ NextSn \in Sn' /\ Sn \subseteq Sn'
      /\ \A n \in Sn : Cell(n)' = Cell(n)
      /\ \A m \in Module : DOMAIN typeVecMap[m] \subseteq DOMAIN typeVecMap'[m]
      /\ id \in DOMAIN typeVecMap'[module]
  <2> HIDE DEF id
  <2>1. Create(id, at.arg)
    BY DEF id
  <2> QED
    BY <1>0, <2>1, Created
<1>2. Control'
  BY <1>0, <1>1 DEF Control, Frame
<1>3. Counts'
  BY <1>0 DEF Counts
<1>4. Frames'
  <2>1. \A x \in DOMAIN db[module], n \in Nat : Lacks(x, n) => Lacks(x, n)'
    BY <1>0, <1>1 DEF Lacks, E, Control
  <2> SUFFICES ASSUME NEW k \in 1 .. Len(stack'), stack'[k].sn # 0,
                      NEW x, NEW n, x = stack'[k].id, n = stack'[k].sn
               PROVE  Lacks(x, n)' /\ \A j \in 1 .. k - 1 : stack'[j].sn # n
    BY DEF Frames, Lacks, Cell, E
  <2>2. k \in 1 .. Len(stack) /\ stack'[k] = stack[k] /\ \A j \in 1 .. k - 1 : stack'[j] = stack[j]
    BY <1>0
  <2>3. stack[k] \in Frame
    BY <1>0, <2>2
  <2> QED
    BY <2>1, <2>2, <2>3 DEF Frames, Frame
<1>5. Accounted'
  <2>1. \A x \in DOMAIN db[module] : at # Call(x)
    BY <1>0 DEF Call, Return
  <2>2. ASSUME NEW k \in 1 .. Len(stack)
        PROVE  \/ stack[k].id \in DOMAIN typeVecMap'[module]
               \/ \E j \in 1 .. Len(stack') : stack'[j].id = stack[k].id
    BY <1>0, <1>1
  <2>3. \A m \in Module : DOMAIN typeVecMap'[m] \subseteq DOMAIN db[m]
    BY <1>0, <1>1 DEF Maps
  <2> QED
    BY <1>1, <2>1, <2>2, <2>3, StillAccounted
<1> QED
  BY <1>1, <1>2, <1>3, <1>4, <1>5

\* A structure or union gets a member, and goes on or returns.
LEMMA MemberReturns == ASSUME Inv, MemberReturn PROVE Inv'
<1> USE DEF MemberReturn, Inv, input
<1> PICK id, sn : id = Last(stack).id /\ sn = Last(stack).sn
  OBVIOUS
<1> DEFINE e == E(id)  c == Cell(sn)  i == Len(c.members) + 1  m == CellMember(e, i, at.arg)
           d == [c EXCEPT !.members = Append(@, m)]
<1>0. /\ Module' = Module /\ Sn' = Sn /\ stack \in Seq(Frame) /\ Last(stack) \in Frame
      /\ at.arg \in Sn /\ at = Return(at.arg)
      /\ Len(stack) \in Nat \ {0} /\ Last(stack) = stack[Len(stack)]
      /\ Front(stack) \in Seq(Frame) /\ Len(Front(stack)) = Len(stack) - 1
      /\ \A j \in 1 .. Len(stack) - 1 : Front(stack)[j] = stack[j]
  <2>1. stack \in Seq(Frame) /\ stack # <<>>
    BY DEF Control
  <2>2. Len(typeCellVec') = Len(typeCellVec)
    BY DEF Cells
  <2> QED
    BY <2>1, <2>2, Popped, ReturnArg DEF Module, Sn, NextSn
<1>1. /\ Lacks(id, sn) /\ sn # 0 /\ \A j \in 1 .. Len(stack) - 1 : stack[j].sn # sn
      /\ id \in DOMAIN db[module] /\ sn \in Nat
  BY SMTT(60), <1>0 DEF Frames, Frame
<1>2. /\ e.members \in Seq(Member) /\ c \in CellRecord /\ i \in 1 .. Len(e.members)
      /\ sn + 1 \in 1 .. Len(typeCellVec) /\ c = typeCellVec[sn + 1] /\ c.members \in Seq(MemberCell)
      /\ sn \in Sn /\ Len(e.members) \in Nat
  <2>1. sn + 1 \in 1 .. Len(typeCellVec) /\ sn \in Sn
    BY <1>1 DEF Lacks, Sn, NextSn, Cells
  <2>2. c \in CellRecord /\ c = typeCellVec[sn + 1]
    BY <2>1 DEF Cells, Cell
  <2>3. c.members \in Seq(MemberCell)
    BY <2>2 DEF CellRecord
  <2>4. e.members \in Seq(Member) /\ Len(c.members) < Len(e.members)
    BY <1>1, Entry DEF Lacks
  <2> HIDE DEF c, e
  <2>5. Len(c.members) \in Nat /\ Len(e.members) \in Nat
    BY <2>3, <2>4
  <2> QED
    BY <2>1, <2>2, <2>3, <2>4, <2>5
<1>3. m \in MemberCell /\ m.type = at.arg
  <2>1. e.members[i] \in Member /\ at.arg \in Nat
    BY <1>0, <1>2 DEF Sn
  <2> HIDE DEF e, i
  <2> QED
    BY <2>1 DEF CellMember, MemberCell, Member
<1>4. /\ typeCellVec' = [typeCellVec EXCEPT ![sn + 1] = d]
      /\ \/ i < Len(e.members) /\ at' = Call(e.members[i + 1].type) /\ stack' = stack
         \/ at' \in {Return(NextSn - 1), Return(sn)} /\ stack' = Front(stack)
  BY DEF Cell
<1> HIDE DEF m
<1>5. /\ d \in CellRecord /\ d.ref = c.ref /\ Len(d.members) = i
      /\ \A j \in 1 .. Len(d.members) : d.members[j] = m \/ (j < i /\ d.members[j] = c.members[j])
  <2> HIDE DEF c
  <2>1. d.members = Append(c.members, m) /\ d.ref = c.ref /\ d \in CellRecord
    <3>1. Append(c.members, m) \in Seq(MemberCell)
      BY <1>2, <1>3
    <3> DEFINE longer == Append(c.members, m)
    <3>2. d = [c EXCEPT !.members = longer]
      OBVIOUS
    <3> HIDE DEF longer, d
    <3>3. d.members = longer /\ d.ref = c.ref /\ d \in CellRecord
      BY <1>2, <3>1, <3>2 DEF CellRecord, longer
    <3> QED
      BY <3>3 DEF longer
  <2>2. /\ Len(d.members) = i
        /\ \A j \in 1 .. Len(d.members) : d.members[j] = m \/ (j < i /\ d.members[j] = c.members[j])
    BY <1>2, <1>3, <2>1
  <2> QED
    BY <2>1, <2>2
<1> HIDE DEF d
<1>6. /\ typeCellVec' \in Seq(CellRecord) /\ Len(typeCellVec') = Len(typeCellVec)
      /\ Cell(sn)' = d /\ \A n \in Sn : n # sn => Cell(n)' = Cell(n)
  <2>1. typeCellVec \in Seq(CellRecord)
    BY DEF Cells
  <2> HIDE DEF MemberReturn, Inv, c, e, i
  <2>2. sn + 1 \in DOMAIN typeCellVec /\ typeCellVec' = [typeCellVec EXCEPT ![sn + 1] = d]
    BY <1>2, <1>4, <2>1
  <2>3. typeCellVec' \in Seq(CellRecord) /\ Len(typeCellVec') = Len(typeCellVec)
    BY <1>5, <2>1, <2>2
  <2>4. typeCellVec'[sn + 1] = d
    BY <2>2
  <2>5. ASSUME NEW n \in Sn, n # sn PROVE typeCellVec'[n + 1] = typeCellVec[n + 1]
    <3>1. n + 1 # sn + 1 /\ n + 1 \in DOMAIN typeCellVec
      BY <1>2, <2>1, <2>5 DEF Sn, NextSn
    <3> QED
      BY <2>2, <3>1
  <2> QED
    BY <2>3, <2>4, <2>5 DEF Cell
<1>7. Cells'
  <2>1. ASSUME NEW n \in Sn
        PROVE  /\ Cell(n)'.ref \in Sn
               /\ \A j \in 1 .. Len(Cell(n)'.members) : Cell(n)'.members[j].type \in Sn
    <3>1. CASE n # sn
      BY <1>6, <3>1 DEF Cells
    <3>2. CASE n = sn
      <4>1. c.ref \in Sn /\ \A j \in 1 .. Len(c.members) : c.members[j].type \in Sn
        BY <1>2 DEF Cells
      <4> HIDE DEF c
      <4>2. \A j \in 1 .. Len(d.members) : d.members[j].type \in Sn
        <5> SUFFICES ASSUME NEW j \in 1 .. Len(d.members) PROVE d.members[j].type \in Sn
          OBVIOUS
        <5>1. Len(d.members) = Len(c.members) + 1 /\ Len(c.members) \in Nat
          BY <1>2, <1>5
        <5>2. CASE d.members[j] = m
          BY <1>0, <1>3, <5>2
        <5>3. CASE j < i /\ d.members[j] = c.members[j]
          BY <4>1, <5>1, <5>3
        <5> QED
          BY <1>5, <5>2, <5>3
      <4> QED
        BY <1>5, <1>6, <3>2, <4>1, <4>2
    <3> QED
      BY <3>1, <3>2
  <2>2. CellRecord' = CellRecord
    BY DEF CellRecord, Names, Module
  <2> QED
    BY <1>0, <1>6, <2>1, <2>2 DEF Cells
<1>8. Maps' /\ Counts'
  BY <1>0 DEF Maps, Counts
<1>9. Control'
  <2>1. CASE i < Len(e.members) /\ at' = Call(e.members[i + 1].type) /\ stack' = stack
    <3>1. e.members[i + 1].type \in DOMAIN db[module]
      <4>1. i + 1 \in 1 .. Len(e.members)
        <5> HIDE DEF i, e
        <5> QED
          BY <1>2, <2>1
      <4>2. \A j \in 1 .. Len(e.members) : e.members[j].type \in DOMAIN db[module]
        BY <1>1, Entry
      <4> HIDE DEF i, e
      <4> QED
        BY <4>1, <4>2
    <3> QED
      BY <1>0, <2>1, <3>1 DEF Control, Frame
  <2>2. CASE at' \in {Return(NextSn - 1), Return(sn)} /\ stack' = Front(stack)
    <3>1. NextSn - 1 \in Sn
      BY DEF Cells, Sn, NextSn
    <3> QED
      BY <1>0, <1>2, <2>2, <3>1 DEF Control, Frame
  <2> QED
    BY <1>4, <2>1, <2>2
<1>10. Frames'
  <2>1. \A x \in DOMAIN db[module], n \in Nat : n # sn /\ Lacks(x, n) => Lacks(x, n)'
    BY <1>0, <1>6 DEF Lacks, E
  <2>2. i < Len(e.members) => Lacks(id, sn)'
    BY <1>0, <1>1, <1>2, <1>5, <1>6 DEF Lacks, E
  <2> SUFFICES ASSUME NEW k \in 1 .. Len(stack'), stack'[k].sn # 0,
                      NEW x, NEW n, x = stack'[k].id, n = stack'[k].sn
               PROVE  Lacks(x, n)' /\ \A j \in 1 .. k - 1 : stack'[j].sn # n
    BY DEF Frames, Lacks, Cell, E
  <2>3. k \in 1 .. Len(stack) /\ stack'[k] = stack[k] /\ \A j \in 1 .. k - 1 : stack'[j] = stack[j]
    <3>1. CASE stack' = stack
      BY <1>0, <3>1
    <3>2. CASE stack' = Front(stack)
      BY <1>0, <3>2
    <3> QED
      BY <1>4, <3>1, <3>2
  <2>4. stack[k] \in Frame /\ Lacks(x, n) /\ \A j \in 1 .. k - 1 : stack[j].sn # n
    BY <1>0, <2>3 DEF Frames
  <2>5. CASE k < Len(stack)
    <3>1. k \in 1 .. Len(stack) - 1 /\ x \in DOMAIN db[module] /\ n \in Nat
      <4>1. k \in 1 .. Len(stack) - 1 /\ x = stack[k].id /\ n = stack[k].sn
        BY <1>0, <2>3, <2>5
      <4>2. stack[k].id \in DOMAIN db[module] /\ stack[k].sn \in Nat
        BY <2>4 DEF Frame
      <4> QED
        BY <4>1, <4>2
    <3>2. n # sn /\ \A j \in 1 .. k - 1 : stack'[j].sn # n
      BY <1>1, <2>3, <2>4, <3>1
    <3> QED
      BY <2>1, <2>4, <3>1, <3>2
  <2>6. CASE k = Len(stack)
    <3>1. i < Len(e.members) /\ x = id /\ n = sn
      BY <1>0, <1>4, <2>3, <2>6
    <3> QED
      BY <2>2, <2>3, <2>4, <3>1
  <2> QED
    BY <1>0, <2>3, <2>5, <2>6
<1>11. Accounted'
  <2>1. \A x \in DOMAIN db[module] : at # Call(x)
    BY <1>0 DEF Call, Return
  <2>2. ASSUME NEW k \in 1 .. Len(stack)
        PROVE  \/ stack[k].id \in DOMAIN typeVecMap'[module]
               \/ \E j \in 1 .. Len(stack') : stack'[j].id = stack[k].id
    <3>1. CASE k = Len(stack)
      BY <1>0, <1>1, <3>1 DEF Lacks
    <3>2. CASE k # Len(stack)
      <4>1. k \in 1 .. Len(stack') /\ stack'[k] = stack[k]
        BY <1>0, <1>4, <3>2
      <4> QED
        BY <4>1
    <3> QED
      BY <3>1, <3>2
  <2>3. \A x \in Module : DOMAIN typeVecMap'[x] \subseteq DOMAIN db[x]
    BY DEF Maps
  <2> QED
    BY <2>1, <2>2, <2>3, StillAccounted
<1> QED
  BY <1>7, <1>8, <1>9, <1>10, <1>11

\* The loops of initTypeCells.
LEMMA Loops ==
  ASSUME Inv, (\E id \in todo : NextType(id)) \/ NextModule \/ TypeDone \/ UNCHANGED vars
  PROVE  Inv'
<1> USE DEF Inv, input
<1>0. /\ UNCHANGED <<db, stack, typeCellVec, typeNameMap, typeVecMap, redundantTypes, redundantAttrs>>
      /\ Module' = Module /\ Sn' = Sn
  BY DEF NextType, NextModule, TypeDone, vars, Module, Sn, NextSn
<1>1. Cells' /\ Maps' /\ Counts'
  BY <1>0 DEF Cells, Cell, CellRecord, Names, Maps, Counts
<1>2. CASE NextModule
  <2>0. /\ at = Idle /\ todo = {} /\ module' = module + 1 /\ at' = at /\ todo' = DOMAIN db[module + 1]
        /\ stack = <<>> /\ Len(db) \in Nat /\ module \in 1 .. Len(db) /\ module + 1 \in 1 .. Len(db)
    <3>1. WellFormed(db) /\ module \in 1 .. Len(db)
      BY DatabaseAssumption DEF Control, Module
    <3>2. at = Idle => stack = <<>>
      <4>1. \A x : Call(x) # Idle /\ Return(x) # Idle
        BY DEF Idle, Call, Return
      <4> QED
        BY <4>1 DEF Control
    <3> QED
      BY <1>2, <3>1, <3>2 DEF NextModule, WellFormed
  <2>1. Control'
    BY <1>0, <2>0 DEF Control, Frame, Module
  <2>2. Frames'
    BY <1>0, <2>0 DEF Frames
  <2>3. DOMAIN typeVecMap[module] = DOMAIN db[module]
    <3>1. \A x : at # Call(x)
      BY <2>0 DEF Idle, Call
    <3>2. \A k \in 1 .. Len(stack) : FALSE
      BY <2>0
    <3>3. \A id \in DOMAIN db[module] : id \in DOMAIN typeVecMap[module]
      BY <2>0, <3>1, <3>2 DEF Accounted
    <3> QED
      BY <2>0, <3>3 DEF Maps, Module
  <2>4. Accounted'
    BY <1>0, <2>0, <2>3 DEF Accounted
  <2> QED
    BY <1>1, <2>1, <2>2, <2>4
<1>3. CASE \E id \in todo : NextType(id)
  <2>1. PICK id \in todo : NextType(id)
    BY <1>3
  <2>2. Control'
    BY <1>0, <2>1 DEF Control, Frame, NextType
  <2>3. Frames'
    BY <1>0, <2>1 DEF Frames, Lacks, Cell, E, NextType
  <2>4. Accounted'
    <3>1. \A x : at # Call(x)
      BY <2>1 DEF NextType, Idle, Call
    <3> QED
      BY <1>0, <2>1, <3>1 DEF Accounted, NextType
  <2> QED
    BY <1>1, <2>2, <2>3, <2>4
<1>4. CASE TypeDone
  <2>1. Control' /\ Frames'
    BY <1>0, <1>4 DEF Control, Frame, Frames, Lacks, Cell, E, TypeDone
  <2>2. \A x : at # Call(x)
    BY <1>4 DEF TypeDone, Call
  <2>3. Accounted'
    BY <1>0, <1>4, <2>2 DEF Accounted, TypeDone
  <2> QED
    BY <1>1, <2>1, <2>3
<1>5. CASE UNCHANGED vars
  BY <1>0, <1>1, <1>5 DEF vars, Control, Frame, Frames, Lacks, Cell, E, Accounted
<1> QED
  BY <1>2, <1>3, <1>4, <1>5

LEMMA Calls ==
  ASSUME Inv, NEW id \in DOMAIN db[module], Known(id) \/ Preset(id) \/ VoidOrFunction(id)
  PROVE  Inv'
<1> USE DEF Inv
<1>1. /\ at = Call(id)
      /\ \E sn \in Sn : MapIdent(id, sn) /\ at' = Return(sn)
  <2>1. 0 .. 14 \subseteq Sn
    BY DEF Cells, Sn, NextSn
  <2>2. PresetSn(E(id)) \in 0 .. 14
    BY Entry DEF PresetSn, VoidSn, Int32Sn
  <2>3. CASE Known(id)
    BY <2>3 DEF Known, Maps
  <2>4. CASE Preset(id) \/ VoidOrFunction(id)
    BY <2>1, <2>2, <2>4 DEF Preset, VoidOrFunction, New
  <2> QED
    BY <2>3, <2>4
<1>2. UNCHANGED <<input, stack, typeCellVec, typeNameMap>>
  BY DEF Known, Preset, VoidOrFunction
<1>3. Counts'
  <2>1. CountRedundant(id) \/ UNCHANGED <<redundantTypes, redundantAttrs>>
    BY DEF Known, Preset, VoidOrFunction
  <2>2. E(id).attrs \in Nat /\ id \in Nat /\ module \in Module /\ Module' = Module
    BY <1>2, Entry DEF Control, Module, input
  <2>3. CASE UNCHANGED <<redundantTypes, redundantAttrs>>
    BY <2>2, <2>3 DEF Counts
  <2>4. CASE redundantAttrs' = redundantAttrs + E(id).attrs
             /\ redundantTypes' = [redundantTypes EXCEPT ![module] = @ \union {id}]
    BY <2>2, <2>4 DEF Counts
  <2> QED
    BY <2>1, <2>3, <2>4 DEF CountRedundant
<1> QED
  BY <1>1, <1>2, <1>3, Returned

LEMMA Step == Inv /\ [Next]_vars => Inv'
<1> SUFFICES ASSUME Inv, [Next]_vars PROVE Inv'
  OBVIOUS
<1>1. CASE \E id \in DOMAIN db[module] : Enter(id)
  BY <1>1, Calls, VoidPointers, DerivedCalls, AggregateCalls DEF Enter
<1>2. CASE (\E id \in todo : NextType(id)) \/ NextModule \/ TypeDone \/ UNCHANGED vars
  BY <1>2, Loops
<1> QED
  BY <1>1, <1>2, DerivedReturns, MemberReturns DEF Next

LEMMA Vector ==
  ASSUME NEW S, NEW f \in [1 .. 15 -> S]
  PROVE  f \in Seq(S) /\ Len(f) = 15
<1> DEFINE g == [i \in 1 .. 15 |-> f[i]]
<1>1. g \in Seq(S) /\ Len(g) = 15
  OBVIOUS
<1>2. f = g
  OBVIOUS
<1> HIDE DEF g
<1> QED
  BY <1>1, <1>2

LEMMA Serials ==
  ASSUME Len(typeCellVec) = 15
  PROVE  0 \in Sn /\ \A n \in Sn : n + 1 \in 1 .. 15 /\ Cell(n) = typeCellVec[n + 1]
  BY DEF Sn, NextSn, Cell

LEMMA Initial == Init => Inv
<1> SUFFICES ASSUME Init PROVE Inv
  OBVIOUS
<1>1. Len(db) \in Nat \ {0} /\ WellFormed(db)
  BY DatabaseAssumption DEF WellFormed, Init
<1>2. Control
  BY <1>1 DEF Init, InitCells, Control, Module, Frame
<1>3. Cells
  <2>1. ASSUME NEW i \in 1 .. 15
        PROVE  BaseCell(i - 1) \in CellRecord /\ BaseCell(i - 1).ref = 0 /\ BaseCell(i - 1).members = <<>>
    <3> DEFINE name == BaseType[i]  tag == IF i - 1 = VoidSn THEN "VOID" ELSE "BASE"
    <3>1. name \in Names
      <4>1. name \in {BaseType[j] : j \in 1 .. 15}
        OBVIOUS
      <4> QED
        BY <4>1 DEF Names
    <3>2. i - 1 + 1 = i
      OBVIOUS
    <3>3. BaseCell(i - 1) = [name |-> name, tag |-> tag, ref |-> 0, bound |-> 0, members |-> <<>>]
      BY <3>2 DEF BaseCell, VoidSn
    <3>4. tag \in Tag
      BY DEF Tag
    <3> HIDE DEF name, tag
    <3> DEFINE c == [name |-> name, tag |-> tag, ref |-> 0, bound |-> 0, members |-> <<>>]
    <3>5. c \in CellRecord /\ c.ref = 0 /\ c.members = <<>>
      <4>1. 0 \in 0 .. MaxArrayBound /\ <<>> \in Seq(MemberCell)
        BY DEF MaxArrayBound
      <4> QED
        BY <3>1, <3>4, <4>1 DEF CellRecord
    <3> HIDE DEF c
    <3>6. BaseCell(i - 1) = c
      BY <3>3 DEF c
    <3> QED
      BY <3>5, <3>6
  <2>2. typeCellVec = [i \in 1 .. 15 |-> BaseCell(i - 1)]
    <3>1. Len(BaseType) = 15
      BY DEF BaseType
    <3>2. typeCellVec = [i \in 1 .. Len(BaseType) |-> BaseCell(i - 1)]
      BY Zenon DEF Init, InitCells
    <3> QED
      BY <3>1, <3>2, Zenon
  <2>3. typeCellVec \in Seq(CellRecord) /\ Len(typeCellVec) = 15
        /\ \A i \in 1 .. 15 : typeCellVec[i].ref = 0 /\ typeCellVec[i].members = <<>>
    <3>1. typeCellVec \in [1 .. 15 -> CellRecord]
      BY <2>1, <2>2
    <3>2. typeCellVec \in Seq(CellRecord) /\ Len(typeCellVec) = 15
      BY <3>1, Vector
    <3>3. \A i \in 1 .. 15 : typeCellVec[i] = BaseCell(i - 1)
      BY <2>2
    <3> QED
      BY <2>1, <3>2, <3>3
  <2>4. 0 \in Sn /\ \A n \in Sn : n + 1 \in 1 .. 15 /\ Cell(n) = typeCellVec[n + 1]
    BY <2>3, Serials
  <2>5. \A n \in Sn : Cell(n).ref = 0 /\ Cell(n).members = <<>>
    BY <2>3, <2>4
  <2>6. ASSUME NEW n \in Sn, NEW k \in 1 .. Len(Cell(n).members) PROVE FALSE
    BY <2>5
  <2> QED
    BY <2>3, <2>4, <2>5, <2>6 DEF Cells
<1>4. Maps /\ Counts /\ Frames /\ Accounted
  BY <1>1 DEF Init, InitCells, Maps, Counts, Frames, Accounted, Module
<1> QED
  BY <1>2, <1>3, <1>4 DEF Inv

LEMMA Invariant == Spec => []Inv
  BY Initial, Step, PTL DEF Spec

\* Serial numbers, in the maps and in the cells, are indexes of typeCellVec.
THEOREM TypeCorrect == Spec => []TypeOK
<1>1. ASSUME Inv PROVE TypeOK
  <2> USE <1>1 DEF Inv
  <2>1. /\ module \in Module /\ todo \subseteq DOMAIN db[module]
        /\ \/ at \in [op : {"next"}, arg : {0}]
           \/ at \in [op : {"call"}, arg : DOMAIN db[module]]
           \/ at \in [op : {"return"}, arg : Sn]
    BY DEF Control, Idle, Call, Return
  <2>2. stack \in Seq([id : DOMAIN db[module], sn : Sn])
    <3>1. 0 \in Sn
      BY DEF Cells, Sn, NextSn
    <3>2. stack \in Seq(Frame) /\ \A k \in 1 .. Len(stack) : stack[k] \in Frame
      BY DEF Control
    <3>3. \A k \in 1 .. Len(stack) : stack[k].sn \in Sn
      BY <3>1 DEF Frames, Lacks
    <3> DEFINE T == [id : DOMAIN db[module], sn : Sn]
    <3>4. \A k \in 1 .. Len(stack) : stack[k] \in T
      BY <3>2, <3>3 DEF Frame
    <3> HIDE DEF T
    <3> QED
      <4>1. stack \in Seq(T)
        BY <3>2, <3>4
      <4> QED
        BY <4>1 DEF T
  <2>3. ASSUME NEW n \in Sn PROVE IsCell(Cell(n))
    <3>1. n + 1 \in 1 .. Len(typeCellVec) /\ Cell(n) = typeCellVec[n + 1]
      BY DEF Cells, Sn, NextSn, Cell
    <3>2. Cell(n) \in CellRecord
      BY <3>1 DEF Cells
    <3> DEFINE c == Cell(n)
    <3>3. c.ref \in Sn /\ \A i \in 1 .. Len(c.members) : c.members[i].type \in Sn
      BY DEF Cells
    <3> HIDE DEF c
    <3>4. c \in CellRecord
      BY <3>2 DEF c
    <3>5. /\ DOMAIN c = {"name", "tag", "ref", "bound", "members"} /\ c.tag \in Tag
          /\ c.bound \in 0 .. MaxArrayBound /\ c.members \in Seq(MemberCell)
      BY <3>4 DEF CellRecord
    <3>6. ASSUME NEW i \in 1 .. Len(c.members)
          PROVE  c.members[i] \in [type : Sn, bit : BOOLEAN, loc : Nat]
      <4>1. c.members[i] \in MemberCell
        BY <3>5
      <4> QED
        BY <3>3, <4>1 DEF MemberCell
    <3>7. IsCell(c)
      BY <3>3, <3>5, <3>6 DEF IsCell
    <3> QED
      BY <3>7 DEF c
  <2> QED
    BY <2>1, <2>2, <2>3 DEF TypeOK, Maps, Counts
<1>2. Inv => TypeOK
  BY <1>1
<1> QED
  BY <1>2, Invariant, PTL

\* When the merging is over, every ident has a cell.
LEMMA MappedInTheEnd ==
  ASSUME Inv, Done
  PROVE  \A m \in Module : DOMAIN typeVecMap[m] = DOMAIN db[m]
<1> USE DEF Inv
<1>1. at = Idle /\ todo = {} /\ module = Len(db) /\ Len(db) \in Nat \ {0}
  BY DatabaseAssumption DEF Done, Control, WellFormed
<1>2. (\A x : at # Call(x)) /\ stack = <<>>
  <2>1. \A x : Call(x) # Idle /\ Return(x) # Idle
    BY DEF Idle, Call, Return
  <2> QED
    BY <1>1, <2>1 DEF Control
<1>3. \A k \in 1 .. Len(stack) : FALSE
  BY <1>2
<1>4. DOMAIN db[module] \subseteq DOMAIN typeVecMap[module]
  BY <1>1, <1>2, <1>3 DEF Accounted
<1>5. \A m \in Module : m = module \/ m \in 1 .. module - 1
  BY <1>1 DEF Module
<1> QED
  BY <1>4, <1>5 DEF Accounted, Maps

\* No ident of the database is missing from typeVecMap in the end, so that
\* FIG_ASSERT(typeVecMap.contains(typeIndex)) of recursiveCollect cannot fail.
THEOREM AllMapped == Spec => []MapComplete
<1>1. Inv => MapComplete
  BY MappedInTheEnd DEF MapComplete
<1> QED
  BY <1>1, Invariant, PTL

\* What a step may do to the maps and to the cells.
Stay ==
  /\ \A m \in Module : \A id \in DOMAIN typeVecMap[m] : typeVecMap'[m][id] = typeVecMap[m][id]
  /\ \A name \in DOMAIN typeNameMap : typeNameMap'[name] = typeNameMap[name]
  /\ \A i \in 1 .. Len(typeCellVec) :
       [typeCellVec[i] EXCEPT !.members = <<>>] = [typeCellVec'[i] EXCEPT !.members = <<>>]

LEMMA StayMapped ==
  ASSUME Inv, NEW id \in DOMAIN db[module], NEW sn \in Sn, MapIdent(id, sn),
         UNCHANGED <<input, typeCellVec, typeNameMap>>
  PROVE  Stay
<1>1. Sn' = Sn
  BY DEF Sn, NextSn
<1> QED
  BY <1>1, Mapped DEF Stay, Inv, input

LEMMA StayCreated ==
  ASSUME Inv, NEW id \in DOMAIN db[module], NEW ref \in Sn, Create(id, ref), UNCHANGED input
  PROVE  Stay
<1> USE DEF Inv, input
<1>1. /\ NextSn \in Sn' /\ Sn \subseteq Sn'
      /\ typeCellVec' = Append(typeCellVec, NewCell(E(id), ref))
  BY Created
<1>2. \A m \in Module : \A x \in DOMAIN typeVecMap[m] : typeVecMap'[m][x] = typeVecMap[m][x]
  BY <1>1, Mapped DEF Create
<1>3. \A x \in DOMAIN typeNameMap : typeNameMap'[x] = typeNameMap[x]
  <2> DEFINE key == E(id).name  new == Insert(typeNameMap, key, NextSn)
  <2>1. /\ DOMAIN new = DOMAIN typeNameMap \union {key}
        /\ \A x \in DOMAIN typeNameMap : new[x] = typeNameMap[x]
        /\ \A x \in DOMAIN typeNameMap \union {key} : x \notin DOMAIN typeNameMap => new[x] = NextSn
    <3> HIDE DEF key
    <3> QED
      BY Inserted
  <2>2. typeNameMap' = new
    BY DEF Create
  <2> HIDE DEF key, new
  <2> QED
    BY <2>1, <2>2
<1>4. \A i \in 1 .. Len(typeCellVec) : typeCellVec'[i] = typeCellVec[i]
  <2>1. NewCell(E(id), ref) \in CellRecord
    BY NewCells DEF Sn
  <2> QED
    BY <1>1, <2>1, Pushed DEF Cells
<1> QED
  BY <1>2, <1>3, <1>4 DEF Stay

LEMMA StayStep ==
  ASSUME Inv, [Next]_vars
  PROVE  Stay \/ UNCHANGED vars
<1> USE DEF Inv
<1>0. 0 .. 14 \subseteq Sn
  BY DEF Cells, Sn, NextSn
<1>1. ASSUME NEW id \in DOMAIN db[module], Known(id) \/ Preset(id) \/ VoidOrFunction(id) PROVE Stay
  <2>0. PresetSn(E(id)) \in 0 .. 14
    BY Entry DEF PresetSn, VoidSn, Int32Sn
  <2>1. PresetSn(E(id)) \in Sn
    BY <1>0, <2>0
  <2>2. \E sn \in Sn : MapIdent(id, sn)
    BY <1>1, <2>1 DEF Known, Preset, VoidOrFunction, Maps
  <2> QED
    BY <1>1, <2>2, StayMapped DEF Known, Preset, VoidOrFunction
<1>2. ASSUME NEW id \in DOMAIN db[module], VoidPointer(id) \/ AggregateCall(id) PROVE Stay
  <2>1. VoidSn \in Sn
    BY <1>0 DEF VoidSn
  <2> QED
    BY <1>2, <2>1, StayCreated DEF VoidPointer, AggregateCall
<1>3. CASE DerivedReturn
  <2>1. stack \in Seq(Frame) /\ stack # <<>> /\ at.arg \in Sn
    BY <1>3, ReturnArg DEF DerivedReturn, Control
  <2>2. Last(stack).id \in DOMAIN db[module]
    <3>1. Last(stack) \in Frame
      BY <2>1, Popped
    <3> QED
      BY <3>1 DEF Frame
  <2> QED
    BY <1>3, <2>1, <2>2, StayCreated DEF DerivedReturn
<1>4. CASE MemberReturn
  <2>1. PICK n, ms : typeCellVec' = [typeCellVec EXCEPT ![n].members = ms]
    BY <1>4 DEF MemberReturn
  <2>2. \A i \in 1 .. Len(typeCellVec) :
          [typeCellVec[i] EXCEPT !.members = <<>>] = [typeCellVec'[i] EXCEPT !.members = <<>>]
    <3> SUFFICES ASSUME NEW i \in 1 .. Len(typeCellVec)
                 PROVE  [typeCellVec[i] EXCEPT !.members = <<>>] = [typeCellVec'[i] EXCEPT !.members = <<>>]
      OBVIOUS
    <3>1. typeCellVec[i] \in CellRecord /\ i \in DOMAIN typeCellVec
      BY DEF Cells
    <3> DEFINE c == typeCellVec[i]  d == typeCellVec'[i]
    <3>2. d = c \/ d = [c EXCEPT !.members = ms]
      BY <2>1, <3>1
    <3> HIDE DEF c, d
    <3>3. c \in CellRecord
      BY <3>1 DEF c
    <3>4. [c EXCEPT !.members = <<>>] = [d EXCEPT !.members = <<>>]
      BY <3>2, <3>3 DEF CellRecord
    <3> QED
      BY <3>4 DEF c, d
  <2> QED
    BY <1>4, <2>2 DEF MemberReturn, Stay
<1>5. CASE UNCHANGED <<typeCellVec, typeNameMap, typeVecMap>>
  BY <1>5 DEF Stay
<1>6. CASE \E id \in DOMAIN db[module] : Enter(id)
  <2>1. PICK id \in DOMAIN db[module] : Enter(id)
    BY <1>6
  <2>2. DerivedCall(id) => UNCHANGED <<typeCellVec, typeNameMap, typeVecMap>>
    BY DEF DerivedCall
  <2> QED
    BY <1>1, <1>2, <1>5, <2>1, <2>2 DEF Enter
<1>7. CASE (\E id \in todo : NextType(id)) \/ NextModule \/ TypeDone
  BY <1>5, <1>7 DEF NextType, NextModule, TypeDone
<1> QED
  BY <1>3, <1>4, <1>6, <1>7 DEF Next

\* A serial number that was handed out stays: neither map gives an ident or a
\* name another cell, and a cell changes only by getting members.
THEOREM NumbersStay == Spec => NeverRemapped
<1>2. Inv /\ [Next]_vars => [Stay]_vars
  BY StayStep
<1>3. Spec => [][Stay]_vars
  BY <1>2, Invariant, PTL DEF Spec
<1> QED
  BY <1>3, PTL DEF NeverRemapped, Stay

(***************************************************************************)
(* What the cells mean.  The invariant of this part follows each call of   *)
(* the recursion from its frame to its answer.                             *)
(***************************************************************************)
\* What a cell stands for depends on its name and kind.
Suits(n, c, e) ==
  CASE e.tag = "BASE" -> n = e.base
    [] e.tag = "ENUMERATION" -> n = Int32Sn
    [] e.tag \in {"VOID", "FUNCTION"} -> n = VoidSn
    [] e.tag \in Aggregate /\ e.members = <<>> -> n = VoidSn \/ (c.name = e.name /\ c.tag = e.tag)
    [] OTHER -> c.name = e.name /\ c.tag = e.tag

\* A name leads to a cell made for it, and such a cell to its name and to an
\* entry it was made for.
Named ==
  \A name \in DOMAIN typeNameMap : typeNameMap[name] \in Made /\ Cell(typeNameMap[name]).name = name
Sourced ==
  \A n \in Made :
    /\ Cell(n).tag \in Derived \union Aggregate /\ Cell(n).name \in DOMAIN typeNameMap
    /\ \E m \in Module : \E id \in DOMAIN db[m] :
         db[m][id].name = Cell(n).name /\ db[m][id].tag = Cell(n).tag
Once ==
  \A n, k \in Made :
    Cell(n).tag \in Aggregate /\ Cell(k).name = Cell(n).name /\ Cell(k).tag = Cell(n).tag => n = k

\* What a frame waits for.
Callee(k) ==
  IF stack[k].sn = 0 THEN E(stack[k].id).ref
  ELSE E(stack[k].id).members[Len(Cell(stack[k].sn).members) + 1].type

Awaited == Callee(Len(stack))

Kind(id, sn) ==
  IF sn = 0 THEN E(id).tag \in Derived /\ E(id).ref # 0
  ELSE E(id).tag \in Aggregate /\ sn \in Made /\ Cell(sn).name = E(id).name /\ Cell(sn).tag = E(id).tag
Kinds == \A k \in 1 .. Len(stack) : Kind(stack[k].id, stack[k].sn)

\* Each frame waits for the next one, the last for the call or the return.
Chain ==
  /\ \A k \in 1 .. Len(stack) - 1 : stack[k + 1].id = Callee(k)
  /\ stack # <<>> /\ at.op = "call" => at.arg = Awaited
  /\ stack # <<>> /\ at.op = "return" =>
       E(Awaited).tag = "UNION" \/ Suits(at.arg, Cell(at.arg), E(Awaited))

\* What a pointer or an array refers to.
Leads(c, m, e) ==
  \/ e.ref # 0 /\ db[m][e.ref].tag = "UNION"
  \/ IF e.ref = 0 THEN c.ref = VoidSn ELSE Suits(c.ref, Cell(c.ref), db[m][e.ref])
References ==
  \A n \in Made : Cell(n).tag \in Derived =>
     \E m \in Module : \E id \in DOMAIN db[m] :
        /\ db[m][id].name = Cell(n).name /\ db[m][id].tag = Cell(n).tag
        /\ Leads(Cell(n), m, db[m][id])

\* The members of a cell, as far as it has them.
Copied(c, i, m, e) ==
  /\ \/ db[m][e.members[i].type].tag = "UNION"
     \/ Suits(c.members[i].type, Cell(c.members[i].type), db[m][e.members[i].type])
  /\ c.members[i].bit <=> e.members[i].bits # 0 /\ e.tag = "STRUCTURE"
  /\ e.members[i].bits = 0 => c.members[i].loc = IF e.tag = "UNION" THEN 0 ELSE e.members[i].loc
Prefix(c, m, e) == \A i \in 1 .. Len(c.members) : Copied(c, i, m, e)

Growing ==
  \A k \in 1 .. Len(stack) : stack[k].sn # 0 => Prefix(Cell(stack[k].sn), module, E(stack[k].id))
Finished(n) ==
  \E m \in Module : \E id \in DOMAIN db[m] :
     /\ db[m][id].name = Cell(n).name /\ db[m][id].tag = Cell(n).tag
     /\ Len(Cell(n).members) = Len(db[m][id].members) /\ Prefix(Cell(n), m, db[m][id])
Grown ==
  \A n \in Made : Cell(n).tag \in Aggregate =>
    Finished(n) \/ \E k \in 1 .. Len(stack) : stack[k].sn = n

\* A pointer that is called again from below itself: what it called then is
\* called again, name by name, until a structure answers.
TypeName(k) == E(stack[k].id).name
Twin(j, k)  == j < k /\ stack[j].sn = 0 /\ stack[k].sn = 0 /\ TypeName(j) = TypeName(k)
Twins ==
  \A j, k \in 1 .. Len(stack) : Twin(j, k) =>
    /\ \A p \in k .. Len(stack) : stack[p].sn = 0 /\ TypeName(p) = TypeName(p - k + j)
    /\ at.op = "call" => E(at.arg).name = TypeName(Len(stack) + 1 - k + j)

\* a and b stand for the cells of a pointer or an array of that name, those
\* that frames will make included.
Holds(name, a, b) ==
  /\ \A n \in Made : Cell(n).tag \in Derived /\ Cell(n).name = name => n \in {a, b}
  /\ \A k \in 1 .. Len(stack) : stack[k].sn = 0 /\ TypeName(k) = name => - k \in {a, b}
AtMostTwo == \A name \in Names : \E a, b \in Int : Holds(name, a, b)

Meaning == /\ Named /\ Sourced /\ Once /\ MapFaithful /\ Kinds /\ Chain
           /\ References /\ Growing /\ Grown /\ Twins /\ AtMostTwo

NamesTellAll == \A d \in Databases : NamesTell(d)

-----------------------------------------------------------------------------
LEMMA Basics ==
  ASSUME Inv
  PROVE  /\ db \in Databases /\ WellFormed(db) /\ module \in Module /\ Module = 1 .. Len(db)
         /\ NextSn \in Nat /\ NextSn >= 15 /\ Made = 15 .. NextSn - 1 /\ Made \subseteq Sn
         /\ Sn = 0 .. NextSn - 1 /\ 0 \notin Made /\ Sn \subseteq Nat
         /\ VoidSn \in Sn /\ 0 .. 14 \subseteq Sn
         /\ stack \in Seq(Frame) /\ Len(stack) \in Nat
         /\ \A k \in 1 .. Len(stack) : stack[k].id \in DOMAIN db[module] /\ stack[k].sn \in Nat
<1> USE DEF Inv
<1>1. db \in Databases /\ module \in Module /\ stack \in Seq(Frame)
  BY DEF Control
<1>2. WellFormed(db) /\ Module = 1 .. Len(db)
  BY <1>1, DatabaseAssumption DEF Module
<1>3. NextSn \in Nat /\ NextSn >= 15
  BY DEF Cells, NextSn
<1>4. Made = 15 .. NextSn - 1 /\ Sn = 0 .. NextSn - 1
  BY DEF Made, Sn, BaseType
<1>5. \A k \in 1 .. Len(stack) : stack[k] \in Frame
  BY <1>1
<1>6. \A k \in 1 .. Len(stack) : stack[k].id \in DOMAIN db[module] /\ stack[k].sn \in Nat
  BY <1>5 DEF Frame
<1>7. Made \subseteq Sn /\ 0 \notin Made /\ Sn \subseteq Nat /\ VoidSn \in Sn /\ 0 .. 14 \subseteq Sn
  BY <1>3, <1>4 DEF VoidSn
<1> QED
  BY <1>1, <1>2, <1>3, <1>4, <1>6, <1>7

LEMMA Tells ==
  ASSUME Inv, NamesTellAll, NEW m \in Module, NEW n \in Module, NEW i \in DOMAIN db[m],
         NEW j \in DOMAIN db[n], db[m][i].name = db[n][j].name
  PROVE  /\ db[m][i].tag = db[n][j].tag
         /\ db[m][i].tag \in Derived =>
              db[m][i].name # VoidName /\ ReferName(db[m], i) = ReferName(db[n], j)
<1>1. NamesTell(db) /\ m \in 1 .. Len(db) /\ n \in 1 .. Len(db)
  BY Basics DEF NamesTellAll
<1> QED
  BY <1>1 DEF NamesTell

LEMMA MappedTo ==
  ASSUME Inv, NEW id \in DOMAIN db[module], NEW sn, MapIdent(id, sn)
  PROVE  \A m \in Module : \A x \in DOMAIN typeVecMap'[m] :
              \/ x \in DOMAIN typeVecMap[m] /\ typeVecMap'[m][x] = typeVecMap[m][x]
              \/ m = module /\ x = id /\ typeVecMap'[m][x] = sn
<1>1. DOMAIN typeVecMap = Module /\ module \in Module
  BY DEF Inv, Maps, Control
<1>2. /\ typeVecMap'[module] = Insert(typeVecMap[module], id, sn)
      /\ \A m \in Module : m # module => typeVecMap'[m] = typeVecMap[m]
  BY <1>1 DEF MapIdent
<1> DEFINE map == typeVecMap[module]  new == Insert(map, id, sn)
<1>3. /\ DOMAIN new = DOMAIN map \union {id}
      /\ \A x \in DOMAIN map : new[x] = map[x]
      /\ \A x \in DOMAIN map \union {id} : x \notin DOMAIN map => new[x] = sn
  <2> HIDE DEF map
  <2> QED
    BY Inserted
<1>4. typeVecMap'[module] = new
  BY <1>2
<1> HIDE DEF new
<1> QED
  BY <1>2, <1>3, <1>4

\* A cell made by Create, its maps.
LEMMA CreatedCell ==
  ASSUME Inv, NEW id \in DOMAIN db[module], NEW ref \in Sn, Create(id, ref),
         UNCHANGED <<db, module>>, NEW n, n = NextSn
  PROVE  /\ Made' = Made \union {n} /\ n \notin Made /\ n \notin Sn /\ Sn' = Sn \union {n} /\ n \in Made'
         /\ Cell(n)'.name = E(id).name /\ Cell(n)'.tag = E(id).tag /\ Cell(n)'.ref = ref
         /\ Cell(n)'.members = <<>> /\ Cell(n)' = NewCell(E(id), ref)
         /\ \A k \in Sn : Cell(k)' = Cell(k)
         /\ DOMAIN typeNameMap' = DOMAIN typeNameMap \union {E(id).name}
         /\ \A x \in DOMAIN typeNameMap : typeNameMap'[x] = typeNameMap[x]
         /\ \A x \in DOMAIN typeNameMap' : x \notin DOMAIN typeNameMap => typeNameMap'[x] = n
         /\ \A m \in Module : \A x \in DOMAIN typeVecMap'[m] :
              \/ x \in DOMAIN typeVecMap[m] /\ typeVecMap'[m][x] = typeVecMap[m][x]
              \/ m = module /\ x = id /\ typeVecMap'[m][x] = n
<1> USE DEF Inv
<1>1. /\ Cells' /\ Maps' /\ NextSn \in Nat /\ NextSn >= 15 /\ \A k \in Sn : Cell(k)' = Cell(k)
      /\ typeCellVec' = Append(typeCellVec, NewCell(E(id), ref)) /\ Sn \subseteq Sn' /\ n \in Sn'
  BY Created
<1>2. /\ typeCellVec \in Seq(CellRecord) /\ NewCell(E(id), ref) \in CellRecord
      /\ NewCell(E(id), ref).members = <<>> /\ NewCell(E(id), ref).ref = ref
  BY Basics, NewCells DEF Cells
<1>3. Len(typeCellVec') = n + 1 /\ typeCellVec'[n + 1] = NewCell(E(id), ref) /\ n \in Nat /\ n >= 15
  BY <1>1, <1>2, Pushed DEF NextSn
<1>4. Made' = 15 .. n /\ Sn' = 0 .. n /\ Made = 15 .. n - 1 /\ Sn = 0 .. n - 1
  BY <1>3, Basics DEF Made, Sn, NextSn, BaseType
<1>5. /\ Made' = Made \union {n} /\ n \notin Made /\ n \notin Sn /\ Sn' = Sn \union {n} /\ n \in Made'
  BY <1>3, <1>4
<1>6. /\ Cell(n)'.name = E(id).name /\ Cell(n)'.tag = E(id).tag /\ Cell(n)'.ref = ref
      /\ Cell(n)'.members = <<>> /\ Cell(n)' = NewCell(E(id), ref)
  BY <1>3 DEF Cell, NewCell
<1>7. /\ DOMAIN typeNameMap' = DOMAIN typeNameMap \union {E(id).name}
      /\ \A x \in DOMAIN typeNameMap : typeNameMap'[x] = typeNameMap[x]
      /\ \A x \in DOMAIN typeNameMap' : x \notin DOMAIN typeNameMap => typeNameMap'[x] = n
  <2> DEFINE key == E(id).name  map == typeNameMap  new == Insert(map, key, n)
  <2>1. /\ DOMAIN new = DOMAIN map \union {key}
        /\ \A x \in DOMAIN map : new[x] = map[x]
        /\ \A x \in DOMAIN map \union {key} : x \notin DOMAIN map => new[x] = n
    <3> HIDE DEF key, map
    <3> QED
      BY ONLY Inserted
  <2>2. typeNameMap' = new
    BY DEF Create
  <2> HIDE DEF new
  <2> QED
    BY <2>1, <2>2
<1>8. MapIdent(id, n)
  BY DEF Create
<1>9. \A m \in Module : \A x \in DOMAIN typeVecMap'[m] :
              \/ x \in DOMAIN typeVecMap[m] /\ typeVecMap'[m][x] = typeVecMap[m][x]
              \/ m = module /\ x = id /\ typeVecMap'[m][x] = n
  BY <1>8, MappedTo
<1> QED
  BY <1>1, <1>5, <1>6, <1>7, <1>9

-----------------------------------------------------------------------------
\* A step leaves the cells there are what they are.
Kept ==
  /\ db' = db /\ Module' = Module /\ Sn \subseteq Sn' /\ Made \subseteq Made'
  /\ \A n \in Sn : Cell(n)'.name = Cell(n).name /\ Cell(n)'.tag = Cell(n).tag /\ Cell(n)'.ref = Cell(n).ref

\* A step makes a cell or not.
Makes(id, ref) ==
  /\ Create(id, ref) /\ UNCHANGED <<db, module>> /\ E(id).tag \in Derived \union Aggregate
  /\ E(id).tag \in Aggregate => E(id).name \notin DOMAIN typeNameMap /\ E(id).members # <<>>
MakesNone == Made' = Made /\ Sn' = Sn /\ UNCHANGED typeNameMap

LEMMA Same ==
  ASSUME Inv, UNCHANGED <<db, typeCellVec, typeNameMap>>
  PROVE  Kept /\ MakesNone
<1>1. Made' = Made /\ Sn' = Sn /\ Module' = Module
  BY DEF Made, Sn, NextSn, Module
<1> QED
  BY <1>1 DEF Kept, MakesNone, Cell

LEMMA SameCreated ==
  ASSUME Inv, NEW id \in DOMAIN db[module], NEW ref \in Sn, Create(id, ref), UNCHANGED <<db, module>>
  PROVE  Kept
<1>1. Sn \subseteq Sn' /\ Made \subseteq Made' /\ \A k \in Sn : Cell(k)' = Cell(k)
  <2>1. PICK n : n = NextSn
    OBVIOUS
  <2>2. /\ Made' = Made \union {n} /\ Sn' = Sn \union {n}
        /\ \A k \in Sn : Cell(k)' = Cell(k)
    BY <2>1, CreatedCell
  <2> QED
    BY <2>2
<1>2. Module' = Module
  BY DEF Module
<1> QED
  BY <1>1, <1>2 DEF Kept

\* The frame on top.
LEMMA Top ==
  ASSUME Inv, at.op = "return", stack # <<>>
  PROVE  /\ at.arg \in Sn /\ at = Return(at.arg) /\ Len(stack) \in 1 .. Len(stack) /\ Last(stack) = stack[Len(stack)]
         /\ Last(stack).id \in DOMAIN db[module] /\ Last(stack).sn \in Nat
         /\ Front(stack) \in Seq(Frame) /\ Len(Front(stack)) = Len(stack) - 1
         /\ \A i \in 1 .. Len(stack) - 1 : Front(stack)[i] = stack[i]
<1>1. at.arg \in Sn /\ at = Return(at.arg) /\ stack \in Seq(Frame)
  BY ReturnArg DEF Inv, Control
<1>2. /\ Front(stack) \in Seq(Frame) /\ Len(stack) \in Nat \ {0} /\ Last(stack) \in Frame
      /\ Last(stack) = stack[Len(stack)] /\ Len(Front(stack)) = Len(stack) - 1
      /\ \A i \in 1 .. Len(stack) - 1 : Front(stack)[i] = stack[i]
  BY <1>1, Popped
<1> QED
  BY <1>1, <1>2 DEF Frame

\* A member is appended to the cell of the frame on top.
LEMMA MemberAppended ==
  ASSUME Inv, MemberReturn, NEW id, NEW sn, id = Last(stack).id, sn = Last(stack).sn
  PROVE  /\ sn \in Sn /\ sn # 0 /\ Sn' = Sn /\ Made' = Made
         /\ \A n \in Sn : n # sn => Cell(n)' = Cell(n)
         /\ Cell(sn)'.name = Cell(sn).name /\ Cell(sn)'.tag = Cell(sn).tag /\ Cell(sn)'.ref = Cell(sn).ref
         /\ Len(Cell(sn).members) \in Nat /\ Len(Cell(sn).members) < Len(E(id).members)
         /\ Len(E(id).members) \in Nat
         /\ Len(Cell(sn)'.members) = Len(Cell(sn).members) + 1
         /\ \A i \in 1 .. Len(Cell(sn).members) : Cell(sn)'.members[i] = Cell(sn).members[i]
         /\ Cell(sn)'.members[Len(Cell(sn).members) + 1] = CellMember(E(id), Len(Cell(sn).members) + 1, at.arg)
<1> USE DEF Inv
<1> DEFINE c == Cell(sn)  i == Len(c.members) + 1  m == CellMember(E(id), i, at.arg)
           longer == Append(c.members, m)  d == [c EXCEPT !.members = longer]
<1>1. at.op = "return" /\ stack # <<>> /\ sn # 0 /\ stack \in Seq(Frame)
  BY DEF MemberReturn, Control
<1>2. /\ at.arg \in Sn /\ Len(stack) \in 1 .. Len(stack) /\ Last(stack) = stack[Len(stack)]
      /\ id \in DOMAIN db[module]
  BY <1>1, Top
<1>3. Lacks(id, sn)
  BY <1>1, <1>2 DEF Frames
<1>4. sn \in Sn /\ Len(c.members) < Len(E(id).members) /\ E(id).members \in Seq(Member)
  BY <1>2, <1>3, Entry DEF Lacks
<1>5. typeCellVec \in Seq(CellRecord) /\ sn + 1 \in 1 .. Len(typeCellVec) /\ c = typeCellVec[sn + 1]
      /\ c \in CellRecord
  <2>1. typeCellVec \in Seq(CellRecord) /\ sn + 1 \in 1 .. Len(typeCellVec) /\ c = typeCellVec[sn + 1]
    BY <1>4 DEF Cells, Sn, NextSn, Cell
  <2> QED
    BY <2>1
<1>6. c.members \in Seq(MemberCell)
  BY <1>5 DEF CellRecord
<1>7. typeCellVec' = [typeCellVec EXCEPT ![sn + 1] = d]
  BY DEF MemberReturn, Cell
<1>8. m \in MemberCell
  <2>1. at.arg \in Nat /\ E(id).members[i] \in Member
    <3>1. i \in 1 .. Len(E(id).members)
      <4> HIDE DEF c
      <4> QED
        BY <1>4, <1>6
    <3>2. at.arg \in Nat
      BY <1>2 DEF Sn
    <3> HIDE DEF i
    <3> QED
      BY <1>4, <3>1, <3>2
  <2> HIDE DEF i
  <2> QED
    BY <2>1 DEF CellMember, MemberCell, Member
<1> HIDE DEF m, c
<1>9. /\ longer \in Seq(MemberCell) /\ Len(longer) = Len(c.members) + 1 /\ Len(c.members) \in Nat
      /\ \A k \in 1 .. Len(c.members) : longer[k] = c.members[k]
      /\ longer[Len(c.members) + 1] = m
  BY <1>6, <1>8, Pushed
<1> HIDE DEF longer
<1>10. d.members = longer /\ d.name = c.name /\ d.tag = c.tag /\ d.ref = c.ref
  BY <1>5 DEF CellRecord
<1> HIDE DEF d
<1>11. /\ Len(typeCellVec') = Len(typeCellVec) /\ typeCellVec'[sn + 1] = d
       /\ \A k \in 1 .. Len(typeCellVec) : k # sn + 1 => typeCellVec'[k] = typeCellVec[k]
  BY <1>5, <1>7
<1>12. Sn' = Sn /\ Made' = Made /\ \A n \in Sn : n # sn => Cell(n)' = Cell(n)
  BY <1>4, <1>11 DEF Sn, Made, NextSn, Cell
<1>13. Cell(sn)' = d
  BY <1>11 DEF Cell
<1>14. Len(E(id).members) \in Nat
  BY <1>4
<1> QED
  BY <1>1, <1>4, <1>9, <1>10, <1>12, <1>13, <1>14 DEF m, c

LEMMA Shape ==
  ASSUME Inv, Kinds, [Next]_vars
  PROVE  /\ Kept
         /\ \/ MakesNone
            \/ \E id \in DOMAIN db[module], ref \in Sn : Makes(id, ref)
<1>1. CASE UNCHANGED <<db, typeCellVec, typeNameMap>>
  BY <1>1, Same
<1>2. ASSUME NEW id \in DOMAIN db[module], NEW ref \in Sn, Makes(id, ref)
      PROVE  Kept
  BY <1>2, SameCreated DEF Makes
<1>3. ASSUME NEW id \in DOMAIN db[module], Enter(id)
      PROVE  UNCHANGED <<db, typeCellVec, typeNameMap>> \/ Makes(id, VoidSn)
  <2>1. CASE VoidPointer(id)
    BY <2>1 DEF VoidPointer, Makes, New, Derived, Aggregate, input
  <2>2. CASE AggregateCall(id)
    BY <2>2 DEF AggregateCall, Makes, New, input
  <2> QED
    BY <1>3, <2>1, <2>2 DEF Enter, Known, Preset, VoidOrFunction, DerivedCall, input
<1>4. CASE DerivedReturn
  <2>1. at.op = "return" /\ stack # <<>> /\ Last(stack).sn = 0 /\ Create(Last(stack).id, at.arg) /\ UNCHANGED <<db, module>>
    BY <1>4 DEF DerivedReturn, input
  <2>2. /\ Len(stack) \in 1 .. Len(stack) /\ Last(stack) = stack[Len(stack)] /\ at.arg \in Sn
        /\ Last(stack).id \in DOMAIN db[module]
    BY <2>1, Top
  <2>3. E(Last(stack).id).tag \in Derived
    BY <2>1, <2>2 DEF Kinds, Kind
  <2>4. Makes(Last(stack).id, at.arg)
    BY <2>1, <2>3 DEF Makes, Derived, Aggregate
  <2> QED
    BY <1>2, <2>2, <2>4
<1>5. CASE MemberReturn
  <2>1. PICK id, sn : id = Last(stack).id /\ sn = Last(stack).sn
    OBVIOUS
  <2>2. /\ Sn' = Sn /\ Made' = Made
        /\ \A n \in Sn : n # sn => Cell(n)' = Cell(n)
        /\ Cell(sn)'.name = Cell(sn).name /\ Cell(sn)'.tag = Cell(sn).tag /\ Cell(sn)'.ref = Cell(sn).ref
    BY <1>5, <2>1, MemberAppended
  <2>3. UNCHANGED <<db, typeNameMap>> /\ Module' = Module
    BY <1>5 DEF MemberReturn, input, Module
  <2> QED
    BY <2>2, <2>3 DEF Kept, MakesNone
<1>6. CASE (\E id \in todo : NextType(id)) \/ NextModule \/ TypeDone \/ UNCHANGED vars
  BY <1>1, <1>6 DEF NextType, NextModule, TypeDone, vars, input
<1>7. VoidSn \in Sn
  BY Basics
<1> QED
  BY <1>1, <1>2, <1>3, <1>4, <1>5, <1>6, <1>7 DEF Next

-----------------------------------------------------------------------------
LEMMA NamedStep ==
  ASSUME Inv, Kinds, Named, Sourced, Once, [Next]_vars
  PROVE  Named' /\ Sourced' /\ Once'
<1>0. Kept /\ Made \subseteq Sn
  BY Shape, Basics
<1>a. Module' = Module /\ db' = db
  BY <1>0 DEF Kept
<1>1. CASE MakesNone
  <2>1. /\ Made' = Made /\ typeNameMap' = typeNameMap
        /\ \A n \in Made : Cell(n)'.name = Cell(n).name /\ Cell(n)'.tag = Cell(n).tag
    BY <1>0, <1>1 DEF Kept, MakesNone
  <2>2. Named'
    BY <2>1 DEF Named
  <2>3. Sourced'
    BY <1>a, <2>1 DEF Sourced
  <2>4. Once'
    BY <2>1 DEF Once
  <2> QED
    BY <2>2, <2>3, <2>4
<1>2. CASE \E id \in DOMAIN db[module], ref \in Sn : Makes(id, ref)
  <2>1. PICK id \in DOMAIN db[module], ref \in Sn : Makes(id, ref)
    BY <1>2
  <2>2. PICK n : n = NextSn
    OBVIOUS
  <2>3. Create(id, ref) /\ UNCHANGED <<db, module>>
    BY <2>1 DEF Makes
  <2>4. /\ Made' = Made \union {n} /\ n \notin Made /\ n \in Made'
        /\ Cell(n)'.name = E(id).name /\ Cell(n)'.tag = E(id).tag
        /\ \A k \in Sn : Cell(k)' = Cell(k)
        /\ DOMAIN typeNameMap' = DOMAIN typeNameMap \union {E(id).name}
        /\ \A x \in DOMAIN typeNameMap : typeNameMap'[x] = typeNameMap[x]
        /\ \A x \in DOMAIN typeNameMap' : x \notin DOMAIN typeNameMap => typeNameMap'[x] = n
    BY <2>2, <2>3, CreatedCell
  <2>5. \A k \in Made : Cell(k)' = Cell(k)
    BY <1>0, <2>4
  <2>6. Named'
    <3>1. ASSUME NEW x \in DOMAIN typeNameMap'
          PROVE  typeNameMap'[x] \in Made' /\ Cell(typeNameMap[x])'.name = x
      <4>1. CASE x \in DOMAIN typeNameMap
        BY <2>4, <2>5, <4>1 DEF Named
      <4>2. CASE x \notin DOMAIN typeNameMap
        <5>1. x = E(id).name /\ typeNameMap'[x] = n
          BY <2>4, <4>2
        <5> QED
          BY <2>4, <5>1
      <4> QED
        BY <4>1, <4>2
    <3>2. \A x \in DOMAIN typeNameMap' : typeNameMap'[x] \in Made' /\ Cell(typeNameMap[x])'.name = x
      BY <3>1
    <3> QED
      BY <3>2 DEF Named
  <2>7. Sourced'
    <3>1. ASSUME NEW k \in Made'
          PROVE  /\ Cell(k)'.tag \in Derived \union Aggregate /\ Cell(k)'.name \in DOMAIN typeNameMap'
                 /\ \E m \in Module : \E j \in DOMAIN db[m] :
                      db[m][j].name = Cell(k)'.name /\ db[m][j].tag = Cell(k)'.tag
      <4>1. CASE k \in Made
        BY <2>4, <2>5, <4>1 DEF Sourced
      <4>2. CASE k = n
        <5>1. module \in Module /\ E(id) = db[module][id]
          BY Basics DEF E
        <5> QED
          BY <2>1, <2>4, <4>2, <5>1 DEF Makes
      <4> QED
        BY <2>4, <4>1, <4>2
    <3> QED
      BY <1>a, <3>1 DEF Sourced
  <2>8. Once'
    <3>1. ASSUME NEW j \in Made', NEW k \in Made', Cell(j)'.tag \in Aggregate,
                 Cell(k)'.name = Cell(j)'.name, Cell(k)'.tag = Cell(j)'.tag
          PROVE  j = k
      <4>1. CASE j \in Made /\ k \in Made
        BY <2>5, <3>1, <4>1 DEF Once
      <4>2. ASSUME NEW i \in Made, Cell(i).name = E(id).name, E(id).tag \in Aggregate PROVE FALSE
        BY <2>1, <4>2 DEF Makes, Sourced
      <4> QED
        BY <2>4, <2>5, <3>1, <4>1, <4>2
    <3> QED
      BY <3>1 DEF Once
  <2> QED
    BY <2>6, <2>7, <2>8
<1> QED
  BY <1>1, <1>2, Shape

LEMMA Suited ==
  ASSUME NEW n, NEW e
  PROVE  Represents(n, e) <=> Suits(n, Cell(n), e)
BY DEF Represents, Suits

LEMMA SuitsAlike ==
  ASSUME NEW n, NEW c, NEW d, NEW e, c.name = d.name, c.tag = d.tag, Suits(n, c, e)
  PROVE  Suits(n, d, e)
BY DEF Suits

\* A cell of the name and kind of a type that is given a cell of its own.
LEMMA SuitsOwn ==
  ASSUME NEW n, NEW c, NEW e, c.name = e.name, c.tag = e.tag, e.tag \in Derived \union Aggregate
  PROVE  Suits(n, c, e)
BY DEF Suits, Derived, Aggregate

LEMMA StillRepresents ==
  ASSUME Kept, NEW n \in Sn, NEW e, Represents(n, e)
  PROVE  Suits(n, Cell(n)', e)
<1>1. Suits(n, Cell(n), e)
  BY Suited
<1>2. Cell(n).name = Cell(n)'.name /\ Cell(n).tag = Cell(n)'.tag
  BY DEF Kept
<1> QED
  BY <1>1, <1>2, SuitsAlike

LEMMA RepresentsThen ==
  ASSUME NEW n, NEW e
  PROVE  Suits(n, Cell(n)', e) <=> (Represents(n, e))'
BY DEF Represents, Suits

-----------------------------------------------------------------------------
\* The answer of a call that makes no cell and calls no other.
LEMMA Answers ==
  ASSUME Inv, NamesTellAll, Named, Sourced, NEW id \in DOMAIN db[module],
         Known(id) \/ Preset(id) \/ VoidOrFunction(id)
  PROVE  /\ at = Call(id) /\ UNCHANGED <<input, stack, typeCellVec, typeNameMap>>
         /\ \E sn \in Sn : MapIdent(id, sn) /\ at' = Return(sn) /\ Represents(sn, E(id))
<1>1. at = Call(id) /\ UNCHANGED <<input, stack, typeCellVec, typeNameMap>>
  BY DEF Known, Preset, VoidOrFunction, New
<1>2. CASE Known(id)
  <2> DEFINE sn == typeNameMap[E(id).name]
  <2>1. MapIdent(id, sn) /\ at' = Return(sn) /\ E(id).name \in DOMAIN typeNameMap
    BY <1>2 DEF Known
  <2>2. sn \in Made /\ Cell(sn).name = E(id).name
    BY <2>1 DEF Named
  <2> HIDE DEF sn
  <2>a. PICK m \in Module : \E j \in DOMAIN db[m] :
               db[m][j].name = Cell(sn).name /\ db[m][j].tag = Cell(sn).tag
    BY <2>2 DEF Sourced
  <2>3. PICK j \in DOMAIN db[m] : db[m][j].name = Cell(sn).name /\ db[m][j].tag = Cell(sn).tag
    BY <2>a
  <2>4. Cell(sn).tag \in Derived \union Aggregate
    BY <2>2 DEF Sourced
  <2>5. db[m][j].tag = db[module][id].tag
    <3>1. db[m][j].name = db[module][id].name /\ module \in Module
      BY <2>2, <2>3, Basics DEF E
    <3> QED
      BY <3>1, Tells
  <2>6. Suits(sn, Cell(sn), E(id))
    <3>1. Cell(sn).tag = E(id).tag
      BY <2>3, <2>5 DEF E
    <3> QED
      BY <2>2, <2>4, <3>1, SuitsOwn
  <2>7. sn \in Sn
    BY <2>2, Basics
  <2> QED
    BY <1>1, <2>1, <2>6, <2>7, Suited
<1>3. CASE Preset(id) \/ VoidOrFunction(id)
  <2> DEFINE sn == PresetSn(E(id))  e == E(id)
  <2>1. MapIdent(id, sn) /\ at' = Return(sn)
    BY <1>3 DEF Preset, VoidOrFunction
  <2>2. sn \in Sn
    <3>1. PresetSn(E(id)) \in 0 .. 14
      BY Entry DEF Inv, PresetSn, VoidSn, Int32Sn
    <3> QED
      BY <3>1, Basics
  <2>3. Replaced(e) \/ e.tag \in {"VOID", "FUNCTION"}
    BY <1>3 DEF Preset, VoidOrFunction
  <2>4. Suits(sn, Cell(sn), e)
    <3> HIDE DEF e
    <3>1. sn = PresetSn(e)
      BY DEF e
    <3> HIDE DEF sn
    <3> QED
      BY <2>3, <3>1 DEF Suits, PresetSn, Replaced, Aggregate
  <2>5. Represents(sn, E(id))
    BY <2>4, Suited
  <2> QED
    BY <1>1, <2>1, <2>2, <2>5
<1> QED
  BY <1>2, <1>3

\* The other calls.
LEMMA Makers ==
  ASSUME Inv, NEW id \in DOMAIN db[module], VoidPointer(id) \/ AggregateCall(id)
  PROVE  /\ at = Call(id) /\ E(id).name \notin DOMAIN typeNameMap /\ Create(id, VoidSn)
         /\ VoidSn \in Sn /\ UNCHANGED <<db, module, todo>> /\ E(id).tag \in Derived \union Aggregate
         /\ E(id).tag \in Aggregate => E(id).members # <<>>
BY Basics DEF VoidPointer, AggregateCall, New, input, Derived, Aggregate

LEMMA AggregatePush ==
  ASSUME Inv, NEW id \in DOMAIN db[module], AggregateCall(id), NEW n, n = NextSn
  PROVE  /\ Len(stack') = Len(stack) + 1 /\ \A k \in 1 .. Len(stack) : stack'[k] = stack[k]
         /\ stack'[Len(stack) + 1].id = id /\ stack'[Len(stack) + 1].sn = n /\ stack' # <<>>
         /\ at' = Call(E(id).members[1].type)
<1> DEFINE frame == [id |-> id, sn |-> n]
<1>1. stack' = Append(stack, frame) /\ stack \in Seq(Frame) /\ frame \in Frame
  BY Basics DEF AggregateCall, Frame
<1> QED
  BY <1>1, Pushed DEF AggregateCall

LEMMA DerivedPush ==
  ASSUME Inv, NEW id \in DOMAIN db[module], DerivedCall(id)
  PROVE  /\ Len(stack') = Len(stack) + 1 /\ \A k \in 1 .. Len(stack) : stack'[k] = stack[k]
         /\ stack'[Len(stack) + 1].id = id /\ stack'[Len(stack) + 1].sn = 0 /\ stack' # <<>>
         /\ at' = Call(E(id).ref) /\ at = Call(id) /\ E(id).tag \in Derived /\ E(id).ref # 0
         /\ E(id).name \notin DOMAIN typeNameMap
         /\ UNCHANGED <<db, module, todo, typeCellVec, typeNameMap, typeVecMap>>
<1> DEFINE frame == [id |-> id, sn |-> 0]
<1>1. stack' = Append(stack, frame) /\ stack \in Seq(Frame) /\ frame \in Frame
  BY Basics DEF DerivedCall, Frame
<1> QED
  BY <1>1, Pushed DEF DerivedCall, New, input

LEMMA DerivedPop ==
  ASSUME Inv, DerivedReturn, NEW id, id = Last(stack).id, NEW n, n = NextSn
  PROVE  /\ at.op = "return" /\ at.arg \in Sn /\ at = Return(at.arg) /\ stack # <<>>
         /\ Len(stack) \in 1 .. Len(stack) /\ stack[Len(stack)].sn = 0 /\ stack[Len(stack)].id = id
         /\ id \in DOMAIN db[module] /\ Create(id, at.arg) /\ UNCHANGED <<db, module, todo>>
         /\ Len(stack') = Len(stack) - 1 /\ \A k \in 1 .. Len(stack) - 1 : stack'[k] = stack[k]
         /\ at' = Return(n)
BY Top DEF DerivedReturn, input

LEMMA MemberPop ==
  ASSUME Inv, MemberReturn, NEW id, id = Last(stack).id, NEW sn, sn = Last(stack).sn
  PROVE  /\ at.op = "return" /\ at.arg \in Sn /\ at = Return(at.arg) /\ stack # <<>>
         /\ Len(stack) \in 1 .. Len(stack) /\ stack[Len(stack)].sn = sn /\ stack[Len(stack)].id = id
         /\ id \in DOMAIN db[module] /\ sn # 0 /\ sn \in Nat
         /\ UNCHANGED <<db, module, todo, typeNameMap, typeVecMap>>
         /\ \/ /\ Len(Cell(sn).members) + 1 < Len(E(id).members) /\ stack' = stack
               /\ at' = Call(E(id).members[Len(Cell(sn).members) + 2].type)
            \/ /\ Len(Cell(sn).members) + 1 = Len(E(id).members)
               /\ at' = Return(IF E(id).tag = "UNION" THEN NextSn - 1 ELSE sn)
               /\ Len(stack') = Len(stack) - 1
               /\ \A k \in 1 .. Len(stack) - 1 : stack'[k] = stack[k]
<1>1. at.op = "return" /\ stack # <<>> /\ sn # 0
  BY DEF MemberReturn
<1>2. /\ at.arg \in Sn /\ at = Return(at.arg) /\ Len(stack) \in 1 .. Len(stack) /\ Last(stack) = stack[Len(stack)]
      /\ Last(stack).id \in DOMAIN db[module] /\ Last(stack).sn \in Nat
      /\ Len(Front(stack)) = Len(stack) - 1
      /\ \A i \in 1 .. Len(stack) - 1 : Front(stack)[i] = stack[i]
  BY <1>1, Top
<1>3. /\ Len(Cell(sn).members) \in Nat /\ Len(Cell(sn).members) < Len(E(id).members)
      /\ Len(E(id).members) \in Nat
  BY MemberAppended
<1> DEFINE i == Len(Cell(sn).members) + 1
<1>4. IF i < Len(E(id).members)
        THEN at' = Call(E(id).members[i + 1].type) /\ UNCHANGED stack
        ELSE /\ at' = Return(IF E(id).tag = "UNION" THEN NextSn - 1 ELSE sn)
             /\ stack' = Front(stack)
  BY DEF MemberReturn
<1>5. i + 1 = Len(Cell(sn).members) + 2 /\ (i < Len(E(id).members) \/ i = Len(E(id).members))
  BY <1>3
<1>6. UNCHANGED <<db, module, todo, typeNameMap, typeVecMap>>
  BY DEF MemberReturn, input
<1> QED
  BY <1>1, <1>2, <1>4, <1>5, <1>6

-----------------------------------------------------------------------------
LEMMA SameKind ==
  ASSUME Inv, Kept, UNCHANGED module, NEW id \in DOMAIN db[module], NEW sn, Kind(id, sn)
  PROVE  Kind(id, sn)'
<1>1. db' = db /\ Made \subseteq Made' /\ Made \subseteq Sn
  BY Basics DEF Kept
<1>2. sn # 0 => Cell(sn)'.name = Cell(sn).name /\ Cell(sn)'.tag = Cell(sn).tag
  BY <1>1 DEF Kept, Kind
<1> QED
  BY <1>1, <1>2 DEF Kind, E

LEMMA SameFrames ==
  ASSUME Inv, Kept, UNCHANGED module, Kinds, NEW k \in 1 .. Len(stack), NEW l \in 1 .. Len(stack'),
         stack'[l] = stack[k]
  PROVE  Kind(stack[l].id, stack[l].sn)'
<1>1. PICK id, sn : id = stack[k].id /\ sn = stack[k].sn
  OBVIOUS
<1>2. Kind(id, sn) /\ id \in DOMAIN db[module]
  BY <1>1, Basics DEF Kinds
<1>3. Kind(id, sn)'
  BY <1>2, SameKind
<1> QED
  BY <1>1, <1>3 DEF Kind, Cell, E

LEMMA KindsStep ==
  ASSUME Inv, Kinds, [Next]_vars
  PROVE  Kinds'
<1>0. Kept
  BY Shape
<1>a. Len(stack) \in Nat
  BY Basics
<1>1. CASE UNCHANGED <<module, stack>>
  BY <1>0, <1>1, SameFrames DEF Kinds
<1>2. CASE stack' = <<>>
  BY <1>2 DEF Kinds
<1>3. ASSUME UNCHANGED module, Len(stack') = Len(stack) - 1,
             \A k \in 1 .. Len(stack) - 1 : stack'[k] = stack[k]
      PROVE  Kinds'
  <2>1. \A k \in 1 .. Len(stack') : k \in 1 .. Len(stack) /\ stack'[k] = stack[k]
    BY <1>3, <1>a
  <2> QED
    BY <1>0, <1>3, <2>1, SameFrames DEF Kinds
<1>4. ASSUME UNCHANGED module, NEW l, l = Len(stack) + 1, Len(stack') = l,
             \A k \in 1 .. Len(stack) : stack'[k] = stack[k],
             Kind(stack[l].id, stack[l].sn)'
      PROVE  Kinds'
  <2>1. \A k \in 1 .. Len(stack') : k = l \/ (k \in 1 .. Len(stack) /\ stack'[k] = stack[k])
    BY <1>4, <1>a
  <2>2. ASSUME NEW k \in 1 .. Len(stack') PROVE Kind(stack[k].id, stack[k].sn)'
    <3>1. CASE k = l
      BY <1>4, <3>1
    <3>2. CASE k \in 1 .. Len(stack) /\ stack'[k] = stack[k]
      BY <1>0, <1>4, <3>2, SameFrames
    <3> QED
      BY <2>1, <3>1, <3>2
  <2> QED
    BY <2>2 DEF Kinds
<1>5. PICK l : l = Len(stack) + 1
  OBVIOUS
<1>6. ASSUME NEW id \in DOMAIN db[module], AggregateCall(id) PROVE Kinds'
  <2>1. PICK n : n = NextSn
    OBVIOUS
  <2>2. /\ Create(id, VoidSn) /\ UNCHANGED <<db, module>> /\ VoidSn \in Sn
        /\ E(id).tag \in Aggregate
    BY <1>6, Makers DEF AggregateCall
  <2>3. n \in Made' /\ Cell(n)'.name = E(id).name /\ Cell(n)'.tag = E(id).tag
    BY <2>1, <2>2, CreatedCell
  <2>4. n # 0
    BY <2>1, Basics
  <2>5. Kind(id, n)'
    BY <2>2, <2>3, <2>4 DEF Kind, E
  <2>6. /\ Len(stack') = l /\ \A k \in 1 .. Len(stack) : stack'[k] = stack[k]
        /\ stack'[l].id = id /\ stack'[l].sn = n
    BY <1>5, <1>6, <2>1, AggregatePush
  <2>7. Kind(stack[l].id, stack[l].sn)'
    BY <2>5, <2>6 DEF Kind, Cell, E
  <2> QED
    BY <1>4, <1>5, <2>2, <2>6, <2>7
<1>7. ASSUME NEW id \in DOMAIN db[module], DerivedCall(id) PROVE Kinds'
  <2>1. /\ Len(stack') = l /\ \A k \in 1 .. Len(stack) : stack'[k] = stack[k]
        /\ stack'[l].id = id /\ stack'[l].sn = 0 /\ E(id).tag \in Derived /\ E(id).ref # 0
        /\ UNCHANGED <<db, module>>
    BY <1>5, <1>7, DerivedPush
  <2>2. Kind(stack[l].id, stack[l].sn)'
    BY <2>1 DEF Kind, E
  <2> QED
    BY <1>4, <1>5, <2>1, <2>2
<1>8. ASSUME NEW id \in DOMAIN db[module], Enter(id) PROVE Kinds'
  <2>1. CASE Known(id) \/ Preset(id) \/ VoidOrFunction(id) \/ VoidPointer(id)
    BY <1>1, <2>1 DEF Known, Preset, VoidOrFunction, VoidPointer, input
  <2> QED
    BY <1>6, <1>7, <1>8, <2>1 DEF Enter
<1>9. CASE DerivedReturn
  <2>1. PICK id, n : id = Last(stack).id /\ n = NextSn
    OBVIOUS
  <2>2. /\ UNCHANGED module /\ Len(stack') = Len(stack) - 1
        /\ \A k \in 1 .. Len(stack) - 1 : stack'[k] = stack[k]
    BY <1>9, <2>1, DerivedPop
  <2> QED
    BY <1>3, <2>2
<1>10. CASE MemberReturn
  <2>1. PICK id, sn : id = Last(stack).id /\ sn = Last(stack).sn
    OBVIOUS
  <2>2. /\ UNCHANGED module
        /\ \/ stack' = stack
           \/ Len(stack') = Len(stack) - 1 /\ \A k \in 1 .. Len(stack) - 1 : stack'[k] = stack[k]
    BY <1>10, <2>1, MemberPop
  <2> QED
    BY <1>1, <1>3, <2>2
<1>11. CASE (\E id \in todo : NextType(id)) \/ TypeDone \/ UNCHANGED vars
  BY <1>1, <1>11 DEF NextType, TypeDone, vars, input
<1>12. CASE NextModule
  <2>1. at = Idle /\ stack' = stack
    BY <1>12 DEF NextModule
  <2>2. stack = <<>>
    <3>1. \A x : Call(x) # Idle /\ Return(x) # Idle
      BY DEF Idle, Call, Return
    <3> QED
      BY <2>1, <3>1 DEF Inv, Control
  <2> QED
    BY <1>2, <2>1, <2>2
<1> QED
  BY <1>8, <1>9, <1>10, <1>11, <1>12 DEF Next

-----------------------------------------------------------------------------
LEMMA LoopStep ==
  ASSUME Inv, (\E id \in todo : NextType(id)) \/ NextModule \/ TypeDone
  PROVE  /\ stack = <<>> /\ stack' = <<>>
         /\ UNCHANGED <<db, typeCellVec, typeNameMap, typeVecMap, redundantTypes, redundantAttrs>>
<1>1. UNCHANGED <<db, stack, typeCellVec, typeNameMap, typeVecMap, redundantTypes, redundantAttrs>>
  BY DEF NextType, NextModule, TypeDone, input
<1>2. at = Idle => stack = <<>>
  <2>1. \A x : Call(x) # Idle /\ Return(x) # Idle
    BY DEF Idle, Call, Return
  <2> QED
    BY <2>1 DEF Inv, Control
<1>3. at = Idle \/ stack = <<>>
  BY DEF NextType, NextModule, TypeDone
<1> QED
  BY <1>1, <1>2, <1>3

\* What the maps say stays true.
LEMMA MapStep ==
  ASSUME Inv, NamesTellAll, Named, Sourced, Kinds, MapFaithful, [Next]_vars
  PROVE  MapFaithful'
<1>0. Kept
  BY Shape
<1>a. db' = db /\ Module' = Module /\ module \in Module
  BY <1>0, Basics DEF Kept
<1>b. ASSUME NEW m \in Module, NEW x \in DOMAIN typeVecMap[m]
      PROVE  typeVecMap[m][x] \in Sn /\ Represents(typeVecMap[m][x], db[m][x])
  BY DEF Inv, Maps, MapFaithful
<1>c. ASSUME \A m \in Module : \A x \in DOMAIN typeVecMap'[m] :
               \/ x \in DOMAIN typeVecMap[m] /\ typeVecMap'[m][x] = typeVecMap[m][x]
               \/ Suits(typeVecMap'[m][x], Cell(typeVecMap[m][x])', db[m][x])
      PROVE  MapFaithful'
  <2>1. ASSUME NEW m \in Module, NEW x \in DOMAIN typeVecMap'[m], NEW n, n = typeVecMap'[m][x],
               NEW e, e = db[m][x]
        PROVE  (Represents(n, e))'
    <3>1. CASE x \in DOMAIN typeVecMap[m] /\ n = typeVecMap[m][x]
      <4>1. n \in Sn /\ Represents(n, e)
        BY <1>b, <2>1, <3>1
      <4> QED
        BY <1>0, <4>1, StillRepresents, RepresentsThen
    <3>2. CASE Suits(n, Cell(n)', e)
      BY <3>2, RepresentsThen
    <3> QED
      BY <1>c, <2>1, <3>1, <3>2 DEF Cell
  <2> QED
    BY <1>a, <2>1 DEF MapFaithful, Represents, Cell
<1>1. CASE UNCHANGED typeVecMap
  BY <1>1, <1>c
<1>2. ASSUME NEW id \in DOMAIN db[module], NEW ref \in Sn, Makes(id, ref) PROVE MapFaithful'
  <2>1. PICK n : n = NextSn
    OBVIOUS
  <2>2. Create(id, ref) /\ UNCHANGED <<db, module>> /\ E(id).tag \in Derived \union Aggregate
    BY <1>2 DEF Makes
  <2>3. Cell(n)'.name = E(id).name /\ Cell(n)'.tag = E(id).tag
    BY <2>1, <2>2, CreatedCell
  <2>4. \A m \in Module : \A x \in DOMAIN typeVecMap'[m] :
              \/ x \in DOMAIN typeVecMap[m] /\ typeVecMap'[m][x] = typeVecMap[m][x]
              \/ m = module /\ x = id /\ typeVecMap'[m][x] = n
    <3>1. MapIdent(id, n)
      BY <2>1, <2>2 DEF Create
    <3> QED
      BY <3>1, MappedTo
  <2>5. Suits(n, Cell(n)', E(id))
    BY <2>2, <2>3, SuitsOwn
  <2> QED
    BY <1>c, <2>4, <2>5 DEF Cell, E
<1>3. ASSUME NEW id \in DOMAIN db[module], Known(id) \/ Preset(id) \/ VoidOrFunction(id)
      PROVE  MapFaithful'
  <2>1. PICK sn \in Sn : MapIdent(id, sn) /\ Represents(sn, E(id))
    BY <1>3, Answers
  <2>2. \A m \in Module : \A x \in DOMAIN typeVecMap'[m] :
              \/ x \in DOMAIN typeVecMap[m] /\ typeVecMap'[m][x] = typeVecMap[m][x]
              \/ m = module /\ x = id /\ typeVecMap'[m][x] = sn
    BY <2>1, MappedTo
  <2>3. Suits(sn, Cell(sn)', E(id))
    BY <1>0, <2>1, StillRepresents
  <2> QED
    BY <1>c, <2>2, <2>3 DEF Cell, E
<1>4. ASSUME NEW id \in DOMAIN db[module], Enter(id) PROVE MapFaithful'
  <2>1. CASE VoidPointer(id) \/ AggregateCall(id)
    <3>1. Makes(id, VoidSn) /\ VoidSn \in Sn
      BY <2>1, Makers DEF Makes
    <3> QED
      BY <1>2, <3>1
  <2>2. CASE DerivedCall(id)
    BY <1>1, <2>2 DEF DerivedCall
  <2> QED
    BY <1>3, <1>4, <2>1, <2>2 DEF Enter
<1>5. CASE DerivedReturn
  <2>1. PICK id, n : id = Last(stack).id /\ n = NextSn
    OBVIOUS
  <2>2. /\ Len(stack) \in 1 .. Len(stack) /\ stack[Len(stack)].sn = 0 /\ stack[Len(stack)].id = id
        /\ id \in DOMAIN db[module] /\ Create(id, at.arg) /\ UNCHANGED <<db, module>> /\ at.arg \in Sn
    BY <1>5, <2>1, DerivedPop
  <2>3. E(id).tag \in Derived
    BY <2>2 DEF Kinds, Kind
  <2> QED
    BY <1>2, <2>2, <2>3 DEF Makes, Derived, Aggregate
<1>6. CASE MemberReturn
  BY <1>1, <1>6 DEF MemberReturn
<1>7. CASE (\E id \in todo : NextType(id)) \/ NextModule \/ TypeDone \/ UNCHANGED vars
  BY <1>1, <1>7, LoopStep DEF vars
<1> QED
  BY <1>4, <1>5, <1>6, <1>7 DEF Next

-----------------------------------------------------------------------------
\* What a frame waits for changes only when its cell gets a member.
LEMMA SameCallee ==
  ASSUME Inv, UNCHANGED <<db, module>>, NEW k \in 1 .. Len(stack), stack'[k] = stack[k],
         NEW sn, sn = stack[k].sn, sn = 0 \/ Cell(sn)' = Cell(sn)
  PROVE  Callee(k)' = Callee(k)
BY DEF Callee, Cell, E

LEMMA CalleeEntry ==
  ASSUME Inv, Kinds, NEW k \in 1 .. Len(stack)
  PROVE  Callee(k) \in DOMAIN db[module]
<1> DEFINE id == stack[k].id  sn == stack[k].sn
<1>1. id \in DOMAIN db[module] /\ Kind(id, sn)
  BY Basics DEF Kinds
<1>2. CASE sn = 0
  <2>1. E(id).ref \in DOMAIN db[module]
    <3> HIDE DEF id, sn
    <3> QED
      BY <1>1, <1>2, Entry DEF Kind, Inv
  <2> QED
    BY <1>2, <2>1 DEF Callee
<1>3. CASE sn # 0
  <2> DEFINE i == Len(Cell(sn).members) + 1
  <2>1. Lacks(id, sn)
    BY <1>3 DEF Inv, Frames
  <2>2. sn \in Sn /\ Len(Cell(sn).members) < Len(E(id).members)
    BY <2>1 DEF Lacks
  <2> HIDE DEF id, sn
  <2>3. E(id).members \in Seq(Member) /\ \A j \in 1 .. Len(E(id).members) : E(id).members[j].type \in DOMAIN db[module]
    BY <1>1, Entry DEF Inv
  <2>4. Len(Cell(sn).members) \in Nat
    <3>1. sn + 1 \in 1 .. Len(typeCellVec) /\ typeCellVec \in Seq(CellRecord) /\ Cell(sn) = typeCellVec[sn + 1]
      BY <2>2 DEF Inv, Cells, Sn, NextSn, Cell
    <3>2. Cell(sn) \in CellRecord
      BY <3>1
    <3>3. Cell(sn).members \in Seq(MemberCell)
      BY <3>2 DEF CellRecord
    <3> QED
      BY <3>3
  <2>5. i \in 1 .. Len(E(id).members)
    BY <2>2, <2>3, <2>4
  <2>6. E(id).members[i].type \in DOMAIN db[module]
    <3> HIDE DEF i
    <3> QED
      BY <2>3, <2>5
  <2> QED
    BY <1>3, <2>6 DEF Callee, id, sn
<1> QED
  BY <1>2, <1>3

\* Cells of frames below the top stay when one is made, and when the one of
\* the top gets a member.
LEMMA ChainMade ==
  ASSUME Inv, Kinds, UNCHANGED <<db, module>>,
         \A n \in Sn : Cell(n)' = Cell(n),
         NEW k \in 1 .. Len(stack), stack'[k] = stack[k]
  PROVE  Callee(k)' = Callee(k)
<1>1. PICK sn : sn = stack[k].sn
  OBVIOUS
<1>2. sn = 0 \/ sn \in Sn
  BY <1>1, Basics DEF Kinds, Kind
<1> QED
  BY <1>1, <1>2, SameCallee

LEMMA ChainStep ==
  ASSUME Inv, NamesTellAll, Named, Sourced, Kinds, Chain, [Next]_vars
  PROVE  Chain'
<1>0. Kept /\ Len(stack) \in Nat /\ (stack # <<>> => Len(stack) \in 1 .. Len(stack))
  BY Shape, Basics
<1>a. \A x, y : Call(x).op = "call" /\ Call(x).arg = x /\ Return(y).op = "return" /\ Return(y).arg = y
  BY DEF Call, Return
<1>b. /\ \A k \in 1 .. Len(stack) - 1 : stack[k + 1].id = Callee(k)
      /\ stack # <<>> /\ at.op = "call" => at.arg = Callee(Len(stack))
      /\ stack # <<>> /\ at.op = "return" =>
           E(Callee(Len(stack))).tag = "UNION" \/ Suits(at.arg, Cell(at.arg), E(Callee(Len(stack))))
  BY DEF Chain, Awaited
<1>1. CASE stack' = <<>>
  BY <1>1 DEF Chain
\* A call that answers at once, with or without a cell.
<1>2. ASSUME NEW id \in DOMAIN db[module], at = Call(id), UNCHANGED <<db, module, stack>>,
             \A n \in Sn : Cell(n)' = Cell(n), NEW sn, at' = Return(sn), Suits(sn, Cell(sn)', E(id))
      PROVE  Chain'
  <2>1. \A k \in 1 .. Len(stack) : Callee(k)' = Callee(k)
    BY <1>2, ChainMade
  <2>2. stack # <<>> => id = Callee(Len(stack))
    BY <1>2, <1>a, <1>b
  <2>3. \A k \in 1 .. Len(stack') - 1 : stack'[k + 1].id = Callee(k)'
    BY <1>0, <1>2, <1>b, <2>1
  <2>4. stack' # <<>> => Awaited' = id
    <3>1. PICK l : l = Len(stack)
      OBVIOUS
    <3>2. Awaited' = Callee(l)'
      BY <1>2, <3>1 DEF Awaited, Callee, E, Cell
    <3> QED
      BY <1>0, <1>2, <2>1, <2>2, <3>1, <3>2
  <2>5. at'.arg = sn /\ at'.op = "return" /\ Cell(at.arg)' = Cell(sn)'
    BY <1>2, <1>a DEF Cell
  <2>6. stack' # <<>> => E(Awaited)' = E(id)
    BY <1>2, <2>4 DEF E
  <2> QED
    BY <1>2, <2>3, <2>5, <2>6 DEF Chain
\* A pop.
<1>3. ASSUME UNCHANGED <<db, module>>, Len(stack) \in 1 .. Len(stack), Len(stack') = Len(stack) - 1,
             \A k \in 1 .. Len(stack) - 1 : stack'[k] = stack[k] /\ Callee(k)' = Callee(k),
             NEW id, id = stack[Len(stack)].id, NEW sn, at' = Return(sn),
             E(id).tag = "UNION" \/ Suits(sn, Cell(sn)', E(id))
      PROVE  Chain'
  <2>1. \A k \in 1 .. Len(stack') - 1 : stack'[k + 1].id = Callee(k)'
    BY <1>0, <1>3, <1>b, SMTT(60)
  <2>2. stack' # <<>> => Awaited' = id
    <3>1. PICK l : l = Len(stack')
      OBVIOUS
    <3>2. Awaited' = Callee(l)'
      BY <3>1 DEF Awaited, Callee, E, Cell
    <3>3. stack' # <<>> => l \in 1 .. Len(stack) - 1 /\ l + 1 = Len(stack)
      <4>1. stack' \in Seq(Frame')
        BY Step DEF Inv, Control
      <4> QED
        BY <1>0, <1>3, <3>1, <4>1
    <3> QED
      BY <1>3, <1>b, <3>2, <3>3
  <2>3. at'.arg = sn /\ at'.op = "return" /\ Cell(at.arg)' = Cell(sn)'
    BY <1>3, <1>a DEF Cell
  <2>4. stack' # <<>> => E(Awaited)' = E(id)
    BY <1>3, <2>2 DEF E
  <2> QED
    BY <1>3, <2>1, <2>3, <2>4 DEF Chain
\* A push.
<1>4. ASSUME UNCHANGED <<db, module>>, NEW l, l = Len(stack) + 1, Len(stack') = l,
             \A k \in 1 .. Len(stack) : stack'[k] = stack[k] /\ Callee(k)' = Callee(k),
             NEW id, at = Call(id), stack'[l].id = id, NEW x, at' = Call(x), Callee(l)' = x
      PROVE  Chain'
  <2>1. stack # <<>> => id = Callee(Len(stack))
    BY <1>4, <1>a, <1>b
  <2>2. ASSUME NEW k \in 1 .. Len(stack') - 1 PROVE stack'[k + 1].id = Callee(k)'
    <3>1. CASE k \in 1 .. Len(stack) - 1
      BY <1>0, <1>4, <1>b, <3>1
    <3>2. CASE k = Len(stack)
      <4>1. stack # <<>>
        BY <3>2
      <4> QED
        BY <1>0, <1>4, <2>1, <3>2, <4>1
    <3> QED
      BY <1>0, <1>4, <3>1, <3>2
  <2>3. Awaited' = x
    <3>1. Awaited' = Callee(l)'
      BY <1>4 DEF Awaited, Callee, E, Cell
    <3> QED
      BY <1>4, <3>1
  <2>4. at'.op = "call" /\ at'.arg = x
    BY <1>4, <1>a
  <2> QED
    BY <2>2, <2>3, <2>4 DEF Chain
<1>5. ASSUME NEW id \in DOMAIN db[module], Known(id) \/ Preset(id) \/ VoidOrFunction(id)
      PROVE  Chain'
  <2>1. PICK sn \in Sn : at' = Return(sn) /\ Represents(sn, E(id))
    BY <1>5, Answers
  <2>2. at = Call(id) /\ UNCHANGED <<db, module, stack, typeCellVec>>
    BY <1>5, Answers DEF input
  <2>3. \A n \in Sn : Cell(n)' = Cell(n)
    BY <2>2 DEF Cell
  <2>4. Suits(sn, Cell(sn)', E(id))
    BY <1>0, <2>1, StillRepresents
  <2> QED
    BY <1>2, <2>1, <2>2, <2>3, <2>4
<1>6. ASSUME NEW id \in DOMAIN db[module], VoidPointer(id) PROVE Chain'
  <2>1. PICK n : n = NextSn
    OBVIOUS
  <2>2. at' = Return(n) /\ UNCHANGED stack
    BY <1>6, <2>1 DEF VoidPointer
  <2>3. /\ at = Call(id) /\ Create(id, VoidSn) /\ VoidSn \in Sn /\ UNCHANGED <<db, module>>
        /\ E(id).tag \in Derived \union Aggregate
    BY <1>6, Makers
  <2>4. /\ Cell(n)'.name = E(id).name /\ Cell(n)'.tag = E(id).tag
        /\ \A k \in Sn : Cell(k)' = Cell(k)
    BY <2>1, <2>3, CreatedCell
  <2>5. Suits(n, Cell(n)', E(id))
    BY <2>3, <2>4, SuitsOwn
  <2> QED
    BY <1>2, <2>2, <2>3, <2>4, <2>5
<1>7. ASSUME NEW id \in DOMAIN db[module], DerivedCall(id) PROVE Chain'
  <2>1. PICK l, x : l = Len(stack) + 1 /\ x = E(id).ref
    OBVIOUS
  <2>2. /\ Len(stack') = l /\ \A k \in 1 .. Len(stack) : stack'[k] = stack[k]
        /\ stack'[l].id = id /\ stack'[l].sn = 0 /\ at = Call(id) /\ at' = Call(x)
        /\ UNCHANGED <<db, module, typeCellVec>>
    BY <1>7, <2>1, DerivedPush
  <2>3. \A k \in 1 .. Len(stack) : Callee(k)' = Callee(k)
    <3>1. \A n \in Sn : Cell(n)' = Cell(n)
      BY <2>2 DEF Cell
    <3> QED
      BY <2>2, <3>1, ChainMade
  <2>4. Callee(l)' = x
    BY <2>1, <2>2 DEF Callee, E
  <2> QED
    BY <1>4, <2>1, <2>2, <2>3, <2>4
<1>8. ASSUME NEW id \in DOMAIN db[module], AggregateCall(id) PROVE Chain'
  <2>1. PICK l, x, n : l = Len(stack) + 1 /\ x = E(id).members[1].type /\ n = NextSn
    OBVIOUS
  <2>2. /\ Len(stack') = l /\ \A k \in 1 .. Len(stack) : stack'[k] = stack[k]
        /\ stack'[l].id = id /\ stack'[l].sn = n /\ at' = Call(x)
    BY <1>8, <2>1, AggregatePush
  <2>3. at = Call(id) /\ Create(id, VoidSn) /\ VoidSn \in Sn /\ UNCHANGED <<db, module>>
    BY <1>8, Makers
  <2>4. Cell(n)'.members = <<>> /\ \A k \in Sn : Cell(k)' = Cell(k)
    BY <2>1, <2>3, CreatedCell
  <2>5. \A k \in 1 .. Len(stack) : Callee(k)' = Callee(k)
    BY <2>2, <2>3, <2>4, ChainMade
  <2>6. Callee(l)' = x
    <3>1. Len(Cell(n)'.members) + 1 = 1
      BY <2>4
    <3>2. n # 0
      BY <2>1, Basics
    <3>3. Callee(l)' = E(id)'.members[Len(Cell(n)'.members) + 1].type
      BY <2>2, <3>2 DEF Callee, E, Cell
    <3> QED
      BY <2>1, <2>3, <3>1, <3>3 DEF E
  <2> QED
    BY <1>4, <2>1, <2>2, <2>3, <2>5, <2>6
<1>9. CASE DerivedReturn
  <2>1. PICK id, n : id = Last(stack).id /\ n = NextSn
    OBVIOUS
  <2>2. /\ Len(stack) \in 1 .. Len(stack) /\ stack[Len(stack)].sn = 0 /\ stack[Len(stack)].id = id
        /\ id \in DOMAIN db[module] /\ Create(id, at.arg) /\ UNCHANGED <<db, module>> /\ at.arg \in Sn
        /\ Len(stack') = Len(stack) - 1 /\ \A k \in 1 .. Len(stack) - 1 : stack'[k] = stack[k]
        /\ at' = Return(n)
    BY <1>9, <2>1, DerivedPop
  <2>3. /\ Cell(n)'.name = E(id).name /\ Cell(n)'.tag = E(id).tag
        /\ \A k \in Sn : Cell(k)' = Cell(k)
    BY ZenonT(60), <2>1, <2>2, CreatedCell
  <2>4. E(id).tag \in Derived
    BY <2>2 DEF Kinds, Kind
  <2>5. Suits(n, Cell(n)', E(id))
    BY <2>3, <2>4, SuitsOwn
  <2>6. \A k \in 1 .. Len(stack) - 1 : Callee(k)' = Callee(k)
    BY <1>0, <2>2, <2>3, ChainMade
  <2> QED
    BY <1>3, <2>2, <2>5, <2>6
<1>10. CASE MemberReturn
  <2>1. PICK id, sn : id = Last(stack).id /\ sn = Last(stack).sn
    OBVIOUS
  <2>2. /\ Len(stack) \in 1 .. Len(stack) /\ stack[Len(stack)].sn = sn /\ stack[Len(stack)].id = id
        /\ id \in DOMAIN db[module] /\ sn # 0 /\ UNCHANGED <<db, module>>
    BY <1>10, <2>1, MemberPop
  <2>3. /\ \A n \in Sn : n # sn => Cell(n)' = Cell(n)
        /\ Cell(sn)'.name = Cell(sn).name /\ Cell(sn)'.tag = Cell(sn).tag
        /\ Len(Cell(sn).members) \in Nat
        /\ Len(Cell(sn)'.members) = Len(Cell(sn).members) + 1
    BY <1>10, <2>1, MemberAppended
  <2>4. ASSUME NEW k \in 1 .. Len(stack) - 1, stack'[k] = stack[k] PROVE Callee(k)' = Callee(k)
    <3>1. PICK n : n = stack[k].sn
      OBVIOUS
    <3>2. k \in 1 .. Len(stack) /\ (n = 0 \/ n \in Sn)
      BY SMTT(60), <1>0, <3>1, Basics DEF Kinds, Kind
    <3>3. n # sn
      BY <1>0, <2>2, <3>1 DEF Inv, Frames
    <3> QED
      BY <2>2, <2>3, <2>4, <3>1, <3>2, <3>3, SameCallee
  <2>5. CASE stack' = stack /\ at' = Call(E(id).members[Len(Cell(sn).members) + 2].type)
    <3>1. \A k \in 1 .. Len(stack') - 1 : stack'[k + 1].id = Callee(k)'
      BY <1>b, <2>4, <2>5
    <3>2. Awaited' = E(id).members[Len(Cell(sn).members) + 2].type
      <4>1. PICK l : l = Len(stack)
        OBVIOUS
      <4>2. Awaited' = E(id).members[Len(Cell(sn)'.members) + 1].type
        BY <2>2, <2>5, <4>1 DEF Awaited, Callee, E, Cell
      <4>3. Len(Cell(sn)'.members) + 1 = Len(Cell(sn).members) + 2
        BY <2>3
      <4> QED
        BY <4>2, <4>3
    <3>3. at'.op = "call" /\ at'.arg = E(id).members[Len(Cell(sn).members) + 2].type
      BY <1>a, <2>5
    <3> QED
      BY <3>1, <3>2, <3>3 DEF Chain
  <2>6. ASSUME at' = Return(IF E(id).tag = "UNION" THEN NextSn - 1 ELSE sn),
               Len(stack') = Len(stack) - 1,
               \A k \in 1 .. Len(stack) - 1 : stack'[k] = stack[k]
        PROVE  Chain'
    <3>1. PICK r : r = IF E(id).tag = "UNION" THEN NextSn - 1 ELSE sn
      OBVIOUS
    <3>2. E(id).tag = "UNION" \/ Suits(r, Cell(r)', E(id))
      <4>1. Kind(id, sn)
        BY <2>2 DEF Kinds
      <4>2. Cell(sn)'.name = E(id).name /\ Cell(sn)'.tag = E(id).tag /\ E(id).tag \in Derived \union Aggregate
        BY <2>2, <2>3, <4>1 DEF Kind
      <4>3. Suits(sn, Cell(sn)', E(id))
        BY <4>2, SuitsOwn
      <4> QED
        BY <3>1, <4>3
    <3> QED
      BY <1>3, <2>2, <2>4, <2>6, <3>1, <3>2
  <2> QED
    BY <1>10, <2>1, <2>5, <2>6, MemberPop
<1>11. CASE UNCHANGED vars
  <2>1. Chain' = Chain
    BY <1>11 DEF vars, input, Chain, Callee, Awaited, Cell, E
  <2> QED
    BY <2>1
<1>12. ASSUME NEW id \in DOMAIN db[module], Enter(id) PROVE Chain'
  BY <1>5, <1>6, <1>7, <1>8, <1>12 DEF Enter
<1>13. CASE (\E id \in todo : NextType(id)) \/ NextModule \/ TypeDone
  BY <1>1, <1>13, LoopStep
<1> QED
  BY <1>9, <1>10, <1>11, <1>12, <1>13 DEF Next

-----------------------------------------------------------------------------
LEMMA ReferencesStep ==
  ASSUME Inv, Kinds, Chain, References, [Next]_vars
  PROVE  References'
<1>0. Kept /\ Made \subseteq Sn
  BY Shape, Basics
<1>a. db' = db /\ Module' = Module /\ module \in Module
  BY <1>0, Basics DEF Kept
\* The cells there are.
<1>1. ASSUME NEW n \in Made, Cell(n)'.tag \in Derived
      PROVE  \E m \in Module : \E id \in DOMAIN db[m] :
               /\ db[m][id].name = Cell(n)'.name /\ db[m][id].tag = Cell(n)'.tag
               /\ Leads(Cell(n), m, db[m][id])'
  <2>1. Cell(n)'.name = Cell(n).name /\ Cell(n)'.tag = Cell(n).tag /\ Cell(n)'.ref = Cell(n).ref /\ n \in Sn
    BY <1>0 DEF Kept
  <2>2. PICK m \in Module : \E id \in DOMAIN db[m] :
               /\ db[m][id].name = Cell(n).name /\ db[m][id].tag = Cell(n).tag
               /\ Leads(Cell(n), m, db[m][id])
    BY <1>1, <2>1 DEF References
  <2>3. PICK id \in DOMAIN db[m] :
               /\ db[m][id].name = Cell(n).name /\ db[m][id].tag = Cell(n).tag
               /\ Leads(Cell(n), m, db[m][id])
    BY <2>2
  <2>4. PICK r, e : r = Cell(n).ref /\ e = db[m][id]
    OBVIOUS
  <2>5. r \in Sn /\ Cell(r)'.name = Cell(r).name /\ Cell(r)'.tag = Cell(r).tag
    <3>1. r \in Sn
      BY <2>1, <2>4 DEF Inv, Cells
    <3> QED
      BY <1>0, <3>1 DEF Kept
  <2>6. \A x : Suits(r, Cell(r), x) => Suits(r, Cell(r)', x)
    BY <2>5, SuitsAlike
  <2>7. \/ e.ref # 0 /\ db[m][e.ref].tag = "UNION"
        \/ IF e.ref = 0 THEN r = VoidSn ELSE Suits(r, Cell(r), db[m][e.ref])
    BY <2>3, <2>4 DEF Leads
  <2>8. Leads(Cell(n), m, db[m][id])'
    <3>1. Cell(n)'.ref = r /\ Cell(Cell(n).ref)' = Cell(r)'
      BY <2>1, <2>4 DEF Cell
    <3> QED
      BY <1>a, <2>4, <2>6, <2>7, <3>1 DEF Leads
  <2> QED
    BY <2>1, <2>3, <2>8
<1>2. CASE MakesNone
  BY <1>a, <1>1, <1>2 DEF References, MakesNone
<1>3. ASSUME NEW id \in DOMAIN db[module], NEW ref \in Sn, Create(id, ref), UNCHANGED <<db, module>>,
             NEW r, r = E(id).ref, r # 0 => r \in DOMAIN db[module],
             E(id).tag \in Derived =>
               IF r = 0 THEN ref = VoidSn
               ELSE E(r).tag = "UNION" \/ Suits(ref, Cell(ref), E(r))
      PROVE  References'
  <2>1. PICK n : n = NextSn
    OBVIOUS
  <2>a. Create(id, ref) /\ UNCHANGED <<db, module>>
    BY <1>3
  <2>2. /\ Cell(n)'.name = E(id).name /\ Cell(n)'.tag = E(id).tag /\ Cell(n)'.ref = ref
        /\ Made' = Made \union {n}
    <3>1. Cell(n)'.name = E(id).name /\ Cell(n)'.tag = E(id).tag
      BY <2>1, <2>a, CreatedCell
    <3>2. Cell(n)' = NewCell(E(id), ref)
      BY ZenonT(60), <2>1, <2>a, CreatedCell
    <3>3. Made' = Made \union {n}
      BY <2>1, <2>a, CreatedCell
    <3> QED
      BY <3>1, <3>2, <3>3 DEF NewCell
  <2>3. Cell(ref)'.name = Cell(ref).name /\ Cell(ref)'.tag = Cell(ref).tag
    BY <1>0 DEF Kept
  <2>4. \A x : Suits(ref, Cell(ref), x) => Suits(ref, Cell(ref)', x)
    BY <2>3, SuitsAlike
  <2>5. E(id).tag \in Derived => Leads(Cell(n), module, E(id))'
    <3>1. Cell(Cell(n).ref)' = Cell(ref)'
      BY <2>2 DEF Cell
    <3> QED
      BY <1>3, <2>2, <2>4, <3>1 DEF Leads, E
  <2>6. E(id)' = db[module][id] /\ E(id) = db[module][id] /\ module' = module
    BY <1>3 DEF E
  <2>7. ASSUME NEW k \in Made', Cell(k)'.tag \in Derived
        PROVE  \E m \in Module : \E j \in DOMAIN db[m] :
               /\ db[m][j].name = Cell(k)'.name /\ db[m][j].tag = Cell(k)'.tag
               /\ Leads(Cell(k), m, db[m][j])'
    <3>1. CASE k \in Made
      BY <1>1, <2>7, <3>1
    <3>2. CASE k = n
      <4>1. Leads(Cell(n), module, E(id))' => Leads(Cell(k), module, db[module][id])'
        BY <3>2 DEF E
      <4> QED
        BY <1>a, <2>2, <2>5, <2>6, <2>7, <3>2, <4>1
    <3> QED
      BY <2>2, <2>7, <3>1, <3>2
  <2> QED
    BY <1>a, <2>7 DEF References
<1>4. ASSUME NEW id \in DOMAIN db[module], VoidPointer(id) \/ AggregateCall(id) PROVE References'
  <2>1. Create(id, VoidSn) /\ VoidSn \in Sn /\ UNCHANGED <<db, module>>
    BY <1>4, Makers
  <2>2. E(id).tag \in Derived => E(id).ref = 0
    BY <1>4 DEF VoidPointer, AggregateCall, Derived, Aggregate
  <2>3. PICK r : r = E(id).ref
    OBVIOUS
  <2>4. r # 0 => r \in DOMAIN db[module]
    BY <2>3, Entry DEF Inv
  <2> QED
    BY <1>3, <2>1, <2>2, <2>3, <2>4
<1>5. CASE DerivedReturn
  <2>1. PICK id, n : id = Last(stack).id /\ n = NextSn
    OBVIOUS
  <2>2. /\ Len(stack) \in 1 .. Len(stack) /\ stack[Len(stack)].sn = 0 /\ stack[Len(stack)].id = id
        /\ id \in DOMAIN db[module] /\ Create(id, at.arg) /\ UNCHANGED <<db, module>> /\ at.arg \in Sn
        /\ at.op = "return" /\ stack # <<>>
    BY <1>5, <2>1, DerivedPop
  <2>3. PICK r : r = E(id).ref
    OBVIOUS
  <2>4. r # 0 => r \in DOMAIN db[module]
    BY <2>2, <2>3, Entry DEF Inv
  <2>5. Awaited = r /\ r # 0
    <3>1. E(id).ref # 0
      BY <2>2 DEF Kinds, Kind
    <3> QED
      BY <2>2, <2>3, <3>1 DEF Awaited, Callee
  <2>6. E(r).tag = "UNION" \/ Suits(at.arg, Cell(at.arg), E(r))
    BY <2>2, <2>5 DEF Chain
  <2> QED
    BY <1>3, <2>2, <2>3, <2>4, <2>5, <2>6
<1>6. ASSUME UNCHANGED <<typeCellVec>> PROVE MakesNone \/ UNCHANGED Made
  BY <1>6 DEF Made, NextSn
<1>7. CASE UNCHANGED Made
  BY <1>a, <1>1, <1>7 DEF References
<1>8. ASSUME NEW id \in DOMAIN db[module], Enter(id) PROVE References'
  BY <1>4, <1>6, <1>2, <1>7, <1>8 DEF Enter, Known, Preset, VoidOrFunction, DerivedCall
<1>9. CASE MemberReturn
  <2>1. PICK id, sn : id = Last(stack).id /\ sn = Last(stack).sn
    OBVIOUS
  <2> QED
    BY <1>7, <1>9, <2>1, MemberAppended
<1>10. CASE (\E id \in todo : NextType(id)) \/ NextModule \/ TypeDone \/ UNCHANGED vars
  BY <1>2, <1>6, <1>7, <1>10, LoopStep DEF vars
<1> QED
  BY <1>5, <1>8, <1>9, <1>10 DEF Next

-----------------------------------------------------------------------------
\* Members that are in a cell stay what they are.
LEMMA MembersTyped ==
  ASSUME Inv, NEW n \in Sn
  PROVE  Len(Cell(n).members) \in Nat /\ \A i \in 1 .. Len(Cell(n).members) : Cell(n).members[i].type \in Sn
<1>1. n + 1 \in 1 .. Len(typeCellVec) /\ typeCellVec \in Seq(CellRecord) /\ Cell(n) = typeCellVec[n + 1]
  BY DEF Inv, Cells, Sn, NextSn, Cell
<1>2. Cell(n) \in CellRecord
  BY <1>1
<1>3. Cell(n).members \in Seq(MemberCell)
  BY <1>2 DEF CellRecord
<1> QED
  BY <1>3 DEF Inv, Cells

LEMMA SameCopied ==
  ASSUME Kept, NEW c, NEW d, NEW i, c.members[i].type \in Sn, d.members[i] = c.members[i],
         NEW m, NEW e, Copied(c, i, m, e)
  PROVE  Copied(d, i, m, e)'
<1>1. PICK n : n = c.members[i].type
  OBVIOUS
<1>2. Cell(n)'.name = Cell(n).name /\ Cell(n)'.tag = Cell(n).tag /\ db' = db
  BY <1>1 DEF Kept
<1>3. \A x : Suits(n, Cell(n), x) => Suits(n, Cell(n)', x)
  BY <1>2, SuitsAlike
<1> QED
  BY <1>1, <1>2, <1>3 DEF Copied

LEMMA SamePrefix ==
  ASSUME Inv, Kept, NEW n \in Sn, Cell(n)' = Cell(n), NEW m, NEW e, Prefix(Cell(n), m, e)
  PROVE  Prefix(Cell(n), m, e)'
<1>1. PICK c : c = Cell(n)
  OBVIOUS
<1>2. \A i \in 1 .. Len(c.members) : c.members[i].type \in Sn /\ Copied(c, i, m, e)
  BY <1>1, MembersTyped DEF Prefix
<1>3. \A i \in 1 .. Len(c.members) : Copied(c, i, m, e)'
  BY <1>2, SameCopied
<1> QED
  BY <1>1, <1>3 DEF Prefix, Copied, Cell

\* The member that is appended is the next one of the structure.
LEMMA NextMember ==
  ASSUME Inv, Kinds, Chain, Growing, MemberReturn, Kept, NEW id, NEW sn, id = Last(stack).id, sn = Last(stack).sn
  PROVE  Prefix(Cell(sn), module, E(id))'
<1>1. /\ Len(stack) \in 1 .. Len(stack) /\ stack[Len(stack)].sn = sn /\ stack[Len(stack)].id = id
      /\ id \in DOMAIN db[module] /\ sn # 0 /\ UNCHANGED <<db, module>>
      /\ at.op = "return" /\ stack # <<>> /\ at.arg \in Sn
  BY MemberPop
<1>2. PICK i : i = Len(Cell(sn).members) + 1
  OBVIOUS
<1>3. /\ sn \in Sn /\ Len(Cell(sn).members) \in Nat /\ Len(Cell(sn)'.members) = i
      /\ \A k \in 1 .. i - 1 : Cell(sn)'.members[k] = Cell(sn).members[k]
      /\ Cell(sn)'.members[i] = CellMember(E(id), i, at.arg)
  BY <1>2, MemberAppended
<1>4. Awaited = E(id).members[i].type
  BY <1>1, <1>2 DEF Awaited, Callee
<1>5. E(Awaited).tag = "UNION" \/ Suits(at.arg, Cell(at.arg), E(Awaited))
  BY <1>1 DEF Chain
<1>6. PICK c, d, e : c = Cell(sn) /\ d = Cell(sn)' /\ e = E(id)
  OBVIOUS
<1>7. \A k \in 1 .. i - 1 : Copied(c, k, module, e)
  BY <1>1, <1>2, <1>3, <1>6 DEF Growing, Prefix
<1>8. ASSUME NEW k \in 1 .. i - 1 PROVE Copied(d, k, module, e)'
  <2>1. c.members[k].type \in Sn
    BY <1>2, <1>3, <1>6, <1>8, MembersTyped
  <2>2. PICK m : m = module
    OBVIOUS
  <2>3. Copied(d, k, m, e)'
    BY <1>3, <1>6, <1>7, <1>8, <2>1, <2>2, SameCopied
  <2> QED
    BY <1>1, <2>2, <2>3 DEF Copied
<1>9. Copied(d, i, module, e)'
  <2>1. d.members[i] = CellMember(e, i, at.arg)
    BY <1>3, <1>6
  <2>2. e.tag \in Aggregate
    BY <1>1, <1>6 DEF Kinds, Kind
  <2>3. PICK r, x : r = at.arg /\ x = db[module][e.members[i].type]
    OBVIOUS
  <2>4. x.tag = "UNION" \/ Suits(r, Cell(r), x)
    BY <1>4, <1>5, <1>6, <2>3 DEF E
  <2>5. Cell(r)'.name = Cell(r).name /\ Cell(r)'.tag = Cell(r).tag
    BY <1>1, <2>3 DEF Kept
  <2>6. x.tag = "UNION" \/ Suits(r, Cell(r)', x)
    BY <2>4, <2>5, SuitsAlike
  <2>7. PICK y : y = d.members[i]
    OBVIOUS
  <2>8. /\ y.type = r /\ (y.bit <=> e.members[i].bits # 0 /\ e.tag = "STRUCTURE")
        /\ e.members[i].bits = 0 => y.loc = IF e.tag = "UNION" THEN 0 ELSE e.members[i].loc
    <3>0. PICK b, z : b = e.members[i].bits /\ z = e.members[i].loc
      OBVIOUS
    <3>1. CASE e.tag = "UNION"
      <4>1. y = [type |-> r, bit |-> FALSE, loc |-> 0]
        BY <2>1, <2>3, <2>7, <3>1 DEF CellMember
      <4> QED
        BY <3>1, <4>1
    <3>2. CASE e.tag = "STRUCTURE"
      <4>1. y = [type |-> r, bit |-> b # 0, loc |-> IF b # 0 THEN b ELSE z]
        BY <2>1, <2>3, <2>7, <3>0, <3>2 DEF CellMember
      <4>2. y.type = r /\ (y.bit <=> b # 0) /\ y.loc = IF b # 0 THEN b ELSE z
        BY <4>1
      <4> QED
        BY <3>0, <3>2, <4>2
    <3> QED
      BY <2>2, <3>1, <3>2 DEF Aggregate
  <2>9. Cell(d.members[i].type)' = Cell(r)' /\ db'[module'][e.members[i].type] = x
    BY <1>1, <2>3, <2>7, <2>8 DEF Cell
  <2> QED
    BY <2>6, <2>7, <2>8, <2>9 DEF Copied
<1>10. \A k \in 1 .. Len(d.members) : Copied(d, k, module, e)'
  <2>1. \A k \in 1 .. Len(d.members) : k \in 1 .. i - 1 \/ k = i
    BY <1>2, <1>3, <1>6
  <2> QED
    BY <1>8, <1>9, <2>1
<1>11. E(id)' = e
  BY <1>1, <1>6 DEF E
<1> QED
  BY <1>6, <1>10, <1>11 DEF Prefix, Copied

LEMMA SameFinished ==
  ASSUME Inv, Kept, NEW n \in Sn, Cell(n)' = Cell(n), Finished(n)
  PROVE  Finished(n)'
<1>1. PICK m \in Module : \E id \in DOMAIN db[m] :
     /\ db[m][id].name = Cell(n).name /\ db[m][id].tag = Cell(n).tag
     /\ Len(Cell(n).members) = Len(db[m][id].members) /\ Prefix(Cell(n), m, db[m][id])
  BY DEF Finished
<1>2. PICK id \in DOMAIN db[m] :
     /\ db[m][id].name = Cell(n).name /\ db[m][id].tag = Cell(n).tag
     /\ Len(Cell(n).members) = Len(db[m][id].members) /\ Prefix(Cell(n), m, db[m][id])
  BY <1>1
<1>3. PICK e : e = db[m][id]
  OBVIOUS
<1>4. Prefix(Cell(n), m, e)'
  BY <1>2, <1>3, SamePrefix
<1>5. db' = db /\ Module' = Module
  BY DEF Kept
<1>6. Prefix(Cell(n), m, db[m][id])'
  BY <1>3, <1>4, <1>5
<1> QED
  BY <1>2, <1>5, <1>6 DEF Finished

LEMMA GrowStep ==
  ASSUME Inv, Kinds, Chain, Growing, Grown, [Next]_vars
  PROVE  Growing' /\ Grown'
<1>0. Kept /\ Made \subseteq Sn /\ Len(stack) \in Nat
  BY Shape, Basics
<1>a. db' = db /\ Module' = Module
  BY <1>0 DEF Kept
<1>b. \A k \in 1 .. Len(stack) : stack[k].sn # 0 => stack[k].sn \in Made
  BY DEF Kinds, Kind
\* A frame whose cell is not changed.
<1>1. ASSUME UNCHANGED module, NEW k \in 1 .. Len(stack), stack[k].sn # 0,
             Cell(stack[k].sn)' = Cell(stack[k].sn), stack'[k] = stack[k]
      PROVE  Prefix(Cell(stack[k].sn), module, E(stack[k].id))'
  <2>1. PICK n, m, id, e : n = stack[k].sn /\ m = module /\ id = stack[k].id /\ e = E(id)
    OBVIOUS
  <2>2. n \in Sn /\ Prefix(Cell(n), m, e)
    BY <1>0, <1>b, <1>1, <2>1 DEF Growing
  <2>3. Cell(n)' = Cell(n)
    BY <1>1, <2>1 DEF Cell
  <2>4. Prefix(Cell(n), m, e)'
    BY <1>0, <2>2, <2>3, SamePrefix
  <2>5. E(id)' = e
    BY <1>a, <1>1, <2>1 DEF E
  <2> QED
    BY ZenonT(60), <1>1, <2>1, <2>4, <2>5 DEF Prefix, Copied, Cell, E
\* A cell that is not changed.
<1>2. ASSUME NEW n \in Made, Cell(n)' = Cell(n), Cell(n).tag \in Aggregate,
             \A k \in 1 .. Len(stack) : stack[k].sn = n => k \in 1 .. Len(stack') /\ stack'[k] = stack[k]
      PROVE  Finished(n)' \/ \E k \in 1 .. Len(stack') : stack'[k].sn = n
  <2>1. CASE Finished(n)
    BY <1>0, <1>2, <2>1, SameFinished
  <2>2. CASE \E k \in 1 .. Len(stack) : stack[k].sn = n
    BY <1>2, <2>2
  <2> QED
    BY <1>2, <2>1, <2>2 DEF Grown
\* No cell is made or changed.
<1>3. ASSUME UNCHANGED typeCellVec,
             \A k \in 1 .. Len(stack) : stack[k].sn # 0 => k \in 1 .. Len(stack'),
             \A k \in 1 .. Len(stack) : stack'[k] = stack[k],
             \A k \in 1 .. Len(stack') : k \in 1 .. Len(stack) \/ stack'[k].sn = 0,
             stack' = <<>> \/ UNCHANGED module
      PROVE  Growing' /\ Grown'
  <2>1. \A n : Cell(n)' = Cell(n)
    BY <1>3 DEF Cell
  <2>2. Made' = Made
    BY <1>3 DEF Made, NextSn
  <2>3. Grown'
    <3>1. \A n \in Made : \A k \in 1 .. Len(stack) :
             stack[k].sn = n => k \in 1 .. Len(stack') /\ stack'[k] = stack[k]
      BY <1>3, Basics
    <3> QED
      BY <1>2, <2>1, <2>2, <3>1 DEF Grown
  <2>4. CASE UNCHANGED module
    <3>1. ASSUME NEW k \in 1 .. Len(stack'), stack'[k].sn # 0
          PROVE  Prefix(Cell(stack[k].sn), module, E(stack[k].id))'
      <4>1. k \in 1 .. Len(stack) /\ stack'[k] = stack[k] /\ stack[k].sn # 0
        BY <1>3, <3>1
      <4> QED
        BY <1>1, <2>1, <2>4, <4>1
    <3> QED
      BY <2>3, <3>1 DEF Growing
  <2>5. CASE stack' = <<>>
    BY <2>3, <2>5 DEF Growing
  <2> QED
    BY <1>3, <2>4, <2>5
\* A cell is made.
<1>4. ASSUME NEW id \in DOMAIN db[module], NEW ref \in Sn, Create(id, ref), UNCHANGED <<db, module>>,
             NEW n, n = NextSn,
             \A k \in 1 .. Len(stack) : stack[k].sn # 0 => k \in 1 .. Len(stack') /\ stack'[k] = stack[k],
             \A k \in 1 .. Len(stack') :
               (k \in 1 .. Len(stack) /\ stack'[k] = stack[k]) \/ stack'[k].sn = n,
             E(id).tag \in Aggregate => \E k \in 1 .. Len(stack') : stack'[k].sn = n
      PROVE  Growing' /\ Grown'
  <2>a. Create(id, ref) /\ UNCHANGED <<db, module>> /\ n = NextSn
    BY <1>4
  <2>1. /\ Made' = Made \union {n}
        /\ Cell(n)'.tag = E(id).tag /\ Cell(n)'.members = <<>>
        /\ \A k \in Sn : Cell(k)' = Cell(k)
    BY <2>a, CreatedCell
  <2>2. Growing'
    <3>1. ASSUME NEW k \in 1 .. Len(stack'), stack'[k].sn # 0
          PROVE  Prefix(Cell(stack[k].sn), module, E(stack[k].id))'
      <4>1. CASE k \in 1 .. Len(stack) /\ stack'[k] = stack[k]
        <5>1. Cell(stack[k].sn)' = Cell(stack[k].sn)
          <6>1. PICK j : j = stack[k].sn
            OBVIOUS
          <6>2. j \in Sn
            BY <1>0, <1>b, <3>1, <4>1, <6>1
          <6>3. Cell(j)' = Cell(j)
            BY <2>1, <6>2
          <6> QED
            BY <4>1, <6>1, <6>3 DEF Cell
        <5> QED
          BY <1>1, <1>4, <3>1, <4>1, <5>1
      <4>2. CASE stack'[k].sn = n
        <5>1. Cell(stack[k].sn)'.members = <<>>
          BY <2>1, <4>2 DEF Cell
        <5>2. ASSUME NEW i \in 1 .. Len(Cell(stack[k].sn)'.members) PROVE FALSE
          BY <5>1, <5>2
        <5> QED
          BY <5>2 DEF Prefix
      <4> QED
        BY <1>4, <4>1, <4>2
    <3> QED
      BY <3>1 DEF Growing
  <2>3. Grown'
    <3>1. ASSUME NEW k \in Made', Cell(k)'.tag \in Aggregate
          PROVE  Finished(k)' \/ \E j \in 1 .. Len(stack') : stack'[j].sn = k
      <4>1. CASE k \in Made
        <5>1. Cell(k)' = Cell(k) /\ k # 0
          BY <1>0, <2>1, <4>1, Basics
        <5>2. \A j \in 1 .. Len(stack) : stack[j].sn = k => j \in 1 .. Len(stack') /\ stack'[j] = stack[j]
          BY <1>4, <5>1
        <5> QED
          BY <1>2, <3>1, <4>1, <5>1, <5>2
      <4>2. CASE k = n
        BY <1>4, <2>1, <3>1, <4>2
      <4> QED
        BY <2>1, <4>1, <4>2
    <3> QED
      BY <3>1 DEF Grown
  <2> QED
    BY <2>2, <2>3
<1>5. ASSUME NEW id \in DOMAIN db[module], AggregateCall(id) PROVE Growing' /\ Grown'
  <2>1. PICK n : n = NextSn
    OBVIOUS
  <2>2. /\ Len(stack') = Len(stack) + 1 /\ \A k \in 1 .. Len(stack) : stack'[k] = stack[k]
        /\ stack'[Len(stack) + 1].sn = n
    BY <1>5, <2>1, AggregatePush
  <2>3. Create(id, VoidSn) /\ VoidSn \in Sn /\ UNCHANGED <<db, module>>
    BY <1>5, Makers
  <2>4. \A k \in 1 .. Len(stack') : (k \in 1 .. Len(stack) /\ stack'[k] = stack[k]) \/ stack'[k].sn = n
    BY <1>0, <2>2
  <2>5. \E k \in 1 .. Len(stack') : stack'[k].sn = n
    BY <1>0, <2>2
  <2>6. \A k \in 1 .. Len(stack) : k \in 1 .. Len(stack') /\ stack'[k] = stack[k]
    BY <1>0, <2>2
  <2> QED
    BY <1>4, <2>1, <2>3, <2>4, <2>5, <2>6
<1>6. ASSUME NEW id \in DOMAIN db[module], VoidPointer(id) PROVE Growing' /\ Grown'
  <2>1. PICK n : n = NextSn
    OBVIOUS
  <2>2. stack' = stack /\ E(id).tag \notin Aggregate
    BY <1>6 DEF VoidPointer, Aggregate
  <2>3. Create(id, VoidSn) /\ VoidSn \in Sn /\ UNCHANGED <<db, module>>
    BY <1>6, Makers
  <2> QED
    BY <1>4, <2>1, <2>2, <2>3
<1>7. ASSUME NEW id \in DOMAIN db[module], DerivedCall(id) PROVE Growing' /\ Grown'
  <2>1. /\ Len(stack') = Len(stack) + 1 /\ \A k \in 1 .. Len(stack) : stack'[k] = stack[k]
        /\ stack'[Len(stack) + 1].sn = 0 /\ UNCHANGED <<module, typeCellVec>>
    BY <1>7, DerivedPush
  <2>2. \A k \in 1 .. Len(stack') : k \in 1 .. Len(stack) \/ stack'[k].sn = 0
    BY <1>0, <2>1
  <2>3. \A k \in 1 .. Len(stack) : k \in 1 .. Len(stack')
    BY <1>0, <2>1
  <2> QED
    BY <1>3, <2>1, <2>2, <2>3
<1>8. ASSUME NEW id \in DOMAIN db[module], Enter(id) PROVE Growing' /\ Grown'
  <2>1. CASE Known(id) \/ Preset(id) \/ VoidOrFunction(id)
    BY <1>3, <2>1 DEF Known, Preset, VoidOrFunction, input
  <2> QED
    BY <1>5, <1>6, <1>7, <1>8, <2>1 DEF Enter
<1>9. CASE DerivedReturn
  <2>1. PICK id, n : id = Last(stack).id /\ n = NextSn
    OBVIOUS
  <2>2. /\ Len(stack) \in 1 .. Len(stack) /\ stack[Len(stack)].sn = 0 /\ stack[Len(stack)].id = id
        /\ id \in DOMAIN db[module] /\ Create(id, at.arg) /\ UNCHANGED <<db, module>> /\ at.arg \in Sn
        /\ Len(stack') = Len(stack) - 1 /\ \A k \in 1 .. Len(stack) - 1 : stack'[k] = stack[k]
    BY <1>9, <2>1, DerivedPop
  <2>3. E(id).tag \notin Aggregate
    BY <2>2 DEF Kinds, Kind, Derived, Aggregate
  <2>4. \A k \in 1 .. Len(stack') : k \in 1 .. Len(stack) /\ stack'[k] = stack[k]
    BY <1>0, <2>2
  <2>5. ASSUME NEW k \in 1 .. Len(stack), stack[k].sn # 0 PROVE k \in 1 .. Len(stack') /\ stack'[k] = stack[k]
    BY <1>0, <2>2, <2>5
  <2>6. ASSUME NEW ref, ref = at.arg PROVE Growing' /\ Grown'
    BY <1>4, <2>1, <2>2, <2>3, <2>4, <2>5, <2>6
  <2> QED
    BY <2>6
<1>10. CASE MemberReturn
  <2>1. PICK id, sn : id = Last(stack).id /\ sn = Last(stack).sn
    OBVIOUS
  <2>2. /\ Len(stack) \in 1 .. Len(stack) /\ stack[Len(stack)].sn = sn /\ stack[Len(stack)].id = id
        /\ id \in DOMAIN db[module] /\ sn # 0 /\ UNCHANGED <<db, module>>
        /\ \/ stack' = stack
           \/ /\ Len(Cell(sn).members) + 1 = Len(E(id).members)
              /\ Len(stack') = Len(stack) - 1 /\ \A k \in 1 .. Len(stack) - 1 : stack'[k] = stack[k]
    BY <1>10, <2>1, MemberPop
  <2>3. /\ Made' = Made /\ \A n \in Sn : n # sn => Cell(n)' = Cell(n)
        /\ Cell(sn)'.name = Cell(sn).name /\ Cell(sn)'.tag = Cell(sn).tag
        /\ Len(Cell(sn)'.members) = Len(Cell(sn).members) + 1
    BY <1>10, <2>1, MemberAppended
  <2>4. Prefix(Cell(sn), module, E(id))'
    BY <1>0, <1>10, <2>1, NextMember
  <2>5. \A k \in 1 .. Len(stack) - 1 : stack[k].sn # sn
    BY <1>0, <2>2 DEF Inv, Frames
  <2>6. \A k \in 1 .. Len(stack') : k \in 1 .. Len(stack) /\ stack'[k] = stack[k]
    BY <1>0, <2>2
  <2>7. Growing'
    <3>1. ASSUME NEW k \in 1 .. Len(stack'), stack'[k].sn # 0
          PROVE  Prefix(Cell(stack[k].sn), module, E(stack[k].id))'
      <4>1. k \in 1 .. Len(stack) /\ stack'[k] = stack[k] /\ stack[k].sn # 0
        BY <2>6, <3>1
      <4>2. CASE k = Len(stack)
        <5>1. stack'[k].sn = sn /\ stack'[k].id = id
          BY <2>2, <4>1, <4>2
        <5> QED
          BY <2>4, <5>1 DEF Prefix, Copied, Cell, E
      <4>3. CASE k # Len(stack)
        <5>1. PICK j : j = stack[k].sn
          OBVIOUS
        <5>2. j \in Sn /\ j # sn
          BY <1>0, <1>b, <2>5, <4>1, <4>3, <5>1
        <5>3. Cell(stack[k].sn)' = Cell(stack[k].sn)
          BY <2>3, <4>1, <5>1, <5>2 DEF Cell
        <5> QED
          BY <1>1, <2>2, <4>1, <5>3
      <4> QED
        BY <4>2, <4>3
    <3> QED
      BY <3>1 DEF Growing
  <2>8. Grown'
    <3>1. ASSUME NEW k \in Made', Cell(k)'.tag \in Aggregate
          PROVE  Finished(k)' \/ \E j \in 1 .. Len(stack') : stack'[j].sn = k
      <4>1. CASE k # sn
        <5>1. k \in Made /\ Cell(k)' = Cell(k)
          BY <1>0, <2>3, <3>1, <4>1
        <5>2. \A j \in 1 .. Len(stack) : stack[j].sn = k => j \in 1 .. Len(stack') /\ stack'[j] = stack[j]
          BY <1>0, <2>2, <4>1
        <5> QED
          BY <1>2, <3>1, <5>1, <5>2
      <4>2. CASE k = sn /\ stack' = stack
        BY <2>2, <4>2
      <4>3. CASE k = sn /\ Len(Cell(sn).members) + 1 = Len(E(id).members)
        <5>1. PICK m, e : m = module /\ e = E(id)
          OBVIOUS
        <5>2. /\ m \in Module' /\ db'[m] = db[m] /\ db[m][id] = e /\ id \in DOMAIN db[m]
          BY <1>a, <2>2, <5>1, Basics DEF E
        <5>3. Prefix(Cell(k), m, db[m][id])'
          <6>1. module' = m /\ E(id)' = db'[m][id]
            BY <2>2, <5>1 DEF E
          <6> QED
            BY <2>4, <4>3, <6>1 DEF Prefix, Copied, Cell
        <5>4. Cell(sn).name = e.name /\ Cell(sn).tag = e.tag
          BY <2>2, <5>1 DEF Kinds, Kind
        <5>5. Len(Cell(k)'.members) = Len(e.members) /\ Cell(k)'.name = e.name /\ Cell(k)'.tag = e.tag
          BY <2>3, <4>3, <5>1, <5>4 DEF Cell
        <5>6. Finished(k)'
          BY <5>2, <5>3, <5>5 DEF Finished
        <5> QED
          BY <5>6
      <4> QED
        BY <2>2, <4>1, <4>2, <4>3
    <3> QED
      BY <3>1 DEF Grown
  <2> QED
    BY <2>7, <2>8
<1>11. CASE UNCHANGED vars
  BY <1>3, <1>11 DEF vars, input
<1>12. CASE (\E id \in todo : NextType(id)) \/ NextModule \/ TypeDone
  BY <1>3, <1>12, LoopStep
<1> QED
  BY <1>8, <1>9, <1>10, <1>11, <1>12 DEF Next

-----------------------------------------------------------------------------
\* Pointers and arrays alone come back to no name.
LEMMA NoLoop ==
  ASSUME Inv, NamesTellAll, NEW f, NEW a \in Nat, NEW b \in Nat, a < b,
         \A p \in a .. b : f[p] \in DOMAIN db[module] /\ E(f[p]).tag \in Derived,
         \A p \in a .. b - 1 : E(f[p]).ref = f[p + 1],
         E(f[a]).name = E(f[b]).name
  PROVE  FALSE
<1> DEFINE S == {id \in DOMAIN db[module] : \E p \in a .. b - 1 : E(id).name = E(f[p]).name}
<1>1. f[a] \in S /\ S \in SUBSET DOMAIN db[module]
  OBVIOUS
<1>2. WellFounded(db[module]) /\ module \in Module
  BY Basics DEF WellFormed
<1>3. PICK id \in S : db[module][id].tag \notin Derived \/ db[module][id].ref \notin S
  <2> HIDE DEF S
  <2> QED
    BY <1>1, <1>2 DEF WellFounded
<1>4. PICK p \in a .. b - 1 : E(id).name = E(f[p]).name
  OBVIOUS
<1>5. /\ p \in a .. b /\ p + 1 \in a .. b /\ f[p] \in DOMAIN db[module] /\ f[p + 1] \in DOMAIN db[module]
      /\ E(f[p]).ref = f[p + 1] /\ E(f[p]).tag \in Derived /\ E(f[p + 1]).tag \in Derived
  <2>1. p \in a .. b /\ p + 1 \in a .. b
    OBVIOUS
  <2> QED
    BY <2>1
<1>6. \A x \in DOMAIN db[module] : x # 0
  BY <1>2, Basics DEF WellFormed
<1>7. E(id).tag \in Derived /\ ReferName(db[module], f[p]) = ReferName(db[module], id)
  <2>1. id \in DOMAIN db[module] /\ db[module][f[p]].name = db[module][id].name /\ db[module][f[p]].tag \in Derived
    BY <1>4, <1>5 DEF E
  <2>2. db[module][f[p]].tag = db[module][id].tag
        /\ ReferName(db[module], f[p]) = ReferName(db[module], id)
    BY <1>2, <1>5, <2>1, Tells
  <2> QED
    BY <2>1, <2>2 DEF E
<1>8. ReferName(db[module], f[p]) = E(f[p + 1]).name
  BY <1>5, <1>6 DEF ReferName, E
<1>9. E(f[p + 1]).name # VoidName
  <2>1. db[module][f[p + 1]].name # VoidName
    BY <1>2, <1>5, Tells DEF E
  <2> QED
    BY <2>1 DEF E
<1>10. E(id).ref # 0 /\ E(E(id).ref).name = E(f[p + 1]).name
  BY <1>7, <1>8, <1>9 DEF ReferName, E
<1>11. E(id).ref \in DOMAIN db[module]
  BY <1>10, Entry DEF Inv
<1>12. \E q \in a .. b - 1 : E(f[p + 1]).name = E(f[q]).name
  <2>1. CASE p + 1 = b
    <3>1. a \in a .. b - 1
      OBVIOUS
    <3> QED
      BY <2>1, <3>1
  <2>2. CASE p + 1 # b
    <3>1. p + 1 \in a .. b - 1
      BY <2>2
    <3> QED
      BY <3>1
  <2> QED
    BY <2>1, <2>2
<1>13. E(id).ref \in S
  BY <1>10, <1>11, <1>12
<1> QED
  BY <1>3, <1>7, <1>13 DEF E

\* A frame of a pointer or an array.
LEMMA PendingFrame ==
  ASSUME Inv, Kinds, NEW k \in 1 .. Len(stack), stack[k].sn = 0
  PROVE  /\ stack[k].id \in DOMAIN db[module] /\ E(stack[k].id).tag \in Derived /\ E(stack[k].id).ref # 0
         /\ Callee(k) = E(stack[k].id).ref
BY Basics DEF Kinds, Kind, Callee

\* A pointer is not called a third time while its twins wait.
LEMMA Third ==
  ASSUME Inv, NamesTellAll, Kinds, Chain, Twins, NEW id \in DOMAIN db[module], at = Call(id),
         E(id).tag \in Derived, NEW j \in 1 .. Len(stack), NEW k \in 1 .. Len(stack), Twin(j, k),
         TypeName(k) = E(id).name
  PROVE  FALSE
<1> DEFINE l == Len(stack) + 1  f == [p \in k .. l |-> IF p = l THEN id ELSE stack[p].id]
<1>1. l \in Nat /\ k \in Nat /\ k < l /\ l - 1 = Len(stack) /\ stack # <<>>
  BY SMTT(60), Basics
<1>2. \A p \in k .. l - 1 : stack[p].sn = 0 /\ p \in 1 .. Len(stack)
  BY <1>1 DEF Twins
<1>3. \A p \in k .. l - 1 : f[p] = stack[p].id
  BY <1>1
<1>4. f[l] = id
  BY <1>1
<1>5. \A p \in k .. l - 1 : stack[p].id \in DOMAIN db[module] /\ E(stack[p].id).tag \in Derived
                           /\ Callee(p) = E(stack[p].id).ref
  BY <1>2, PendingFrame
<1>6. Callee(l - 1) = id
  BY <1>1 DEF Chain, Awaited, Call
<1>7. \A p \in k .. l - 2 : stack[p + 1].id = Callee(p)
  BY <1>1 DEF Chain
<1> HIDE DEF f
<1> HIDE DEF l
<1>8. \A p \in k .. l : f[p] \in DOMAIN db[module] /\ E(f[p]).tag \in Derived
  <2> SUFFICES ASSUME NEW p \in k .. l PROVE f[p] \in DOMAIN db[module] /\ E(f[p]).tag \in Derived
    OBVIOUS
  <2>1. p = l \/ p \in k .. l - 1
    BY <1>1
  <2> QED
    BY <1>3, <1>4, <1>5, <2>1
<1>9. \A p \in k .. l - 1 : E(f[p]).ref = f[p + 1]
  <2> SUFFICES ASSUME NEW p \in k .. l - 1 PROVE E(f[p]).ref = f[p + 1]
    OBVIOUS
  <2>1. p = l - 1 \/ p \in k .. l - 2
    BY <1>1
  <2>2. CASE p = l - 1
    <3>1. p + 1 = l
      BY <1>1, <2>2
    <3> QED
      BY <1>3, <1>4, <1>5, <1>6, <2>2, <3>1
  <2>3. CASE p \in k .. l - 2
    <3>1. p + 1 \in k .. l - 1
      BY <1>1, <2>3
    <3> QED
      BY <1>3, <1>5, <1>7, <2>3, <3>1
  <2> QED
    BY <2>1, <2>2, <2>3
<1>10. E(f[k]).name = E(f[l]).name
  BY <1>1, <1>3, <1>4 DEF TypeName
<1> QED
  BY <1>1, <1>8, <1>9, <1>10, NoLoop

\* Types of one name refer to types of one name.
LEMMA NextName ==
  ASSUME Inv, NamesTellAll, Kinds, NEW id \in DOMAIN db[module], E(id).tag \in Derived, E(id).ref # 0,
         NEW q \in 1 .. Len(stack), TypeName(q) = E(id).name
  PROVE  /\ stack[q].sn = 0 /\ E(E(id).ref).name = E(Callee(q)).name
<1>1. module \in Module /\ stack[q].id \in DOMAIN db[module] /\ Kind(stack[q].id, stack[q].sn)
  BY Basics DEF Kinds
<1>2. PICK x : x = stack[q].id
  OBVIOUS
<1>3. /\ E(x).tag = E(id).tag /\ ReferName(db[module], id) = ReferName(db[module], x)
  <2>1. db[module][id].name = db[module][x].name /\ db[module][id].tag \in Derived /\ x \in DOMAIN db[module]
    BY <1>1, <1>2 DEF TypeName, E
  <2>2. /\ db[module][id].tag = db[module][x].tag
        /\ ReferName(db[module], id) = ReferName(db[module], x)
    BY <1>1, <2>1, Tells
  <2> QED
    BY <2>2 DEF E
<1>4. stack[q].sn = 0
  BY <1>1, <1>2, <1>3 DEF Kind, Derived, Aggregate
<1>5. E(x).ref # 0 /\ Callee(q) = E(x).ref
  BY <1>2, <1>4, PendingFrame
<1> QED
  BY <1>3, <1>4, <1>5 DEF ReferName, E

LEMMA TwinsStep ==
  ASSUME Inv, NamesTellAll, Sourced, Kinds, Chain, Chain', Twins, [Next]_vars
  PROVE  Twins'
<1>0. Len(stack) \in Nat
  BY Basics
<1>a. \A x, y : Call(x).op = "call" /\ Call(x).arg = x /\ Return(y).op = "return" /\ Return(y).arg = y
  BY DEF Call, Return
<1>b. \A j, k \in 1 .. Len(stack) : Twin(j, k) =>
    /\ \A p \in k .. Len(stack) : stack[p].sn = 0 /\ TypeName(p) = TypeName(p - k + j)
    /\ at.op = "call" => E(at.arg).name = TypeName(Len(stack) + 1 - k + j)
  BY DEF Twins
<1>c. ASSUME UNCHANGED <<db, module>>, NEW k, stack'[k] = stack[k] PROVE TypeName(k)' = TypeName(k)
  BY <1>c DEF TypeName, E
\* Nothing is pushed, and the step does not end in a call.
<1>1. ASSUME UNCHANGED <<db, module>>, \A k \in 1 .. Len(stack') : k \in 1 .. Len(stack) /\ stack'[k] = stack[k],
             Len(stack') \in Nat, Len(stack') <= Len(stack), at'.op = "return"
      PROVE  Twins'
  <2>1. \A k \in 1 .. Len(stack') : TypeName(k)' = TypeName(k)
    BY <1>1, <1>c
  <2>2. ASSUME NEW j \in 1 .. Len(stack'), NEW k \in 1 .. Len(stack'), Twin(j, k)',
               NEW p \in k .. Len(stack')
        PROVE  stack'[p].sn = 0 /\ TypeName(p)' = TypeName(p - k + j)'
    <3>1. Twin(j, k) /\ j < k /\ j \in 1 .. Len(stack) /\ k \in 1 .. Len(stack) /\ p \in k .. Len(stack)
      BY <1>1, <2>1, <2>2 DEF Twin
    <3>2. stack[p].sn = 0 /\ TypeName(p) = TypeName(p - k + j)
      BY <1>b, <3>1
    <3>3. p \in 1 .. Len(stack') /\ p - k + j \in 1 .. Len(stack')
      BY <1>1, <2>2, <3>1
    <3> QED
      BY <1>1, <2>1, <3>2, <3>3
  <2> QED
    BY <1>1, <2>2 DEF Twins
\* No frame has a twin.
<1>2. ASSUME \A j, k \in 1 .. Len(stack') : ~ Twin(j, k)'
      PROVE  Twins'
  BY <1>2 DEF Twins
<1>3. ASSUME NEW id \in DOMAIN db[module], DerivedCall(id) PROVE Twins'
  <2>1. PICK l, x : l = Len(stack) + 1 /\ x = E(id).ref
    OBVIOUS
  <2>2. /\ Len(stack') = l /\ \A k \in 1 .. Len(stack) : stack'[k] = stack[k]
        /\ stack'[l].id = id /\ stack'[l].sn = 0 /\ at = Call(id) /\ at' = Call(x)
        /\ UNCHANGED <<db, module>> /\ E(id).tag \in Derived /\ x # 0
    BY <1>3, <2>1, DerivedPush
  <2>3. \A k \in 1 .. Len(stack) : TypeName(k)' = TypeName(k)
    BY <1>c, <2>2
  <2>4. TypeName(l)' = E(id).name /\ E(at.arg)' = E(x) /\ at'.op = "call" /\ E(at.arg) = E(id) /\ at.op = "call"
    BY <1>a, <2>2 DEF TypeName, E
  <2>5. ASSUME NEW q \in 1 .. Len(stack), TypeName(q) = E(id).name
        PROVE  stack[q].sn = 0 /\ TypeName(q + 1)' = E(x).name
    <3>1. stack[q].sn = 0 /\ E(x).name = E(Callee(q)).name
      BY <2>1, <2>2, <2>5, NextName
    <3>2. stack'[q + 1].id = Callee(q)'
      <4>1. q \in 1 .. Len(stack') - 1
        BY <1>0, <2>1, <2>2
      <4> QED
        BY <4>1 DEF Chain
    <3>3. Callee(q)' = Callee(q)
      BY <2>2, <3>1 DEF Callee, E
    <3> QED
      BY <2>2, <3>1, <3>2, <3>3 DEF TypeName, E
  <2>6. ASSUME NEW j \in 1 .. Len(stack'), NEW k \in 1 .. Len(stack'), Twin(j, k)'
        PROVE  /\ \A p \in k .. Len(stack') : stack'[p].sn = 0 /\ TypeName(p)' = TypeName(p - k + j)'
               /\ E(x).name = TypeName(l + 1 - k + j)'
    <3>1. j < k /\ j \in 1 .. Len(stack) /\ stack'[j] = stack[j]
      BY <1>0, <2>1, <2>2, <2>6 DEF Twin
    <3>2. CASE k = l
      <4>1. TypeName(j) = E(id).name
        BY <2>3, <2>4, <2>6, <3>1, <3>2 DEF Twin
      <4>2. TypeName(j + 1)' = E(x).name
        BY <2>5, <3>1, <4>1
      <4>3. l + 1 - k + j = j + 1 /\ l - k + j = j
        BY <1>0, <2>1, <2>2, <3>1, <3>2
      <4>4. \A p \in k .. Len(stack') : p = l
        BY <1>0, <2>1, <2>2, <3>2
      <4> QED
        BY <2>2, <2>3, <2>4, <3>1, <4>1, <4>2, <4>3, <4>4
    <3>3. CASE k # l
      <4>1. k \in 1 .. Len(stack) /\ Twin(j, k)
        <5>1. k \in 1 .. Len(stack)
          BY <1>0, <2>1, <2>2, <3>3
        <5> QED
          BY <2>2, <2>3, <2>6, <3>1, <5>1 DEF Twin
      <4>2. PICK q : q = Len(stack) + 1 - k + j
        OBVIOUS
      <4>3. q \in 1 .. Len(stack) /\ q = l - k + j /\ l + 1 - k + j = q + 1
        BY <1>0, <2>1, <2>2, <3>1, <4>1, <4>2
      <4>4. TypeName(q) = E(id).name
        BY <1>b, <2>4, <3>1, <4>1, <4>2
      <4>5. TypeName(q + 1)' = E(x).name
        BY <2>5, <4>3, <4>4
      <4>6. ASSUME NEW p \in k .. Len(stack')
            PROVE  stack'[p].sn = 0 /\ TypeName(p)' = TypeName(p - k + j)'
        <5>1. CASE p = l
          BY <2>2, <2>3, <2>4, <4>3, <4>4, <5>1
        <5>2. CASE p # l
          <6>1. p \in k .. Len(stack) /\ p \in 1 .. Len(stack) /\ p - k + j \in 1 .. Len(stack)
            BY <1>0, <2>1, <2>2, <3>1, <4>1, <5>2
          <6>2. stack[p].sn = 0 /\ TypeName(p) = TypeName(p - k + j)
            BY <1>b, <3>1, <4>1, <6>1
          <6> QED
            BY <2>2, <2>3, <6>1, <6>2
        <5> QED
          BY <5>1, <5>2
      <4> QED
        BY <4>3, <4>5, <4>6
    <3> QED
      BY <3>2, <3>3
  <2>7. Len(stack)' = l
    BY <2>2
  <2> QED
    BY <2>4, <2>6, <2>7 DEF Twins
<1>4. ASSUME NEW id \in DOMAIN db[module], AggregateCall(id) PROVE Twins'
  <2>1. PICK l, n : l = Len(stack) + 1 /\ n = NextSn
    OBVIOUS
  <2>2. /\ Len(stack') = l /\ \A k \in 1 .. Len(stack) : stack'[k] = stack[k]
        /\ stack'[l].sn = n
    BY <1>4, <2>1, AggregatePush
  <2>3. at = Call(id) /\ E(id).name \notin DOMAIN typeNameMap /\ UNCHANGED <<db, module>> /\ E(id).tag \in Aggregate
    BY <1>4, Makers DEF AggregateCall
  <2>4. n # 0
    BY <2>1, Basics
  <2>5. ASSUME NEW j \in 1 .. Len(stack'), NEW k \in 1 .. Len(stack'), Twin(j, k)' PROVE FALSE
    <3>1. j < k /\ k # l
      BY <2>2, <2>4, <2>5 DEF Twin
    <3>2. j \in 1 .. Len(stack) /\ k \in 1 .. Len(stack)
      BY <1>0, <2>1, <2>2, <3>1
    <3>3. Twin(j, k)
      BY <1>c, <2>2, <2>3, <2>5, <3>2 DEF Twin
    <3>4. PICK q : q = Len(stack) + 1 - k + j
      OBVIOUS
    <3>5. q \in 1 .. Len(stack)
      BY <1>0, <3>1, <3>2, <3>4
    <3>6. TypeName(q) = E(id).name
      BY <1>a, <1>b, <2>3, <3>2, <3>3, <3>4
    <3>7. stack[q].id \in DOMAIN db[module] /\ module \in Module /\ Kind(stack[q].id, stack[q].sn)
      BY <3>5, Basics DEF Kinds
    <3>8. E(stack[q].id).tag = E(id).tag
      <4>1. PICK x : x = stack[q].id
        OBVIOUS
      <4>2. db[module][x].name = db[module][id].name /\ x \in DOMAIN db[module]
        BY <3>6, <3>7, <4>1 DEF TypeName, E
      <4>3. db[module][x].tag = db[module][id].tag
        BY <3>7, <4>2, Tells
      <4> QED
        BY <4>1, <4>3 DEF E
    <3>9. stack[q].sn \in Made /\ Cell(stack[q].sn).name = E(id).name
      BY <2>3, <3>6, <3>7, <3>8 DEF Kind, Derived, Aggregate, TypeName
    <3> QED
      BY <2>3, <3>9 DEF Sourced
  <2> QED
    BY <1>2, <2>5
<1>5. ASSUME NEW id \in DOMAIN db[module], Enter(id) PROVE Twins'
  <2>1. CASE Known(id) \/ Preset(id) \/ VoidOrFunction(id) \/ VoidPointer(id)
    <3>1. UNCHANGED <<db, module, stack>> /\ at'.op = "return"
      BY <1>a, <2>1 DEF Known, Preset, VoidOrFunction, VoidPointer, input
    <3> QED
      BY <1>0, <1>1, <3>1
  <2> QED
    BY <1>3, <1>4, <1>5, <2>1 DEF Enter
<1>6. CASE DerivedReturn
  <2>1. PICK id, n : id = Last(stack).id /\ n = NextSn
    OBVIOUS
  <2>2. /\ Len(stack) \in 1 .. Len(stack) /\ UNCHANGED <<db, module>>
        /\ Len(stack') = Len(stack) - 1 /\ \A k \in 1 .. Len(stack) - 1 : stack'[k] = stack[k]
        /\ at' = Return(n)
    BY <1>6, <2>1, DerivedPop
  <2>3. Len(stack') \in Nat /\ Len(stack') <= Len(stack) /\ \A k \in 1 .. Len(stack') : k \in 1 .. Len(stack) /\ stack'[k] = stack[k]
    BY <1>0, <2>2
  <2> QED
    BY <1>1, <1>a, <2>2, <2>3
<1>7. CASE MemberReturn
  <2>1. PICK id, sn : id = Last(stack).id /\ sn = Last(stack).sn
    OBVIOUS
  <2>2. /\ Len(stack) \in 1 .. Len(stack) /\ stack[Len(stack)].sn = sn
        /\ sn # 0 /\ UNCHANGED <<db, module>>
        /\ \/ stack' = stack
           \/ Len(stack') = Len(stack) - 1 /\ \A k \in 1 .. Len(stack) - 1 : stack'[k] = stack[k]
    BY <1>7, <2>1, MemberPop
  <2>3. \A k \in 1 .. Len(stack') : k \in 1 .. Len(stack) /\ stack'[k] = stack[k]
    BY <1>0, <2>2
  <2>4. ASSUME NEW j \in 1 .. Len(stack'), NEW k \in 1 .. Len(stack'), Twin(j, k)' PROVE FALSE
    <3>1. j \in 1 .. Len(stack) /\ k \in 1 .. Len(stack) /\ Twin(j, k)
      BY <1>c, <2>2, <2>3, <2>4 DEF Twin
    <3>2. Len(stack) \in k .. Len(stack)
      BY <1>0, <2>2, <3>1
    <3> QED
      BY <1>b, <2>2, <3>1, <3>2
  <2> QED
    BY <1>2, <2>4
<1>8. CASE UNCHANGED vars
  <2>1. Twins' = Twins
    BY <1>8 DEF vars, input, Twins, Twin, TypeName, E
  <2> QED
    BY <2>1
<1>9. CASE (\E id \in todo : NextType(id)) \/ NextModule \/ TypeDone
  <2>1. stack' = <<>>
    BY <1>9, LoopStep
  <2>2. \A j \in 1 .. Len(stack') : FALSE
    BY <2>1
  <2> QED
    BY <1>2, <2>2
<1> QED
  BY <1>5, <1>6, <1>7, <1>8, <1>9 DEF Next

-----------------------------------------------------------------------------
LEMMA SlotsStep ==
  ASSUME Inv, NamesTellAll, Sourced, Kinds, Chain, Twins, AtMostTwo, [Next]_vars
  PROVE  AtMostTwo'
<1>0. Kept /\ Made \subseteq Sn /\ Len(stack) \in Nat /\ \A n \in Made : n \in Nat /\ n >= 15
  BY Shape, Basics, SMTT(60)
<1>a. Names' = Names
  BY <1>0 DEF Kept, Names
<1>b. ASSUME UNCHANGED <<db, module>>, NEW k, stack'[k] = stack[k] PROVE TypeName(k)' = TypeName(k)
  BY <1>b DEF TypeName, E
<1>c. \A n \in Made : Cell(n)'.name = Cell(n).name /\ Cell(n)'.tag = Cell(n).tag
  BY <1>0 DEF Kept
\* A name of which nothing is made and nothing is pushed.
<1>1. ASSUME NEW name \in Names,
             \A n \in Made' : n \in Made \/ Cell(n)'.tag \notin Derived \/ Cell(n)'.name # name,
             \A k \in 1 .. Len(stack') : (k \in 1 .. Len(stack) /\ stack'[k] = stack[k] /\ UNCHANGED <<db, module>>)
                                          \/ stack'[k].sn # 0 \/ TypeName(k)' # name
      PROVE  \E a, b \in Int : Holds(name, a, b)'
  <2>1. PICK a, b \in Int : Holds(name, a, b)
    BY <1>1 DEF AtMostTwo
  <2>2. ASSUME NEW n \in Made', Cell(n)'.tag \in Derived, Cell(n)'.name = name PROVE n \in {a, b}
    BY <1>1, <1>c, <2>1, <2>2 DEF Holds
  <2>3. ASSUME NEW k \in 1 .. Len(stack'), stack'[k].sn = 0, TypeName(k)' = name PROVE - k \in {a, b}
    <3>1. k \in 1 .. Len(stack) /\ stack'[k] = stack[k] /\ UNCHANGED <<db, module>>
      BY <1>1, <2>3
    <3>2. stack[k].sn = 0 /\ TypeName(k) = name
      BY <1>b, <2>3, <3>1
    <3> QED
      BY <2>1, <3>1, <3>2 DEF Holds
  <2>4. Holds(name, a, b)'
    BY <2>2, <2>3 DEF Holds
  <2> QED
    BY <2>4
\* Before a pointer or an array is called there is at most one frame of it.
<1>2. ASSUME NEW id \in DOMAIN db[module], at = Call(id), E(id).tag \in Derived,
             E(id).name \notin DOMAIN typeNameMap, NEW name, name = E(id).name
      PROVE  /\ \A n \in Made : Cell(n).name # name
             /\ \E a \in Int : \A k \in 1 .. Len(stack) : stack[k].sn = 0 /\ TypeName(k) = name => - k = a
  <2>1. \A n \in Made : Cell(n).name # name
    BY <1>2 DEF Sourced
  <2>2. \A j, k \in 1 .. Len(stack) : ~ (Twin(j, k) /\ TypeName(k) = name)
    BY <1>2, Third
  <2>3. \A j, k \in 1 .. Len(stack) :
           stack[j].sn = 0 /\ TypeName(j) = name /\ stack[k].sn = 0 /\ TypeName(k) = name => j = k
    BY <1>0, <2>2 DEF Twin
  <2>4. CASE \E k \in 1 .. Len(stack) : stack[k].sn = 0 /\ TypeName(k) = name
    <3>1. PICK k \in 1 .. Len(stack) : stack[k].sn = 0 /\ TypeName(k) = name
      BY <2>4
    <3>2. PICK a \in Int : a = - k
      BY <1>0
    <3>3. \A j \in 1 .. Len(stack) : stack[j].sn = 0 /\ TypeName(j) = name => - j = a
      BY <2>3, <3>1, <3>2
    <3> QED
      BY <2>1, <3>3
  <2>5. CASE ~ \E k \in 1 .. Len(stack) : stack[k].sn = 0 /\ TypeName(k) = name
    <3>1. 0 \in Int /\ \A k \in 1 .. Len(stack) : stack[k].sn = 0 /\ TypeName(k) = name => - k = 0
      BY <2>5
    <3> QED
      BY <2>1, <3>1
  <2> QED
    BY <2>4, <2>5
<1>3. ASSUME NEW id \in DOMAIN db[module], DerivedCall(id) PROVE AtMostTwo'
  <2>1. PICK l : l = Len(stack) + 1
    OBVIOUS
  <2>2. /\ Len(stack') = l /\ \A k \in 1 .. Len(stack) : stack'[k] = stack[k]
        /\ stack'[l].id = id /\ stack'[l].sn = 0 /\ at = Call(id)
        /\ UNCHANGED <<db, module, typeCellVec>> /\ E(id).tag \in Derived /\ E(id).name \notin DOMAIN typeNameMap
    BY <1>3, <2>1, DerivedPush
  <2>3. Made' = Made /\ \A k \in 1 .. Len(stack') : k = l \/ (k \in 1 .. Len(stack) /\ stack'[k] = stack[k])
    BY <1>0, <2>1, <2>2 DEF Made, NextSn
  <2>4. TypeName(l)' = E(id).name
    BY <2>2 DEF TypeName, E
  <2>5. ASSUME NEW name \in Names, name # E(id).name PROVE \E a, b \in Int : Holds(name, a, b)'
    BY <1>1, <2>2, <2>3, <2>4, <2>5
  <2>6. ASSUME NEW name \in Names, name = E(id).name PROVE \E a, b \in Int : Holds(name, a, b)'
    <3>1. /\ \A n \in Made : Cell(n).name # name
          /\ \E a \in Int : \A k \in 1 .. Len(stack) : stack[k].sn = 0 /\ TypeName(k) = name => - k = a
      <4>1. at = Call(id) /\ E(id).tag \in Derived /\ E(id).name \notin DOMAIN typeNameMap /\ name = E(id).name
        BY <2>2, <2>6
      <4> QED
        BY <1>2, <4>1, ZenonT(60)
    <3>2. PICK a \in Int : \A k \in 1 .. Len(stack) : stack[k].sn = 0 /\ TypeName(k) = name => - k = a
      BY <3>1
    <3>3. PICK b \in Int : b = - l
      BY <1>0, <2>1
    <3>4. \A n \in Made' : Cell(n)'.name # name
      BY <1>c, <2>3, <3>1
    <3>5. ASSUME NEW k \in 1 .. Len(stack'), stack'[k].sn = 0, TypeName(k)' = name PROVE - k \in {a, b}
      <4>1. CASE k = l
        BY <3>3, <4>1
      <4>2. CASE k \in 1 .. Len(stack) /\ stack'[k] = stack[k]
        <5>1. TypeName(k) = name
          BY <1>b, <2>2, <3>5, <4>2
        <5> QED
          BY <3>2, <3>5, <4>2, <5>1
      <4> QED
        BY <2>3, <4>1, <4>2
    <3>6. Holds(name, a, b)'
      BY <3>4, <3>5 DEF Holds
    <3> QED
      BY <3>6
  <2> QED
    BY <1>a, <2>5, <2>6 DEF AtMostTwo
<1>4. ASSUME NEW id \in DOMAIN db[module], VoidPointer(id) PROVE AtMostTwo'
  <2>1. PICK n : n = NextSn
    OBVIOUS
  <2>2. at = Call(id) /\ stack' = stack /\ E(id).tag \in Derived
    BY <1>4 DEF VoidPointer, New, Derived
  <2>3. Create(id, VoidSn) /\ VoidSn \in Sn /\ UNCHANGED <<db, module>> /\ E(id).name \notin DOMAIN typeNameMap
    BY <1>4, Makers
  <2>4. Made' = Made \union {n} /\ Cell(n)'.name = E(id).name
    BY <2>1, <2>3, CreatedCell
  <2>5. n \in Int
    BY <2>1, Basics
  <2>6. ASSUME NEW name \in Names, name # E(id).name PROVE \E a, b \in Int : Holds(name, a, b)'
    BY <1>1, <2>2, <2>3, <2>4, <2>6
  <2>7. ASSUME NEW name \in Names, name = E(id).name PROVE \E a, b \in Int : Holds(name, a, b)'
    <3>1. /\ \A k \in Made : Cell(k).name # name
          /\ \E a \in Int : \A k \in 1 .. Len(stack) : stack[k].sn = 0 /\ TypeName(k) = name => - k = a
      BY <1>2, <2>2, <2>3, <2>7, ZenonT(60)
    <3>2. PICK a \in Int : \A k \in 1 .. Len(stack) : stack[k].sn = 0 /\ TypeName(k) = name => - k = a
      BY <3>1
    <3>3. \A k \in Made' : Cell(k)'.name = name => k \in {a, n}
      BY <1>c, <2>4, <3>1
    <3>4. \A k \in 1 .. Len(stack') : stack'[k].sn = 0 /\ TypeName(k)' = name => - k \in {a, n}
      BY <1>b, <2>2, <2>3, <3>2
    <3>5. Holds(name, a, n)'
      BY <3>3, <3>4 DEF Holds
    <3> QED
      BY <2>5, <3>5
  <2> QED
    BY <1>a, <2>6, <2>7 DEF AtMostTwo
<1>5. CASE DerivedReturn
  <2>1. PICK id, n, l, ref : id = Last(stack).id /\ n = NextSn /\ l = Len(stack) /\ ref = at.arg
    OBVIOUS
  <2>2. /\ l \in 1 .. Len(stack) /\ stack[l].sn = 0 /\ stack[l].id = id
        /\ id \in DOMAIN db[module] /\ Create(id, ref) /\ UNCHANGED <<db, module>> /\ ref \in Sn
        /\ Len(stack') = l - 1 /\ \A k \in 1 .. l - 1 : stack'[k] = stack[k]
    BY <1>5, <2>1, DerivedPop
  <2>3. Made' = Made \union {n} /\ Cell(n)'.name = E(id).name
    BY ZenonT(60), <2>1, <2>2, CreatedCell
  <2>4. n \in Int /\ n >= 15
    BY <2>1, Basics
  <2>5. \A k \in 1 .. Len(stack') : k \in 1 .. Len(stack) /\ k # l /\ stack'[k] = stack[k]
    BY <1>0, <2>1, <2>2
  <2>6. ASSUME NEW name \in Names, name # E(id).name PROVE \E a, b \in Int : Holds(name, a, b)'
    BY <1>1, <2>2, <2>3, <2>5, <2>6
  <2>7. ASSUME NEW name \in Names, name = E(id).name PROVE \E a, b \in Int : Holds(name, a, b)'
    <3>1. PICK a, b \in Int : Holds(name, a, b)
      BY <2>7 DEF AtMostTwo
    <3>2. - l \in {a, b}
      BY <2>2, <2>7, <3>1 DEF Holds, TypeName
    <3>3. PICK c \in Int : \A x \in {a, b} : x = - l \/ x = c
      BY <3>1, <3>2
    <3>4. ASSUME NEW k \in Made', Cell(k)'.tag \in Derived, Cell(k)'.name = name PROVE k \in {c, n}
      <4>1. CASE k \in Made
        <5>1. k \in {a, b} /\ k # - l
          BY <1>0, <1>c, <2>1, <2>2, <3>1, <3>4, <4>1 DEF Holds
        <5> QED
          BY <3>3, <5>1
      <4> QED
        BY <2>3, <4>1
    <3>5. ASSUME NEW k \in 1 .. Len(stack'), stack'[k].sn = 0, TypeName(k)' = name PROVE - k \in {c, n}
      <4>1. TypeName(k) = name /\ stack[k].sn = 0 /\ k \in 1 .. Len(stack) /\ k # l
        BY <1>b, <2>2, <2>5, <3>5
      <4>2. - k \in {a, b} /\ - k # - l
        BY <2>2, <3>1, <4>1 DEF Holds
      <4> QED
        BY <3>3, <4>2
    <3>6. Holds(name, c, n)'
      BY <3>4, <3>5 DEF Holds
    <3> QED
      BY <2>4, <3>6
  <2> QED
    BY <1>a, <2>6, <2>7 DEF AtMostTwo
<1>6. ASSUME NEW id \in DOMAIN db[module], AggregateCall(id) PROVE AtMostTwo'
  <2>1. PICK n, l : n = NextSn /\ l = Len(stack) + 1
    OBVIOUS
  <2>2. /\ Len(stack') = l /\ \A k \in 1 .. Len(stack) : stack'[k] = stack[k]
        /\ stack'[l].sn = n
    BY <1>6, <2>1, AggregatePush
  <2>3. Create(id, VoidSn) /\ VoidSn \in Sn /\ UNCHANGED <<db, module>> /\ E(id).tag \notin Derived
    BY <1>6, Makers DEF AggregateCall, Derived, Aggregate
  <2>4. Made' = Made \union {n} /\ Cell(n)'.tag = E(id).tag
    BY <2>1, <2>3, CreatedCell
  <2>5. \A k \in 1 .. Len(stack') : (k \in 1 .. Len(stack) /\ stack'[k] = stack[k]) \/ k = l
    BY <1>0, <2>1, <2>2
  <2>6. n # 0
    BY <2>1, Basics
  <2>7. ASSUME NEW name \in Names PROVE \E a, b \in Int : Holds(name, a, b)'
    BY <1>1, <2>2, <2>3, <2>4, <2>5, <2>6, <2>7
  <2> QED
    BY <1>a, <2>7 DEF AtMostTwo
<1>7. ASSUME Made' = Made, stack' = <<>> \/
               (UNCHANGED <<db, module>> /\ \A k \in 1 .. Len(stack') : k \in 1 .. Len(stack) /\ stack'[k] = stack[k])
      PROVE  AtMostTwo'
  <2>1. stack' = <<>> => \A k \in 1 .. Len(stack') : FALSE
    OBVIOUS
  <2>2. \A name \in Names : \E a, b \in Int : Holds(name, a, b)'
    BY <1>1, <1>7, <2>1
  <2> QED
    BY <1>a, <2>2 DEF AtMostTwo
<1>8. ASSUME UNCHANGED typeCellVec PROVE Made' = Made
  BY <1>8 DEF Made, NextSn
<1>9. ASSUME NEW id \in DOMAIN db[module], Enter(id) PROVE AtMostTwo'
  <2>1. CASE Known(id) \/ Preset(id) \/ VoidOrFunction(id)
    <3>1. UNCHANGED <<db, module, stack, typeCellVec>>
      BY <2>1 DEF Known, Preset, VoidOrFunction, input
    <3> QED
      BY <1>7, <1>8, <3>1
  <2> QED
    BY <1>3, <1>4, <1>6, <1>9, <2>1 DEF Enter
<1>10. CASE MemberReturn
  <2>1. PICK id, sn : id = Last(stack).id /\ sn = Last(stack).sn
    OBVIOUS
  <2>2. /\ UNCHANGED <<db, module>>
        /\ \/ stack' = stack
           \/ Len(stack') = Len(stack) - 1 /\ \A k \in 1 .. Len(stack) - 1 : stack'[k] = stack[k]
    BY <1>10, <2>1, MemberPop
  <2>3. \A k \in 1 .. Len(stack') : k \in 1 .. Len(stack) /\ stack'[k] = stack[k]
    BY <1>0, <2>2
  <2>4. Made' = Made
    BY <1>10, <2>1, MemberAppended
  <2> QED
    BY <1>7, <2>2, <2>3, <2>4
<1>11. CASE UNCHANGED vars
  BY <1>7, <1>8, <1>11 DEF vars, input
<1>12. CASE (\E id \in todo : NextType(id)) \/ NextModule \/ TypeDone
  BY <1>7, <1>8, <1>12, LoopStep
<1> QED
  BY <1>5, <1>9, <1>10, <1>11, <1>12 DEF Next
-----------------------------------------------------------------------------
LEMMA MeaningStarts == Init => Meaning
<1> SUFFICES ASSUME Init PROVE Meaning
  OBVIOUS
<1>1. /\ stack = <<>> /\ typeNameMap = <<>> /\ at = Idle /\ module = 1
      /\ typeVecMap = [m \in 1 .. Len(db) |-> <<>>]
      /\ typeCellVec = [i \in 1 .. 15 |-> BaseCell(i - 1)]
  BY DEF Init, InitCells, BaseType
<1>2. Made = {}
  <2>1. Len(typeCellVec) = 15
    BY <1>1
  <2> QED
    BY <2>1 DEF Made, NextSn, BaseType
<1>3. \A k \in 1 .. Len(stack) : FALSE
  BY <1>1
<1>4. Named /\ Sourced /\ Once /\ References /\ Grown
  BY <1>1, <1>2 DEF Named, Sourced, Once, References, Grown
<1>5. MapFaithful
  BY <1>1 DEF MapFaithful, Module
<1>6. Kinds /\ Chain /\ Growing /\ Twins
  <2>1. Kinds
    BY <1>3 DEF Kinds
  <2>2. Chain
    <3>1. \A k \in 1 .. Len(stack) - 1 : FALSE
      BY <1>1
    <3> QED
      BY <1>1, <3>1 DEF Chain
  <2>3. Growing
    BY <1>3 DEF Growing
  <2>4. Twins
    BY <1>3 DEF Twins
  <2> QED
    BY <2>1, <2>2, <2>3, <2>4
<1>7. AtMostTwo
  <2>1. ASSUME NEW name PROVE Holds(name, 0, 0)
    BY <1>2, <1>3 DEF Holds
  <2> QED
    BY <2>1 DEF AtMostTwo
<1> QED
  BY <1>4, <1>5, <1>6, <1>7 DEF Meaning

LEMMA MeaningStep == NamesTellAll /\ Inv /\ Meaning /\ [Next]_vars => Meaning'
<1> SUFFICES ASSUME NamesTellAll, Inv, Meaning, [Next]_vars PROVE Meaning'
  OBVIOUS
<1>a. /\ Named /\ Sourced /\ Once /\ MapFaithful /\ Kinds /\ Chain
      /\ References /\ Growing /\ Grown /\ Twins /\ AtMostTwo
  BY DEF Meaning
<1>1. Named' /\ Sourced' /\ Once'
  BY <1>a, NamedStep
<1>2. Kinds'
  BY <1>a, KindsStep
<1>3. MapFaithful'
  BY <1>a, MapStep
<1>4. Chain'
  BY <1>a, ChainStep
<1>5. References'
  BY <1>a, ReferencesStep
<1>6. Growing' /\ Grown'
  BY <1>a, GrowStep
<1>7. Twins'
  BY <1>a, <1>4, TwinsStep
<1>8. AtMostTwo'
  BY <1>a, SlotsStep
<1> QED
  BY <1>1, <1>2, <1>3, <1>4, <1>5, <1>6, <1>7, <1>8 DEF Meaning

-----------------------------------------------------------------------------
\* The cells of initBaseType are of no structure, and the cell of a structure or
\* union was made for one with members.
Presets == \A n \in 0 .. 14 : Cell(n).tag \in {"VOID", "BASE"}
Filled ==
  \A n \in Made : Cell(n).tag \in Aggregate =>
    \E m \in Module : \E id \in DOMAIN db[m] :
      db[m][id].name = Cell(n).name /\ db[m][id].members # <<>>

LEMMA FilledStarts == Init => Presets /\ Filled
<1> SUFFICES ASSUME Init PROVE Presets /\ Filled
  OBVIOUS
<1>1. typeCellVec = [i \in 1 .. 15 |-> BaseCell(i - 1)]
  BY DEF Init, InitCells, BaseType
<1>2. Made = {}
  <2>1. Len(typeCellVec) = 15
    BY <1>1
  <2> QED
    BY <2>1 DEF Made, NextSn, BaseType
<1>3. ASSUME NEW n \in 0 .. 14 PROVE Cell(n).tag \in {"VOID", "BASE"}
  <2>1. n + 1 \in 1 .. 15 /\ n + 1 - 1 = n
    OBVIOUS
  <2>2. Cell(n) = BaseCell(n)
    BY <1>1, <2>1 DEF Cell
  <2> QED
    BY <2>2 DEF BaseCell
<1> QED
  BY <1>2, <1>3 DEF Presets, Filled

LEMMA FilledStep ==
  ASSUME Inv, Kinds, Presets, Filled, [Next]_vars
  PROVE  Presets' /\ Filled'
<1>1. Kept /\ Made \subseteq Sn /\ 0 .. 14 \subseteq Sn
  BY Shape, Basics
<1>2. Presets'
  BY <1>1 DEF Kept, Presets
<1>3. ASSUME NEW n \in Made, Cell(n)'.tag \in Aggregate
      PROVE  \E m \in Module' : \E id \in DOMAIN db'[m] :
               db'[m][id].name = Cell(n)'.name /\ db'[m][id].members # <<>>
  <2>1. Cell(n)'.name = Cell(n).name /\ Cell(n)'.tag = Cell(n).tag /\ db' = db /\ Module' = Module
    BY <1>1 DEF Kept
  <2>2. \E m \in Module : \E id \in DOMAIN db[m] :
          db[m][id].name = Cell(n).name /\ db[m][id].members # <<>>
    BY <1>3, <2>1 DEF Filled
  <2> QED
    BY <2>1, <2>2
<1>4. CASE MakesNone
  <2>1. Made' = Made
    BY <1>4 DEF MakesNone
  <2> QED
    BY <1>2, <1>3, <2>1 DEF Filled
<1>5. ASSUME NEW id \in DOMAIN db[module], NEW ref \in Sn, Makes(id, ref)
      PROVE  Filled'
  <2>1. PICK n : n = NextSn
    OBVIOUS
  <2>2. Made' = Made \union {n} /\ Cell(n)'.name = E(id).name /\ Cell(n)'.tag = E(id).tag
    BY <1>5, <2>1, CreatedCell, ZenonT(60) DEF Makes
  <2>3. E(id).tag \in Aggregate => E(id).members # <<>>
    BY <1>5 DEF Makes
  <2>4. module \in Module' /\ id \in DOMAIN db'[module] /\ db'[module][id] = E(id)
    BY <1>1, Basics DEF Kept, E
  <2> QED
    BY <1>3, <2>2, <2>3, <2>4 DEF Filled
<1> QED
  BY <1>2, <1>4, <1>5, Shape

-----------------------------------------------------------------------------
\* The entries of a name and a kind, as pairs.
LEMMA Source ==
  ASSUME NEW c, NEW m \in Module, NEW id \in DOMAIN db[m], db[m][id].name = c.name, db[m][id].tag = c.tag
  PROVE  <<m, id>> \in Sources(c)
  BY DEF Sources

LEMMA ReferencesMean == ASSUME Inv, References PROVE ReferencesFaithful
<1> SUFFICES ASSUME NEW n \in Made, Cell(n).tag \in Derived
             PROVE  \E s \in Sources(Cell(n)) :
                      LET e == db[s[1]][s[2]] IN ToUnion(s[1], e) \/ Refers(Cell(n), s[1], e)
  BY DEF ReferencesFaithful
<1>1. PICK m \in Module : \E id \in DOMAIN db[m] :
        /\ db[m][id].name = Cell(n).name /\ db[m][id].tag = Cell(n).tag
        /\ Leads(Cell(n), m, db[m][id])
  BY DEF References
<1>2. PICK id \in DOMAIN db[m] :
        /\ db[m][id].name = Cell(n).name /\ db[m][id].tag = Cell(n).tag
        /\ Leads(Cell(n), m, db[m][id])
  BY <1>1
<1>3. <<m, id>> \in Sources(Cell(n))
  BY <1>2, Source
<1>4. ToUnion(m, db[m][id]) \/ Refers(Cell(n), m, db[m][id])
  BY <1>2, Suited DEF Leads, ToUnion, Refers
<1> QED
  BY <1>3, <1>4

LEMMA MembersMean == ASSUME Inv, Kinds, Growing, Grown PROVE MembersFaithful
<1> SUFFICES ASSUME NEW n \in Made, Cell(n).tag \in Aggregate
             PROVE  \E s \in Sources(Cell(n)) :
                      LET e == db[s[1]][s[2]] IN
                      /\ Len(Cell(n).members) <= Len(e.members)
                      /\ Done => Len(Cell(n).members) = Len(e.members)
                      /\ \A i \in 1 .. Len(Cell(n).members) :
                           LET c == Cell(n).members[i]  m == e.members[i] IN
                           /\ db[s[1]][m.type].tag = "UNION" \/ Represents(c.type, db[s[1]][m.type])
                           /\ c.bit <=> m.bits # 0 /\ e.tag = "STRUCTURE"
                           /\ m.bits = 0 => c.loc = IF e.tag = "UNION" THEN 0 ELSE m.loc
  BY DEF MembersFaithful
<1>0. Len(Cell(n).members) \in Nat
  BY Basics, MembersTyped
<1>1. \E m \in Module : \E id \in DOMAIN db[m] :
        /\ db[m][id].name = Cell(n).name /\ db[m][id].tag = Cell(n).tag
        /\ Len(Cell(n).members) <= Len(db[m][id].members)
        /\ Done => Len(Cell(n).members) = Len(db[m][id].members)
        /\ Prefix(Cell(n), m, db[m][id])
  <2>1. CASE Finished(n)
    <3>1. PICK m \in Module : \E id \in DOMAIN db[m] :
            /\ db[m][id].name = Cell(n).name /\ db[m][id].tag = Cell(n).tag
            /\ Len(Cell(n).members) = Len(db[m][id].members) /\ Prefix(Cell(n), m, db[m][id])
      BY <2>1 DEF Finished
    <3> QED
      BY <1>0, <3>1
  <2>2. CASE \E k \in 1 .. Len(stack) : stack[k].sn = n
    <3>1. PICK k \in 1 .. Len(stack) : stack[k].sn = n
      BY <2>2
    <3>2. PICK id \in DOMAIN db[module] : id = stack[k].id
      BY Basics
    <3>3. n # 0 /\ module \in Module
      BY Basics
    <3>4. db[module][id].name = Cell(n).name /\ db[module][id].tag = Cell(n).tag
      BY <3>1, <3>2, <3>3 DEF Kinds, Kind, E
    <3>5. Len(Cell(n).members) < Len(db[module][id].members)
      BY <3>1, <3>2, <3>3 DEF Inv, Frames, Lacks, E
    <3>6. Prefix(Cell(n), module, db[module][id])
      BY <3>1, <3>2, <3>3 DEF Growing, E
    <3>7. ~ Done
      <4>1. stack # <<>>
        BY <3>1
      <4>2. \A x : Call(x) # Idle /\ Return(x) # Idle
        BY DEF Idle, Call, Return
      <4> QED
        BY <4>1, <4>2 DEF Inv, Control, Done
    <3>8. Len(db[module][id].members) \in Nat
      <4>1. E(id).members \in Seq(Member)
        BY Entry DEF Inv
      <4> QED
        BY <4>1 DEF E
    <3>9. Len(Cell(n).members) <= Len(db[module][id].members)
      BY <1>0, <3>5, <3>8
    <3> QED
      BY <3>3, <3>4, <3>6, <3>7, <3>9
  <2> QED
    BY <2>1, <2>2 DEF Grown
<1>2. PICK m \in Module : \E id \in DOMAIN db[m] :
        /\ db[m][id].name = Cell(n).name /\ db[m][id].tag = Cell(n).tag
        /\ Len(Cell(n).members) <= Len(db[m][id].members)
        /\ Done => Len(Cell(n).members) = Len(db[m][id].members)
        /\ Prefix(Cell(n), m, db[m][id])
  BY <1>1
<1>3. PICK id \in DOMAIN db[m] :
        /\ db[m][id].name = Cell(n).name /\ db[m][id].tag = Cell(n).tag
        /\ Len(Cell(n).members) <= Len(db[m][id].members)
        /\ Done => Len(Cell(n).members) = Len(db[m][id].members)
        /\ Prefix(Cell(n), m, db[m][id])
  BY <1>2
<1>4. <<m, id>> \in Sources(Cell(n))
  BY <1>3, Source
<1>5. PICK s : s = <<m, id>>
  OBVIOUS
<1>6. s \in Sources(Cell(n)) /\ db[s[1]][s[2]] = db[m][id] /\ db[s[1]] = db[m]
  BY <1>4, <1>5
<1>7. ASSUME NEW i \in 1 .. Len(Cell(n).members)
      PROVE  /\ \/ db[m][db[m][id].members[i].type].tag = "UNION"
                \/ Represents(Cell(n).members[i].type, db[m][db[m][id].members[i].type])
             /\ Cell(n).members[i].bit <=> db[m][id].members[i].bits # 0 /\ db[m][id].tag = "STRUCTURE"
             /\ db[m][id].members[i].bits = 0 =>
                  Cell(n).members[i].loc = IF db[m][id].tag = "UNION" THEN 0 ELSE db[m][id].members[i].loc
  <2>1. Copied(Cell(n), i, m, db[m][id])
    BY <1>3 DEF Prefix
  <2> QED
    BY <2>1, Suited DEF Copied
<1> QED
  BY ZenonT(60), <1>3, <1>6, <1>7

\* At most two of a pointer or an array, and one of a structure.
LEMMA FewCells == ASSUME Inv, Once, Sourced, AtMostTwo PROVE Merged
<1> SUFFICES ASSUME NEW n \in Made
             PROVE  Cardinality(CellsOf(Cell(n).name, Cell(n).tag)) <= IF Cell(n).tag \in Aggregate THEN 1 ELSE 2
  BY DEF Merged
<1>1. PICK S : S = CellsOf(Cell(n).name, Cell(n).tag)
  OBVIOUS
<1>2. CASE Cell(n).tag \in Aggregate
  <2>1. S = {n}
    BY <1>1, <1>2 DEF CellsOf, Once
  <2>2. Cardinality(S) = 1
    BY <2>1, FS_Singleton
  <2> QED
    BY <1>1, <1>2, <2>2
<1>3. CASE Cell(n).tag \notin Aggregate
  <2>1. Cell(n).tag \in Derived
    BY <1>3 DEF Sourced
  <2>2. Cell(n).name \in Names
    <3>1. typeCellVec \in Seq(CellRecord) /\ n + 1 \in 1 .. Len(typeCellVec)
      <4>1. n \in 15 .. NextSn - 1 /\ NextSn \in Nat
        BY Basics
      <4>2. typeCellVec \in Seq(CellRecord)
        BY DEF Inv, Cells
      <4> QED
        BY <4>1, <4>2 DEF NextSn
    <3>2. Cell(n) \in CellRecord
      BY <3>1 DEF Cell
    <3> QED
      BY <3>2 DEF CellRecord
  <2>3. PICK a, b \in Int : Holds(Cell(n).name, a, b)
    BY <2>2 DEF AtMostTwo
  <2>4. S \subseteq {a} \union {b}
    BY <1>1, <2>1, <2>3 DEF CellsOf, Holds
  <2>5. IsFiniteSet({a}) /\ Cardinality({a}) = 1
    BY FS_Singleton
  <2>6. IsFiniteSet({a} \union {b}) /\ Cardinality({a} \union {b}) <= 2
    BY <2>5, FS_AddElement
  <2>7. Cardinality(S) <= Cardinality({a} \union {b}) /\ Cardinality(S) \in Nat /\ Cardinality({a} \union {b}) \in Nat
    BY <2>4, <2>6, FS_Subset, FS_CardinalityType
  <2>8. Cardinality(S) <= 2
    BY <2>6, <2>7
  <2> QED
    BY <1>1, <1>3, <2>8
<1> QED
  BY <1>2, <1>3

\* Merging the types loses none and mixes up none (Linker::initTypeCells), for
\* any units in which equal names mean types of one kind: every ident gets a
\* cell that stands for its type, a cell refers to cells for what the type
\* refers to, has its members in order, and is made once, whatever the order
\* of the idents and wherever the types refer back to themselves.
THEOREM FaithfulTypes ==
  ASSUME \A d \in Databases : NamesTell(d)
  PROVE  Spec => []Faithful
<1>1. NamesTellAll
  BY DEF NamesTellAll
<1>2. Init => Meaning
  BY MeaningStarts
<1>3. Inv /\ Meaning /\ [Next]_vars => Meaning'
  BY <1>1, MeaningStep
<1>4. Spec => []Meaning
  BY <1>2, <1>3, Invariant, PTL DEF Spec
<1>5. Inv /\ Meaning => MapFaithful /\ ReferencesFaithful /\ MembersFaithful /\ Merged
  BY ReferencesMean, MembersMean, FewCells DEF Meaning
<1> QED
  BY <1>4, <1>5, Invariant, TypeCorrect, AllMapped, PTL DEF Faithful
-----------------------------------------------------------------------------
(***************************************************************************)
(* The attributes of the redundant types.                                  *)
(***************************************************************************)
Idents == UNION {{<<m, id>> : id \in DOMAIN db[m]} : m \in Module}
Redundant == UNION {{<<m, id>> : id \in redundantTypes[m]} : m \in Module}
Attrs == [s \in Idents |-> db[s[1]][s[2]].attrs]

Counted ==
  /\ \A m \in Module : redundantTypes[m] \subseteq DOMAIN db[m]
  /\ IsFiniteSet(Redundant)
  /\ redundantAttrs = Sum(Attrs, 0, Redundant)

LEMMA AttrNumbers ==
  ASSUME Control, NEW S, S \subseteq Idents
  PROVE  Numbers(Attrs, S)
<1>1. \A m \in Module : \A id \in DOMAIN db[m] : db[m][id].attrs \in Nat
  BY DatabaseAssumption DEF Control, WellFormed, WellFormedEntry, Module
<1>2. ASSUME NEW s \in Idents PROVE Attrs[s] \in Nat
  <2>1. PICK m \in Module : s \in {<<m, id>> : id \in DOMAIN db[m]}
    BY DEF Idents
  <2>2. PICK id \in DOMAIN db[m] : s = <<m, id>>
    BY <2>1
  <2>3. Attrs[s] = db[m][id].attrs
    BY <2>2 DEF Attrs
  <2> QED
    BY <1>1, <2>3
<1> QED
  BY <1>2 DEF Numbers

\* The sum that RedundantSum names.
LEMMA SumOfAttrs ==
  ASSUME Control, IsFiniteSet(Redundant), Redundant \subseteq Idents
  PROVE  MapThenSumSet(LAMBDA s : db[s[1]][s[2]].attrs, Redundant) = Sum(Attrs, 0, Redundant)
<1> DEFINE S == Redundant
           Solves(it) == it = [s \in SUBSET S |-> IF s = {} THEN 0
                                 ELSE db[First(s)[1]][First(s)[2]].attrs + it[s \ {First(s)}]]
           kt == CHOOSE it : Solves(it)
<1>1. MapThenSumSet(LAMBDA s : db[s[1]][s[2]].attrs, S) = kt[S]
  BY DEF MapThenSumSet, MapThenFoldSet, First
<1>2. ASSUME NEW it PROVE Solves(it) <=> Recurs(it, Attrs, 0, S)
  <2>1. ASSUME NEW s \in SUBSET S, s # {} PROVE Attrs[First(s)] = db[First(s)[1]][First(s)[2]].attrs
    <3>1. First(s) \in s
      BY <2>1 DEF First
    <3>2. First(s) \in Idents
      BY <3>1
    <3> QED
      BY <3>2 DEF Attrs
  <2>2. [s \in SUBSET S |-> IF s = {} THEN 0 ELSE db[First(s)[1]][First(s)[2]].attrs + it[s \ {First(s)}]]
          = [s \in SUBSET S |-> IF s = {} THEN 0 ELSE Attrs[First(s)] + it[s \ {First(s)}]]
    <3> HIDE DEF S
    <3> QED
      BY <2>1
  <2> QED
    BY <2>2 DEF Recurs
<1>3. Numbers(Attrs, S)
  BY AttrNumbers
<1>4. \E it : Solves(it)
  <2> HIDE DEF Solves, S
  <2>1. IsFiniteSet(S)
    BY DEF S
  <2> QED
    BY <1>2, <1>3, <2>1, Defined
<1>5. Solves(kt)
  <2> HIDE DEF Solves
  <2> QED
    BY <1>4
<1>6. Recurs(kt, Attrs, 0, S)
  <2> HIDE DEF Solves, kt, S
  <2> QED
    BY <1>2, <1>5
<1>7. kt[S] = Sum(Attrs, 0, S)
  <2>1. IsFiniteSet(S)
    OBVIOUS
  <2> HIDE DEF kt, S
  <2> QED
    BY <1>3, <1>6, <2>1, SumUnique
<1> QED
  BY <1>1, <1>7

LEMMA CountedStarts == Init => Counted
<1> SUFFICES ASSUME Init PROVE Counted
  OBVIOUS
<1>1. redundantTypes = [m \in Module |-> {}] /\ redundantAttrs = 0
  BY DEF Init, InitCells, Module
<1>2. Redundant = {}
  BY <1>1 DEF Redundant
<1>3. IsFiniteSet(Redundant) /\ Sum(Attrs, 0, Redundant) = 0
  BY <1>2, FS_EmptySet, SumEmpty
<1> QED
  BY <1>1, <1>3 DEF Counted

LEMMA CountedMore ==
  ASSUME Inv, Counted, NEW id \in DOMAIN db[module], CountRedundant(id), UNCHANGED <<db, module>>
  PROVE  Counted'
<1>0. module \in Module /\ redundantTypes \in [Module -> SUBSET Nat] /\ Module' = Module
  BY DEF Inv, Control, Counts, Module
<1>a. Idents' = Idents /\ Attrs' = Attrs
  BY <1>0 DEF Idents, Attrs
<1>1. CASE id \in redundantTypes[module]
  <2>1. UNCHANGED <<redundantTypes, redundantAttrs>>
    BY <1>1 DEF CountRedundant
  <2>2. Redundant' = Redundant
    BY <1>0, <2>1 DEF Redundant
  <2> QED
    BY <1>0, <1>a, <2>1, <2>2 DEF Counted
<1>2. CASE id \notin redundantTypes[module]
  <2> DEFINE a == <<module, id>>
  <2>1. /\ redundantAttrs' = redundantAttrs + E(id).attrs
        /\ redundantTypes' = [redundantTypes EXCEPT ![module] = @ \union {id}]
    BY <1>2 DEF CountRedundant
  <2>2. \A m \in Module : redundantTypes'[m] = IF m = module THEN redundantTypes[m] \union {id} ELSE redundantTypes[m]
    BY <1>0, <2>1
  <2>3. Redundant' = Redundant \union {a}
    <3>1. ASSUME NEW s \in Redundant' PROVE s \in Redundant \union {a}
      <4>1. PICK m \in Module : s \in {<<m, x>> : x \in redundantTypes'[m]}
        BY <1>0 DEF Redundant
      <4>2. PICK x \in redundantTypes'[m] : s = <<m, x>>
        BY <4>1
      <4>3. x \in redundantTypes[m] \/ (m = module /\ x = id)
        BY <2>2
      <4> QED
        BY <4>2, <4>3 DEF Redundant
    <3>2. ASSUME NEW s \in Redundant PROVE s \in Redundant'
      <4>1. PICK m \in Module : s \in {<<m, x>> : x \in redundantTypes[m]}
        BY DEF Redundant
      <4>2. s \in {<<m, x>> : x \in redundantTypes'[m]}
        BY <2>2, <4>1
      <4> QED
        BY <1>0, <4>2 DEF Redundant
    <3>3. a \in Redundant'
      <4>1. a \in {<<module, x>> : x \in redundantTypes'[module]}
        BY <1>0, <2>2
      <4> QED
        BY <1>0, <4>1 DEF Redundant
    <3> HIDE DEF a
    <3> QED
      BY <3>1, <3>2, <3>3
  <2>4. a \notin Redundant
    <3> SUFFICES ASSUME a \in Redundant PROVE FALSE
      OBVIOUS
    <3>1. PICK m \in Module : a \in {<<m, x>> : x \in redundantTypes[m]}
      BY DEF Redundant
    <3>2. PICK x \in redundantTypes[m] : a = <<m, x>>
      BY <3>1
    <3>3. m = module /\ x = id
      BY <3>2
    <3> QED
      BY <1>2, <3>3
  <2>5. a \in Idents /\ Attrs[a] = E(id).attrs
    <3>1. a \in {<<module, x>> : x \in DOMAIN db[module]}
      OBVIOUS
    <3>2. a \in Idents
      BY <1>0, <3>1 DEF Idents
    <3> QED
      BY <3>2 DEF Attrs, E
  <2>6. Redundant \subseteq Idents
    BY DEF Counted, Redundant, Idents
  <2> HIDE DEF a
  <2>7. IsFiniteSet(Redundant) /\ Numbers(Attrs, Redundant \union {a})
    BY <2>5, <2>6, AttrNumbers DEF Inv, Counted
  <2>8. Sum(Attrs, 0, Redundant \union {a}) = Sum(Attrs, 0, Redundant) + Attrs[a]
    BY <2>4, <2>7, SumAdds
  <2>9. IsFiniteSet(Redundant')
    BY <2>3, <2>7, FS_AddElement
  <2>10. redundantAttrs' = Sum(Attrs, 0, Redundant)'
    BY <1>a, <2>1, <2>3, <2>5, <2>8 DEF Counted
  <2>11. \A m \in Module : redundantTypes'[m] \subseteq DOMAIN db[m]
    BY <2>2 DEF Counted
  <2> QED
    BY <1>0, <2>9, <2>10, <2>11 DEF Counted
<1> QED
  BY <1>1, <1>2

LEMMA CountedStep == Inv /\ Counted /\ [Next]_vars => Counted'
<1> SUFFICES ASSUME Inv, Counted, [Next]_vars PROVE Counted'
  OBVIOUS
<1>1. ASSUME UNCHANGED <<db, redundantTypes, redundantAttrs>> PROVE Counted'
  <2>1. Module' = Module
    BY <1>1 DEF Module
  <2>2. Redundant' = Redundant /\ Attrs' = Attrs
    BY <1>1, <2>1 DEF Redundant, Attrs, Idents
  <2> QED
    BY <1>1, <2>1, <2>2 DEF Counted
<1>2. ASSUME NEW id \in DOMAIN db[module], Known(id) \/ Preset(id) PROVE Counted'
  <2>1. CountRedundant(id) /\ UNCHANGED <<db, module>>
    BY <1>2 DEF Known, Preset, input
  <2> QED
    BY <2>1, CountedMore
<1>3. ASSUME NEW id \in DOMAIN db[module], Enter(id) PROVE Counted'
  <2>1. CASE VoidOrFunction(id) \/ VoidPointer(id) \/ DerivedCall(id) \/ AggregateCall(id)
    BY <1>1, <2>1 DEF VoidOrFunction, VoidPointer, DerivedCall, AggregateCall, input
  <2> QED
    BY <1>2, <1>3, <2>1 DEF Enter
<1>4. CASE DerivedReturn \/ MemberReturn \/ UNCHANGED vars
  BY <1>1, <1>4 DEF DerivedReturn, MemberReturn, vars, input
<1>5. CASE (\E id \in todo : NextType(id)) \/ NextModule \/ TypeDone
  BY <1>1, <1>5, LoopStep
<1> QED
  BY <1>3, <1>4, <1>5 DEF Next

\* linkInfo.redundantTypeAttrs of initTypeCells: the attributes of every ident
\* that was found redundant are in the sum, once, although a type is reached
\* by its own turn and through any number of types that refer to it.
THEOREM RedundantOnce == Spec => []RedundantSum
<1>1. Spec => []Counted
  BY CountedStarts, CountedStep, Invariant, PTL DEF Spec
<1>2. Inv /\ Counted => RedundantSum
  <2> SUFFICES ASSUME Inv, Counted PROVE RedundantSum
    OBVIOUS
  <2>1. Redundant \subseteq Idents
    BY DEF Counted, Redundant, Idents
  <2>2. MapThenSumSet(LAMBDA s : db[s[1]][s[2]].attrs, Redundant) = redundantAttrs
    BY <2>1, SumOfAttrs DEF Inv, Counted
  <2> QED
    BY <2>2 DEF RedundantSum, Redundant
<1> QED
  BY <1>1, <1>2, Invariant, PTL
=============================================================================
