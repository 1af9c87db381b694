------------------------------ MODULE InfoLayout ------------------------------
(***************************************************************************)
(* Linker::initDstInfoObject (lib/DWARFLinker/Linker.cpp) and the          *)
(* getInfoEntry functions it calls: the cells become the DIEs of the one   *)
(* compilation unit of the reduced debug info.                             *)
(*                                                                         *)
(* A DIE refers to a type by its offset in the unit, so the offsets are    *)
(* computed first, from the sizes of DIEs built before any offset is known *)
(* and thrown away; then all DIEs are built again, and later written one   *)
(* after the other.  Nothing checks that they land where they were placed. *)
(*                                                                         *)
(* A DIE is flat here: the sequence of its fields and those of its         *)
(* children in the order of InfoEntry::write.  A field is an abbreviation  *)
(* number or an attribute.                                                 *)
(***************************************************************************)
EXTENDS Integers, Sequences, SequencesExt, FiniteSetsExt

CONSTANTS
  Programs,  \* what startLink may have collected: types, functions, globals
  Limit      \* 2^32, the values a DW_FORM_ref4 or DW_FORM_data4 can hold

ASSUME LimitAssumption == Limit \in Nat \ {0}

NoSn == -1   \* no type
NoAbbrev == "none"
Skeleton == {"skeleton", "split_compile", "split_type"}

\* What the earlier steps hand over: cells of the kinds initTypeCells makes, with
\* references to cells, and variables that have a type.  The id of a variable is
\* the offset of its DIE, so those of a function differ.
WellFormed(p) ==
  LET Sn  == 0 .. Len(p.cells) - 1
      Var == [id : Nat, type : Sn, size : Nat, lowPC : Nat, range : Nat]
  IN
  /\ p.header.bitWidth \in {32, 64}
  /\ p.header.version \in {4, 5}
  /\ p.cells \in Seq([tag     : {"BASE", "VOID", "POINTER", "ARRAY", "STRUCTURE", "UNION"},
                      ref     : Sn,
                      bound   : Nat,
                      members : Seq([type : Sn, bit : BOOLEAN, loc : Nat])])
  /\ p.functions \in Seq([lowPC : Nat, range : Nat, type : Sn \union {NoSn},
                          args : Seq(Var), vars : Seq(Var)])
  /\ p.globals \in Seq(Var)
  /\ \A j \in DOMAIN p.functions :
       LET vs == p.functions[j].vars
       IN \A m, n \in DOMAIN vs : vs[m].id = vs[n].id => m = n

ASSUME ProgramsAssumption == \A p \in Programs : WellFormed(p)

VARIABLES
  prog,      \* [header, cells, functions, globals]
  pc,        \* the loop of initDstInfoObject, or of the later write
  k,         \* its index
  DWARFloc,  \* the offset given to the next type cell
  loc,       \* loc[n]: DWARFLoc of the n-th type cell, 0 before it is set
  children,  \* DIEs below the unit's top DIE
  length,    \* the length field of the unit
  offset,    \* where CompilationUnit::write writes next
  starts     \* starts[n]: where it wrote the n-th child

vars == <<prog, pc, k, DWARFloc, loc, children, length, offset, starts>>

PC == {"place", "types", "functions", "globals", "close", "header", "top", "write", "done"}

(***************************************************************************)
(* Fields.  `target` is the type a reference means, `data` what is written *)
(***************************************************************************)
Field(abbrev, size, target, data) ==
  [abbrev |-> abbrev, size |-> size, target |-> target, data |-> data]
Abbrev(a)     == Field(a, 1, NoSn, 0)     \* all numbers are below 128
Data(size, d) == Field(NoAbbrev, size, NoSn, d)
Ref4(sn)      == Field(NoAbbrev, 4, sn, 0)
End           == <<Abbrev("EndItem")>>

\* get_uint_length_leb128.
LebLength[n \in Nat] == IF n < 128 THEN 1 ELSE 1 + LebLength[n \div 128]
Udata(n) == Data(LebLength[n], n)

Size(die) == FoldSeq(+, 0, [i \in DOMAIN die |-> die[i].size])

\* The producer is a string with the 0 at its end.
Top == <<Abbrev("Producer"), Data(23, 0)>>

(***************************************************************************)
(* The getInfoEntry functions, without the values of the references.       *)
(***************************************************************************)
MemberShape(m) ==
  <<Abbrev(IF m.bit THEN "BitLocMemberTYPE" ELSE "ByteLocMemberTYPE"), Udata(m.loc), Ref4(m.type)>>
AggregateShape(abbrev, c) ==
  <<Abbrev(abbrev), Data(2, 0)>>
    \o FlattenSeq([i \in DOMAIN c.members |-> MemberShape(c.members[i])]) \o End
\* Mutant: a reference without an offset yet takes less room.
TypeShapeShort(c) ==
  CASE c.tag = "BASE"      -> <<Abbrev("BaseType"), Data(2, 0), Data(1, 0)>>
    [] c.tag = "POINTER"   -> <<Abbrev("PointerType"), Field(NoAbbrev, IF loc[c.ref + 1] = 0 THEN 1 ELSE 4, c.ref, 0)>>
    [] c.tag = "ARRAY"     -> <<Abbrev("ArrayType"), Ref4(c.ref), Udata(c.bound)>>
    [] c.tag = "VOID"      -> <<Abbrev("VoidTYPE")>>
    [] c.tag = "STRUCTURE" -> AggregateShape("StructTYPE", c)
    [] c.tag = "UNION"     -> AggregateShape("UnionType", c)
TypeShape(c) ==
  CASE c.tag = "BASE"      -> <<Abbrev("BaseType"), Data(2, 0), Data(1, 0)>>
    [] c.tag = "POINTER"   -> <<Abbrev("PointerType"), Ref4(c.ref)>>
    [] c.tag = "ARRAY"     -> <<Abbrev("ArrayType"), Ref4(c.ref), Udata(c.bound)>>
    [] c.tag = "VOID"      -> <<Abbrev("VoidTYPE")>>
    [] c.tag = "STRUCTURE" -> AggregateShape("StructTYPE", c)
    [] c.tag = "UNION"     -> AggregateShape("UnionType", c)

\* The location of a variable is copied, whatever its length; its content
\* stands for the variable.
VariableShape(v, abbrev) == <<Abbrev(abbrev), Data(v.size, v.id), Ref4(v.type)>>
Parameters(vs) == FlattenSeq([i \in DOMAIN vs |-> VariableShape(vs[i], "Parameter")])

\* Mutant: blocks that start at the same address are one.
RangeOfStart(v) == <<v.lowPC, 0>>
RangeOf(v) == <<v.lowPC, v.range>>
\* The variables of a range, in their order.
VariablesOf(vs, r) ==
  FlattenSeq([i \in DOMAIN vs |-> IF RangeOf(vs[i]) = r THEN VariableShape(vs[i], "Variable") ELSE <<>>])

\* Mutant: the block is not closed.
BlockShapeOpen(r, vs) == <<Abbrev("Block"), Data(4, r[1]), Data(4, r[2])>> \o VariablesOf(vs, r)
BlockShape(r, vs) == <<Abbrev("Block"), Data(4, r[1]), Data(4, r[2])>> \o VariablesOf(vs, r) \o End

\* blockCellMap is a std::map: the blocks come in the order of their ranges.
Before(r, s) == r[1] < s[1] \/ (r[1] = s[1] /\ r[2] < s[2])
InOrder(ranges) ==
  LET I == 1 .. Cardinality(ranges)
  IN CHOOSE s \in [I -> ranges] : \A i, j \in I : i < j => Before(s[i], s[j])
Blocks(f, vs) ==
  LET ranges == InOrder({RangeOf(vs[i]) : i \in DOMAIN vs} \ {RangeOf(f)})
  IN FlattenSeq([i \in DOMAIN ranges |-> BlockShape(ranges[i], vs)])

\* Parameters, then the variables with the range of the function, then one
\* block for each other range.
FunctionShape(f) ==
  LET void == f.type = NoSn
      sub  == f.args # <<>> \/ f.vars # <<>>
      abbrev == CASE sub /\ void   -> "FuncVoidWithSubNode"
                  [] sub /\ ~void  -> "FuncWithSubNode"
                  [] ~sub /\ void  -> "FuncVoidWithoutSubNode"
                  [] ~sub /\ ~void -> "FuncWithoutSubNode"
  IN <<Abbrev(abbrev), Data(4, f.lowPC), Data(4, f.range)>>
       \o (IF void THEN <<>> ELSE <<Ref4(f.type)>>)
       \o (IF sub THEN Parameters(f.args) \o VariablesOf(f.vars, RangeOf(f)) \o Blocks(f, f.vars) \o End
                  ELSE <<>>)

\* write_u32 of the DWARFLoc of the type.
InfoEntry(shape) ==
  [i \in DOMAIN shape |->
     [shape[i] EXCEPT !.data = IF shape[i].target = NoSn THEN @ ELSE loc[shape[i].target + 1] % Limit]]

(***************************************************************************)
(* The header: its size as get_unit_header_size has it, and the fields     *)
(* write_unit_header writes.                                               *)
(***************************************************************************)
HeaderSize(h) ==
  (CASE h.bitWidth = 32 /\ h.version = 4 -> 11
     [] h.bitWidth = 32 /\ h.version = 5 -> 12
     [] h.bitWidth = 64 /\ h.version = 4 -> 23
     [] h.bitWidth = 64 /\ h.version = 5 -> 24)
  + (IF h.version = 4 THEN 0
     ELSE IF h.unitType \in Skeleton THEN 8
     ELSE IF h.unitType = "type" THEN 16
     ELSE 0)
LengthSize(h) == IF h.bitWidth = 32 THEN 4 ELSE 12
HeaderFields(h) ==
  LET word == IF h.bitWidth = 64 THEN 8 ELSE 4 IN
  (IF h.bitWidth = 64 THEN <<4, 8>> ELSE <<4>>) \o <<2>>
    \o (IF h.version = 4 THEN <<word, 1>>
        ELSE <<1, 1, word>> \o (IF h.unitType \in Skeleton THEN <<8>>
                                ELSE IF h.unitType = "type" THEN <<8, 8>>
                                ELSE <<>>))

Cells == prog.cells

Init ==
  /\ prog \in Programs
  /\ pc = "place" /\ k = 1
  /\ DWARFloc = HeaderSize(prog.header) + Size(Top)
  /\ loc = [n \in 1 .. Len(Cells) |-> 0]
  /\ children = <<>> /\ length = 0 /\ offset = 0 /\ starts = <<>>

\* The loop at pc ends: k is one past its last index.
Leave(last, next) ==
  /\ k = last + 1
  /\ pc' = next /\ k' = 1
  /\ UNCHANGED <<prog, DWARFloc, loc, children, length, offset, starts>>

(***************************************************************************)
(* initDstInfoObject.                                                      *)
(***************************************************************************)
Place ==
  /\ pc = "place" /\ k <= Len(Cells)
  /\ loc' = [loc EXCEPT ![k] = DWARFloc]
  /\ DWARFloc' = DWARFloc + Size(InfoEntry(TypeShape(Cells[k])))
  /\ k' = k + 1
  /\ UNCHANGED <<prog, pc, children, length, offset, starts>>

Placed == pc = "place" /\ Leave(Len(Cells), "types")

Emit(l, shapes) ==
  /\ pc = l /\ k <= Len(shapes)
  /\ children' = Append(children, InfoEntry(shapes[k]))
  /\ k' = k + 1
  /\ UNCHANGED <<prog, pc, DWARFloc, loc, length, offset, starts>>

TypeShapes     == [n \in DOMAIN Cells |-> TypeShape(Cells[n])]
FunctionShapes == [n \in DOMAIN prog.functions |-> FunctionShape(prog.functions[n])]
GlobalShapes   == [n \in DOMAIN prog.globals |-> VariableShape(prog.globals[n], "Variable")]

EmitTypes == Emit("types", TypeShapes) \/ (pc = "types" /\ Leave(Len(TypeShapes), "functions"))
EmitFunctions ==
  Emit("functions", FunctionShapes) \/ (pc = "functions" /\ Leave(Len(FunctionShapes), "globals"))
EmitGlobals ==
  Emit("globals", GlobalShapes) \/ (pc = "globals" /\ Leave(Len(GlobalShapes), "close"))

\* The end item, and the length of what follows the length field.
Close ==
  /\ pc = "close"
  /\ children' = Append(children, End)
  /\ length' = HeaderSize(prog.header) + Size(Top) + Size(FlattenSeq(children')) - LengthSize(prog.header)
  /\ pc' = "header"
  /\ UNCHANGED <<prog, k, DWARFloc, loc, offset, starts>>

(***************************************************************************)
(* CompilationUnit::write.                                                 *)
(***************************************************************************)
WriteHeader ==
  /\ pc = "header"
  /\ offset' = FoldSeq(+, offset, HeaderFields(prog.header))
  /\ pc' = "top"
  /\ UNCHANGED <<prog, k, DWARFloc, loc, children, length, starts>>

WriteTop ==
  /\ pc = "top"
  /\ offset' = offset + Size(Top)
  /\ pc' = "write"
  /\ UNCHANGED <<prog, k, DWARFloc, loc, children, length, starts>>

WriteChild ==
  /\ pc = "write" /\ k <= Len(children)
  /\ starts' = Append(starts, offset)
  /\ offset' = offset + Size(children[k])
  /\ k' = k + 1
  /\ UNCHANGED <<prog, pc, DWARFloc, loc, children, length>>

Written == pc = "write" /\ Leave(Len(children), "done")

Next ==
  \/ Place \/ Placed
  \/ EmitTypes \/ EmitFunctions \/ EmitGlobals
  \/ Close
  \/ WriteHeader \/ WriteTop
  \/ WriteChild \/ Written
  \/ pc = "done" /\ UNCHANGED vars

Spec == Init /\ [][Next]_vars

(***************************************************************************)
(* Properties.                                                             *)
(***************************************************************************)
Abbrevs == {"FuncWithSubNode", "FuncVoidWithSubNode", "FuncWithoutSubNode", "FuncVoidWithoutSubNode",
            "Block", "Variable", "Parameter", "BaseType", "PointerType", "ArrayType", "VoidTYPE",
            "StructTYPE", "UnionType", "ByteLocMemberTYPE", "BitLocMemberTYPE", "EndItem"}
IsField(f) ==
  /\ DOMAIN f = {"abbrev", "size", "target", "data"}
  /\ f.abbrev \in Abbrevs \union {NoAbbrev} /\ f.size \in Nat /\ f.data \in Nat
  /\ f.target \in {NoSn} \union 0 .. Len(Cells) - 1

TypeOK ==
  /\ prog \in Programs /\ pc \in PC /\ k \in Nat \ {0}
  /\ DWARFloc \in Nat /\ loc \in [1 .. Len(Cells) -> Nat]
  /\ \A n \in DOMAIN children : \A i \in DOMAIN children[n] : IsField(children[n][i])
  /\ length \in Int /\ offset \in Nat /\ starts \in Seq(Nat)

\* Every reference, of a type, a variable or a function, holds the offset at
\* which the type it means was written, in the 32 bits of a DW_FORM_ref4: the
\* offsets computed from the DIEs of the first pass are those of the last.
RefsResolve ==
  pc = "done" =>
    \A n \in DOMAIN children : \A i \in DOMAIN children[n] :
       LET f == children[n][i] IN
       f.target # NoSn => f.data = starts[f.target + 1] % Limit

\* A reader that adds the length field to where the field ends, as the
\* constructor of CompilationUnit does, is where the writer stopped.
LengthExact == pc = "done" => offset = length + LengthSize(prog.header)

\* initAbbrevObject: the attributes of each abbreviation, and whether DIEs with
\* it have children.
Forms(a) ==
  CASE a \in {"FuncWithSubNode", "FuncWithoutSubNode"} -> <<"data4", "data4", "ref4">>
    [] a \in {"FuncVoidWithSubNode", "FuncVoidWithoutSubNode", "Block"} -> <<"data4", "data4">>
    [] a \in {"Variable", "Parameter"} -> <<"exprloc", "ref4">>
    [] a = "BaseType" -> <<"data2", "data1">>
    [] a = "PointerType" -> <<"ref4">>
    [] a = "ArrayType" -> <<"ref4", "udata">>
    [] a \in {"StructTYPE", "UnionType"} -> <<"data2">>
    [] a \in {"ByteLocMemberTYPE", "BitLocMemberTYPE"} -> <<"udata", "ref4">>
    [] a \in {"VoidTYPE", "EndItem"} -> <<>>
HasChildren == {"FuncWithSubNode", "FuncVoidWithSubNode", "StructTYPE", "UnionType", "Block"}

Fits(form, f) ==
  CASE form = "ref4"    -> f.size = 4 /\ f.target # NoSn
    [] form = "data4"   -> f.size = 4 /\ f.target = NoSn
    [] form = "data2"   -> f.size = 2
    [] form = "data1"   -> f.size = 1
    [] form = "udata"   -> f.size = LebLength[f.data] /\ f.target = NoSn
    [] OTHER            -> f.target = NoSn   \* exprloc

\* InfoEntry::init: the reader knows the fields and the children of a DIE only
\* from its abbreviation.  `want` are the attributes still to come.
Read(s, f) ==
  IF f.abbrev = NoAbbrev
    THEN [s EXCEPT !.ok = @ /\ s.want # <<>> /\ Fits(Head(s.want), f), !.want = Tail(@)]
    ELSE [ok    |-> s.ok /\ s.want = <<>> /\ s.depth > 0,
          want  |-> Forms(f.abbrev),
          depth |-> s.depth + (IF f.abbrev \in HasChildren THEN 1 ELSE 0)
                            - (IF f.abbrev = "EndItem" THEN 1 ELSE 0)]

\* What the linker writes can be read with the abbreviations it writes: every
\* attribute has the form the abbreviation announces, and the tree closes with
\* the last end item and not before.
Readable ==
  pc = "done" =>
    FoldLeft(Read, [ok |-> TRUE, want |-> <<>>, depth |-> 1], FlattenSeq(children))
      = [ok |-> TRUE, want |-> <<>>, depth |-> 0]

\* The constructor of CompilationUnit reads back the unit and its tree.
Decodable == TypeOK /\ LengthExact /\ Readable

\* The range of the innermost scope around field i of a function's DIE.
ScopeOf(d, i) ==
  LET open == {p \in 1 .. i - 1 :
                 d[p].abbrev = "Block" /\ \A q \in p .. i : d[q].abbrev # "EndItem"}
      p == IF open = {} THEN 1 ELSE Max(open)
  IN <<d[p + 1].data, d[p + 2].data>>

\* Each variable of a function is written exactly once, and in a scope with
\* its own range, although blocks of the source with equal ranges are merged
\* and the blocks are flattened into one level.
VariablesScoped ==
  pc = "done" =>
    \A j \in DOMAIN prog.functions :
       LET d == children[Len(Cells) + j]  vs == prog.functions[j].vars
           Places(v) == {i \in 1 .. Len(d) - 1 : d[i].abbrev = "Variable" /\ d[i + 1].data = v.id}
       IN \A n \in DOMAIN vs :
            /\ Cardinality(Places(vs[n])) = 1
            /\ \A i \in Places(vs[n]) : ScopeOf(d, i) = <<vs[n].lowPC, vs[n].range>>
===============================================================================
