---------------------------- MODULE MCInfoLayout ----------------------------
(***************************************************************************)
(* Programs for InfoLayout: all pairs of cells after those of initBaseType *)
(* with one function, and one list of cells with all functions and all     *)
(* headers.                                                                *)
(***************************************************************************)
EXTENDS InfoLayout

Cell(tag, ref, bound, members) == [tag |-> tag, ref |-> ref, bound |-> bound, members |-> members]
BaseCells == <<Cell("VOID", 0, 0, <<>>)>> \o [i \in 1 .. 14 |-> Cell("BASE", 0, 0, <<>>)]
Member(type, bit, at) == [type |-> type, bit |-> bit, loc |-> at]

Refs == {0, 8, 15, 16}
NewCells ==
  {Cell("POINTER", r, 0, <<>>) : r \in Refs}
  \union {Cell("ARRAY", r, b, <<>>) : r \in {8, 15}, b \in {0, 200}}
  \union {Cell(t, 0, 0, <<Member(16, FALSE, 0)>>) : t \in {"STRUCTURE", "UNION"}}
  \union {Cell("STRUCTURE", 0, 0, <<Member(r, TRUE, 3), Member(8, FALSE, 20000)>>) : r \in {8, 15}}

Var(id, type, lowPC, range) ==
  [id |-> id, type |-> type, size |-> id, lowPC |-> lowPC, range |-> range]
Func(type, as, vs) == [lowPC |-> 10, range |-> 9, type |-> type, args |-> as, vars |-> vs]

Args == {<<>>, <<Var(1, 8, 10, 9)>>}
Vars == {<<>>, <<Var(2, 15, 10, 9)>>,
         <<Var(2, 8, 12, 4), Var(3, 16, 10, 9), Var(4, 8, 12, 2), Var(5, 15, 12, 4)>>}
Funcs == {Func(t, as, vs) : t \in {NoSn, 16}, as \in Args, vs \in Vars}

Headers ==
  [bitWidth : {32, 64}, version : {4}, unitType : {"none"}]
  \union [bitWidth : {32, 64}, version : {5}, unitType : {"compile", "skeleton", "type"}]
Header == [bitWidth |-> 32, version |-> 5, unitType |-> "compile"]

Program(h, cs, fs, gs) == [header |-> h, cells |-> BaseCells \o cs, functions |-> fs, globals |-> gs]
List == <<Cell("STRUCTURE", 0, 0, <<Member(8, FALSE, 0), Member(16, FALSE, 8)>>), Cell("POINTER", 15, 0, <<>>)>>
Two  == Func(8, <<Var(1, 15, 10, 9)>>, <<Var(2, 16, 11, 3)>>)

MCPrograms ==
  {Program(Header, <<c, d>>, <<Two>>, <<>>) : c, d \in NewCells}
  \union {Program(h, List, <<f, Two>>, <<Var(6, 16, 0, 0)>>) : h \in Headers, f \in Funcs}
=============================================================================
