------------------------------ MODULE MCAsmCFG ------------------------------
(***************************************************************************)
(* Programs for TLC.  Instructions have two bytes, so that odd addresses   *)
(* are inside of one: every function of four instructions whose first      *)
(* three are jumps, calls, returns or others; functions with a switch, its *)
(* table followed by different words; and two functions that call each     *)
(* other.                                                                  *)
(***************************************************************************)
EXTENDS AsmCFG

Insn(id, target) == [id |-> id, target |-> target, disp |-> 0]
Plain(id) == Insn(id, 0)
Lea(d)    == [id |-> "lea", target |-> 0, disp |-> d]

\* The instructions from address a on.
Placed(a, insns) ==
  [i \in 1 .. Len(insns) |-> [id |-> insns[i].id, target |-> insns[i].target, disp |-> insns[i].disp,
                              addr |-> a + 2 * (i - 1), size |-> 2]]

\* Addresses 10, 12, 14, 16; 15 is inside of an instruction, 18 right behind
\* the function and 40 elsewhere.
Some == {Plain("other"), Plain("ret"), Insn("call", 40), Insn("jmp", 10), Insn("jmp", 16),
         Insn("jmp", 18), Insn("jcc", 12), Insn("jcc", 14), Insn("jcc", 16), Insn("jcc", 15)}
Short ==
  {[code |-> <<Placed(10, <<x, y, z, w>>)>>, words |-> <<>>, size |-> <<>>] :
     x \in Some, y \in Some, w \in {Plain("ret"), Plain("call")},
     z \in {Plain("other"), Insn("call", 40), Insn("jmp", 10), Insn("jcc", 16)}}

\* jcc default; lea rdx, table; add rax, rdx; jmp rax; case 1; case 2; ret.
\* The table is at add + disp = 14 + 86.
Switch(first, case) ==
  Placed(10, <<first, Lea(86), Plain("add"), Insn("jmprax", 100), case, Plain("other"), Plain("ret")>>)
Table(entries, behind) == [words |-> 100 :> entries \o behind, size |-> 100 :> Len(entries)]

Switches ==
  {[code |-> <<Switch(first, case)>>, words |-> t.words, size |-> t.size] :
     first \in {Insn("jcc", 20), Insn("jcc", 14), Insn("jmp", 16), Plain("other")},
     case \in {Insn("jmp", 22), Insn("jmp", 12), Plain("other")},
     t \in {Table(entries, behind) : entries \in {<<18, 20>>, <<20, 18, 20>>, <<20, 22, 18>>},
                                     behind \in {<<0>>, <<12, 0>>, <<19, 12>>}}}

\* A computed goto, and one that looks like a switch.
Gotos ==
  {[code |-> <<Placed(10, <<x, y, Insn("jmprax", 0), Plain("ret")>>)>>,
    words |-> 100 :> <<0>>, size |-> 100 :> 0] :
     x \in {Lea(88), Lea(0), Plain("other")}, y \in {Plain("add"), Plain("other")}}

Pairs ==
  {[code |-> <<Placed(10, <<x, y, Plain("ret")>>), Placed(20, <<z, Plain("ret")>>)>>,
    words |-> <<>>, size |-> <<>>] :
     x \in {Insn("call", 20), Insn("call", 10), Insn("jcc", 14)},
     y \in {Insn("call", 20), Insn("jmp", 20), Plain("other")},
     z \in {Insn("call", 10), Insn("call", 20), Insn("call", 0)}}
  \union {[code |-> <<Placed(10, <<Insn("call", 20)>>), Placed(20, <<Plain("ret")>>)>>,
           words |-> <<>>, size |-> <<>>]}

MCProgram == Short \union Switches \union Gotos \union Pairs
=============================================================================
