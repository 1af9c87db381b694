---------------------------- MODULE MCInference ----------------------------
(***************************************************************************)
(* Functions for TLC: seven graphs (two branches, one whose two edges lead *)
(* to one block, a loop, a loop that never ends, a loop entered at two     *)
(* places, one that does not come to its end), with a body in each block   *)
(* out of a few snippets that compilers write at -O0.  The frame is        *)
(*     push rbp; mov rbp, rsp; ...; leave; ret                             *)
(* or push rbp; mov rbp, rsp; sub rsp, 8; ...; add rsp, 8; pop rbp; ret    *)
(***************************************************************************)
EXTENDS Inference, SequencesExt

MCNode   == {"in", "a", "b", "c", "d", "out"}
MCNoNode == "-"
MCReg == {"al", "ah", "ax", "eax", "rax", "dl", "dx", "edx", "rdx", "edi", "rdi", "esi", "rsi",
          "r8", "rbp", "rsp", "rip", "xmm0", "xmm1", "fs", "none"}

I(id, op) == [id |-> id, op |-> op, next |-> 0]
\* At the end of block n the address behind the instruction is known.
At(insn, n) == [insn EXCEPT !.next = n]

eax == Reg("eax")
rax == Reg("rax")
edx == Reg("edx")
Local(d, n)  == Mem(NoReg, "rbp", NoReg, d, n)
Global(d, n) == Mem(NoReg, "rip", NoReg, d, n)
Deref(d, n)  == Mem(NoReg, "rax", NoReg, d, n)

Node_ == Aggregate("structure", 16, <<<<0, SInt(4)>>, <<8, Pointer(Void)>>>>)

Large == Aggregate("structure", 200, <<<<0, SInt(4)>>>>)

MCType == {SInt(4), SInt(8), UInt(4), UInt(16), Float(8), Void, Node_, Large,
           Pointer(Void), Pointer(SInt(4)), Pointer(Node_)}

\* CFA - 16 is where rbp points.
MCVars ==
  <<[id |-> 1, stack |-> TRUE, off |-> -20, type |-> SInt(4)],
    [id |-> 2, stack |-> TRUE, off |-> -32, type |-> Pointer(Node_)],
    [id |-> 3, stack |-> TRUE, off |-> -48, type |-> Node_],
    [id |-> 4, stack |-> FALSE, off |-> 0, type |-> SInt(8)]>>
MCParams == <<[id |-> 5, stack |-> TRUE, off |-> -56, type |-> Pointer(SInt(4))]>>
MCGlobals == <<[addr |-> 100, type |-> Float(8)], [addr |-> 108, type |-> Node_]>>
MCCallee ==
  (1 :> [dyn |-> TRUE, ret |-> Pointer(Void), params |-> <<UInt(4), Float(8)>>]) @@
  (2 :> [dyn |-> FALSE, ret |-> SInt(4), params |-> <<SInt(4), Pointer(Node_)>>]) @@
  (3 :> [dyn |-> FALSE, ret |-> UInt(16), params |-> <<Float(8), Node_>>]) @@
  (4 :> [dyn |-> FALSE, ret |-> Float(8), params |-> <<>>]) @@
  (5 :> [dyn |-> FALSE, ret |-> Large, params |-> <<>>]) @@
  (6 :> [dyn |-> TRUE, ret |-> Void, params |-> <<UInt(4), Pointer(Void)>>])

Call(t) == I("call", <<Imm(t, 8)>>)
Mov(o, q) == I("mov", <<o, q>>)
Cmp(r, q) == I("cmp", <<Reg(r), Reg(q)>>)

Snippet ==
  [Load    |-> <<Mov(eax, Local(-4, 4)), I("cdqe", <<>>), I("add", <<rax, Reg("rdx")>>)>>,
   Store   |-> <<Mov(Local(-4, 4), eax), I("cmp", <<Local(-4, 4), Imm(0, 4)>>)>>,
   Chase   |-> <<Mov(rax, Local(-16, 8)), Mov(edx, Deref(0, 4)), Mov(rax, Deref(8, 8))>>,
   Address |-> <<I("lea", <<rax, Local(-32, 8)>>), Mov(Deref(0, 4), edx), Mov(Reg("rsi"), rax)>>,
   UseLib  |-> <<Mov(Reg("edi"), Local(-4, 4)), Call(1), Mov(Local(-16, 8), rax)>>,
   UseOwn  |-> <<Mov(Reg("edi"), Local(-32, 4)), I("lea", <<Reg("rsi"), Local(-32, 8)>>), Call(2),
                I("logic", <<eax, eax>>)>>,
   Globals |-> <<At(Mov(edx, Global(36, 4)), 76), At(I("cmp", <<Reg("xmm0"), Global(20, 8)>>), 80),
                At(I("lea", <<rax, Global(20, 8)>>), 88), At(Mov(Reg("xmm0"), Global(20, 8)), 80)>>,
   Mixed   |-> <<I("movzx", <<eax, Reg("al")>>), I("add", <<eax, edx>>), I("cwde", <<>>),
                I("logic", <<eax, Imm(1, 4)>>), I("setcc", <<Reg("al")>>)>>,
   Floats  |-> <<I("fld", <<Local(-40, 8)>>), I("fist", <<Local(-4, 4)>>), Call(3), Call(4), Call(5),
                I("clobber", <<Reg("rdx")>>)>>,
   Odd     |-> <<I("cbw", <<>>), I("movsx", <<eax, Reg("al")>>), I("movsxd", <<rax, eax>>),
                I("cdq", <<>>), I("cmp", <<eax, Imm(5, 4)>>), Mov(rax, Mem("fs", NoReg, NoReg, 40, 8)),
                I("lea", <<Reg("rdx"), Deref(1, 8)>>), Mov(edx, Imm(7, 4))>>,
   Pushes  |-> <<I("push", <<rax>>), Mov(eax, Local(-4, 4)), I("pop", <<Reg("rdx")>>)>>,
   Arg     |-> <<Mov(Reg("edi"), Local(-4, 4))>>,
   Spoiled |-> <<I("clobber", <<Reg("edi")>>), Call(2)>>,
   \* Backward: two types join, two others, a union with a scalar, two unions.
   Unite   |-> <<Cmp("rax", "rdx"), Cmp("r8", "rax"), Cmp("rdx", "rdi"), Cmp("rsi", "rax"),
                I("cmp", <<Reg("r8"), Imm(5, 4)>>), I("cmp", <<Reg("rdx"), Imm(5, 4)>>),
                I("logic", <<Reg("rdi"), Imm(1, 4)>>), I("logic", <<rax, Imm(1, 4)>>), Call(6)>>,
   Nothing |-> <<I("nop", <<>>)>>]

Prologue == <<I("push", <<Reg("rbp")>>), Mov(Reg("rbp"), Reg("rsp"))>>
Framed   == <<I("sub", <<Reg("rsp"), Imm(8, 4)>>)>>
Leaves   == <<I("leave", <<>>), I("ret", <<>>)>>
Pops     == <<I("add", <<Reg("rsp"), Imm(8, 4)>>), I("pop", <<Reg("rbp")>>), I("ret", <<>>)>>

Branch    == [in |-> <<"a">>, a |-> <<"b", "c">>, b |-> <<"d">>, c |-> <<"d">>,
              d |-> <<"out">>, out |-> <<>>]
IfThen    == [in |-> <<"a">>, a |-> <<"b", "c">>, b |-> <<"c">>, c |-> <<"d">>,
              d |-> <<"out">>, out |-> <<>>]
Loop      == [in |-> <<"a">>, a |-> <<"b">>, b |-> <<"d", "c">>, c |-> <<"b">>,
              d |-> <<"out">>, out |-> <<>>]
Endless   == [in |-> <<"a">>, a |-> <<"b", "c">>, b |-> <<"d">>, c |-> <<"c">>,
              d |-> <<"out">>, out |-> <<>>]
\* c is dead code behind a call that does not return.
Aborts    == [in |-> <<"a">>, a |-> <<"b">>, b |-> <<>>, c |-> <<"d">>,
              d |-> <<"out">>, out |-> <<>>]
TwoEntries == [in |-> <<"a">>, a |-> <<"b", "c">>, b |-> <<"c">>, c |-> <<"b", "d">>,
               d |-> <<"out">>, out |-> <<>>]
\* a ends with a conditional jump to the next block.
Twice     == [in |-> <<"a">>, a |-> <<"b", "b">>, b |-> <<"c">>, c |-> <<"d">>,
              d |-> <<"out">>, out |-> <<>>]

\* The frame before and behind each instruction of a block that starts with c.
Depths(c, code) ==
  LET f[i \in 1 .. Len(code) + 1] ==
        IF i = 1 THEN c ELSE CHOOSE x \in {InsnCFA(y, code[i - 1]) : y \in {f[i - 1]}} : TRUE
  IN f

\* The predecessors of the blocks, one for each edge, those of the blocks in
\* `turned` the other way round; no block has more than two.
Preds(g, turned) ==
  LET times(a, b) == Cardinality({i \in DOMAIN g[a] : g[a][i] = b})
      from(b)     == SetToSeq(PredsOf([succs |-> g], b))
      one == [b \in Node |->
               FlattenSeq([i \in DOMAIN from(b) |-> [k \in 1 .. times(from(b)[i], b) |-> from(b)[i]]])]
  IN [b \in Node |-> IF b \in turned THEN Reverse(one[b]) ELSE one[b]]

Fun(g, preds, body, pops) ==
  LET code == [in  |-> <<>>,
               a   |-> Prologue \o (IF pops THEN Framed ELSE <<>>) \o body.a,
               b   |-> body.b, c |-> body.c,
               d   |-> body.d \o (IF pops THEN Pops ELSE Leaves),
               out |-> <<>>]
      a == Depths(InitCFA, code.a)
      top == a[Len(a)]
      d == Depths(top, code.d)
  IN [entry |-> "in", exit |-> "out", succs |-> g, preds |-> preds, code |-> code,
      depth |-> [in |-> <<InitCFA>>, a |-> a, b |-> Depths(top, code.b),
                 c |-> Depths(top, code.c), d |-> d, out |-> <<d[Len(d)]>>],
      vars |-> MCVars, params |-> MCParams, globals |-> MCGlobals, callee |-> MCCallee]

Bodies ==
  [a : {"Load", "Globals"}, b : {"Address", "UseLib", "Mixed"}, c : {"Store", "Chase"}, d : {"UseOwn"}]
  \union [a : {"Nothing"}, b : {"Floats"}, c : {"Pushes", "UseLib"}, d : {"Odd", "Load"}]
  \union [a : {"Arg"}, b : {"UseLib", "Nothing"}, c : {"Mixed"}, d : {"Spoiled"}]
  \union [a : {"Nothing"}, b : {"Unite"}, c : {"Unite"}, d : {"Load"}]
  \union [a : {"Address"}, b : {"Globals"}, c : {"Globals", "Odd"}, d : {"Globals", "Chase"}]

Shapes == [branch |-> Branch, ifthen |-> IfThen, loop |-> Loop, endless |-> Endless, entries |-> TwoEntries,
           aborts |-> Aborts, twice |-> Twice]

Turns(g) == SUBSET {b \in Node : Cardinality(PredsOf([succs |-> g], b)) = 2}

MCProgram ==
  UNION {{Fun(Shapes[shape], Preds(Shapes[shape], turned), [b \in DOMAIN body |-> Snippet[body[b]]],
              shape # "loop") : turned \in Turns(Shapes[shape]), body \in Bodies} :
           shape \in DOMAIN Shapes}
=============================================================================
