---------------------------- MODULE MCCollection ----------------------------
(***************************************************************************)
(* Programs for Collection: a unit with an abstract variable, declarations,*)
(* a function with parameter, block and variables, a function in a         *)
(* namespace and a global variable, each in the forms that compilers give  *)
(* them, and a second unit.                                                *)
(***************************************************************************)
EXTENDS Collection, TLC

A(name, form, value) == [at |-> name, form |-> form, value |-> value]
Name(n) == A("name", "strp", n)
Type(t) == A("type", "ref4", t)
Orig(d) == A("abstract_origin", "ref4", d)
Decl(d) == A("specification", "ref4", d)
Low(x) == A("low_pc", "addr", x)
High(x) == A("high_pc", "data8", x)
At(kind, n) == A("location", "exprloc", [kind |-> kind, n |-> n])

D(tag, parent, attrs) == [tag |-> tag, parent |-> parent, attrs |-> attrs]

\* The DIEs of the first unit; 101 and 102 are its types.
UnitOf(f, p, b, v, g) ==
  [offset |-> 0, types |-> {101, 102},
   dies |-> <<D("compile_unit", 0, <<>>),
              D("variable", 1, <<Name("x"), Type(101)>>),
              D("subprogram", 1, <<Name("f"), Type(102)>>),
              D("subprogram", 1, f),
              D("formal_parameter", 4, p),
              D("lexical_block", 4, b),
              D("variable", 6, v),
              D("subprogram", 6, <<Name("inner"), Low(14), High(2)>>),
              D("variable", 8, <<Name("w"), Type(101), At("fbreg", -32)>>),
              D("variable", 4, <<Name("last"), Type(102), At("fbreg", -24)>>),
              D("namespace", 1, <<>>),
              D("subprogram", 11, <<Name("g"), Low(30), High(5)>>),
              D("variable", 1, g)>>]

Second == [offset |-> 50, types |-> {101},
           dies |-> <<D("compile_unit", 0, <<>>),
                      D("subprogram", 1, <<Name("h"), A("low_pc", "data4", 40), A("high_pc", "data4", 5), Type(101)>>),
                      D("variable", 2, <<Name("y"), Type(101), At("fbreg", -16)>>),
                      D("subprogram", 1, <<Name("f"), Low(10), High(8)>>)>>]

Functions == {<<Name("f"), Low(10), High(8), Type(102)>>, <<Decl(3), Low(10), High(8)>>,
              <<A("linkage_name", "strp", "_f"), Low(10), High(8)>>,
              <<Orig(3), Low(10), High(8)>>, <<Name("f"), Low(0), High(8)>>}
Parameters == {<<Name("p"), Type(101), At("fbreg", -20)>>, <<Orig(2), At("reg", 5)>>, <<Name("p"), Type(101)>>}
BlockAttrs == {<<>>, <<Low(12), High(3)>>, <<Low(12)>>}
Locals == {<<Name("v"), Type(102), At(k, -8)>> : k \in {"fbreg", "breg6", "fbreg_deref"}}
            \union {<<Orig(2), At("addr", 64)>>, <<Name("v"), Type(101)>>}
Globals == {<<Name("a"), Type(102), At("addr", 64)>>, <<Decl(2), At("addr", 64)>>, <<Name("a"), Type(102)>>,
            <<Name("a"), Type(102), At("addr", 64), A("linkage_name", "strx", "_a")>>,
            <<Name("a"), At("addr", 64), Decl(2)>>}

Fine == [f |-> <<Name("f"), Low(10), High(8), Type(102)>>, p |-> <<Name("p"), Type(101), At("fbreg", -20)>>,
         b |-> <<>>, v |-> <<Name("v"), Type(102), At("fbreg", -8)>>, g |-> <<Name("a"), Type(102), At("addr", 64)>>]
Of(r) == <<UnitOf(r.f, r.p, r.b, r.v, r.g), Second>>
Written == {Of([f |-> f, p |-> p, b |-> b, v |-> v, g |-> Fine.g]) :
              f \in Functions, p \in Parameters, b \in BlockAttrs, v \in Locals}
             \union {Of([Fine EXCEPT !.f = f, !.v = v, !.g = g]) : f \in Functions, v \in Locals, g \in Globals}

\* What the tool gives up on.
Refused ==
  {Of([Fine EXCEPT !.v = <<Name("v"), Type(102), A("location", "sec_offset", [kind |-> "list", n |-> 0])>>]),
   Of([Fine EXCEPT !.v = <<Name("v"), Type(102), At("piece", 0)>>]),
   Of([Fine EXCEPT !.v = <<Orig(3), At("fbreg", 0)>>]),
   Of([Fine EXCEPT !.v = <<A("name", "strx", "v"), Type(102), At("fbreg", 0)>>]),
   Of([Fine EXCEPT !.v = <<Name("v"), Type(109), At("fbreg", 0)>>]),
   Of([Fine EXCEPT !.v = <<A("abstract_origin", "ref_addr", 52), At("fbreg", 0)>>]),
   Of([Fine EXCEPT !.b = <<A("low_pc", "addrx", 1)>>]),
   Of([Fine EXCEPT !.f = <<Decl(2), Low(10), High(8)>>]),
   Of([Fine EXCEPT !.f = <<Name("f"), Low(10), A("high_pc", "addr", 18)>>]),
   Of([Fine EXCEPT !.g = <<Name("a"), Type(102), At("fbreg", 64)>>]),
   Of([Fine EXCEPT !.g = <<Name("a"), Type(109), At("addr", 64)>>]),
   Of([Fine EXCEPT !.f = <<Decl(3), Low(10), High(8), Type(109)>>]),
   Of([Fine EXCEPT !.g = <<Name("a"), At("addr", 64), Type(109)>>])}

MCPrograms == Written \union Refused
MCRedundant == {{}, {5, 7}}

-----------------------------------------------------------------------------
\* The collections come to their end, and give up on no program but those of
\* the list.
Outcome == <>[](phase = IF program \in Refused THEN "panic" ELSE "done")

\* The linker can emit whatever the inference could read.
CollectionsEnd == LinkerReadsOn /\ Outcome
=============================================================================
