---------------------------- MODULE MCDebugInfo ----------------------------
(***************************************************************************)
(* Files for DebugInfo.  A file is a tree of records, encoded here as the  *)
(* DWARF standard says; what is read and written is compared with it.      *)
(***************************************************************************)
EXTENDS DebugInfo, FiniteSets, TLC

Leb(v) == IF v < 128 THEN <<v>> ELSE <<(v % 128) + 128, v \div 128>>
Word(n, v) == [i \in 1 .. n |-> IF i = 1 THEN v ELSE 0]    \* v < 256
Cat(s) == LET f[i \in 0 .. Len(s)] == IF i = 0 THEN <<>> ELSE f[i - 1] \o s[i] IN f[Len(s)]
Map(s, Op(_)) == [i \in DOMAIN s |-> Op(s[i])]

\* An attribute: the name, the form, a value of it, what implicit_const says.
At(at, form, bytes) == [at |-> at, form |-> form, bytes |-> bytes, const |-> 0, constBytes |-> <<>>]
Const(at, v, bytes) == [at |-> at, form |-> 33, bytes |-> <<>>, const |-> v, constBytes |-> bytes]

\* An abbreviation, a DIE, a unit.
Item(tag, children, attrs) == [tag |-> tag, children |-> children, attrs |-> attrs]
Die(n, kids) == [n |-> n, kids |-> kids]

EncodeAt(a) == Leb(a.at) \o Leb(a.form) \o a.constBytes
EncodeItem(n, item) ==
  Leb(n) \o Leb(item.tag) \o <<IF item.children THEN 1 ELSE 0>>
    \o Cat(Map(item.attrs, EncodeAt)) \o <<0, 0>>
EncodeItems(items) == Cat([n \in DOMAIN items |-> EncodeItem(n, items[n])]) \o <<0>>

\* The DIEs of a tree in the order of the bytes; 0 is the null DIE.
RECURSIVE Flat(_, _, _)
Flat(items, t, depth) ==
  <<[n |-> t.n, depth |-> depth]>>
    \o (IF t.n > 0 /\ t.n <= Len(items) /\ items[t.n].children
        THEN Cat([i \in DOMAIN t.kids |-> Flat(items, t.kids[i], depth + 1)])
               \o <<[n |-> 0, depth |-> depth + 1]>>
        ELSE <<>>)

DieBytes(items, n) ==
  Leb(n) \o (IF n \in DOMAIN items THEN Cat(Map(items[n].attrs, LAMBDA a : a.bytes)) ELSE <<>>)

TreeBytes(items, dies) == Cat(Map(dies, LAMBDA d : DieBytes(items, d.n)))

\* A unit: its header, its abbreviations, its tree.
Unit0(version, bits, type, items, tree) ==
  [version |-> version, bits |-> bits, type |-> type, items |-> items, size |-> 8,
   dies |-> Flat(items, tree, 0)]

AfterLength(u, abbrev) ==
  LET w == IF u.bits = 64 THEN 8 ELSE 4
  IN Word(2, u.version)
       \o (IF u.version = 5 THEN <<u.type, u.size>> \o Word(w, abbrev)
             \o (CASE u.type = 2 -> Word(8, 77) \o Word(8, 30)
                   [] u.type \in {4, 5, 6} -> Word(8, 99) [] OTHER -> <<>>)
           ELSE Word(w, abbrev) \o <<u.size>>)

EncodeUnit(u, abbrev) ==
  LET body == AfterLength(u, abbrev) \o TreeBytes(u.items, u.dies)
  IN (IF u.bits = 64 THEN <<255, 255, 255, 255>> \o Word(8, Len(body)) ELSE Word(4, Len(body)))
       \o body

HeaderLength(u) == Len(AfterLength(u, 0)) + (IF u.bits = 64 THEN 12 ELSE 4)

\* A file: its units, each with a list of abbreviations of its own.
File(us) ==
  LET lens == Map(us, LAMBDA u : Len(EncodeItems(u.items)))
      begin[i \in 1 .. Len(us) + 1] == IF i = 1 THEN 0 ELSE begin[i - 1] + lens[i - 1]
  IN [abbrev |-> Cat(Map(us, LAMBDA u : EncodeItems(u.items))),
      info |-> Cat([i \in DOMAIN us |-> EncodeUnit(us[i], begin[i])]),
      loclists |-> <<>>, truth |-> us, ops |-> <<>>, ends |-> {"done"}]

\* What the reader should make of a unit.
Expected(us) ==
  [i \in DOMAIN us |->
     LET u == us[i]
         at[d \in 1 .. Len(u.dies)] ==
           IF d = 1 THEN HeaderLength(u)
           ELSE at[d - 1] + Len(DieBytes(u.items, u.dies[d - 1].n))
     IN [d \in DOMAIN u.dies |->
           LET n == u.dies[d].n
           IN [number |-> n, depth |-> u.dies[d].depth, inner |-> at[d],
               tag |-> IF n = 0 THEN 0 ELSE u.items[n].tag,
               names |-> IF n = 0 THEN <<>> ELSE Map(u.items[n].attrs, LAMBDA a : <<a.at, a.form, a.const>>),
               values |-> IF n = 0 THEN <<>> ELSE Map(u.items[n].attrs, LAMBDA a : a.bytes)]]]

Seen ==
  [i \in DOMAIN units |->
     Map(units[i].dies, LAMBDA d :
       [number |-> d.number, depth |-> d.depth, inner |-> d.inner, tag |-> d.item.tag,
        names |-> [a \in DOMAIN d.attrs |-> <<d.item.entries[a].at, d.item.entries[a].form,
                                              d.item.entries[a].const>>],
        values |-> Map(d.attrs, LAMBDA a : a.bytes)])]

-----------------------------------------------------------------------------
\* Values of the forms, in a unit of the given width.
Values(bits) ==
  LET w == IF bits = 64 THEN 8 ELSE 4
  IN {At(2, 1, Word(8, 16)), At(11, 11, <<7>>), At(11, 5, <<7, 0>>), At(11, 6, Word(4, 7)),
      At(11, 7, Word(8, 7)), At(11, 30, Word(16, 7)), At(3, 8, <<97, 98, 0>>), At(3, 14, Word(w, 5)),
      At(8470, 12, <<1>>), At(63, 25, <<>>), At(11, 13, <<127>>), At(11, 15, <<200, 1>>),
      At(28, 10, <<2, 9, 0>>), At(28, 3, <<1, 0, 9>>), At(28, 4, <<1, 0, 0, 0, 9>>),
      At(28, 9, <<2, 1, 1>>), At(73, 19, Word(4, 12)), At(73, 18, <<1, 0>>), At(73, 20, Word(8, 12)),
      At(73, 16, Word(w, 12)), At(73, 21, <<140, 0>>), At(73, 32, Word(8, 9)), At(3, 39, <<1, 2, 3>>),
      At(3, 38, <<1, 2>>), At(3, 40, <<1, 2, 3, 4>>), At(3, 26, <<3>>), At(16, 23, Word(w, 0)),
      At(11, 22, <<11, 7>>), At(11, 22, <<22, 15, 200, 1>>), At(2, 24, <<2, 145, 112>>),
      Const(11, -3, <<125>>), Const(11, 64, <<192, 0>>), At(140, 23, Word(w, 12))}

Forms ==
  UNION {{File(<<Unit0(v, bits, 1, <<Item(17, TRUE, <<a, b>>), Item(52, FALSE, <<b, a>>)>>,
                       Die(1, <<Die(2, <<>>), Die(2, <<>>)>>))>>)
          : v \in {4, 5}, a \in Values(bits),
            b \in {At(11, 11, <<7>>), At(3, 8, <<0>>), Const(11, -129, <<255, 126>>)}}
         : bits \in {32, 64}}

\* Trees, two units, types of units.
Plain == <<Item(17, TRUE, <<At(3, 8, <<97, 0>>)>>), Item(46, TRUE, <<>>), Item(52, FALSE, <<At(11, 11, <<7>>)>>)>>
Leaf == Die(3, <<>>)
Trees == {Die(1, <<>>), Leaf, Die(1, <<Leaf>>), Die(1, <<Die(2, <<Leaf, Leaf>>), Leaf>>),
          Die(1, <<Die(2, <<Die(2, <<>>)>>), Die(2, <<Leaf>>)>>)}
Shapes == {File(<<Unit0(v, bits, type, Plain, t1), Unit0(5, 32, 1, Plain, t2)>>)
           : v \in {4, 5}, bits \in {32, 64}, type \in {1, 2, 4, 6}, t1 \in Trees, t2 \in {Leaf, Die(1, <<Leaf>>)}}

\* Expressions: the operations of a block and the values of their operands.
Op(bytes, values) == [bytes |-> bytes, values |-> values]
Ops == {Op(<<3>> \o Word(8, 64), <<64>>), Op(<<6>>, <<>>), Op(<<8, 200>>, <<200>>), Op(<<9, 200>>, <<-56>>),
        Op(<<10, 1, 1>>, <<257>>), Op(<<11, 255, 255>>, <<-1>>), Op(<<13, 254, 255, 255, 255>>, <<-2>>),
        Op(<<16, 200, 1>>, <<200>>), Op(<<17, 127>>, <<-1>>), Op(<<17, 255, 126>>, <<-129>>), Op(<<21, 2>>, <<2>>),
        Op(<<34>>, <<>>), Op(<<35, 8>>, <<8>>), Op(<<35, 136, 0>>, <<8>>), Op(<<17, 255, 127>>, <<-1>>), Op(<<47, 253, 255>>, <<-3>>), Op(<<48>>, <<>>), Op(<<80>>, <<>>),
        Op(<<118, 120>>, <<-8>>), Op(<<144, 33>>, <<33>>), Op(<<145, 112>>, <<-16>>), Op(<<145, 144, 127>>, <<-112>>),
        Op(<<146, 7, 16>>, <<7, 16>>), Op(<<147, 4>>, <<4>>), Op(<<148, 1>>, <<1>>), Op(<<152, 1, 0>>, <<1>>),
        Op(<<153>> \o Word(4, 9), <<9>>), Op(<<157, 3, 5>>, <<3, 5>>), Op(<<158, 2, 9, 0>>, <<2>>), Op(<<159>>, <<>>),
        Op(<<161, 1>>, <<1>>), Op(<<163, 1, 85>>, <<1>>), Op(<<164, 30, 1, 7>>, <<30, 1>>), Op(<<165, 17, 30>>, <<17, 30>>),
        Op(<<166, 8, 30>>, <<8, 30>>), Op(<<168, 30>>, <<30>>), Op(<<240>>, <<>>), Op(<<243, 1, 85>>, <<1>>),
        Op(<<244, 30, 2, 7, 0>>, <<30, 2>>), Op(<<245, 17, 30>>, <<17, 30>>), Op(<<246, 8, 200, 1>>, <<8, 200>>),
        Op(<<247, 30>>, <<30>>), Op(<<250>> \o Word(4, 9), <<9>>)}
WideOps(bits) ==
  LET w == IF bits = 64 THEN 8 ELSE 4
  IN {Op(<<154>> \o Word(w, 9), <<9>>), Op(<<160>> \o Word(w, 9) \o <<124>>, <<9, -4>>),
      Op(<<242>> \o Word(w, 9) \o <<4>>, <<9, 4>>)}

Block(form, ops) == LET b == Cat(Map(ops, LAMBDA o : o.bytes)) IN At(2, form, <<Len(b)>> \o b)
\* A DIE with such a block and an address of the given size.
WithAddresses(bits, size, ops) ==
  LET item == Item(52, FALSE, <<Block(ExprLoc, ops), At(17, 1, Word(size, 9)), At(3, 8, <<97, 0>>)>>)
  IN [File(<<[Unit0(5, bits, 1, <<item>>, Die(1, <<>>)) EXCEPT !.size = size]>>) EXCEPT !.ops = ops]
WithOps(bits, ops) == WithAddresses(bits, 8, ops)
Exprs == {WithOps(bits, <<a, b>>) : bits \in {32, 64}, a \in Ops, b \in {Op(<<6>>, <<>>), Op(<<145, 112>>, <<-16>>)}}
           \union UNION {{WithOps(bits, <<a>>) : a \in WideOps(bits)} : bits \in {32, 64}}
           \union {WithOps(32, <<>>), WithAddresses(32, 4, <<Op(<<3>> \o Word(4, 64), <<64>>), Op(<<6>>, <<>>)>>)}

\* What the tool gives up on, and what it may do anything with.
Leaves(items, t) == File(<<Unit0(5, 32, 1, items, t)>>)
Bad == {[File(<<Unit0(3, 32, 1, Plain, Leaf)>>) EXCEPT !.ends = {"panic"}],
        [Leaves(Plain, Die(5, <<>>)) EXCEPT !.ends = {"panic"}],
        [Leaves(Plain, Leaf) EXCEPT !.abbrev = <<0>> \o @, !.ends = {"panic"}],
        [Leaves(Plain, Die(1, <<Die(5, <<>>)>>)) EXCEPT !.ends = {"panic"}],
        [Leaves(<<Item(17, FALSE, <<At(3, 80, <<0>>)>>)>>, Die(1, <<>>)) EXCEPT !.ends = {"panic"}],
        [Leaves(<<Item(17, FALSE, <<At(3, 22, <<80>>)>>)>>, Die(1, <<>>)) EXCEPT !.ends = {"panic"}],
        [WithOps(32, <<Op(<<224>>, <<>>)>>) EXCEPT !.ends = {"panic"}],
        [WithAddresses(32, 2, <<Op(<<6>>, <<>>)>>) EXCEPT !.ends = {"panic"}],
        [Leaves(Plain, Leaf) EXCEPT !.loclists = Word(4, 8) \o <<5, 0, 2, 0>> \o Word(4, 0), !.ends = {"panic"}],
        [Leaves(Plain, Leaf) EXCEPT !.abbrev = SubSeq(@, 1, Len(@) - 1), !.ends = {"undefined"}],
        [Leaves(Plain, Die(0, <<>>)) EXCEPT !.ends = {"undefined"}],
        [Leaves(Plain, Die(4, <<>>)) EXCEPT !.ends = {"undefined"}],
        [Leaves(Plain, Die(1, <<Die(4, <<>>)>>)) EXCEPT !.ends = {"done", "panic", "undefined"}]}

\* A rest that is no unit; numbers written in more bytes than they need; an
\* empty file; location lists.
Lists(bits, n) ==
  LET w == IF bits = 64 THEN 8 ELSE 4
      body == <<5, 0, 8, 0>> \o Word(4, n) \o Cat([i \in 1 .. n |-> Word(w, i)]) \o <<4, 0, 8, 0>>
  IN (IF bits = 64 THEN <<255, 255, 255, 255>> \o Word(8, Len(body)) ELSE Word(4, Len(body))) \o body
Odd == {[Leaves(Plain, Leaf) EXCEPT !.info = @ \o Word(n, 0)] : n \in {1, 4, 11}}
        \union {[Leaves(Plain, Leaf) EXCEPT !.abbrev = <<129, 0>> \o Tail(@)],
                [Leaves(<<>>, Leaf) EXCEPT !.abbrev = <<>>, !.info = <<>>, !.truth = <<>>]}
        \union {[Leaves(Plain, Leaf) EXCEPT !.loclists = Lists(b1, n) \o Lists(b2, 1)]
                : b1 \in {32, 64}, b2 \in {32, 64}, n \in 0 .. 2}

MCInputs == Forms \union Shapes \union Exprs \union Bad \union Odd

-----------------------------------------------------------------------------
Good == input.ends = {"done"}

\* Every DIE of the file is read as the file has it: the abbreviation of its
\* unit, its depth, its offset in the unit, its attributes with their bytes;
\* loclists_base and the arrays of offsets lie where the lists begin
\* (InfoEntry::init, AbbrevParser, CompilationUnit, LoclistsList).
TreeRead ==
  Good /\ phase \in {"loclists", "exprs", "write", "done"} =>
    /\ Seen = Expected(input.truth)
    /\ \A u \in DOMAIN units : units[u].module = u
    /\ \A l \in DOMAIN locs : \A i \in DOMAIN locs[l].offsets :
         /\ locs[l].offsets[i] = i
         /\ locs[l].base + Wide(locs[l].bits) * Len(locs[l].offsets) <= Len(input.loclists)

\* What is written is what was read, numbers as short as they can be and
\* without a rest that is no unit; the sizes that the section headers get
\* before are those of what is written then (Context.cpp:107).
Rewritten ==
  Good /\ phase = "done" =>
    /\ out.abbrev = File(input.truth).abbrev /\ out.info = File(input.truth).info
    /\ AbbrevSize = Len(out.abbrev) /\ InfoSize = Len(out.info)

\* The operations of a block are read with the values they have, and the
\* table that writes operands gives back the bytes that the table that reads
\* them took (DWARFOP::init, DWARFOP::write).
ExprsKept ==
  \A k \in DOMAIN exprs :
    /\ WriteExpr(exprs[k]) = BlockOf(k)
    /\ input.ops # <<>> =>
         /\ Len(exprs[k]) = Len(input.ops)
         /\ \A i \in DOMAIN input.ops :
              [j \in DOMAIN exprs[k][i].operands |-> exprs[k][i].operands[j].value] = input.ops[i].values

\* The tool reads every file to its end or gives up; it gives up on nothing
\* but a version, a form, an operation, an abbreviation or a size of addresses
\* that it does not know.
Outcome == <>[](phase \in input.ends)
=============================================================================
