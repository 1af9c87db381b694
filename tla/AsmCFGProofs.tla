----------------------------- MODULE AsmCFGProofs -----------------------------
(***************************************************************************)
(* The blocks of every graph are the straight-line pieces of its function, *)
(* its edges are the flow of control, and only a jump into an instruction  *)
(* leaves a block empty, for all programs: proofs about AsmCFG.            *)
(***************************************************************************)
EXTENDS AsmCFG, FoldFacts

\* The instructions lie one behind the other.
Ascends(c) == \A i, j \in 1 .. Len(c) : i < j => Behind(c, i) <= c[j].addr

LEMMA CodeType ==
  ASSUME NEW c, WellFormed(c)
  PROVE  /\ Len(c) \in Nat \ {0}
         /\ \A i \in 1 .. Len(c) : /\ c[i] \in Instruction
                                   /\ c[i].addr \in 1 .. MaxAddr - 1 /\ c[i].addr \in Nat
                                   /\ c[i].size \in Nat /\ c[i].size > 0
                                   /\ Behind(c, i) \in Nat /\ Behind(c, i) > c[i].addr
                                   /\ c[i].target \in Nat
<1>1. c \in Seq(Instruction) /\ c # <<>>
  BY DEF WellFormed
<1>2. Len(c) \in Nat \ {0} /\ \A i \in 1 .. Len(c) : c[i] \in Instruction
  BY <1>1
<1> QED
  BY <1>2, AddressAssumption DEF Instruction, Behind

LEMMA Ascending == ASSUME NEW c, WellFormed(c) PROVE Ascends(c)
<1> DEFINE T == {n \in Nat : \A i, j \in 1 .. Len(c) : i < j /\ j = i + 1 + n => Behind(c, i) <= c[j].addr}
<1>0. /\ Len(c) \in Nat
      /\ \A i \in 1 .. Len(c) : /\ c[i].addr \in Nat /\ Behind(c, i) \in Nat
                                /\ Behind(c, i) > c[i].addr
  BY CodeType
<1>a. \A i \in 1 .. Len(c) - 1 : c[i + 1].addr = Behind(c, i)
  BY DEF WellFormed
<1>1. 0 \in T
  <2> SUFFICES ASSUME NEW i \in 1 .. Len(c), NEW j \in 1 .. Len(c), j = i + 1
               PROVE  Behind(c, i) <= c[j].addr
    OBVIOUS
  <2>1. i \in 1 .. Len(c) - 1
    BY <1>0
  <2> QED
    BY <1>0, <1>a, <2>1
<1>2. ASSUME NEW n \in Nat, n \in T PROVE n + 1 \in T
  <2> SUFFICES ASSUME NEW i \in 1 .. Len(c), NEW j \in 1 .. Len(c), j = i + 1 + (n + 1)
               PROVE  Behind(c, i) <= c[j].addr
    OBVIOUS
  <2>1. PICK k \in 1 .. Len(c) - 1 : k = i + 1 + n
    BY <1>0
  <2>2. k \in 1 .. Len(c) /\ i < k /\ j = k + 1
    BY <1>0, <2>1
  <2>3. Behind(c, i) <= c[k].addr
    BY <1>2, <2>1, <2>2
  <2>4. c[j].addr = Behind(c, k)
    BY <1>a, <2>2
  <2> QED
    BY <1>0, <2>2, <2>3, <2>4
<1>3. Nat \subseteq T
  <2> HIDE DEF T
  <2> QED
    BY <1>1, <1>2, AllNaturals
<1>4. SUFFICES ASSUME NEW i \in 1 .. Len(c), NEW j \in 1 .. Len(c), i < j
               PROVE  Behind(c, i) <= c[j].addr
  BY DEF Ascends
<1>5. j - i - 1 \in Nat /\ j = i + 1 + (j - i - 1)
  BY <1>0, <1>4
<1> QED
  BY <1>3, <1>4, <1>5

\* No two instructions have one address, and an address between the first and
\* the last that no instruction has is inside of one.
LEMMA OneAddress ==
  ASSUME NEW c, WellFormed(c)
  PROVE  \A i, j \in 1 .. Len(c) : /\ c[i].addr = c[j].addr => i = j
                                   /\ i < j => c[i].addr < c[j].addr
<1>1. Ascends(c)
  BY Ascending
<1>2. \A i \in 1 .. Len(c) : c[i].addr \in Nat /\ Behind(c, i) \in Nat /\ Behind(c, i) > c[i].addr
  BY CodeType
<1>3. \A i, j \in 1 .. Len(c) : i < j => c[i].addr < c[j].addr
  BY <1>1, <1>2 DEF Ascends
<1>4. Len(c) \in Nat
  BY CodeType
<1> QED
  BY <1>2, <1>3, <1>4

LEMMA Inside ==
  ASSUME NEW c, WellFormed(c), NEW a \in Nat, c[1].addr <= a, a <= c[Len(c)].addr,
         \A i \in 1 .. Len(c) : c[i].addr # a
  PROVE  \E k \in 1 .. Len(c) : c[k].addr < a /\ a < Behind(c, k)
<1>0. /\ Len(c) \in Nat \ {0}
      /\ \A i \in 1 .. Len(c) : c[i].addr \in Nat /\ Behind(c, i) \in Nat
      /\ \A i \in 1 .. Len(c) - 1 : c[i + 1].addr = Behind(c, i)
  BY CodeType DEF WellFormed
<1>1. SUFFICES ASSUME \A k \in 1 .. Len(c) : c[k].addr < a => Behind(c, k) <= a
               PROVE  FALSE
  BY <1>0
<1> DEFINE T == {n \in Nat : n + 1 <= Len(c) => c[n + 1].addr < a}
<1>2. 0 \in T
  <2>1. 1 \in 1 .. Len(c) /\ Len(c) \in 1 .. Len(c)
    BY <1>0
  <2> QED
    BY <1>0, <2>1
<1>3. ASSUME NEW n \in Nat, n \in T PROVE n + 1 \in T
  <2> SUFFICES ASSUME (n + 1) + 1 <= Len(c) PROVE c[(n + 1) + 1].addr < a
    OBVIOUS
  <2>1. PICK k \in 1 .. Len(c) - 1 : k = n + 1
    BY <1>0
  <2>2. k \in 1 .. Len(c) /\ k + 1 \in 1 .. Len(c)
    BY <1>0
  <2>3. c[k].addr < a
    BY <1>0, <1>3, <2>1, <2>2
  <2>4. c[k + 1].addr <= a /\ c[k + 1].addr # a
    BY <1>0, <1>1, <2>2, <2>3
  <2> QED
    BY <1>0, <2>1, <2>2, <2>4
<1>4. Nat \subseteq T
  <2> HIDE DEF T
  <2> QED
    BY <1>2, <1>3, AllNaturals
<1>5. PICK n \in Nat : n + 1 = Len(c)
  <2>1. Len(c) - 1 \in Nat /\ (Len(c) - 1) + 1 = Len(c)
    BY <1>0
  <2> QED
    BY <2>1
<1>6. n \in T /\ Len(c) \in 1 .. Len(c)
  BY <1>0, <1>4
<1>7. c[Len(c)].addr < a
  BY <1>5, <1>6
<1> QED
  BY <1>0, <1>6, <1>7

-----------------------------------------------------------------------------
(***************************************************************************)
(* Sequences of edges.                                                     *)
(***************************************************************************)
Elems(s) == {s[i] : i \in 1 .. Len(s)}

\* The elements of es that are in P, in their order.
Picks(es, P) == [i \in 1 .. Len(es) |-> IF es[i] \in P THEN <<es[i]>> ELSE <<>>]
Chosen(es, P) == FlattenSeq(Picks(es, P))
Single(e, P) == IF e \in P THEN <<e>> ELSE <<>>

LEMMA SingleType == ASSUME NEW X, NEW e \in X, NEW P PROVE Single(e, P) \in Seq(X)
  BY DEF Single

LEMMA PicksType ==
  ASSUME NEW X, NEW es \in Seq(X), NEW P
  PROVE  Picks(es, P) \in Seq(Seq(X)) /\ Len(Picks(es, P)) = Len(es)
<1>1. Len(es) \in Nat /\ \A i \in 1 .. Len(es) : es[i] \in X
  OBVIOUS
<1>2. \A i \in 1 .. Len(es) : (IF es[i] \in P THEN <<es[i]>> ELSE <<>>) \in Seq(X)
  BY <1>1
<1> QED
  BY <1>1, <1>2 DEF Picks

LEMMA ChosenType ==
  ASSUME NEW X, NEW es \in Seq(X), NEW P
  PROVE  Chosen(es, P) \in Seq(X)
<1>1. PICK ss \in Seq(Seq(X)) : ss = Picks(es, P)
  BY PicksType
<1> QED
  BY <1>1, FlattenType DEF Chosen

LEMMA ChosenEmpty == ASSUME NEW P PROVE Chosen(<<>>, P) = <<>>
<1>1. Picks(<<>>, P) = <<>>
  BY DEF Picks
<1> QED
  BY <1>1, FlattenEmpty DEF Chosen

LEMMA ChosenAppend ==
  ASSUME NEW X, NEW es \in Seq(X), NEW e \in X, NEW P
  PROVE  Chosen(Append(es, e), P) = Chosen(es, P) \o Single(e, P)
<1>1. PICK ss \in Seq(Seq(X)) : ss = Picks(es, P) /\ Len(ss) = Len(es)
  BY PicksType
<1>2. PICK s \in Seq(X) : s = Single(e, P)
  BY SingleType
<1>3. Picks(Append(es, e), P) = Append(ss, s)
  <2>0. PICK ds \in Seq(X) : ds = Append(es, e)
    BY AppendProperties
  <2>1. /\ Len(es) \in Nat /\ Len(ds) = Len(es) + 1 /\ ds[Len(es) + 1] = e
        /\ \A i \in 1 .. Len(es) : ds[i] = es[i]
    BY <2>0
  <2>2. Picks(ds, P) \in Seq(Seq(X)) /\ Len(Picks(ds, P)) = Len(es) + 1
    BY <2>1, PicksType
  <2>3. Append(ss, s) \in Seq(Seq(X)) /\ Len(Append(ss, s)) = Len(es) + 1
    BY <1>1
  <2>4. ASSUME NEW i \in 1 .. Len(es) + 1 PROVE Picks(ds, P)[i] = Append(ss, s)[i]
    <3>1. CASE i = Len(es) + 1
      <4>1. Picks(ds, P)[i] = s
        BY <1>2, <2>1, <3>1 DEF Picks, Single
      <4>2. Append(ss, s)[i] = s
        BY <1>1, <3>1
      <4> QED
        BY <4>1, <4>2
    <3>2. CASE i # Len(es) + 1
      <4>1. i \in 1 .. Len(es)
        BY <2>1, <3>2
      <4>2. Picks(ds, P)[i] = IF es[i] \in P THEN <<es[i]>> ELSE <<>>
        BY <2>1, <4>1 DEF Picks
      <4>3. Append(ss, s)[i] = ss[i]
        BY <1>1, <4>1
      <4>4. ss[i] = IF es[i] \in P THEN <<es[i]>> ELSE <<>>
        BY <1>1, <4>1 DEF Picks
      <4> QED
        BY <4>2, <4>3, <4>4
    <3> QED
      BY <3>1, <3>2
  <2>5. PICK u \in Seq(Seq(X)), v \in Seq(Seq(X)) : u = Picks(ds, P) /\ v = Append(ss, s)
    BY <2>2, <2>3
  <2>6. u = v
    BY <2>2, <2>3, <2>4, <2>5, SeqEqual
  <2> QED
    BY <2>0, <2>5, <2>6
<1>4. FlattenSeq(Append(ss, s)) = FlattenSeq(ss) \o s
  BY FlattenAppend
<1> QED
  BY <1>1, <1>2, <1>3, <1>4 DEF Chosen

\* A sequence is empty or grows by one element.
LEMMA Grows ==
  ASSUME NEW X, NEW S, S \subseteq Seq(X), <<>> \in S,
         \A s \in Seq(X), e \in X : s \in S => Append(s, e) \in S
  PROVE  Seq(X) \subseteq S
<1> DEFINE T == {n \in Nat : \A s \in Seq(X) : Len(s) = n => s \in S}
<1>1. 0 \in T
  <2> SUFFICES ASSUME NEW s \in Seq(X), Len(s) = 0 PROVE s \in S
    OBVIOUS
  <2>1. s = <<>>
    OBVIOUS
  <2> QED
    BY <2>1
<1>2. ASSUME NEW n \in Nat, n \in T PROVE n + 1 \in T
  <2> SUFFICES ASSUME NEW s \in Seq(X), Len(s) = n + 1 PROVE s \in S
    OBVIOUS
  <2>1. s # <<>>
    OBVIOUS
  <2>2. PICK t \in Seq(X), e \in X : s = Append(t, e)
    BY <2>1, SequenceEmptyOrAppend
  <2>3. Len(t) = n
    BY <2>2
  <2> QED
    BY <1>2, <2>2, <2>3
<1>3. Nat \subseteq T
  <2> HIDE DEF T
  <2> QED
    BY <1>1, <1>2, AllNaturals
<1>4. ASSUME NEW s \in Seq(X) PROVE s \in S
  <2>1. Len(s) \in Nat
    OBVIOUS
  <2> QED
    BY <1>3, <2>1
<1> QED
  BY <1>4

LEMMA ChosenConcat ==
  ASSUME NEW X, NEW es \in Seq(X), NEW ds \in Seq(X), NEW P
  PROVE  Chosen(es \o ds, P) = Chosen(es, P) \o Chosen(ds, P)
<1> DEFINE S == {s \in Seq(X) : Chosen(es \o s, P) = Chosen(es, P) \o Chosen(s, P)}
<1>1. <<>> \in S
  <2>1. PICK t \in Seq(X) : t = Chosen(es, P)
    BY ChosenType
  <2>2. es \o <<>> = es /\ t \o <<>> = t
    OBVIOUS
  <2> QED
    BY <2>1, <2>2, ChosenEmpty
<1>2. ASSUME NEW s \in Seq(X), NEW e \in X, s \in S PROVE Append(s, e) \in S
  <2>1. PICK t \in Seq(X) : t = es \o s
    BY ConcatProperties
  <2>2. es \o Append(s, e) = Append(t, e) /\ Append(s, e) \in Seq(X)
    BY <2>1
  <2>3. PICK u \in Seq(X), v \in Seq(X), w \in Seq(X) :
          u = Chosen(es, P) /\ v = Chosen(s, P) /\ w = Single(e, P)
    BY ChosenType, SingleType
  <2>4. Chosen(Append(t, e), P) = Chosen(t, P) \o w /\ Chosen(Append(s, e), P) = v \o w
    BY <2>3, ChosenAppend
  <2>5. Chosen(t, P) = u \o v
    BY <1>2, <2>1, <2>3
  <2>6. (u \o v) \o w = u \o (v \o w)
    OBVIOUS
  <2> QED
    BY <2>2, <2>3, <2>4, <2>5, <2>6
<1> HIDE DEF S
<1>3. S \subseteq Seq(X)
  BY DEF S
<1>4. Seq(X) \subseteq S
  BY <1>1, <1>2, <1>3, Grows
<1> QED
  BY <1>4 DEF S

LEMMA ChosenTwice ==
  ASSUME NEW X, NEW es \in Seq(X), NEW P, NEW Q
  PROVE  Chosen(Chosen(es, P), Q) = Chosen(es, P \intersect Q)
<1> DEFINE S == {s \in Seq(X) : Chosen(Chosen(s, P), Q) = Chosen(s, P \intersect Q)}
<1>1. <<>> \in S
  BY ChosenEmpty
<1>2. ASSUME NEW s \in Seq(X), NEW e \in X, s \in S PROVE Append(s, e) \in S
  <2>1. PICK u \in Seq(X), w \in Seq(X) : u = Chosen(s, P) /\ w = Single(e, P)
    BY ChosenType, SingleType
  <2>2. Chosen(Append(s, e), P) = u \o w
    BY <2>1, ChosenAppend
  <2>3. Chosen(u \o w, Q) = Chosen(u, Q) \o Chosen(w, Q)
    BY SMTT(60), ChosenConcat
  <2>4. Chosen(Append(s, e), P \intersect Q) = Chosen(s, P \intersect Q) \o Single(e, P \intersect Q)
    BY ChosenAppend
  <2>5. Chosen(w, Q) = Single(e, P \intersect Q)
    <3>1. CASE e \in P
      <4>1. w = Append(<<>>, e) /\ <<>> \in Seq(X)
        BY <2>1, <3>1 DEF Single
      <4>2. Chosen(Append(<<>>, e), Q) = Chosen(<<>>, Q) \o Single(e, Q)
        BY <4>1, ChosenAppend
      <4>3. Single(e, Q) = Single(e, P \intersect Q)
        BY <3>1 DEF Single
      <4>4. <<>> \o Single(e, Q) = Single(e, Q)
        BY SingleType
      <4> QED
        BY <4>1, <4>2, <4>3, <4>4, ChosenEmpty
    <3>2. CASE e \notin P
      BY <2>1, <3>2, ChosenEmpty DEF Single
    <3> QED
      BY <3>1, <3>2
  <2>6. Chosen(u, Q) = Chosen(s, P \intersect Q)
    BY <1>2, <2>1
  <2>7. Append(s, e) \in Seq(X)
    OBVIOUS
  <2>8. Chosen(Chosen(Append(s, e), P), Q) = Chosen(Append(s, e), P \intersect Q)
    BY <2>2, <2>3, <2>4, <2>5, <2>6
  <2> QED
    BY <2>7, <2>8
<1> HIDE DEF S
<1>3. S \subseteq Seq(X)
  BY DEF S
<1>4. Seq(X) \subseteq S
  BY <1>1, <1>2, <1>3, Grows
<1> QED
  BY <1>4 DEF S

LEMMA ElemsConcat ==
  ASSUME NEW X, NEW s \in Seq(X), NEW t \in Seq(X)
  PROVE  Elems(s \o t) = Elems(s) \union Elems(t)
<1>1. PICK u \in Seq(X) : u = s \o t
  BY ConcatProperties
<1>2. /\ Len(s) \in Nat /\ Len(t) \in Nat /\ Len(u) = Len(s) + Len(t)
      /\ \A i \in 1 .. Len(u) : u[i] = IF i <= Len(s) THEN s[i] ELSE t[i - Len(s)]
  BY <1>1
<1>3. ASSUME NEW x \in Elems(u) PROVE x \in Elems(s) \union Elems(t)
  <2>1. PICK i \in 1 .. Len(u) : x = u[i]
    BY DEF Elems
  <2>2. i <= Len(s) => i \in 1 .. Len(s)
    BY <1>2
  <2>3. ~ (i <= Len(s)) => i - Len(s) \in 1 .. Len(t)
    BY <1>2
  <2>4. x = IF i <= Len(s) THEN s[i] ELSE t[i - Len(s)]
    BY <1>2, <2>1
  <2> QED
    BY <2>2, <2>3, <2>4 DEF Elems
<1>4. ASSUME NEW x \in Elems(s) PROVE x \in Elems(u)
  <2>1. PICK i \in 1 .. Len(s) : x = s[i]
    BY DEF Elems
  <2>2. i \in 1 .. Len(u) /\ i <= Len(s)
    BY <1>2
  <2>3. u[i] = x
    BY <1>2, <2>1, <2>2
  <2> QED
    BY <2>2, <2>3 DEF Elems
<1>5. ASSUME NEW x \in Elems(t) PROVE x \in Elems(u)
  <2>1. PICK i \in 1 .. Len(t) : x = t[i]
    BY DEF Elems
  <2>2. PICK j \in 1 .. Len(u) : j = i + Len(s)
    BY <1>2
  <2>3. ~ (j <= Len(s)) /\ j - Len(s) = i
    BY <1>2, <2>2
  <2>4. u[j] = x
    BY <1>2, <2>1, <2>3
  <2> QED
    BY <2>4 DEF Elems
<1> QED
  BY <1>1, <1>3, <1>4, <1>5

LEMMA ElemsSmall ==
  /\ Elems(<<>>) = {}
  /\ \A x : Elems(<<x>>) = {x}
BY DEF Elems

LEMMA ElemsType == ASSUME NEW X, NEW s \in Seq(X) PROVE Elems(s) \subseteq X
  BY DEF Elems

LEMMA ElemsSeq == ASSUME NEW X, NEW s \in Seq(X), NEW Y, Elems(s) \subseteq Y PROVE s \in Seq(Y)
<1>1. Len(s) \in Nat /\ s = [i \in 1 .. Len(s) |-> s[i]]
  OBVIOUS
<1>2. \A i \in 1 .. Len(s) : s[i] \in Y
  BY DEF Elems
<1> QED
  BY <1>1, <1>2

LEMMA NoElems == ASSUME NEW X, NEW s \in Seq(X), Elems(s) = {} PROVE s = <<>>
<1>1. Len(s) \in Nat /\ \A i \in 1 .. Len(s) : s[i] \in Elems(s)
  BY DEF Elems
<1>2. Len(s) = 0
  <2>1. Len(s) # 0 => 1 \in 1 .. Len(s)
    BY <1>1
  <2> QED
    BY <1>1, <2>1
<1> QED
  BY <1>2

LEMMA ChosenElems ==
  ASSUME NEW X, NEW es \in Seq(X), NEW P
  PROVE  Elems(Chosen(es, P)) = Elems(es) \intersect P
<1> DEFINE S == {s \in Seq(X) : Elems(Chosen(s, P)) = Elems(s) \intersect P}
<1>1. <<>> \in S
  BY ChosenEmpty, ElemsSmall
<1>2. ASSUME NEW s \in Seq(X), NEW e \in X, s \in S PROVE Append(s, e) \in S
  <2>1. PICK u \in Seq(X), w \in Seq(X) : u = Chosen(s, P) /\ w = Single(e, P)
    BY ChosenType, SingleType
  <2>2. Chosen(Append(s, e), P) = u \o w
    BY <2>1, ChosenAppend
  <2>3. Elems(u \o w) = Elems(u) \union Elems(w)
    BY ElemsConcat
  <2>4. Elems(w) = {e} \intersect P
    BY <2>1, ElemsSmall DEF Single
  <2>5. Append(s, e) = s \o <<e>> /\ <<e>> \in Seq(X)
    OBVIOUS
  <2>6. Elems(s \o <<e>>) = Elems(s) \union Elems(<<e>>)
    BY ZenonT(60), <2>5, ElemsConcat
  <2>7. Elems(u) = Elems(s) \intersect P
    BY <1>2, <2>1
  <2>8. Elems(Chosen(Append(s, e), P)) = Elems(Append(s, e)) \intersect P
    BY <2>2, <2>3, <2>4, <2>5, <2>6, <2>7, ElemsSmall
  <2> QED
    BY <2>8
<1> HIDE DEF S
<1>3. S \subseteq Seq(X)
  BY DEF S
<1>4. Seq(X) \subseteq S
  BY <1>1, <1>2, <1>3, Grows
<1> QED
  BY <1>4 DEF S

Edges(S) == [from : S, to : S, type : {"default", "true", "false", "call_return", "call", "return"}]

\* Those among them that leave x, and that reach it.
From(S, x) == {e \in Edges(S) : e.from = x}
Into(S, x) == {e \in Edges(S) : e.to = x}

LEMMA LeavingIs ==
  ASSUME NEW S, NEW es \in Seq(Edges(S)), NEW x
  PROVE  /\ Leaving(es, x) = Chosen(es, From(S, x))
         /\ Reaching(es, x) = Chosen(es, Into(S, x))
<1>1. \A i \in 1 .. Len(es) : es[i] \in Edges(S)
  OBVIOUS
<1>2. /\ [i \in 1 .. Len(es) |-> IF es[i].from = x THEN <<es[i]>> ELSE <<>>]
           = Picks(es, From(S, x))
      /\ [i \in 1 .. Len(es) |-> IF es[i].to = x THEN <<es[i]>> ELSE <<>>]
           = Picks(es, Into(S, x))
  BY <1>1 DEF Picks, From, Into
<1> QED
  BY <1>2 DEF Leaving, Reaching, Chosen

LEMMA LeavingFacts ==
  ASSUME NEW S, NEW es \in Seq(Edges(S)), NEW x
  PROVE  /\ Leaving(es, x) \in Seq(Edges(S)) /\ Reaching(es, x) \in Seq(Edges(S))
         /\ Elems(Leaving(es, x)) = {e \in Elems(es) : e.from = x}
         /\ Elems(Reaching(es, x)) = {e \in Elems(es) : e.to = x}
<1> DEFINE P == From(S, x)  Q == Into(S, x)
<1>1. Leaving(es, x) = Chosen(es, P) /\ Reaching(es, x) = Chosen(es, Q)
  BY LeavingIs
<1>2. Elems(es) \subseteq Edges(S)
  BY ElemsType
<1>3. Elems(es) \intersect P = {e \in Elems(es) : e.from = x} /\ Elems(es) \intersect Q = {e \in Elems(es) : e.to = x}
  BY <1>2 DEF From, Into
<1> HIDE DEF P, Q
<1> QED
  BY <1>1, <1>3, ChosenType, ChosenElems

Splits(es, ds, x) ==
  /\ Leaving(es \o ds, x) = Leaving(es, x) \o Leaving(ds, x)
  /\ Reaching(es \o ds, x) = Reaching(es, x) \o Reaching(ds, x)

LEMMA LeavingConcat ==
  ASSUME NEW S, NEW es \in Seq(Edges(S)), NEW ds \in Seq(Edges(S)), NEW x
  PROVE  Splits(es, ds, x)
<1>1. Chosen(es \o ds, From(S, x)) = Chosen(es, From(S, x)) \o Chosen(ds, From(S, x))
  BY ChosenConcat
<1>2. Chosen(es \o ds, Into(S, x)) = Chosen(es, Into(S, x)) \o Chosen(ds, Into(S, x))
  BY ChosenConcat
<1>3. PICK fs \in Seq(Edges(S)) : fs = es \o ds
  BY ConcatProperties
<1>4. Leaving(fs, x) = Chosen(fs, From(S, x)) /\ Reaching(fs, x) = Chosen(fs, Into(S, x))
  BY LeavingIs
<1>5. /\ Leaving(es, x) = Chosen(es, From(S, x)) /\ Reaching(es, x) = Chosen(es, Into(S, x))
      /\ Leaving(ds, x) = Chosen(ds, From(S, x)) /\ Reaching(ds, x) = Chosen(ds, Into(S, x))
  BY LeavingIs
<1> QED
  BY <1>1, <1>2, <1>3, <1>4, <1>5 DEF Splits

\* Those that leave b among those that reach c.
LEMMA Between ==
  ASSUME NEW S, NEW es \in Seq(Edges(S)), NEW b, NEW c
  PROVE  Reaching(Leaving(es, b), c) = Leaving(Reaching(es, c), b)
<1>1. PICK l \in Seq(Edges(S)), r \in Seq(Edges(S)) : l = Leaving(es, b) /\ r = Reaching(es, c)
  BY LeavingFacts
<1>2. /\ l = Chosen(es, From(S, b)) /\ r = Chosen(es, Into(S, c))
      /\ Reaching(l, c) = Chosen(l, Into(S, c)) /\ Leaving(r, b) = Chosen(r, From(S, b))
  BY <1>1, LeavingIs
<1>3. /\ Chosen(Chosen(es, From(S, b)), Into(S, c)) = Chosen(es, From(S, b) \intersect Into(S, c))
      /\ Chosen(Chosen(es, Into(S, c)), From(S, b)) = Chosen(es, Into(S, c) \intersect From(S, b))
  BY ChosenTwice
<1>4. From(S, b) \intersect Into(S, c) = Into(S, c) \intersect From(S, b)
  OBVIOUS
<1> QED
  BY <1>1, <1>2, <1>3, <1>4

\* Edges pushed at both ends are mirrored where those before were.
LEMMA Mirrors ==
  ASSUME NEW S, NEW fs \in Seq(Edges(S)), NEW bs \in Seq(Edges(S)), NEW es \in Seq(Edges(S)),
         NEW b, NEW c, Reaching(fs, c) = Leaving(bs, b)
  PROVE  Reaching(fs \o Leaving(es, b), c) = Leaving(bs \o Reaching(es, c), b)
<1>1. PICK l \in Seq(Edges(S)), r \in Seq(Edges(S)) : l = Leaving(es, b) /\ r = Reaching(es, c)
  BY LeavingFacts
<1>2. Splits(fs, l, c) /\ Splits(bs, r, b)
  BY LeavingConcat
<1>3. /\ Reaching(fs \o l, c) = Reaching(fs, c) \o Reaching(l, c)
      /\ Leaving(bs \o r, b) = Leaving(bs, b) \o Leaving(r, b)
  BY <1>2 DEF Splits
<1>4. Reaching(Leaving(es, b), c) = Leaving(Reaching(es, c), b)
  BY Between
<1> QED
  BY <1>1, <1>2, <1>3, <1>4

\* No edge of es joins a block that es does not know.
LEMMA NoMirrors ==
  ASSUME NEW S, NEW es \in Seq(Edges(S)), NEW x, x \notin S
  PROVE  Leaving(es, x) = <<>> /\ Reaching(es, x) = <<>>
<1>1. Elems(es) \subseteq Edges(S)
  BY ElemsType
<1>2. Elems(Leaving(es, x)) = {} /\ Elems(Reaching(es, x)) = {}
  <2>1. /\ Elems(Leaving(es, x)) = {e \in Elems(es) : e.from = x}
        /\ Elems(Reaching(es, x)) = {e \in Elems(es) : e.to = x}
    BY LeavingFacts
  <2> QED
    BY <1>1, <2>1 DEF Edges
<1>3. Leaving(es, x) \in Seq(Edges(S)) /\ Reaching(es, x) \in Seq(Edges(S))
  BY LeavingFacts
<1> QED
  BY <1>2, <1>3, NoElems

-----------------------------------------------------------------------------
(***************************************************************************)
(* The inductive invariant.                                                *)
(***************************************************************************)
BlockIds == (DOMAIN prog.code) \X (0 .. MaxAddr)
BlockType(D) ==
  [statements : Seq(Instruction), end : Nat, next : D \union {NoBlock}, previous : D \union {NoBlock},
   forward : Seq(Edges(D)), backward : Seq(Edges(D))]

Types ==
  /\ prog \in Program /\ fun \in DOMAIN prog.code /\ left \subseteq DOMAIN prog.code \ {fun}
  /\ phase \in {"heads", "fill", "edges", "link", "done", "undefined"}
  /\ pos \in 1 .. Len(Code) + 1
  /\ heads \subseteq low_pc .. high_pc /\ low_pc \in heads
  /\ DOMAIN blocks \subseteq BlockIds
  /\ blocks \in [DOMAIN blocks -> BlockType(DOMAIN blocks)]
  /\ cur \in DOMAIN blocks \union {NoBlock} /\ pending \subseteq DOMAIN blocks

\* The functions whose graphs have been begun have their blocks, the others none.
Domains ==
  /\ \A b \in DOMAIN blocks : b[1] \notin left /\ (phase = "heads" => b[1] # fun)
  /\ \A f \in DOMAIN prog.code \ left :
       (f = fun => phase # "heads") => Entry(f) \in DOMAIN blocks /\ Exit(f) \in DOMAIN blocks
  /\ phase \in {"link", "done"} => left = {}
  /\ phase = "edges" => \A b \in pending : b[1] = fun
  /\ phase = "link" => \A b \in pending : Common(b)

\* A head is the address of an instruction or a direct target, each instruction
\* met has made its heads, and the blocks are those of the heads.
HeadsKnown ==
  /\ \A a \in heads : \E i \in 1 .. Len(Code) :
       Code[i].addr = a \/ (Code[i].id \in Direct /\ Code[i].target = a)
  /\ \A i \in 1 .. Len(Code) : (phase = "heads" => i < pos) => HeadsAt(i) \subseteq heads
  /\ phase # "heads" => \A a \in 0 .. MaxAddr : Block(a) \in DOMAIN blocks <=> a \in heads \union {0, MaxAddr}

\* The statements of b are the instructions of c from j on, up to Through, and
\* none but the first is at a head.
Through(bs, b, j) == j + Len(bs[b].statements)
Segment(bs, c, b, j) ==
  /\ c[j].addr = b[2] /\ bs[b].statements # <<>> /\ Through(bs, b, j) <= Len(c) + 1
  /\ \A k \in 1 .. Len(bs[b].statements) : bs[b].statements[k] = c[j - 1 + k]
  /\ \A k \in 2 .. Len(bs[b].statements) : <<b[1], c[j - 1 + k].addr>> \notin DOMAIN bs

\* The next block begins where they end.
Closed(bs, c, b, j) ==
  LET t == Through(bs, b, j)
  IN IF t = Len(c) + 1 THEN bs[b].end = Behind(c, Len(c)) /\ bs[b].next = NoBlock
     ELSE LET next == <<b[1], c[t].addr>>
          IN next \in DOMAIN bs /\ bs[b].end = c[t].addr /\ bs[b].next = next

\* The first n instructions are in blocks of f.
Covered(bs, c, f, n) ==
  \A i \in 1 .. n : \E b \in DOMAIN bs : /\ b[1] = f /\ Common(b)
                                         /\ \E j \in 1 .. i : Segment(bs, c, b, j) /\ i < Through(bs, b, j)

\* After n statements, b has its own of them, and k is the one that grows.
Filled(bs, c, b, n, k) ==
  \/ /\ bs[b].statements = <<>> /\ bs[b].next = NoBlock /\ b # k
     /\ \A i \in 1 .. n : c[i].addr # b[2]
  \/ \E j \in 1 .. n :
       /\ Segment(bs, c, b, j)
       /\ IF b = k THEN Through(bs, b, j) = n + 1 /\ bs[b].next = NoBlock
          ELSE Through(bs, b, j) <= n /\ Closed(bs, c, b, j)

Filling ==
  phase = "fill" =>
    /\ \A b \in BlocksOf(fun) : Filled(blocks, Code, b, pos - 1, cur)
    /\ IF pos = 1 THEN cur = Entry(fun) ELSE cur \in BlocksOf(fun) /\ Insns(cur) # <<>>
    /\ Covered(blocks, Code, fun, pos - 1)

LaidOut(bs, c, b) ==
  \/ bs[b].statements = <<>> /\ \A i \in 1 .. Len(c) : c[i].addr # b[2]
  \/ \E j \in 1 .. Len(c) : Segment(bs, c, b, j) /\ Closed(bs, c, b, j)

\* No instruction but the one before it goes to one inside of a block.
Straight(bs, f, b) ==
  \A k \in 1 .. Len(bs[b].statements) - 1 :
    LET a == bs[b].statements[k + 1].addr
    IN \A i \in 1 .. Len(prog.code[f]) :
         IF prog.code[f][i] = bs[b].statements[k] THEN FlowsOf(f, i) = {a}
         ELSE a \in FlowsOf(f, i) =>
                prog.code[f][i].id = "jmprax" /\ ~Recognised(f, prog.code[f], i)

\* The statements of f are in its blocks.
Made(f) == f \notin left /\ (f = fun => phase \notin {"heads", "fill"})
LaidFor(f) ==
  /\ \A b \in BlocksOf(f) : LaidOut(blocks, prog.code[f], b) /\ Straight(blocks, f, b)
  /\ Covered(blocks, prog.code[f], f, Len(prog.code[f]))
Laid == \A f \in DOMAIN prog.code : Made(f) => LaidFor(f)

\* E is the flow of control behind the statements s; a direct target may still
\* turn out to be no instruction.
FlowFitsAt(f, s, E, i) ==
  /\ (Last(s).id = "jmprax" => Recognised(f, s, Len(s))) =>
       \A a \in FlowsOf(f, i) : \E e \in E : e.to = <<f, a>>
  /\ \A e \in E :
       \/ e.to[1] = f /\ e.to[2] \in FlowsOf(f, i)
       \/ e.to = <<f, Last(s).target>> /\ Last(s).id \in Direct /\ Common(e.to)
       \/ /\ Last(s).id = "jmprax"
          /\ LET t == lookBackForJumpTableAddr(s, Len(s))
             IN \E k \in 1 .. Len(prog.words[t]) :
                  /\ t = prog.code[f][i].target => k > prog.size[t]
                  /\ e.to = <<f, prog.words[t][k]>>
FlowFits(f, s, E) ==
  \A i \in 1 .. Len(prog.code[f]) : prog.code[f][i] = Last(s) => FlowFitsAt(f, s, E, i)

\* The edges of a block that has been met are its flow, the others have none.
Met(b) == /\ Common(b) /\ phase # "undefined"
          /\ b[1] = fun => phase \in {"edges", "link", "done"}
          /\ phase = "edges" => b \notin pending
Flows ==
  \A b \in DOMAIN blocks :
    /\ Met(b) => Insns(b) # <<>> /\ FlowFits(b[1], Insns(b), ExceptCall(b))
    /\ b[1] = fun /\ (phase = "fill" \/ (phase = "edges" /\ b \in pending)) => blocks[b].forward = <<>>

\* Where the build stops, a block of the function at hand has no statement.
Stopped == phase = "undefined" => \E b \in DOMAIN blocks : b[1] = fun /\ Unusable(b)

Base == Types /\ Domains /\ HeadsKnown
CFGInv == Base /\ Filling /\ Laid /\ Flows /\ EdgesMirrored /\ Stopped

LEMMA Programs ==
  ASSUME Types, NEW f \in DOMAIN prog.code
  PROVE  WellFormed(prog.code[f]) /\ TablesInMemory(prog, prog.code[f])
BY ProgramAssumption DEF Types

\* The code of the function at hand.
LEMMA CodeFacts ==
  ASSUME Types
  PROVE  /\ WellFormed(Code) /\ TablesInMemory(prog, Code)
         /\ Len(Code) \in Nat \ {0}
         /\ \A i \in 1 .. Len(Code) : /\ Code[i] \in Instruction /\ Code[i].addr \in Nat
                                      /\ low_pc <= Code[i].addr /\ Code[i].addr <= high_pc
         /\ low_pc \in 1 .. MaxAddr - 1 /\ high_pc \in 1 .. MaxAddr - 1
<1>1. fun \in DOMAIN prog.code
  BY DEF Types
<1>2. PICK c : c = Code
  OBVIOUS
<1>3. WellFormed(c) /\ TablesInMemory(prog, c)
  BY <1>1, <1>2, Programs DEF Code
<1>4. /\ Len(c) \in Nat \ {0}
      /\ \A i \in 1 .. Len(c) : c[i] \in Instruction /\ c[i].addr \in Nat /\ c[i].addr \in 1 .. MaxAddr - 1
  BY <1>3, CodeType
<1>5. \A i, j \in 1 .. Len(c) : i < j => c[i].addr < c[j].addr
  BY <1>3, OneAddress
<1>6. 1 \in 1 .. Len(c) /\ Len(c) \in 1 .. Len(c)
  BY <1>4
<1>7. ASSUME NEW i \in 1 .. Len(c) PROVE c[1].addr <= c[i].addr /\ c[i].addr <= c[Len(c)].addr
  <2>1. (i = 1 \/ 1 < i) /\ (i = Len(c) \/ i < Len(c))
    BY <1>4
  <2> QED
    BY <1>4, <1>5, <1>6, <2>1
<1>8. low_pc = c[1].addr /\ high_pc = c[Len(c)].addr
  BY <1>2 DEF low_pc, high_pc, Last
<1> QED
  BY <1>2, <1>3, <1>4, <1>6, <1>7, <1>8

\* The entries that getJumpAddr finds.
LEMMA TableWords ==
  ASSUME Types, NEW t, WordsAt(prog, t), NEW a \in getJumpAddr(t)
  PROVE  /\ low_pc < a /\ a < high_pc
         /\ \E i \in 1 .. Len(Code) : Code[i].addr = a
         /\ \E k \in 1 .. Len(prog.words[t]) : prog.words[t][k] = a
<1>1. Len(prog.words[t]) \in Nat
  BY DEF WordsAt
<1>2. PICK j \in 1 .. Len(prog.words[t]) :
        /\ a = prog.words[t][j]
        /\ \A k \in 1 .. j : /\ low_pc < prog.words[t][k] /\ prog.words[t][k] < high_pc
                             /\ prog.words[t][k] \in allInsnAddr
  BY DEF getJumpAddr
<1>3. j \in 1 .. j
  BY <1>1
<1>4. low_pc < a /\ a < high_pc /\ a \in allInsnAddr
  BY <1>2, <1>3
<1> QED
  BY <1>2, <1>4 DEF allInsnAddr

\* The heads that an instruction makes.
LEMMA HeadsInside ==
  ASSUME Types, NEW i \in 1 .. Len(Code), NEW a \in HeadsAt(i)
  PROVE  /\ a \in low_pc .. high_pc
         /\ \/ \E k \in 1 .. Len(Code) : Code[k].addr = a
            \/ Code[i].id \in Direct /\ Code[i].target = a
<1>0. /\ TablesInMemory(prog, Code) /\ Len(Code) \in Nat \ {0}
      /\ \A k \in 1 .. Len(Code) : Code[k].addr \in Nat /\ low_pc <= Code[k].addr /\ Code[k].addr <= high_pc
      /\ low_pc \in Nat /\ high_pc \in Nat
  BY CodeFacts, AddressAssumption
<1>1. CASE Code[i].id \in Direct /\ a = Code[i].target /\ a \in low_pc .. high_pc
  BY <1>1
<1>2. CASE Code[i].id = "jmprax" /\ a \in TableTargets(Code, i)
  <2>1. PICK t : t = lookBackForJumpTableAddr(Code, i)
    OBVIOUS
  <2>2. t # 0 /\ a \in getJumpAddr(t)
    BY <1>2, <2>1 DEF TableTargets
  <2>3. WordsAt(prog, t)
    BY <1>0, <1>2, <2>1, <2>2 DEF TablesInMemory
  <2>4. PICK k \in 1 .. Len(Code) : Code[k].addr = a
    BY <2>2, <2>3, TableWords
  <2> QED
    BY <1>0, <2>4
<1>3. CASE i < Len(Code) /\ a = Code[i + 1].addr
  <2>1. i + 1 \in 1 .. Len(Code)
    BY <1>0, <1>3
  <2> QED
    BY <1>0, <1>3, <2>1
<1> QED
  BY <1>1, <1>2, <1>3 DEF HeadsAt

LEMMA BlockTypeGrows ==
  ASSUME NEW D, NEW E, D \subseteq E
  PROVE  BlockType(D) \subseteq BlockType(E)
<1>1. Edges(D) \subseteq Edges(E)
  BY DEF Edges
<1>2. ASSUME NEW s \in Seq(Edges(D)) PROVE s \in Seq(Edges(E))
  <2>1. Elems(s) \subseteq Edges(D)
    BY ElemsType
  <2> QED
    BY <1>1, <2>1, ElemsSeq
<1> QED
  BY <1>2 DEF BlockType

\* A block's name.
LEMMA Named ==
  ASSUME Types, NEW b \in DOMAIN blocks
  PROVE  b = <<b[1], b[2]>> /\ b[1] \in DOMAIN prog.code /\ b[2] \in 0 .. MaxAddr /\ b # NoBlock
<1>1. b \in BlockIds
  BY DEF Types
<1>2. b = <<b[1], b[2]>> /\ b[1] \in DOMAIN prog.code /\ b[2] \in 0 .. MaxAddr
  BY <1>1 DEF BlockIds
<1> QED
  BY <1>2, NoBlockAssumption DEF Types

LEMMA FlattenElems ==
  ASSUME NEW X, NEW ss \in Seq(Seq(X))
  PROVE  Elems(FlattenSeq(ss)) = UNION {Elems(ss[i]) : i \in 1 .. Len(ss)}
<1> DEFINE S == {rr \in Seq(Seq(X)) : Elems(FlattenSeq(rr)) = UNION {Elems(r) : r \in Elems(rr)}}
<1>1. <<>> \in S
  BY FlattenEmpty, ElemsSmall
<1>2. ASSUME NEW rr \in Seq(Seq(X)), NEW r \in Seq(X), rr \in S PROVE Append(rr, r) \in S
  <2>1. FlattenSeq(Append(rr, r)) = FlattenSeq(rr) \o r /\ FlattenSeq(rr) \in Seq(X)
    BY FlattenAppend, FlattenType
  <2>2. PICK fl \in Seq(X) : fl = FlattenSeq(rr)
    BY <2>1
  <2>3. Elems(fl \o r) = Elems(fl) \union Elems(r)
    BY ElemsConcat
  <2>4. PICK Y : Y = Seq(X)
    OBVIOUS
  <2>5. rr \in Seq(Y) /\ r \in Y
    BY <2>4
  <2>6. Append(rr, r) = rr \o <<r>> /\ Append(rr, r) \in Seq(Y) /\ <<r>> \in Seq(Y)
    BY <2>5
  <2>7. Elems(rr \o <<r>>) = Elems(rr) \union Elems(<<r>>)
    BY ZenonT(60), <2>5, <2>6, ElemsConcat
  <2>8. Elems(Append(rr, r)) = Elems(rr) \union {r}
    BY <2>6, <2>7, ElemsSmall
  <2>9. Elems(fl) = UNION {Elems(q) : q \in Elems(rr)}
    BY <1>2, <2>2
  <2>10. UNION {Elems(q) : q \in Elems(rr) \union {r}} = (UNION {Elems(q) : q \in Elems(rr)}) \union Elems(r)
    OBVIOUS
  <2>11. Elems(FlattenSeq(Append(rr, r))) = UNION {Elems(q) : q \in Elems(Append(rr, r))}
    BY <2>1, <2>2, <2>3, <2>8, <2>9, <2>10
  <2> QED
    BY <2>4, <2>6, <2>11
<1> HIDE DEF S
<1>3. S \subseteq Seq(Seq(X))
  BY DEF S
<1>4. Seq(Seq(X)) \subseteq S
  BY <1>1, <1>2, <1>3, Grows
<1>5. Elems(FlattenSeq(ss)) = UNION {Elems(r) : r \in Elems(ss)}
  BY <1>4 DEF S
<1>6. {Elems(r) : r \in Elems(ss)} = {Elems(ss[i]) : i \in 1 .. Len(ss)}
  <2>1. Elems(ss) = {ss[i] : i \in 1 .. Len(ss)}
    BY DEF Elems
  <2> QED
    BY <2>1
<1> QED
  BY <1>5, <1>6

OneEdge(D, b, c, k) ==
  /\ EdgeTo(b, c, k) \in Seq(Edges(D))
  /\ Elems(EdgeTo(b, c, k)) = {[from |-> b, to |-> c, type |-> k]}

LEMMA EdgeToFacts ==
  ASSUME NEW D, NEW b \in D, NEW c \in D,
         NEW k \in {"default", "true", "false", "call_return", "call", "return"}
  PROVE  OneEdge(D, b, c, k)
<1>1. [from |-> b, to |-> c, type |-> k] \in Edges(D)
  BY DEF Edges
<1>2. PICK e \in Edges(D) : e = [from |-> b, to |-> c, type |-> k]
  BY <1>1
<1>3. EdgeTo(b, c, k) = <<e>> /\ <<e>> \in Seq(Edges(D))
  BY <1>2 DEF EdgeTo
<1> QED
  BY <1>2, <1>3, ElemsSmall DEF OneEdge

Outward(b, D, es) ==
  /\ es \in Seq(Edges(D))
  /\ \A e \in Elems(es) : e.from = b /\ e.type \notin {"call", "return"}

LEMMA OutwardNone == ASSUME NEW D, NEW b PROVE Outward(b, D, <<>>)
BY ElemsSmall DEF Outward

LEMMA OutwardTo ==
  ASSUME NEW D, NEW b \in D, NEW c \in D, NEW k \in {"default", "true", "false", "call_return"}
  PROVE  Outward(b, D, EdgeTo(b, c, k))
<1>1. k \in {"default", "true", "false", "call_return", "call", "return"}
  OBVIOUS
<1>2. OneEdge(D, b, c, k)
  BY <1>1, EdgeToFacts
<1> QED
  BY <1>2 DEF Outward, OneEdge

LEMMA OutwardConcat ==
  ASSUME NEW D, NEW b, NEW es, NEW ds, Outward(b, D, es), Outward(b, D, ds)
  PROVE  Outward(b, D, es \o ds) /\ Elems(es \o ds) = Elems(es) \union Elems(ds)
<1>1. es \in Seq(Edges(D)) /\ ds \in Seq(Edges(D))
  BY DEF Outward
<1>2. Elems(es \o ds) = Elems(es) \union Elems(ds)
  BY <1>1, ElemsConcat
<1>3. es \o ds \in Seq(Edges(D))
  BY <1>1, ConcatProperties
<1> QED
  BY <1>2, <1>3 DEF Outward

\* The edges along a table go to its targets that are heads.
LEMMA TableEdges ==
  ASSUME Types, HeadsKnown, phase # "heads", NEW b \in DOMAIN blocks
  PROVE  /\ Outward(b, DOMAIN blocks, EdgesToTable(b))
         /\ \A e \in Elems(EdgesToTable(b)) :
              \E a \in TableTargets(Insns(b), Len(Insns(b))) : a \in heads /\ e.to = Block(a)
         /\ \A a \in TableTargets(Insns(b), Len(Insns(b))) :
              a \in heads /\ (\E i \in 1 .. Len(Code) : Code[i].addr = a) =>
                \E e \in Elems(EdgesToTable(b)) : e.to = Block(a)
<1> DEFINE D == DOMAIN blocks
           T == TableTargets(Insns(b), Len(Insns(b))) \intersect heads
           ss == [i \in 1 .. Len(Code) |->
                    IF Code[i].addr \in T THEN EdgeTo(b, Block(Code[i].addr), "default") ELSE <<>>]
<1>0. /\ Len(Code) \in Nat
      /\ \A i \in 1 .. Len(Code) : Code[i].addr \in Nat
      /\ heads \subseteq 0 .. MaxAddr
  BY CodeFacts, AddressAssumption DEF Types
<1>1. \A a \in T : Block(a) \in D
  BY <1>0 DEF HeadsKnown
<1>b. b \in D /\ "default" \in {"default", "true", "false", "call_return", "call", "return"}
  OBVIOUS
<1> HIDE DEF T, D
<1>2. ASSUME NEW i \in 1 .. Len(Code) PROVE ss[i] \in Seq(Edges(D))
  <2>1. CASE Code[i].addr \in T
    <3>1. OneEdge(D, b, Block(Code[i].addr), "default")
      BY <1>1, <1>b, <2>1, EdgeToFacts
    <3> QED
      BY <2>1, <3>1 DEF OneEdge
  <2>2. CASE Code[i].addr \notin T
    BY <2>2
  <2> QED
    BY <2>1, <2>2
<1>3. ss \in Seq(Seq(Edges(D))) /\ Len(ss) = Len(Code)
  BY <1>0, <1>2
<1>4. EdgesToTable(b) = FlattenSeq(ss)
  BY DEF EdgesToTable, T
<1>5. EdgesToTable(b) \in Seq(Edges(D))
  BY <1>3, <1>4, FlattenType
<1>6. Elems(EdgesToTable(b)) = UNION {Elems(ss[i]) : i \in 1 .. Len(ss)}
  BY <1>3, <1>4, FlattenElems
<1>7. ASSUME NEW e \in Elems(EdgesToTable(b))
      PROVE  /\ e.from = b /\ e.type = "default"
             /\ \E a \in T : e.to = Block(a)
  <2>1. PICK i \in 1 .. Len(Code) : e \in Elems(ss[i])
    BY <1>3, <1>6
  <2>2. Code[i].addr \in T
    BY <2>1, ElemsSmall
  <2>3. ss[i] = EdgeTo(b, Block(Code[i].addr), "default")
    BY <2>2
  <2>4. OneEdge(D, b, Block(Code[i].addr), "default")
    BY <1>1, <1>b, <2>2, EdgeToFacts
  <2> QED
    BY <2>1, <2>2, <2>3, <2>4 DEF OneEdge
<1>8. ASSUME NEW i \in 1 .. Len(Code), Code[i].addr \in T
      PROVE  \E e \in Elems(EdgesToTable(b)) : e.to = Block(Code[i].addr)
  <2>1. ss[i] = EdgeTo(b, Block(Code[i].addr), "default")
    BY <1>8
  <2>2. OneEdge(D, b, Block(Code[i].addr), "default")
    BY <1>1, <1>b, <1>8, EdgeToFacts
  <2>3. [from |-> b, to |-> Block(Code[i].addr), type |-> "default"] \in Elems(EdgesToTable(b))
    BY <1>3, <1>6, <2>1, <2>2 DEF OneEdge
  <2> QED
    BY <2>3
<1>9. Outward(b, D, EdgesToTable(b))
  BY <1>5, <1>7 DEF Outward
<1> QED
  BY <1>7, <1>8, <1>9 DEF D, T

LEMMA EdgesOutward ==
  ASSUME Types, HeadsKnown, phase # "heads", NEW b \in DOMAIN blocks,
         NEW k \in {"default", "true", "false", "call_return"}, NEW a
  PROVE  /\ Outward(b, DOMAIN blocks, EdgeToNext(b, k))
         /\ Outward(b, DOMAIN blocks, EdgeToAddr(b, a, k))
<1>0. PICK D : D = DOMAIN blocks
  OBVIOUS
<1>1. b \in D /\ blocks[b].next \in D \union {NoBlock}
  BY <1>0 DEF Types, BlockType
<1>2. Outward(b, D, EdgeToNext(b, k))
  <2>1. CASE blocks[b].next = NoBlock
    BY <2>1, OutwardNone DEF EdgeToNext
  <2>2. CASE blocks[b].next # NoBlock
    <3>1. PICK c \in D : c = blocks[b].next
      BY <1>1, <2>2
    <3>2. Outward(b, D, EdgeTo(b, c, k))
      BY <1>1, OutwardTo
    <3> QED
      BY <2>2, <3>1, <3>2 DEF EdgeToNext
  <2> QED
    BY <2>1, <2>2
<1>3. Outward(b, D, EdgeToAddr(b, a, k))
  <2>1. CASE a \notin heads
    BY <2>1, OutwardNone DEF EdgeToAddr
  <2>2. CASE a \in heads
    <3>1. a \in 0 .. MaxAddr
      BY <2>2, CodeFacts, AddressAssumption DEF Types
    <3>2. PICK c \in D : c = Block(a)
      BY <1>0, <2>2, <3>1 DEF HeadsKnown
    <3>3. Outward(b, D, EdgeTo(b, c, k))
      BY <1>1, OutwardTo
    <3> QED
      BY <2>2, <3>2, <3>3 DEF EdgeToAddr
  <2> QED
    BY <2>1, <2>2
<1> QED
  BY <1>0, <1>2, <1>3

LEMMA EdgesFromOut ==
  ASSUME Types, Domains, HeadsKnown, phase = "edges", NEW b \in pending
  PROVE  Outward(b, DOMAIN blocks, EdgesFrom(b))
<1>0. PICK D : D = DOMAIN blocks
  OBVIOUS
<1>1. b \in D /\ Exit(fun) \in D
  <2>1. b \in D /\ fun \in DOMAIN prog.code /\ fun \notin left
    BY <1>0 DEF Types
  <2> QED
    BY <1>0, <2>1 DEF Domains
<1>2. ASSUME NEW k \in {"default", "true", "false", "call_return"}, NEW a
      PROVE  Outward(b, D, EdgeToNext(b, k)) /\ Outward(b, D, EdgeToAddr(b, a, k))
  BY <1>0, <1>1, EdgesOutward
<1>3. Outward(b, D, EdgesToTable(b))
  BY <1>0, <1>1, TableEdges
<1>4. Outward(b, D, EdgeTo(b, Exit(fun), "default"))
  <2>1. PICK c \in D : c = Exit(fun)
    BY <1>1
  <2> QED
    BY <1>1, <2>1, OutwardTo
<1>5. Outward(b, D, EdgeToNext(b, "false") \o EdgeToAddr(b, Last(Insns(b)).target, "true"))
  <2>1. PICK es, ds : es = EdgeToNext(b, "false") /\ ds = EdgeToAddr(b, Last(Insns(b)).target, "true")
    OBVIOUS
  <2>2. Outward(b, D, es) /\ Outward(b, D, ds)
    BY <1>2, <2>1
  <2>3. Outward(b, D, es \o ds)
    BY <2>2, OutwardConcat
  <2> QED
    BY <2>1, <2>3
<1>6. Outward(b, D, <<>>)
  BY OutwardNone
<1>7. \A a : Outward(b, D, EdgeToAddr(b, a, "default"))
  BY <1>2
<1>8. Outward(b, D, EdgeToNext(b, "default")) /\ Outward(b, D, EdgeToNext(b, "call_return"))
  BY <1>2
<1>9. Outward(b, D, EdgesFrom(b))
  BY <1>3, <1>4, <1>5, <1>6, <1>7, <1>8 DEF EdgesFrom
<1> QED
  BY <1>0, <1>9

\* The edges of calls are none of a graph's own.
LEMMA CallEdgesType ==
  ASSUME Types, Domains, phase = "link", NEW b \in DOMAIN blocks
  PROVE  /\ CallEdges(b) \in Seq(Edges(DOMAIN blocks))
         /\ \A e \in Elems(CallEdges(b)) : e.type \in {"call", "return"}
<1> DEFINE D == DOMAIN blocks
           callees == {f \in DOMAIN prog.code : prog.code[f][1].addr = Last(Insns(b)).target}
           f == CHOOSE x \in callees : TRUE
<1>1. CASE callees = {} \/ Last(Insns(b)).id # "call"
  <2>1. CallEdges(b) = <<>>
    BY <1>1 DEF CallEdges
  <2> QED
    BY <2>1, ElemsSmall
<1>2. CASE callees # {} /\ Last(Insns(b)).id = "call"
  <2>1. f \in DOMAIN prog.code
    BY <1>2
  <2>2. left = {} /\ phase # "heads"
    BY DEF Domains
  <2>3. Entry(f) \in D /\ Exit(f) \in D
    BY <2>1, <2>2 DEF Domains
  <2>4. blocks[b].next \in D \union {NoBlock} /\ b \in D
    BY DEF Types, BlockType
  <2> DEFINE n == blocks[b].next
             es == EdgeTo(b, Entry(f), "call")
             ds == IF n = NoBlock THEN <<>> ELSE EdgeTo(Exit(f), n, "return")
  <2>5. CallEdges(b) = es \o ds
    BY <1>2 DEF CallEdges
  <2>6. PICK c \in D, x \in D : c = Entry(f) /\ x = Exit(f)
    BY <2>3
  <2> HIDE DEF D
  <2>7. OneEdge(D, b, c, "call")
    BY <2>4, EdgeToFacts
  <2>8. es \in Seq(Edges(D)) /\ \A e \in Elems(es) : e.type = "call"
    BY <2>6, <2>7 DEF OneEdge
  <2>9. ds \in Seq(Edges(D)) /\ \A e \in Elems(ds) : e.type = "return"
    <3>1. CASE n = NoBlock
      BY <3>1, ElemsSmall
    <3>2. CASE n # NoBlock
      <4>1. PICK y \in D : y = n
        BY <2>4, <3>2
      <4>2. OneEdge(D, x, y, "return")
        BY EdgeToFacts
      <4> QED
        BY <2>6, <3>2, <4>1, <4>2 DEF OneEdge
    <3> QED
      BY <3>1, <3>2
  <2> HIDE DEF es, ds
  <2>10. es \o ds \in Seq(Edges(D))
    BY <2>8, <2>9, ConcatProperties
  <2>11. Elems(es \o ds) = Elems(es) \union Elems(ds)
    <3>1. PICK X : X = Edges(D)
      OBVIOUS
    <3>2. es \in Seq(X) /\ ds \in Seq(X)
      BY <2>8, <2>9, <3>1
    <3> QED
      BY <3>2, ElemsConcat
  <2>12. /\ CallEdges(b) \in Seq(Edges(D))
         /\ \A e \in Elems(CallEdges(b)) : e.type \in {"call", "return"}
    BY <2>5, <2>8, <2>9, <2>10, <2>11
  <2> QED
    BY <2>12 DEF D
<1> QED
  BY <1>1, <1>2

\* What pushing edges changes.
LEMMA Pushed ==
  ASSUME Types, NEW es \in Seq(Edges(DOMAIN blocks)), NEW bs, bs = WithEdges(es)
  PROVE  /\ DOMAIN bs = DOMAIN blocks
         /\ bs \in [DOMAIN blocks -> BlockType(DOMAIN blocks)]
         /\ \A x \in DOMAIN blocks :
              /\ bs[x].statements = blocks[x].statements
              /\ bs[x].end = blocks[x].end /\ bs[x].next = blocks[x].next
              /\ bs[x].forward = blocks[x].forward \o Leaving(es, x)
              /\ bs[x].backward = blocks[x].backward \o Reaching(es, x)
              /\ Elems(bs[x].forward) = Elems(blocks[x].forward) \union {e \in Elems(es) : e.from = x}
<1> DEFINE D == DOMAIN blocks
<1>1. ASSUME NEW x \in D
      PROVE  /\ bs[x] \in BlockType(D)
             /\ bs[x].statements = blocks[x].statements
             /\ bs[x].end = blocks[x].end /\ bs[x].next = blocks[x].next
             /\ bs[x].forward = blocks[x].forward \o Leaving(es, x)
             /\ bs[x].backward = blocks[x].backward \o Reaching(es, x)
             /\ Elems(bs[x].forward) = Elems(blocks[x].forward) \union {e \in Elems(es) : e.from = x}
  <2>1. PICK X : X = Edges(D)
    OBVIOUS
  <2>2. blocks[x] \in BlockType(D)
    BY DEF Types
  <2>3. blocks[x].forward \in Seq(X) /\ blocks[x].backward \in Seq(X)
    BY <2>1, <2>2 DEF BlockType
  <2>4. /\ Leaving(es, x) \in Seq(X) /\ Reaching(es, x) \in Seq(X)
        /\ Elems(Leaving(es, x)) = {e \in Elems(es) : e.from = x}
    BY <2>1, LeavingFacts
  <2>5. PICK f \in Seq(X), l \in Seq(X) : f = blocks[x].forward /\ l = Leaving(es, x)
    BY <2>3, <2>4
  <2>6. PICK b \in Seq(X), r \in Seq(X) : b = blocks[x].backward /\ r = Reaching(es, x)
    BY <2>3, <2>4
  <2>7. f \o l \in Seq(X) /\ b \o r \in Seq(X)
    BY ConcatProperties
  <2>8. bs[x] = [blocks[x] EXCEPT !.forward = f \o l, !.backward = b \o r]
    BY <2>5, <2>6 DEF WithEdges
  <2>9. Elems(f \o l) = Elems(f) \union Elems(l)
    BY ElemsConcat
  <2>10. /\ bs[x].statements = blocks[x].statements
         /\ bs[x].end = blocks[x].end /\ bs[x].next = blocks[x].next
         /\ bs[x].forward = f \o l /\ bs[x].backward = b \o r
    BY <2>2, <2>8 DEF BlockType
  <2>11. bs[x] \in BlockType(D)
    BY <2>1, <2>2, <2>7, <2>8 DEF BlockType
  <2> QED
    BY <2>4, <2>5, <2>6, <2>9, <2>10, <2>11
<1>2. bs = [x \in D |-> bs[x]]
  BY DEF WithEdges
<1> QED
  BY <1>1, <1>2

LEMMA PushedMirrored ==
  ASSUME Types, EdgesMirrored, NEW es \in Seq(Edges(DOMAIN blocks)), NEW bs, bs = WithEdges(es)
  PROVE  \A b, c \in DOMAIN blocks : Reaching(bs[b].forward, c) = Leaving(bs[c].backward, b)
<1> DEFINE D == DOMAIN blocks
<1>1. SUFFICES ASSUME NEW b \in D, NEW c \in D
               PROVE  Reaching(bs[b].forward, c) = Leaving(bs[c].backward, b)
  OBVIOUS
<1>2. /\ bs[b].forward = blocks[b].forward \o Leaving(es, b)
      /\ bs[c].backward = blocks[c].backward \o Reaching(es, c)
  BY SMTT(60), Pushed
<1>3. blocks[b].forward \in Seq(Edges(D)) /\ blocks[c].backward \in Seq(Edges(D))
  BY DEF Types, BlockType
<1>4. PICK f \in Seq(Edges(D)), g \in Seq(Edges(D)) : f = blocks[b].forward /\ g = blocks[c].backward
  BY <1>3
<1>5. Reaching(f, c) = Leaving(g, b)
  BY <1>4 DEF EdgesMirrored
<1>6. Reaching(f \o Leaving(es, b), c) = Leaving(g \o Reaching(es, c), b)
  BY <1>5, Mirrors
<1> QED
  BY <1>2, <1>4, <1>6

-----------------------------------------------------------------------------
(***************************************************************************)
(* The types, the blocks of each function and its heads.                   *)
(***************************************************************************)
LEMMA SameCode ==
  ASSUME prog' = prog, fun' = fun
  PROVE  /\ Code' = Code /\ low_pc' = low_pc /\ high_pc' = high_pc /\ BlockIds' = BlockIds
         /\ \A i : HeadsAt(i)' = HeadsAt(i)
         /\ \A a : Block(a)' = Block(a)
<1>1. /\ Code' = Code /\ low_pc' = low_pc /\ high_pc' = high_pc /\ BlockIds' = BlockIds
      /\ allInsnAddr' = allInsnAddr
  BY DEF Code, low_pc, high_pc, BlockIds, allInsnAddr
<1>2. \A t : getJumpAddr(t)' = getJumpAddr(t)
  BY <1>1 DEF getJumpAddr
<1>3. \A insns, i : TableTargets(insns, i)' = TableTargets(insns, i)
  BY <1>2 DEF TableTargets
<1>4. \A i : HeadsAt(i)' = HeadsAt(i)
  BY <1>1, <1>3 DEF HeadsAt
<1>5. \A a : Block(a)' = Block(a)
  BY DEF Block
<1> QED
  BY <1>1, <1>4, <1>5

LEMMA BaseInit == Init => Base
<1>1. SUFFICES ASSUME Init PROVE Base
  OBVIOUS
<1>2. /\ prog \in Program /\ fun \in DOMAIN prog.code /\ left = DOMAIN prog.code \ {fun}
      /\ phase = "heads" /\ pos = 1 /\ blocks = <<>> /\ cur = NoBlock /\ pending = {}
      /\ heads = {Code[1].addr}
  BY <1>1 DEF Init
<1>3. WellFormed(Code)
  BY <1>2, ProgramAssumption DEF Code
<1>4. Len(Code) \in Nat \ {0} /\ \A i \in 1 .. Len(Code) : Code[i].addr \in Nat
  BY <1>3, CodeType
<1>5. 1 \in 1 .. Len(Code) /\ Len(Code) \in 1 .. Len(Code) /\ 1 \in 1 .. Len(Code) + 1
  BY <1>4
<1>6. low_pc = Code[1].addr /\ high_pc = Code[Len(Code)].addr /\ low_pc \in Nat /\ high_pc \in Nat
  BY <1>4, <1>5 DEF low_pc, high_pc, Last
<1>7. low_pc <= high_pc
  <2>1. PICK c : c = Code
    OBVIOUS
  <2>2. \A i, j \in 1 .. Len(c) : i < j => c[i].addr < c[j].addr
    BY <1>3, <2>1, OneAddress
  <2>3. Len(Code) = 1 \/ 1 < Len(Code)
    <3>1. PICK n \in Nat : n = Len(Code) /\ n # 0
      BY <1>4
    <3>2. n = 1 \/ 1 < n
      BY <3>1
    <3> QED
      BY <3>1, <3>2
  <2> QED
    BY <1>5, <1>6, <2>1, <2>2, <2>3
<1>8. DOMAIN blocks = {}
  BY <1>2
<1>9. blocks \in [DOMAIN blocks -> BlockType(DOMAIN blocks)]
  BY <1>2, <1>8
<1>10. Types
  BY <1>2, <1>5, <1>6, <1>7, <1>8, <1>9 DEF Types
<1>11. Domains
  BY <1>2, <1>8 DEF Domains
<1>12. HeadsKnown
  BY <1>2, <1>4, <1>5 DEF HeadsKnown
<1> QED
  BY <1>10, <1>11, <1>12 DEF Base

LEMMA BaseHeads == ASSUME Base, BasicBlockHead PROVE Base'
<1>0. Types /\ Domains /\ HeadsKnown
  BY DEF Base
<1>1. /\ phase = "heads" /\ phase' = phase /\ heads' = heads \union HeadsAt(pos) /\ pos' = pos + 1
      /\ pos <= Len(Code)
      /\ prog' = prog /\ fun' = fun /\ left' = left /\ blocks' = blocks /\ cur' = cur /\ pending' = pending
  BY DEF BasicBlockHead
<1>2. /\ Code' = Code /\ low_pc' = low_pc /\ high_pc' = high_pc /\ BlockIds' = BlockIds
      /\ \A i : HeadsAt(i)' = HeadsAt(i)
  BY <1>1, SameCode
<1>3. Len(Code) \in Nat \ {0} /\ pos \in 1 .. Len(Code) /\ pos \in Nat
  BY <1>0, <1>1, CodeFacts DEF Types
<1>4. Types'
  <2>1. heads' \subseteq low_pc .. high_pc
    BY <1>0, <1>1, <1>3, HeadsInside DEF Types
  <2>2. pos' \in 1 .. Len(Code) + 1
    BY <1>1, <1>3
  <2> QED
    BY <1>0, <1>1, <1>2, <2>1, <2>2 DEF Types
<1>5. Domains'
  BY <1>0, <1>1 DEF Domains, Entry, Exit, Common
<1>6. HeadsKnown'
  <2>1. ASSUME NEW a \in heads'
        PROVE  \E i \in 1 .. Len(Code) : Code[i].addr = a \/ (Code[i].id \in Direct /\ Code[i].target = a)
    <3>1. CASE a \in heads
      BY <1>0, <3>1 DEF HeadsKnown
    <3>2. CASE a \in HeadsAt(pos)
      BY <1>0, <1>3, <3>2, HeadsInside
    <3> QED
      BY <1>1, <2>1, <3>1, <3>2
  <2>2. ASSUME NEW i \in 1 .. Len(Code), i < pos + 1 PROVE HeadsAt(i) \subseteq heads'
    <3>1. i < pos \/ i = pos
      BY <1>3, <2>2
    <3> QED
      BY <1>0, <1>1, <3>1 DEF HeadsKnown
  <2> QED
    BY <1>1, <1>2, <2>1, <2>2 DEF HeadsKnown
<1> QED
  BY <1>4, <1>5, <1>6 DEF Base

\* The blocks of the function at hand, once they are made.
LEMMA Heads ==
  ASSUME Base, phase # "heads", NEW a
  PROVE  /\ a \in heads => a \in 0 .. MaxAddr /\ a \notin {0, MaxAddr} /\ Block(a) \in DOMAIN blocks
         /\ Block(a) \in DOMAIN blocks /\ Common(Block(a)) => a \in heads
<1>0. Types /\ HeadsKnown
  BY DEF Base
<1>1. /\ low_pc \in 1 .. MaxAddr - 1 /\ high_pc \in 1 .. MaxAddr - 1
      /\ heads \subseteq low_pc .. high_pc /\ MaxAddr \in Nat
  BY <1>0, CodeFacts, AddressAssumption DEF Types
<1>2. a \in heads => a \in 0 .. MaxAddr /\ a \notin {0, MaxAddr}
  BY <1>1
<1>3. Block(a) \in DOMAIN blocks => a \in 0 .. MaxAddr
  <2>1. Block(a) \in DOMAIN blocks => Block(a) \in BlockIds
    BY <1>0 DEF Types
  <2> QED
    BY <2>1 DEF BlockIds, Block
<1> QED
  BY <1>0, <1>2, <1>3 DEF HeadsKnown, Common, Block

LEMMA BaseMake == ASSUME Base, MakeBlocks PROVE Base'
<1>0. Types /\ Domains /\ HeadsKnown
  BY DEF Base
<1> DEFINE made == {Block(a) : a \in heads} \union {Entry(fun), Exit(fun)}
<1>1. /\ phase = "heads" /\ phase' = "fill" /\ heads' = heads /\ pos' = 1 /\ pos > Len(Code)
      /\ prog' = prog /\ fun' = fun /\ left' = left /\ cur' = Entry(fun) /\ pending' = pending
      /\ blocks' = [b \in made \union DOMAIN blocks |-> IF b \in made THEN Empty ELSE blocks[b]]
  BY DEF MakeBlocks
<1>2. /\ Code' = Code /\ low_pc' = low_pc /\ high_pc' = high_pc /\ BlockIds' = BlockIds
      /\ (\A i : HeadsAt(i)' = HeadsAt(i)) /\ \A a : Block(a)' = Block(a)
  BY <1>1, SameCode
<1>3. /\ Len(Code) \in Nat \ {0} /\ pos \in 1 .. Len(Code) + 1 /\ fun \in DOMAIN prog.code
      /\ low_pc \in 1 .. MaxAddr - 1 /\ high_pc \in 1 .. MaxAddr - 1
      /\ heads \subseteq low_pc .. high_pc /\ MaxAddr \in Nat /\ fun \notin left
  BY <1>0, CodeFacts, AddressAssumption DEF Types
<1>4. made \subseteq BlockIds /\ \A b \in made : b[1] = fun
  BY <1>3 DEF BlockIds, Block, Entry, Exit
<1>5. /\ DOMAIN blocks' = made \union DOMAIN blocks
      /\ \A b \in DOMAIN blocks' : blocks'[b] = IF b \in made THEN Empty ELSE blocks[b]
  BY <1>1
<1>6. \A b \in DOMAIN blocks : b[1] # fun
  BY <1>0, <1>1 DEF Domains
<1> HIDE DEF made
<1>7. Types'
  <2>1. BlockType(DOMAIN blocks) \subseteq BlockType(DOMAIN blocks')
    <3>1. PICK D, E : D = DOMAIN blocks /\ E = DOMAIN blocks'
      OBVIOUS
    <3>2. D \subseteq E
      BY <1>5, <3>1
    <3> QED
      BY <3>1, <3>2, BlockTypeGrows
  <2>2. Empty \in BlockType(DOMAIN blocks')
    BY DEF Empty, BlockType
  <2>3. \A b \in DOMAIN blocks : blocks[b] \in BlockType(DOMAIN blocks)
    BY <1>0 DEF Types
  <2>4. \A b \in DOMAIN blocks' : blocks'[b] \in BlockType(DOMAIN blocks')
    BY <1>5, <2>1, <2>2, <2>3
  <2>5. blocks' \in [DOMAIN blocks' -> BlockType(DOMAIN blocks')]
    BY <1>1, <1>5, <2>4
  <2>6. DOMAIN blocks' \subseteq BlockIds
    BY <1>0, <1>4, <1>5 DEF Types
  <2>7. cur' \in DOMAIN blocks'
    BY <1>1, <1>5 DEF made
  <2>8. 1 \in 1 .. Len(Code) + 1
    BY <1>3
  <2> QED
    BY <1>0, <1>1, <1>2, <1>5, <2>5, <2>6, <2>7, <2>8 DEF Types
<1>8. Domains'
  <2>1. \A b \in DOMAIN blocks' : b[1] \notin left
    BY <1>0, <1>3, <1>4, <1>5 DEF Domains
  <2>2. \A f \in (DOMAIN prog.code) \ left : Entry(f) \in DOMAIN blocks' /\ Exit(f) \in DOMAIN blocks'
    BY <1>0, <1>5 DEF Domains, made
  <2> QED
    BY <1>1, <2>1, <2>2 DEF Domains, Entry, Exit
<1>9. HeadsKnown'
  <2>1. \A a \in 0 .. MaxAddr : Block(a) \in DOMAIN blocks' <=> a \in heads \union {0, MaxAddr}
    BY <1>5, <1>6 DEF made, Block, Entry, Exit
  <2>2. \A i \in 1 .. Len(Code) : HeadsAt(i) \subseteq heads
    BY <1>0, <1>1, <1>3 DEF HeadsKnown
  <2> QED
    BY <1>0, <1>1, <1>2, <2>1, <2>2 DEF HeadsKnown
<1> QED
  BY <1>7, <1>8, <1>9 DEF Base

\* A block as the types have it.
LEMMA Fields ==
  ASSUME Types, NEW x \in DOMAIN blocks
  PROVE  /\ blocks[x] \in BlockType(DOMAIN blocks)
         /\ blocks[x].statements \in Seq(Instruction) /\ blocks[x].end \in Nat
         /\ blocks[x].next \in DOMAIN blocks \union {NoBlock}
         /\ blocks[x].forward \in Seq(Edges(DOMAIN blocks))
         /\ blocks[x].backward \in Seq(Edges(DOMAIN blocks))
BY DEF Types, BlockType

\* What a statement changes: its block b, and the one before if it begins b.
Moved(b, begins, insn) ==
  /\ b \in DOMAIN blocks /\ DOMAIN blocks' = DOMAIN blocks
  /\ blocks' \in [DOMAIN blocks -> BlockType(DOMAIN blocks)]
  /\ \A x \in DOMAIN blocks :
       /\ blocks'[x].statements = IF x = b THEN Append(blocks[x].statements, insn) ELSE blocks[x].statements
       /\ blocks'[x].next = IF begins /\ x = cur THEN b ELSE blocks[x].next
       /\ blocks'[x].end = IF begins /\ x = cur /\ Common(cur) THEN insn.addr ELSE blocks[x].end
       /\ blocks'[x].forward = blocks[x].forward /\ blocks'[x].backward = blocks[x].backward

LEMMA StatementMoves ==
  ASSUME Base, Statement, cur \in DOMAIN blocks
  PROVE  IF Code[pos].addr \in heads THEN Moved(Block(Code[pos].addr), TRUE, Code[pos])
         ELSE Moved(cur, FALSE, Code[pos])
<1> DEFINE insn == Code[pos]  begins == insn.addr \in heads
           b == IF begins THEN Block(insn.addr) ELSE cur
           closed == IF begins
                     THEN [blocks EXCEPT ![cur].next = b, ![b].previous = cur,
                                         ![cur].end = IF Common(cur) THEN insn.addr ELSE @]
                     ELSE blocks
           D == DOMAIN blocks
<1>0. Types
  BY DEF Base
<1>1. blocks' = [closed EXCEPT ![b].statements = Append(@, insn)] /\ phase = "fill" /\ pos <= Len(Code)
  BY DEF Statement
<1>2. insn \in Instruction /\ insn.addr \in Nat
  <2>1. Len(Code) \in Nat
    BY <1>0, CodeFacts
  <2>2. pos \in 1 .. Len(Code) + 1 /\ pos <= Len(Code)
    BY <1>0 DEF Types, Statement
  <2>3. pos \in 1 .. Len(Code)
    BY <2>1, <2>2
  <2> QED
    BY <1>0, <2>3, CodeFacts
<1>3. b \in D
  BY <1>1, Heads
<1>4. blocks = [x \in D |-> blocks[x]] /\ \A x \in D : blocks[x] \in BlockType(D)
  BY <1>0 DEF Types
<1> HIDE DEF b, insn, D
<1>5. closed = [x \in D |-> closed[x]]
  BY <1>4
<1>6. ASSUME NEW x \in D
      PROVE  /\ closed[x] \in BlockType(D)
             /\ closed[x].statements = blocks[x].statements
             /\ closed[x].next = IF begins /\ x = cur THEN b ELSE blocks[x].next
             /\ closed[x].end = IF begins /\ x = cur /\ Common(cur) THEN insn.addr ELSE blocks[x].end
             /\ closed[x].forward = blocks[x].forward /\ closed[x].backward = blocks[x].backward
  <2>1. CASE ~ begins
    BY <1>4, <2>1
  <2>2. CASE begins
    <3> DEFINE one == [blocks[x] EXCEPT !.next = IF x = cur THEN b ELSE @]
               two == [one EXCEPT !.previous = IF x = b THEN cur ELSE @]
               three == [two EXCEPT !.end = IF x = cur /\ Common(cur) THEN insn.addr ELSE @]
    <3>1. closed[x] = three
      BY <1>3, <1>4, <2>2 DEF D, BlockType
    <3>2. blocks[x] \in BlockType(D)
      BY <1>4
    <3>3. cur \in D
      BY DEF D
    <3>4. three \in BlockType(D)
      BY <1>2, <1>3, <3>2, <3>3 DEF BlockType
    <3>5. /\ three.statements = blocks[x].statements
          /\ three.next = IF x = cur THEN b ELSE blocks[x].next
          /\ three.end = IF x = cur /\ Common(cur) THEN insn.addr ELSE blocks[x].end
          /\ three.forward = blocks[x].forward /\ three.backward = blocks[x].backward
      BY <3>2 DEF BlockType
    <3> QED
      BY <2>2, <3>1, <3>4, <3>5
  <2> QED
    BY <2>1, <2>2
<1> HIDE DEF closed
<1>7. ASSUME NEW x \in D
      PROVE  /\ blocks'[x] \in BlockType(D)
             /\ blocks'[x].statements = IF x = b THEN Append(blocks[x].statements, insn) ELSE blocks[x].statements
             /\ blocks'[x].next = closed[x].next /\ blocks'[x].end = closed[x].end
             /\ blocks'[x].forward = closed[x].forward /\ blocks'[x].backward = closed[x].backward
  <2>1. CASE x = b
    <3>1. blocks'[x] = [closed[x] EXCEPT !.statements = Append(@, insn)]
      BY <1>1, <1>3, <1>5, <2>1
    <3>2. Append(closed[x].statements, insn) \in Seq(Instruction)
      BY <1>2, <1>6 DEF BlockType
    <3> QED
      BY ZenonT(60), <1>6, <2>1, <3>1, <3>2 DEF BlockType
  <2>2. CASE x # b
    <3>1. blocks'[x] = closed[x]
      BY <1>1, <1>3, <1>5, <2>2
    <3> QED
      BY <1>6, <2>2, <3>1
  <2> QED
    BY <2>1, <2>2
<1>8. DOMAIN blocks' = D /\ blocks' = [x \in D |-> blocks'[x]]
  BY <1>1, <1>5
<1>9. CASE begins
  <2>1. Moved(b, TRUE, insn)
    BY <1>3, <1>6, <1>7, <1>8, <1>9 DEF Moved, D
  <2> QED
    BY <1>9, <2>1 DEF b, insn
<1>10. CASE ~ begins
  <2>1. Moved(b, FALSE, insn)
    BY <1>3, <1>6, <1>7, <1>8, <1>10 DEF Moved, D
  <2> QED
    BY <1>10, <2>1 DEF b, insn
<1> QED
  BY <1>9, <1>10

\* The invariant of the base depends on no more of the blocks than their names.
LEMMA BaseKept ==
  ASSUME Base, prog' = prog, fun' = fun, left' = left, heads' = heads, DOMAIN blocks' = DOMAIN blocks,
         blocks' \in [DOMAIN blocks -> BlockType(DOMAIN blocks)],
         phase # "heads", phase' \in {"fill", "edges", "link", "done", "undefined"},
         pos' \in 1 .. Len(Code) + 1, cur' \in DOMAIN blocks \union {NoBlock}, pending' \subseteq DOMAIN blocks,
         phase' \in {"link", "done"} => left = {},
         phase' = "edges" => \A b \in pending' : b[1] = fun,
         phase' = "link" => \A b \in pending' : Common(b)
  PROVE  Base'
<1>0. Types /\ Domains /\ HeadsKnown
  BY DEF Base
<1>1. /\ Code' = Code /\ low_pc' = low_pc /\ high_pc' = high_pc /\ BlockIds' = BlockIds
      /\ (\A i : HeadsAt(i)' = HeadsAt(i)) /\ \A a : Block(a)' = Block(a)
  BY SameCode
<1>2. Types'
  BY <1>0, <1>1 DEF Types
<1>3. Domains'
  BY <1>0 DEF Domains, Entry, Exit, Common
<1>4. HeadsKnown'
  BY <1>0, <1>1 DEF HeadsKnown
<1> QED
  BY <1>2, <1>3, <1>4 DEF Base

LEMMA BaseStatement == ASSUME Base, Statement, cur \in DOMAIN blocks PROVE Base'
<1>0. Types
  BY DEF Base
<1>1. /\ phase = "fill" /\ phase' = phase /\ pos' = pos + 1 /\ pos <= Len(Code)
      /\ prog' = prog /\ fun' = fun /\ left' = left /\ heads' = heads /\ pending' = pending
      /\ cur' = IF Code[pos].addr \in heads THEN Block(Code[pos].addr) ELSE cur
  BY DEF Statement
<1>2. /\ cur' \in DOMAIN blocks /\ DOMAIN blocks' = DOMAIN blocks
      /\ blocks' \in [DOMAIN blocks -> BlockType(DOMAIN blocks)]
  BY <1>1, StatementMoves DEF Moved
<1>3. pos' \in 1 .. Len(Code) + 1 /\ pending \subseteq DOMAIN blocks
  <2>1. Len(Code) \in Nat
    BY <1>0, CodeFacts
  <2>2. pos \in 1 .. Len(Code) + 1 /\ pending \subseteq DOMAIN blocks
    BY <1>0 DEF Types
  <2> QED
    BY <1>1, <2>1, <2>2
<1> QED
  BY <1>1, <1>2, <1>3, BaseKept

LEMMA LastFacts ==
  ASSUME Base, LastStatement, cur \in DOMAIN blocks
  PROVE  /\ DOMAIN blocks' = DOMAIN blocks
         /\ blocks' \in [DOMAIN blocks -> BlockType(DOMAIN blocks)]
         /\ \A x \in DOMAIN blocks :
              /\ blocks'[x].statements = blocks[x].statements /\ blocks'[x].next = blocks[x].next
              /\ blocks'[x].end = IF x = cur /\ Common(cur) THEN Behind(Code, Len(Code)) ELSE blocks[x].end
              /\ blocks'[x].forward = blocks[x].forward /\ blocks'[x].backward = blocks[x].backward
<1> DEFINE D == DOMAIN blocks
           end == Behind(Code, Len(Code))
<1>0. Types
  BY DEF Base
<1>1. blocks' = [blocks EXCEPT ![cur].end = IF Common(cur) THEN end ELSE @]
  BY DEF LastStatement
<1>2. end \in Nat
  <2>1. PICK c : c = Code
    OBVIOUS
  <2>2. WellFormed(c)
    BY <1>0, <2>1, CodeFacts
  <2>3. Len(c) \in Nat \ {0} /\ \A i \in 1 .. Len(c) : Behind(c, i) \in Nat
    BY <2>2, CodeType
  <2>4. Len(c) \in 1 .. Len(c)
    BY <2>3
  <2> QED
    BY <2>1, <2>3, <2>4
<1> HIDE DEF D, end
<1>3. blocks = [x \in D |-> blocks[x]] /\ \A x \in D : blocks[x] \in BlockType(D)
  BY <1>0 DEF Types, D
<1>4. DOMAIN blocks' = D /\ blocks' = [x \in D |-> blocks'[x]]
  BY <1>1, <1>3
<1>5. ASSUME NEW x \in D
      PROVE  /\ blocks'[x] \in BlockType(D)
             /\ blocks'[x].statements = blocks[x].statements /\ blocks'[x].next = blocks[x].next
             /\ blocks'[x].end = IF x = cur /\ Common(cur) THEN end ELSE blocks[x].end
             /\ blocks'[x].forward = blocks[x].forward /\ blocks'[x].backward = blocks[x].backward
  <2>1. blocks'[x] = [blocks[x] EXCEPT !.end = IF x = cur /\ Common(cur) THEN end ELSE @]
    BY <1>1, <1>3 DEF BlockType
  <2>2. blocks[x] \in BlockType(D)
    BY <1>3
  <2> QED
    BY <1>2, <2>1, <2>2 DEF BlockType
<1> QED
  BY <1>4, <1>5 DEF D, end

LEMMA BaseLast == ASSUME Base, LastStatement, cur \in DOMAIN blocks PROVE Base'
<1>0. Types
  BY DEF Base
<1>1. /\ phase = "fill" /\ phase' = "edges" /\ pos' = pos
      /\ prog' = prog /\ fun' = fun /\ left' = left /\ heads' = heads /\ cur' = cur
      /\ pending' = {b \in DOMAIN blocks : b[1] = fun}
  BY DEF LastStatement
<1>2. /\ DOMAIN blocks' = DOMAIN blocks
      /\ blocks' \in [DOMAIN blocks -> BlockType(DOMAIN blocks)]
  BY LastFacts
<1>3. pos \in 1 .. Len(Code) + 1
  BY <1>0 DEF Types
<1> QED
  BY <1>1, <1>2, <1>3, BaseKept

LEMMA EdgesPushed ==
  ASSUME Base, NEW b \in pending, EdgesOfBasicBlock(b), phase' # "undefined"
  PROVE  /\ EdgesFrom(b) \in Seq(Edges(DOMAIN blocks)) /\ blocks' = WithEdges(EdgesFrom(b))
         /\ phase' = phase /\ pending' = pending \ {b} /\ ~Unusable(b)
<1>1. phase = "edges" /\ ~Unusable(b)
  BY DEF EdgesOfBasicBlock
<1>2. Outward(b, DOMAIN blocks, EdgesFrom(b))
  BY <1>1, EdgesFromOut DEF Base
<1> QED
  BY <1>1, <1>2 DEF EdgesOfBasicBlock, Outward

LEMMA BaseEdges == ASSUME Base, NEW b \in pending, EdgesOfBasicBlock(b) PROVE Base'
<1>0. Types /\ Domains
  BY DEF Base
<1>1. /\ phase = "edges" /\ pos' = pos
      /\ prog' = prog /\ fun' = fun /\ left' = left /\ heads' = heads /\ cur' = cur
  BY DEF EdgesOfBasicBlock
<1>2. /\ pos \in 1 .. Len(Code) + 1 /\ cur \in DOMAIN blocks \union {NoBlock} /\ pending \subseteq DOMAIN blocks
      /\ blocks \in [DOMAIN blocks -> BlockType(DOMAIN blocks)]
      /\ \A x \in pending : x[1] = fun
  BY <1>0, <1>1 DEF Types, Domains
<1>3. CASE phase' = "undefined"
  <2>1. blocks' = blocks /\ pending' = pending
    BY <1>1, <1>3 DEF EdgesOfBasicBlock
  <2> QED
    BY <1>1, <1>2, <1>3, <2>1, BaseKept
<1>4. CASE phase' # "undefined"
  <2>1. /\ EdgesFrom(b) \in Seq(Edges(DOMAIN blocks)) /\ blocks' = WithEdges(EdgesFrom(b))
        /\ phase' = phase /\ pending' = pending \ {b}
    BY <1>4, EdgesPushed
  <2>2. DOMAIN blocks' = DOMAIN blocks /\ blocks' \in [DOMAIN blocks -> BlockType(DOMAIN blocks)]
    BY <1>0, <2>1, Pushed
  <2> QED
    BY <1>1, <1>2, <2>1, <2>2, BaseKept
<1> QED
  BY <1>3, <1>4

LEMMA BaseNextFunction == ASSUME Base, NEW f \in left, NextFunction(f) PROVE Base'
<1>0. Types /\ Domains
  BY DEF Base
<1>1. /\ phase = "edges" /\ pending = {} /\ phase' = "heads" /\ pos' = 1
      /\ prog' = prog /\ fun' = f /\ left' = left \ {f} /\ heads' = {prog.code[f][1].addr}
      /\ blocks' = blocks /\ cur' = cur /\ pending' = pending
  BY DEF NextFunction
<1>2. prog \in Program /\ f \in DOMAIN prog.code /\ fun \in DOMAIN prog.code /\ left \subseteq DOMAIN prog.code
  BY <1>0 DEF Types
<1>3. PICK c : c = prog.code[f]
  OBVIOUS
<1>4. WellFormed(c)
  BY <1>2, <1>3, ProgramAssumption
<1>5. /\ Len(c) \in Nat \ {0} /\ (\A i \in 1 .. Len(c) : c[i].addr \in Nat)
      /\ \A i, j \in 1 .. Len(c) : i < j => c[i].addr < c[j].addr
  BY <1>4, CodeType, OneAddress
<1>6. 1 \in 1 .. Len(c) /\ Len(c) \in 1 .. Len(c) /\ 1 \in 1 .. Len(c) + 1
  BY <1>5
<1>7. Code' = c /\ low_pc' = c[1].addr /\ high_pc' = c[Len(c)].addr
  BY <1>1, <1>3 DEF Code, low_pc, high_pc, Last
<1>8. c[1].addr \in c[1].addr .. c[Len(c)].addr
  <2>1. PICK n \in Nat : n = Len(c) /\ n # 0
    BY <1>5
  <2>2. n = 1 \/ 1 < n
    BY <2>1
  <2> QED
    BY <1>5, <1>6, <2>1, <2>2
<1>9. Types'
  <2>1. BlockIds' = BlockIds
    BY <1>1 DEF BlockIds
  <2> QED
    BY <1>0, <1>1, <1>2, <1>3, <1>6, <1>7, <1>8, <2>1 DEF Types
<1>10. Domains'
  <2>1. \A b \in DOMAIN blocks : b[1] \notin left
    BY <1>0 DEF Domains
  <2>2. \A g \in (DOMAIN prog.code) \ left : Entry(g) \in DOMAIN blocks /\ Exit(g) \in DOMAIN blocks
    BY <1>0, <1>1 DEF Domains
  <2> QED
    BY <1>1, <2>1, <2>2 DEF Domains, Entry, Exit
<1>11. HeadsKnown'
  BY <1>1, <1>3, <1>5, <1>6, <1>7 DEF HeadsKnown
<1> QED
  BY <1>9, <1>10, <1>11 DEF Base

LEMMA LinksPushed ==
  ASSUME Base, NEW b \in pending, LinkBlock(b)
  PROVE  /\ CallEdges(b) \in Seq(Edges(DOMAIN blocks)) /\ blocks' = WithEdges(CallEdges(b))
         /\ \A e \in Elems(CallEdges(b)) : e.type \in {"call", "return"}
<1>1. phase = "link" /\ b \in DOMAIN blocks
  BY DEF LinkBlock, Base, Types
<1> QED
  BY <1>1, CallEdgesType DEF LinkBlock, Base

LEMMA BaseLinking == ASSUME Base, AllBuilt \/ Linked \/ \E b \in pending : LinkBlock(b) PROVE Base'
<1>0. Types /\ Domains
  BY DEF Base
<1>1. /\ prog' = prog /\ fun' = fun /\ left' = left /\ heads' = heads /\ cur' = cur /\ pos' = pos
  BY DEF AllBuilt, Linked, LinkBlock
<1>2. /\ pos \in 1 .. Len(Code) + 1 /\ cur \in DOMAIN blocks \union {NoBlock} /\ pending \subseteq DOMAIN blocks
      /\ blocks \in [DOMAIN blocks -> BlockType(DOMAIN blocks)]
  BY <1>0 DEF Types
<1>3. CASE AllBuilt
  <2>1. /\ blocks' = blocks /\ phase = "edges" /\ phase' = "link" /\ left = {}
        /\ pending' = {b \in DOMAIN blocks : Common(b)}
    BY <1>3 DEF AllBuilt
  <2> QED
    BY <1>1, <1>2, <2>1, BaseKept
<1>4. CASE Linked
  <2>1. blocks' = blocks /\ phase = "link" /\ phase' = "done" /\ pending' = pending
    BY <1>4 DEF Linked
  <2>2. left = {}
    BY <1>0, <2>1 DEF Domains
  <2> QED
    BY <1>1, <1>2, <2>1, <2>2, BaseKept
<1>5. ASSUME NEW b \in pending, LinkBlock(b) PROVE Base'
  <2>1. phase = "link" /\ phase' = phase /\ pending' = pending \ {b}
    BY <1>5 DEF LinkBlock
  <2>2. CallEdges(b) \in Seq(Edges(DOMAIN blocks)) /\ blocks' = WithEdges(CallEdges(b))
    BY <1>5, LinksPushed
  <2>3. DOMAIN blocks' = DOMAIN blocks /\ blocks' \in [DOMAIN blocks -> BlockType(DOMAIN blocks)]
    BY <1>0, <2>2, Pushed
  <2>4. left = {} /\ \A x \in pending : Common(x)
    BY <1>0, <2>1 DEF Domains
  <2> QED
    BY <1>1, <1>2, <2>1, <2>3, <2>4, BaseKept
<1> QED
  BY <1>3, <1>4, <1>5

-----------------------------------------------------------------------------
(***************************************************************************)
(* The statements of the blocks.                                           *)
(***************************************************************************)
\* Two sets of blocks alike as far as the statements of f go.
Alike(bs, bt, f) ==
  /\ \A a : <<f, a>> \in DOMAIN bt <=> <<f, a>> \in DOMAIN bs
  /\ \A b \in DOMAIN bs : b[1] = f =>
       /\ b \in DOMAIN bt /\ bt[b].statements = bs[b].statements
       /\ bt[b].end = bs[b].end /\ bt[b].next = bs[b].next

LEMMA SegmentAlike ==
  ASSUME NEW bs, NEW bt, NEW f, Alike(bs, bt, f), NEW b \in DOMAIN bs, b[1] = f, NEW c, NEW j
  PROVE  /\ Through(bt, b, j) = Through(bs, b, j)
         /\ Segment(bt, c, b, j) <=> Segment(bs, c, b, j)
         /\ Closed(bt, c, b, j) <=> Closed(bs, c, b, j)
<1>1. bt[b].statements = bs[b].statements /\ bt[b].end = bs[b].end /\ bt[b].next = bs[b].next
  BY DEF Alike
<1>2. \A a : <<b[1], a>> \in DOMAIN bt <=> <<b[1], a>> \in DOMAIN bs
  BY DEF Alike
<1>3. Through(bt, b, j) = Through(bs, b, j)
  BY <1>1 DEF Through
<1>4. Segment(bt, c, b, j) <=> Segment(bs, c, b, j)
  BY <1>1, <1>2, <1>3 DEF Segment
<1>5. Closed(bt, c, b, j) <=> Closed(bs, c, b, j)
  BY <1>1, <1>2, <1>3 DEF Closed
<1> QED
  BY <1>3, <1>4, <1>5

LEMMA SameFlow ==
  ASSUME prog' = prog
  PROVE  /\ \A f, i : FlowsOf(f, i)' = FlowsOf(f, i)
         /\ \A f, s, i : Recognised(f, s, i)' <=> Recognised(f, s, i)
BY DEF FlowsOf, Recognised, Readable

LEMMA LaidKept ==
  ASSUME Types, Types', prog' = prog, NEW f, Alike(blocks, blocks', f), LaidFor(f)
  PROVE  LaidFor(f)'
<1> DEFINE c == prog.code[f]
<1>1. ASSUME NEW b \in DOMAIN blocks', b[1] = f PROVE b \in DOMAIN blocks
  <2>1. b \in BlockIds'
    BY DEF Types
  <2>2. b = <<f, b[2]>>
    BY <1>1, <2>1 DEF BlockIds
  <2> QED
    BY <2>2 DEF Alike
<1>2. ASSUME NEW b \in DOMAIN blocks', b[1] = f, Common(b)
      PROVE  LaidOut(blocks', c, b) /\ Straight(blocks, f, b)'
  <2>1. b \in DOMAIN blocks /\ b \in BlocksOf(f)
    BY <1>1, <1>2 DEF BlocksOf
  <2>2. LaidOut(blocks, c, b) /\ Straight(blocks, f, b)
    BY <2>1 DEF LaidFor
  <2>3. blocks'[b].statements = blocks[b].statements
    BY <1>2, <2>1 DEF Alike
  <2>4. \A j : Segment(blocks, c, b, j) /\ Closed(blocks, c, b, j) =>
                 Segment(blocks', c, b, j) /\ Closed(blocks', c, b, j)
    BY <1>2, <2>1, SegmentAlike
  <2>5. LaidOut(blocks', c, b)
    BY <2>2, <2>3, <2>4 DEF LaidOut
  <2>6. Straight(blocks, f, b)'
    BY <2>2, <2>3, SameFlow DEF Straight
  <2> QED
    BY <2>5, <2>6
<1>3. Covered(blocks', c, f, Len(c))
  <2>1. SUFFICES ASSUME NEW i \in 1 .. Len(c)
                 PROVE  \E b \in DOMAIN blocks' : /\ b[1] = f /\ Common(b)
                          /\ \E j \in 1 .. i : Segment(blocks', c, b, j) /\ i < Through(blocks', b, j)
    BY DEF Covered
  <2>2. PICK b \in DOMAIN blocks, j \in 1 .. i :
          b[1] = f /\ Common(b) /\ Segment(blocks, c, b, j) /\ i < Through(blocks, b, j)
    BY DEF LaidFor, Covered
  <2>3. b \in DOMAIN blocks'
    BY <2>2 DEF Alike
  <2>4. Through(blocks', b, j) = Through(blocks, b, j) /\ Segment(blocks', c, b, j)
    BY <2>2, SegmentAlike
  <2> QED
    BY <2>2, <2>3, <2>4
<1> QED
  BY <1>2, <1>3 DEF LaidFor, BlocksOf, Common

\* getJumpAddr finds the entries of a table that is readable.
LEMMA ReadableFound ==
  ASSUME Types, NEW t, WordsAt(prog, t), Readable(fun, t), NEW k \in 1 .. prog.size[t]
  PROVE  prog.words[t][k] \in getJumpAddr(t)
<1>0. /\ prog.size[t] \in 0 .. Len(prog.words[t]) /\ Len(prog.words[t]) \in Nat
      /\ WellFormed(Code) /\ Len(Code) \in Nat \ {0}
  BY CodeFacts DEF WordsAt
<1>1. ASSUME NEW q \in 1 .. k
      PROVE  low_pc < prog.words[t][q] /\ prog.words[t][q] < high_pc /\ prog.words[t][q] \in allInsnAddr
  <2>1. q \in 1 .. prog.size[t]
    BY <1>0
  <2>2. PICK c : c = Code
    OBVIOUS
  <2>3. PICK i \in 2 .. Len(c) - 1 : prog.words[t][q] = c[i].addr
    BY <2>1, <2>2 DEF Readable, Code
  <2>4. WellFormed(c) /\ Len(c) \in Nat
    BY <1>0, <2>2
  <2>5. 1 \in 1 .. Len(c) /\ i \in 1 .. Len(c) /\ Len(c) \in 1 .. Len(c) /\ 1 < i /\ i < Len(c)
    BY <2>4
  <2>6. c[1].addr < c[i].addr /\ c[i].addr < c[Len(c)].addr
    BY <2>4, <2>5, OneAddress
  <2> QED
    BY <2>2, <2>3, <2>5, <2>6 DEF low_pc, high_pc, allInsnAddr, Last
<1>2. k \in 1 .. Len(prog.words[t])
  BY <1>0
<1> QED
  BY <1>1, <1>2 DEF getJumpAddr

\* The direct targets and the readable entries are heads.
LEMMA TargetHeads ==
  ASSUME Base, phase # "heads", NEW i \in 1 .. Len(Code), NEW a,
         NEW m \in 1 .. Len(Code), a = Code[m].addr, a \in FlowsOf(fun, i),
         Code[i].id \in Jumps, a = Code[i].target \/ Code[i].id = "jmprax",
         Code[i].id = "jmprax" => Recognised(fun, Code, i)
  PROVE  a \in heads
<1>0. Types /\ HeadsKnown
  BY DEF Base
<1>1. /\ \A k \in 1 .. Len(Code) : Code[k].addr \in Nat /\ low_pc <= Code[k].addr /\ Code[k].addr <= high_pc
      /\ TablesInMemory(prog, Code) /\ low_pc \in Nat /\ high_pc \in Nat
  BY <1>0, CodeFacts, AddressAssumption
<1>2. HeadsAt(i) \subseteq heads
  BY <1>0 DEF HeadsKnown
<1>3. CASE Code[i].id \in Direct
  <2>1. a = Code[i].target /\ a \in low_pc .. high_pc
    BY <1>1, <1>3 DEF Direct
  <2> QED
    BY <1>2, <1>3, <2>1 DEF HeadsAt
<1>4. CASE Code[i].id = "jmprax"
  <2>1. PICK t : t = Code[i].target
    OBVIOUS
  <2>2. t # 0 /\ lookBackForJumpTableAddr(Code, i) = t /\ Readable(fun, t)
    BY <1>4, <2>1 DEF Recognised
  <2>3. WordsAt(prog, t)
    BY <1>1, <1>4, <2>1, <2>2 DEF TablesInMemory
  <2>a. FlowsOf(fun, i) = {prog.words[t][k] : k \in 1 .. prog.size[t]}
    <3>1. prog.code[fun][i].id = "jmprax" /\ prog.code[fun][i].target = t
      BY <1>4, <2>1 DEF Code
    <3> QED
      BY <2>2, <3>1 DEF FlowsOf
  <2>4. PICK k \in 1 .. prog.size[t] : a = prog.words[t][k]
    BY <2>a
  <2>5. a \in getJumpAddr(t)
    BY <1>0, <2>2, <2>3, <2>4, ReadableFound
  <2>6. a \in TableTargets(Code, i)
    BY <2>2, <2>5 DEF TableTargets
  <2> QED
    BY <1>2, <1>4, <2>6 DEF HeadsAt, Direct
<1> QED
  BY <1>3, <1>4 DEF Jumps, Direct

LEMMA SegmentStraight ==
  ASSUME Base, phase # "heads", NEW bs, DOMAIN bs = DOMAIN blocks, NEW b \in DOMAIN bs, b[1] = fun,
         bs[b].statements \in Seq(Instruction), NEW j \in 1 .. Len(Code), Segment(bs, Code, b, j)
  PROVE  Straight(bs, fun, b)
<1> DEFINE s == bs[b].statements
<1>0. Types /\ HeadsKnown
  BY DEF Base
<1>1. /\ Len(Code) \in Nat \ {0} /\ WellFormed(Code)
      /\ \A i \in 1 .. Len(Code) : Code[i] \in Instruction /\ Code[i].addr \in Nat
      /\ MaxAddr \in Nat
  BY <1>0, CodeFacts, AddressAssumption
<1>2. \A i, m \in 1 .. Len(Code) : Code[i].addr = Code[m].addr => i = m
  <2>1. PICK c : c = Code
    OBVIOUS
  <2>2. \A i, m \in 1 .. Len(c) : c[i].addr = c[m].addr => i = m
    BY <1>1, <2>1, OneAddress
  <2> QED
    BY <2>1, <2>2
<1>3. Len(s) \in Nat /\ j + Len(s) <= Len(Code) + 1
  BY DEF Segment, Through
<1>4. SUFFICES ASSUME NEW k \in 1 .. Len(s) - 1, NEW i \in 1 .. Len(Code)
               PROVE  IF Code[i] = s[k] THEN FlowsOf(fun, i) = {s[k + 1].addr}
                      ELSE s[k + 1].addr \in FlowsOf(fun, i) =>
                             Code[i].id = "jmprax" /\ ~Recognised(fun, Code, i)
  BY DEF Straight, Code
<1>5. PICK m \in 1 .. Len(Code) - 1 : m = j - 1 + k
  BY <1>1, <1>3
<1>6. m \in 1 .. Len(Code) /\ m + 1 \in 1 .. Len(Code) /\ m + 1 = j - 1 + (k + 1)
  BY <1>1, <1>5
<1>7. s[k] = Code[m] /\ s[k + 1] = Code[m + 1] /\ <<fun, Code[m + 1].addr>> \notin DOMAIN blocks
  <2>1. k \in 1 .. Len(s) /\ k + 1 \in 1 .. Len(s) /\ k + 1 \in 2 .. Len(s)
    BY <1>3
  <2> QED
    BY <1>5, <1>6, <2>1 DEF Segment
<1> DEFINE a == Code[m + 1].addr
<1>8. a \notin heads /\ a # MaxAddr
  <2>1. a \in 1 .. MaxAddr - 1
    BY <1>1, <1>6 DEF Instruction
  <2> QED
    BY <1>1, <1>7, <2>1, Heads DEF Block
<1> HIDE DEF a
<1>9. HeadsAt(m) \subseteq heads /\ HeadsAt(i) \subseteq heads
  BY <1>0, <1>6 DEF HeadsKnown
<1>10. Code[m].id \notin EndsBlock
  <2>1. m < Len(Code)
    BY <1>1, <1>5
  <2> QED
    BY <1>8, <1>9, <2>1 DEF HeadsAt, a
<1>11. CASE Code[i] = s[k]
  <2>1. i = m
    BY <1>2, <1>6, <1>7, <1>11
  <2>2. m < Len(Code)
    BY <1>1, <1>5
  <2>3. FlowsOf(fun, m) = {Code[m + 1].addr}
    BY <1>10, <2>2 DEF FlowsOf, EndsBlock, Jumps, Code
  <2> QED
    BY <1>7, <1>11, <2>1, <2>3
<1>12. CASE Code[i] # s[k]
  <2>1. SUFFICES ASSUME a \in FlowsOf(fun, i), ~ (Code[i].id = "jmprax" /\ ~Recognised(fun, Code, i))
                 PROVE  FALSE
    BY <1>7, <1>12 DEF a
  <2>2. i # m
    BY <1>7, <1>12
  <2>3. ~ (i < Len(Code) /\ a = Code[i + 1].addr)
    <3>1. i < Len(Code) => i + 1 \in 1 .. Len(Code)
      BY <1>1
    <3>2. i + 1 = m + 1 => i = m
      BY <1>5
    <3> QED
      BY <1>2, <1>6, <2>2, <3>1, <3>2 DEF a
  <2>4. Code[i].id \in Jumps /\ (a = Code[i].target \/ Code[i].id = "jmprax")
    BY <1>8, <2>1, <2>3 DEF FlowsOf, Jumps, Code
  <2>5. a \in heads
    BY <1>6, <2>1, <2>4, TargetHeads DEF a
  <2> QED
    BY <1>8, <2>5
<1> QED
  BY <1>11, <1>12

LEMMA FillingMake == ASSUME Base, MakeBlocks PROVE Filling'
<1> DEFINE made == {Block(a) : a \in heads} \union {Entry(fun), Exit(fun)}
<1>1. /\ phase' = "fill" /\ pos' = 1 /\ prog' = prog /\ fun' = fun /\ cur' = Entry(fun) /\ phase = "heads"
      /\ blocks' = [b \in made \union DOMAIN blocks |-> IF b \in made THEN Empty ELSE blocks[b]]
  BY DEF MakeBlocks
<1>2. Entry(fun)' = Entry(fun) /\ Code' = Code
  BY <1>1 DEF Entry, Code
<1>3. \A b \in DOMAIN blocks : b[1] # fun
  BY <1>1 DEF Base, Domains
<1>4. \A b \in DOMAIN blocks' : b \in made \union DOMAIN blocks /\ (b \in made => blocks'[b] = Empty)
  BY <1>1
<1> HIDE DEF made
<1>5. ASSUME NEW b \in DOMAIN blocks', b[1] = fun, Common(b)
      PROVE  Filled(blocks', Code, b, 0, Entry(fun))
  <2>1. blocks'[b] = Empty
    BY <1>3, <1>4, <1>5
  <2>2. b # Entry(fun)
    BY <1>5 DEF Common, Entry
  <2>3. blocks'[b].statements = <<>> /\ blocks'[b].next = NoBlock
    BY <2>1 DEF Empty
  <2>4. \A i \in 1 .. 0 : Code[i].addr # b[2]
    OBVIOUS
  <2> QED
    BY <2>2, <2>3, <2>4 DEF Filled
<1>6. Covered(blocks', Code, fun, 0)
  BY DEF Covered
<1>7. 1 - 1 = 0
  OBVIOUS
<1> QED
  BY <1>1, <1>2, <1>5, <1>6, <1>7 DEF Filling, BlocksOf, Common

LEMMA CurKnown == ASSUME Base, Filling, phase = "fill" PROVE cur \in DOMAIN blocks /\ cur[1] = fun
<1>1. CASE pos = 1
  <2>1. cur = Entry(fun) /\ fun \in DOMAIN prog.code /\ fun \notin left
    BY <1>1 DEF Filling, Base, Types
  <2> QED
    BY <2>1 DEF Base, Domains, Entry
<1>2. CASE pos # 1
  BY <1>2 DEF Filling, BlocksOf
<1> QED
  BY <1>1, <1>2

\* What depends on the statements of one block only.
LEMMA SameStatements ==
  ASSUME NEW bs, NEW bt, DOMAIN bt = DOMAIN bs, NEW b \in DOMAIN bs,
         bt[b].statements = bs[b].statements, NEW c, NEW j
  PROVE  /\ Through(bt, b, j) = Through(bs, b, j)
         /\ Segment(bt, c, b, j) <=> Segment(bs, c, b, j)
         /\ bt[b].next = bs[b].next /\ bt[b].end = bs[b].end => (Closed(bt, c, b, j) <=> Closed(bs, c, b, j))
<1>1. Through(bt, b, j) = Through(bs, b, j)
  BY DEF Through
<1>2. Segment(bt, c, b, j) <=> Segment(bs, c, b, j)
  BY <1>1 DEF Segment
<1>3. bt[b].next = bs[b].next /\ bt[b].end = bs[b].end => (Closed(bt, c, b, j) <=> Closed(bs, c, b, j))
  BY <1>1 DEF Closed
<1> QED
  BY <1>1, <1>2, <1>3

\* A block that the statement at hand does not touch.
LEMMA FilledAside ==
  ASSUME NEW bs, NEW bt, DOMAIN bt = DOMAIN bs, NEW b \in DOMAIN bs, NEW n \in Nat, NEW p, p = n + 1,
         bt[b].statements = bs[b].statements, bt[b].next = bs[b].next, bt[b].end = bs[b].end,
         NEW c, NEW k, NEW m, b # k, b # m, Filled(bs, c, b, n, k), c[p].addr # b[2],
         bs[b].statements \in Seq(Instruction)
  PROVE  Filled(bt, c, b, p, m)
<1>1. CASE /\ bs[b].statements = <<>> /\ bs[b].next = NoBlock
           /\ \A i \in 1 .. n : c[i].addr # b[2]
  <2>1. \A i \in 1 .. p : i \in 1 .. n \/ i = p
    OBVIOUS
  <2> QED
    BY <1>1, <2>1 DEF Filled
<1>2. ASSUME NEW j \in 1 .. n, Segment(bs, c, b, j), Through(bs, b, j) <= n, Closed(bs, c, b, j)
      PROVE  Filled(bt, c, b, p, m)
  <2>1. j \in 1 .. p /\ Segment(bt, c, b, j) /\ Through(bt, b, j) = Through(bs, b, j) /\ Closed(bt, c, b, j)
    BY <1>2, SameStatements
  <2>2. Through(bs, b, j) \in Nat
    BY DEF Through
  <2>3. Through(bt, b, j) <= p
    BY <1>2, <2>1, <2>2
  <2> QED
    BY <2>1, <2>3 DEF Filled
<1> QED
  BY <1>1, <1>2 DEF Filled

\* An instruction in a block of the instructions before.
LEMMA CoveredAside ==
  ASSUME NEW bs, NEW bt, DOMAIN bt = DOMAIN bs, NEW c, NEW f, NEW n \in Nat, Covered(bs, c, f, n), NEW m \in DOMAIN bs,
         \A b \in DOMAIN bs : b # m => bt[b].statements = bs[b].statements,
         \A j \in 1 .. n : Segment(bs, c, m, j) =>
           Segment(bt, c, m, j) /\ \A i \in 1 .. n : i < Through(bs, m, j) => i < Through(bt, m, j)
  PROVE  Covered(bt, c, f, n)
<1> SUFFICES ASSUME NEW i \in 1 .. n
             PROVE  \E b \in DOMAIN bt : /\ b[1] = f /\ Common(b)
                                         /\ \E j \in 1 .. i : Segment(bt, c, b, j) /\ i < Through(bt, b, j)
  BY DEF Covered
<1>1. PICK b \in DOMAIN bs, j \in 1 .. i :
        b[1] = f /\ Common(b) /\ Segment(bs, c, b, j) /\ i < Through(bs, b, j)
  BY DEF Covered
<1>2. j \in 1 .. n
  OBVIOUS
<1>3. CASE b = m
  BY <1>1, <1>2, <1>3
<1>4. CASE b # m
  BY <1>1, <1>4, SameStatements
<1> QED
  BY <1>3, <1>4

\* The facts about the instruction at hand.
LEMMA AtHand ==
  ASSUME Base, Filling, Statement
  PROVE  /\ phase = "fill" /\ pos \in 1 .. Len(Code) /\ pos \in Nat /\ Len(Code) \in Nat /\ WellFormed(Code)
         /\ pos - 1 \in Nat /\ pos = (pos - 1) + 1
         /\ \A i, j \in 1 .. Len(Code) : Code[i].addr = Code[j].addr => i = j
         /\ Code[pos].addr \in 1 .. MaxAddr - 1 /\ MaxAddr \in Nat
         /\ cur \in DOMAIN blocks /\ cur[1] = fun
         /\ \A b \in BlocksOf(fun) : Filled(blocks, Code, b, pos - 1, cur) /\ b[2] \in heads
         /\ \A b \in BlocksOf(fun) : b = Block(b[2])
<1>0. Types /\ phase = "fill" /\ pos <= Len(Code)
  BY DEF Base, Statement
<1>1. Len(Code) \in Nat /\ WellFormed(Code)
  BY <1>0, CodeFacts
<1>2. pos \in 1 .. Len(Code) + 1
  BY <1>0 DEF Types
<1>3. pos \in 1 .. Len(Code) /\ pos \in Nat /\ pos - 1 \in Nat /\ pos = (pos - 1) + 1
  BY <1>0, <1>1, <1>2
<1>4. PICK c : c = Code
  OBVIOUS
<1>5. \A i, j \in 1 .. Len(c) : c[i].addr = c[j].addr => i = j
  BY <1>1, <1>4, OneAddress
<1>6. c[pos].addr \in 1 .. MaxAddr - 1
  BY <1>1, <1>3, <1>4, CodeType
<1>7. cur \in DOMAIN blocks /\ cur[1] = fun
  BY <1>0, CurKnown
<1>8. ASSUME NEW b \in BlocksOf(fun)
      PROVE  Filled(blocks, Code, b, pos - 1, cur) /\ b[2] \in heads /\ b = Block(b[2])
  <2>1. b = <<b[1], b[2]>> /\ b \in DOMAIN blocks /\ b[1] = fun /\ Common(b)
    BY <1>0, Named DEF BlocksOf
  <2>2. b = Block(b[2])
    BY <2>1 DEF Block
  <2>3. b[2] \in heads
    BY <1>0, <2>1, <2>2, Heads
  <2> QED
    BY <1>0, <2>2, <2>3 DEF Filling
<1> QED
  BY <1>0, <1>1, <1>3, <1>4, <1>5, <1>6, <1>7, <1>8, AddressAssumption

\* An instruction at a head: its block was empty, the one before is closed.
LEMMA FillingBegins ==
  ASSUME Base, Filling, Statement, Code[pos].addr \in heads
  PROVE  /\ \A b \in BlocksOf(fun) : Filled(blocks', Code, b, pos, Block(Code[pos].addr))
         /\ Block(Code[pos].addr) \in BlocksOf(fun) /\ blocks'[Block(Code[pos].addr)].statements # <<>>
         /\ Covered(blocks', Code, fun, pos)
<1>1. PICK c, p, n, m, bt : c = Code /\ p = pos /\ n = pos - 1 /\ m = Block(c[p].addr) /\ bt = blocks'
  OBVIOUS
<1>2. /\ p \in 1 .. Len(c) /\ n \in Nat /\ p = n + 1 /\ Len(c) \in Nat /\ p \in Nat
      /\ \A i, j \in 1 .. Len(c) : c[i].addr = c[j].addr => i = j
      /\ c[p].addr \in 1 .. MaxAddr - 1 /\ MaxAddr \in Nat
      /\ cur \in DOMAIN blocks /\ cur[1] = fun
      /\ \A b \in BlocksOf(fun) : Filled(blocks, c, b, n, cur) /\ b = Block(b[2])
  BY <1>1, AtHand
<1>3. Moved(m, TRUE, c[p])
  BY <1>1, <1>2, StatementMoves
<1>4. /\ DOMAIN bt = DOMAIN blocks /\ m \in DOMAIN blocks
      /\ \A x \in DOMAIN blocks :
           /\ bt[x].statements = IF x = m THEN Append(blocks[x].statements, c[p]) ELSE blocks[x].statements
           /\ bt[x].next = IF x = cur THEN m ELSE blocks[x].next
           /\ bt[x].end = IF x = cur /\ Common(cur) THEN c[p].addr ELSE blocks[x].end
  BY <1>1, <1>3 DEF Moved
<1>5. m \in BlocksOf(fun) /\ m[1] = fun /\ m[2] = c[p].addr /\ Common(m)
  BY <1>1, <1>2, <1>4 DEF BlocksOf, Block, Common
<1>6. \A i \in 1 .. n : i \in 1 .. Len(c) /\ i # p
  BY <1>2
<1>7. blocks[m].statements = <<>> /\ blocks[m].next = NoBlock /\ m # cur
  <2>1. \A j \in 1 .. n : c[j].addr # m[2]
    BY <1>2, <1>5, <1>6
  <2>2. \A j \in 1 .. n : ~Segment(blocks, c, m, j)
    BY <2>1 DEF Segment
  <2> QED
    BY <1>2, <1>5, <2>2 DEF Filled
<1>8. bt[m].statements = <<c[p]>> /\ bt[m].next = NoBlock
  <2>1. Append(<<>>, c[p]) = <<c[p]>>
    OBVIOUS
  <2> QED
    BY <1>4, <1>7, <2>1
<1>9. Segment(bt, c, m, p) /\ Through(bt, m, p) = p + 1
  <2>1. Len(bt[m].statements) = 1 /\ bt[m].statements[1] = c[p] /\ bt[m].statements # <<>> /\ p - 1 + 1 = p
    BY <1>2, <1>8
  <2>2. Through(bt, m, p) = p + 1 /\ p + 1 <= Len(c) + 1
    BY <1>2, <2>1 DEF Through
  <2>3. \A k \in 1 .. Len(bt[m].statements) : bt[m].statements[k] = c[p - 1 + k]
    BY <2>1
  <2>4. \A k \in 2 .. Len(bt[m].statements) : FALSE
    BY <2>1
  <2> QED
    BY <1>5, <2>1, <2>2, <2>3, <2>4 DEF Segment
<1>10. ASSUME NEW b \in BlocksOf(fun) PROVE Filled(bt, c, b, p, m)
  <2>0. b \in DOMAIN blocks /\ Common(b) /\ b[1] = fun /\ blocks[b].statements \in Seq(Instruction)
    BY Fields DEF BlocksOf, Base
  <2>1. CASE b = m
    <3>1. p \in 1 .. p /\ Through(bt, m, p) = p + 1
      BY <1>2, <1>9
    <3> QED
      BY <1>8, <1>9, <2>1, <3>1 DEF Filled
  <2>2. CASE b = cur /\ b # m
    <3>1. PICK j \in 1 .. n : Segment(blocks, c, b, j) /\ Through(blocks, b, j) = n + 1
      BY <1>2, <2>2 DEF Filled
    <3>2. Segment(bt, c, b, j) /\ Through(bt, b, j) = p
      BY <1>2, <1>4, <2>0, <2>2, <3>1, SameStatements
    <3>3. p # Len(c) + 1 /\ p <= p /\ j \in 1 .. p
      BY <1>2
    <3>4. m = <<b[1], c[p].addr>>
      BY <1>1, <2>0 DEF Block
    <3>5. bt[b].end = c[p].addr /\ bt[b].next = m
      BY <1>4, <2>0, <2>2
    <3>6. Closed(bt, c, b, j)
      BY <1>4, <3>2, <3>3, <3>4, <3>5 DEF Closed
    <3> QED
      BY <2>2, <3>2, <3>3, <3>6 DEF Filled
  <2>3. CASE b # cur /\ b # m
    <3>1. bt[b].statements = blocks[b].statements /\ bt[b].next = blocks[b].next /\ bt[b].end = blocks[b].end
      BY <1>4, <2>0, <2>3
    <3>2. c[p].addr # b[2]
      BY <1>1, <1>2, <2>3
    <3>3. PICK bs : bs = blocks
      OBVIOUS
    <3>4. Filled(bs, c, b, n, cur)
      BY <1>2, <3>3
    <3> QED
      BY <1>2, <1>4, <2>0, <2>3, <3>1, <3>2, <3>3, <3>4, FilledAside
  <2> QED
    BY <2>1, <2>2, <2>3
<1>11. Covered(bt, c, fun, p)
  <2>1. Covered(blocks, c, fun, n)
    <3>1. phase = "fill"
      BY AtHand
    <3> QED
      BY <1>1, <3>1 DEF Filling
  <2>2. \A j : ~Segment(blocks, c, m, j)
    BY <1>7 DEF Segment
  <2>3. Covered(bt, c, fun, n)
    BY <1>2, <1>4, <2>1, <2>2, CoveredAside
  <2>4. \E b \in DOMAIN bt : /\ b[1] = fun /\ Common(b)
                             /\ \E j \in 1 .. p : Segment(bt, c, b, j) /\ p < Through(bt, b, j)
    <3>1. p \in 1 .. p /\ p < p + 1
      BY <1>2
    <3> QED
      BY <1>4, <1>5, <1>9, <3>1
  <2>5. \A i \in 1 .. p : i \in 1 .. n \/ i = p
    BY <1>2
  <2> QED
    BY <2>3, <2>4, <2>5 DEF Covered
<1>12. bt[m].statements # <<>>
  <2>1. <<c[p]>> # <<>>
    OBVIOUS
  <2> QED
    BY <1>8, <2>1
<1> QED
  BY <1>1, <1>5, <1>10, <1>11, <1>12

\* An instruction that is no head: it follows in the block at hand.
LEMMA FillingFollows ==
  ASSUME Base, Filling, Statement, Code[pos].addr \notin heads
  PROVE  /\ \A b \in BlocksOf(fun) : Filled(blocks', Code, b, pos, cur)
         /\ cur \in BlocksOf(fun) /\ blocks'[cur].statements # <<>>
         /\ Covered(blocks', Code, fun, pos)
<1>1. PICK c, p, n, m, bt : c = Code /\ p = pos /\ n = pos - 1 /\ m = cur /\ bt = blocks'
  OBVIOUS
<1>2. /\ p \in 1 .. Len(c) /\ n \in Nat /\ p = n + 1 /\ Len(c) \in Nat /\ p \in Nat
      /\ \A i, j \in 1 .. Len(c) : c[i].addr = c[j].addr => i = j
      /\ c[p].addr \in 1 .. MaxAddr - 1 /\ MaxAddr \in Nat
      /\ m \in DOMAIN blocks /\ m[1] = fun /\ phase = "fill"
      /\ \A b \in BlocksOf(fun) : Filled(blocks, c, b, n, m) /\ b[2] \in heads
  BY <1>1, AtHand
<1>3. Moved(m, FALSE, c[p])
  BY <1>1, <1>2, StatementMoves
<1>4. /\ DOMAIN bt = DOMAIN blocks
      /\ \A x \in DOMAIN blocks :
           /\ bt[x].statements = IF x = m THEN Append(blocks[x].statements, c[p]) ELSE blocks[x].statements
           /\ bt[x].next = blocks[x].next /\ bt[x].end = blocks[x].end
  BY <1>1, <1>3 DEF Moved
<1>5. pos # 1
  <2>1. low_pc \in heads
    BY DEF Base, Types
  <2> QED
    BY <2>1 DEF low_pc
<1>6. m \in BlocksOf(fun) /\ Common(m) /\ blocks[m].statements # <<>>
  BY <1>1, <1>2, <1>5 DEF Filling, BlocksOf, Insns
<1>7. PICK j \in 1 .. n : Segment(blocks, c, m, j) /\ Through(blocks, m, j) = p /\ blocks[m].next = NoBlock
  BY <1>2, <1>6 DEF Filled
<1>8. PICK s \in Seq(Instruction) : s = blocks[m].statements
  BY <1>2, Fields DEF Base
<1>9. /\ Len(s) \in Nat /\ j + Len(s) = p /\ c[j].addr = m[2]
      /\ \A k \in 1 .. Len(s) : s[k] = c[j - 1 + k]
      /\ \A k \in 2 .. Len(s) : <<m[1], c[j - 1 + k].addr>> \notin DOMAIN blocks
  BY <1>7, <1>8 DEF Segment, Through
<1>10. PICK t \in Seq(Instruction) : t = Append(s, c[p])
  <2>1. c[p] \in Instruction
    BY <1>1, <1>2, CodeFacts DEF Base
  <2> QED
    BY <2>1, AppendProperties
<1>11. /\ bt[m].statements = t /\ Len(t) = Len(s) + 1 /\ t[Len(s) + 1] = c[p] /\ t # <<>>
       /\ \A k \in 1 .. Len(s) : t[k] = s[k]
  <2>1. Len(t) = Len(s) + 1 /\ t[Len(s) + 1] = c[p] /\ \A k \in 1 .. Len(s) : t[k] = s[k]
    BY <1>10
  <2>2. t # <<>>
    BY <1>10
  <2> QED
    BY <1>2, <1>4, <1>8, <1>10, <2>1, <2>2
<1>12. <<m[1], c[p].addr>> \notin DOMAIN blocks
  <2>1. c[p].addr \notin heads /\ c[p].addr \notin {0, MaxAddr}
    BY <1>1, <1>2
  <2> QED
    BY <1>2, <2>1, Heads DEF Block, Common
<1>13. Through(bt, m, j) = p + 1 /\ Segment(bt, c, m, j)
  <2>a. j \in Int /\ p \in Int /\ Len(s) \in Int
    BY <1>2, <1>9
  <2>b. j + Len(s) = p
    BY <1>9
  <2>1. Through(bt, m, j) = p + 1
    <3>1. Through(bt, m, j) = j + (Len(s) + 1)
      BY <1>11 DEF Through
    <3>2. j + (Len(s) + 1) = p + 1
      BY <2>a, <2>b
    <3> QED
      BY <3>1, <3>2
  <2>2. ASSUME NEW k \in 1 .. Len(t)
        PROVE  t[k] = c[j - 1 + k] /\ (k \in 2 .. Len(t) => <<m[1], c[j - 1 + k].addr>> \notin DOMAIN bt)
    <3>1. CASE k \in 1 .. Len(s)
      <4>1. k \in 2 .. Len(t) => k \in 2 .. Len(s)
        BY <1>9, <3>1
      <4> QED
        BY <1>4, <1>9, <1>11, <3>1, <4>1
    <3>2. CASE k \notin 1 .. Len(s)
      <4>1. k = Len(s) + 1
        BY <1>9, <1>11, <3>2
      <4>2. j - 1 + (Len(s) + 1) = p
        BY <2>a, <2>b
      <4> QED
        BY <1>4, <1>11, <1>12, <4>1, <4>2
    <3> QED
      BY <3>1, <3>2
  <2>3. \A k \in 2 .. Len(t) : k \in 1 .. Len(t)
    OBVIOUS
  <2>4. p + 1 <= Len(c) + 1
    BY <1>2
  <2> QED
    BY <1>9, <1>11, <2>1, <2>2, <2>3, <2>4 DEF Segment
<1>14. ASSUME NEW b \in BlocksOf(fun) PROVE Filled(bt, c, b, p, m)
  <2>0. b \in DOMAIN blocks /\ Common(b) /\ b[1] = fun /\ blocks[b].statements \in Seq(Instruction)
    BY Fields DEF BlocksOf, Base
  <2>1. CASE b = m
    <3>1. j \in 1 .. p /\ bt[b].next = NoBlock
      BY <1>2, <1>4, <1>7, <2>1
    <3> QED
      BY <1>13, <2>1, <3>1 DEF Filled
  <2>2. CASE b # m
    <3>1. bt[b].statements = blocks[b].statements /\ bt[b].next = blocks[b].next /\ bt[b].end = blocks[b].end
      BY <1>4, <2>0, <2>2
    <3>2. c[p].addr # b[2]
      BY <1>1, <1>2
    <3>3. PICK bs : bs = blocks
      OBVIOUS
    <3>4. Filled(bs, c, b, n, m)
      BY <1>2, <3>3
    <3> QED
      BY <1>2, <1>4, <2>0, <2>2, <3>1, <3>2, <3>3, <3>4, FilledAside
  <2> QED
    BY <2>1, <2>2
<1>15. Covered(bt, c, fun, p)
  <2>1. Covered(blocks, c, fun, n)
    BY <1>1, <1>2 DEF Filling
  <2>2. ASSUME NEW i \in 1 .. n, Segment(blocks, c, m, i)
        PROVE  Segment(bt, c, m, i) /\ \A q \in 1 .. n : q < Through(blocks, m, i) => q < Through(bt, m, i)
    <3>1. c[i].addr = c[j].addr /\ i \in 1 .. Len(c) /\ j \in 1 .. Len(c)
      BY <1>2, <1>9, <2>2 DEF Segment
    <3>2. i = j
      BY <1>2, <3>1
    <3>3. \A q \in 1 .. n : q < p + 1
      BY <1>2
    <3> QED
      BY <1>13, <3>2, <3>3
  <2>3. Covered(bt, c, fun, n)
    BY <1>2, <1>4, <2>1, <2>2, CoveredAside
  <2>4. \E b \in DOMAIN bt : /\ b[1] = fun /\ Common(b)
                             /\ \E i \in 1 .. p : Segment(bt, c, b, i) /\ p < Through(bt, b, i)
    <3>1. j \in 1 .. p /\ p < p + 1
      BY <1>2
    <3> QED
      BY <1>2, <1>4, <1>6, <1>13, <3>1
  <2>5. \A i \in 1 .. p : i \in 1 .. n \/ i = p
    BY <1>2
  <2> QED
    BY <2>3, <2>4, <2>5 DEF Covered
<1> QED
  BY <1>1, <1>6, <1>11, <1>14, <1>15

LEMMA FillingStatement == ASSUME Base, Filling, Statement PROVE Filling'
<1>1. /\ pos' = pos + 1 /\ prog' = prog /\ fun' = fun /\ phase = "fill" /\ phase' = phase
      /\ cur' = IF Code[pos].addr \in heads THEN Block(Code[pos].addr) ELSE cur
  BY DEF Statement
<1>2. pos \in Nat /\ pos \in 1 .. Len(Code) /\ cur \in DOMAIN blocks
  BY AtHand
<1>3. pos' - 1 = pos /\ pos' # 1
  BY <1>1, <1>2
<1>4. DOMAIN blocks' = DOMAIN blocks
  BY <1>2, StatementMoves DEF Moved
<1>5. BlocksOf(fun)' = BlocksOf(fun) /\ Code' = Code
  BY <1>1, <1>4 DEF BlocksOf, Common, Code
<1>6. /\ \A b \in BlocksOf(fun) : Filled(blocks', Code, b, pos, cur')
      /\ cur' \in BlocksOf(fun) /\ blocks'[cur'].statements # <<>>
      /\ Covered(blocks', Code, fun, pos)
  <2>1. CASE Code[pos].addr \in heads
    BY <1>1, <2>1, FillingBegins
  <2>2. CASE Code[pos].addr \notin heads
    BY <1>1, <2>2, FillingFollows
  <2> QED
    BY <2>1, <2>2
<1> QED
  BY <1>1, <1>3, <1>5, <1>6 DEF Filling, Insns

LEMMA SameSegments ==
  ASSUME NEW bs, NEW bt, DOMAIN bt = DOMAIN bs, \A b \in DOMAIN bs : bt[b].statements = bs[b].statements,
         NEW c, NEW f, NEW n, Covered(bs, c, f, n)
  PROVE  Covered(bt, c, f, n)
<1> SUFFICES ASSUME NEW i \in 1 .. n
             PROVE  \E b \in DOMAIN bt : /\ b[1] = f /\ Common(b)
                                         /\ \E j \in 1 .. i : Segment(bt, c, b, j) /\ i < Through(bt, b, j)
  BY DEF Covered
<1>1. PICK b \in DOMAIN bs, j \in 1 .. i :
        b[1] = f /\ Common(b) /\ Segment(bs, c, b, j) /\ i < Through(bs, b, j)
  BY DEF Covered
<1>2. Segment(bt, c, b, j) /\ i < Through(bt, b, j)
  BY <1>1, SameStatements
<1> QED
  BY <1>1, <1>2

\* After the last statement the blocks of the function are laid out.
LEMMA LaidLast ==
  ASSUME Base, Base', Filling, LastStatement, NEW f, f = fun
  PROVE  LaidFor(f)'
<1>0. Types /\ phase = "fill" /\ prog' = prog /\ fun' = fun /\ pos > Len(Code) /\ phase' = "edges"
  BY DEF Base, LastStatement
<1>1. /\ Len(Code) \in Nat \ {0} /\ pos \in 1 .. Len(Code) + 1 /\ WellFormed(Code)
  BY <1>0, CodeFacts DEF Types
<1>2. pos - 1 = Len(Code) /\ pos # 1
  BY <1>0, <1>1
<1>3. cur \in DOMAIN blocks /\ cur[1] = fun /\ Common(cur) /\ Insns(cur) # <<>>
  BY <1>0, <1>2 DEF Filling, BlocksOf
<1>4. PICK c, n, bt : c = Code /\ n = Len(c) /\ bt = blocks'
  OBVIOUS
<1>5. /\ DOMAIN bt = DOMAIN blocks
      /\ \A x \in DOMAIN blocks :
           /\ bt[x].statements = blocks[x].statements /\ bt[x].next = blocks[x].next
           /\ bt[x].end = IF x = cur THEN Behind(c, n) ELSE blocks[x].end
  BY <1>3, <1>4, LastFacts
<1>6. n \in Nat /\ \A b \in BlocksOf(fun) : Filled(blocks, c, b, n, cur)
  BY <1>0, <1>1, <1>2, <1>4 DEF Filling
<1>7. ASSUME NEW b \in BlocksOf(fun) PROVE LaidOut(bt, c, b) /\ Straight(bt, fun, b)
  <2>0. b \in DOMAIN blocks /\ b[1] = fun
    BY DEF BlocksOf
  <2>1. Filled(blocks, c, b, n, cur)
    BY <1>6
  <2>2. CASE blocks[b].statements = <<>> /\ \A i \in 1 .. n : c[i].addr # b[2]
    <3>1. LaidOut(bt, c, b)
      BY <1>4, <1>5, <2>0, <2>2 DEF LaidOut
    <3>2. Len(bt[b].statements) = 0
      BY <1>5, <2>0, <2>2
    <3>3. \A k \in 1 .. Len(bt[b].statements) - 1 : FALSE
      BY <3>2
    <3>4. Straight(bt, fun, b)
      BY <3>3 DEF Straight
    <3> QED
      BY <3>1, <3>4
  <2>3. ASSUME NEW j \in 1 .. n, Segment(blocks, c, b, j),
               IF b = cur THEN Through(blocks, b, j) = n + 1 /\ blocks[b].next = NoBlock
               ELSE Through(blocks, b, j) <= n /\ Closed(blocks, c, b, j)
        PROVE  LaidOut(bt, c, b) /\ Straight(bt, fun, b)
    <3>1. Segment(bt, c, b, j) /\ Through(bt, b, j) = Through(blocks, b, j)
      BY <1>5, <2>0, <2>3, SameStatements
    <3>2. b = cur => Closed(bt, c, b, j)
      <4>1. b = cur => Through(bt, b, j) = Len(c) + 1 /\ bt[b].end = Behind(c, Len(c)) /\ bt[b].next = NoBlock
        BY <1>4, <1>5, <2>0, <2>3, <3>1
      <4> QED
        BY <4>1 DEF Closed
    <3>3. ASSUME b # cur PROVE Closed(bt, c, b, j)
      <4>1. PICK bs : bs = blocks
        OBVIOUS
      <4>2. DOMAIN bt = DOMAIN bs /\ b \in DOMAIN bs /\ bt[b].statements = bs[b].statements
            /\ bt[b].next = bs[b].next /\ bt[b].end = bs[b].end /\ Closed(bs, c, b, j)
        BY <1>5, <2>0, <2>3, <3>3, <4>1
      <4> QED
        BY <4>2, SameStatements
    <3>4. Closed(bt, c, b, j)
      BY <3>2, <3>3
    <3>5. LaidOut(bt, c, b)
      BY <1>4, <3>1, <3>4 DEF LaidOut
    <3>6. bt[b].statements \in Seq(Instruction)
      BY <1>0, <1>5, <2>0, Fields
    <3>7. Straight(bt, fun, b)
      <4>1. phase # "heads" /\ j \in 1 .. Len(Code) /\ Segment(bt, Code, b, j) /\ b \in DOMAIN bt
        BY <1>0, <1>4, <1>5, <2>0, <3>1
      <4> QED
        BY <1>5, <2>0, <3>6, <4>1, SegmentStraight
    <3> QED
      BY <3>5, <3>7
  <2> QED
    BY <2>1, <2>2, <2>3 DEF Filled
<1>8. Covered(bt, c, fun, n)
  <2>1. Covered(blocks, c, fun, n)
    BY <1>0, <1>2, <1>4 DEF Filling
  <2>2. PICK bs : bs = blocks
    OBVIOUS
  <2>3. DOMAIN bt = DOMAIN bs /\ (\A b \in DOMAIN bs : bt[b].statements = bs[b].statements) /\ Covered(bs, c, fun, n)
    BY <1>5, <2>1, <2>2
  <2> QED
    BY <2>3, SameSegments
<1>9. prog'.code[f] = c
  BY <1>0, <1>4 DEF Code
<1>10. ASSUME NEW b \in DOMAIN bt, b[1] = f, Common(b) PROVE LaidOut(bt, c, b) /\ Straight(blocks, f, b)'
  <2>1. LaidOut(bt, c, b) /\ Straight(bt, fun, b)
    BY <1>5, <1>7, <1>10 DEF BlocksOf
  <2>2. Straight(blocks, f, b)'
    BY <1>0, <1>4, <2>1, SameFlow DEF Straight
  <2> QED
    BY <2>1, <2>2
<1> QED
  BY <1>4, <1>8, <1>9, <1>10 DEF LaidFor, BlocksOf, Common

LEMMA LaidStep ==
  ASSUME Base, Base', Laid, prog' = prog,
         \A f \in DOMAIN prog.code : Made(f)' => (Made(f) /\ Alike(blocks, blocks', f)) \/ LaidFor(f)'
  PROVE  Laid'
<1>1. Types /\ Types'
  BY DEF Base
<1>2. ASSUME NEW f \in DOMAIN prog.code, Made(f), Alike(blocks, blocks', f) PROVE LaidFor(f)'
  <2>1. LaidFor(f)
    BY <1>2 DEF Laid
  <2> QED
    BY <1>1, <1>2, <2>1, LaidKept
<1> QED
  BY <1>2 DEF Laid

-----------------------------------------------------------------------------
(***************************************************************************)
(* The edges of a block.                                                   *)
(***************************************************************************)
\* The table is the same whether it is looked for in the block or in the code.
LEMMA LookBackSame ==
  ASSUME NEW c, NEW s, Len(s) \in Nat, NEW j \in Nat \ {0}, NEW q \in Nat, q = j - 1 + Len(s),
         \A k \in 1 .. Len(s) : s[k] = c[j - 1 + k],
         lookBackForJumpTableAddr(s, Len(s)) # 0
  PROVE  lookBackForJumpTableAddr(c, q) = lookBackForJumpTableAddr(s, Len(s))
<1>1. PICK n \in Nat : n = Len(s)
  OBVIOUS
<1>2. n >= 3
  BY <1>1 DEF lookBackForJumpTableAddr
<1>3. n - 1 \in 1 .. n /\ n - 2 \in 1 .. n /\ q >= 3 /\ j - 1 + (n - 1) = q - 1 /\ j - 1 + (n - 2) = q - 2
  BY <1>1, <1>2
<1>4. s[n - 1] = c[j - 1 + (n - 1)] /\ s[n - 2] = c[j - 1 + (n - 2)]
  BY <1>1, <1>3
<1>5. s[n - 1] = c[q - 1] /\ s[n - 2] = c[q - 2]
  BY <1>3, <1>4
<1> QED
  BY <1>1, <1>2, <1>3, <1>5 DEF lookBackForJumpTableAddr

LEMMA NextEdges ==
  ASSUME Types, NEW b \in DOMAIN blocks, NEW q \in 1 .. Len(Code),
         NEW k \in {"default", "true", "false", "call_return"},
         IF q = Len(Code) THEN blocks[b].next = NoBlock
         ELSE blocks[b].next = <<fun, Code[q + 1].addr>> /\ <<fun, Code[q + 1].addr>> \in DOMAIN blocks
  PROVE  /\ \A e \in Elems(EdgeToNext(b, k)) : q < Len(Code) /\ e.to = <<fun, Code[q + 1].addr>>
         /\ q < Len(Code) => \E e \in Elems(EdgeToNext(b, k)) : e.to = <<fun, Code[q + 1].addr>>
<1>0. Len(Code) \in Nat
  BY CodeFacts
<1>1. CASE q = Len(Code)
  <2>1. EdgeToNext(b, k) = <<>>
    BY <1>1 DEF EdgeToNext
  <2> QED
    BY <1>0, <1>1, <2>1, ElemsSmall
<1>2. CASE q # Len(Code)
  <2>1. PICK x \in DOMAIN blocks : x = blocks[b].next /\ x = <<fun, Code[q + 1].addr>>
    BY <1>2
  <2>2. x # NoBlock /\ q < Len(Code)
    BY <1>0, <1>2, Named
  <2>3. OneEdge(DOMAIN blocks, b, x, k)
    <3>1. k \in {"default", "true", "false", "call_return", "call", "return"}
      OBVIOUS
    <3>2. PICK D : D = DOMAIN blocks
      OBVIOUS
    <3> QED
      BY <3>1, <3>2, EdgeToFacts
  <2>4. EdgeToNext(b, k) = EdgeTo(b, x, k)
    BY <2>1, <2>2 DEF EdgeToNext
  <2>5. Elems(EdgeToNext(b, k)) = {[from |-> b, to |-> x, type |-> k]}
    BY <2>3, <2>4 DEF OneEdge
  <2> QED
    BY <2>1, <2>2, <2>5
<1> QED
  BY <1>1, <1>2

LEMMA AddrEdges ==
  ASSUME Base, phase # "heads", NEW b \in DOMAIN blocks, NEW a,
         NEW k \in {"default", "true", "false", "call_return"}
  PROVE  /\ \A e \in Elems(EdgeToAddr(b, a, k)) : e.to = <<fun, a>> /\ Common(e.to)
         /\ a \in heads => \E e \in Elems(EdgeToAddr(b, a, k)) : e.to = <<fun, a>>
<1>1. CASE a \notin heads
  <2>1. EdgeToAddr(b, a, k) = <<>>
    BY <1>1 DEF EdgeToAddr
  <2> QED
    BY <1>1, <2>1, ElemsSmall
<1>2. CASE a \in heads
  <2>1. Block(a) \in DOMAIN blocks /\ a \notin {0, MaxAddr}
    BY <1>2, Heads
  <2>2. PICK x \in DOMAIN blocks : x = <<fun, a>> /\ Common(x) /\ x = Block(a)
    BY <2>1 DEF Block, Common
  <2>3. OneEdge(DOMAIN blocks, b, x, k)
    <3>1. k \in {"default", "true", "false", "call_return", "call", "return"}
      OBVIOUS
    <3>2. PICK D : D = DOMAIN blocks
      OBVIOUS
    <3> QED
      BY <3>1, <3>2, EdgeToFacts
  <2>4. EdgeToAddr(b, a, k) = EdgeTo(b, x, k)
    BY <1>2, <2>2 DEF EdgeToAddr
  <2>5. Elems(EdgeToAddr(b, a, k)) = {[from |-> b, to |-> x, type |-> k]}
    BY <2>3, <2>4 DEF OneEdge
  <2> QED
    BY <2>2, <2>5
<1> QED
  BY <1>1, <1>2

\* The last instruction of a block that has one, and what follows.
EndsAt(bs, c, b, j, s, q) ==
  /\ q = j - 1 + Len(s) /\ Through(bs, b, j) = q + 1 /\ Len(s) \in Nat \ {0}
  /\ Last(s) = c[q]
  /\ \A k \in 1 .. Len(s) : s[k] = c[j - 1 + k]
  /\ \A i \in 1 .. Len(c) : c[i] = Last(s) => i = q

LEMMA LastOf ==
  ASSUME NEW c, WellFormed(c), NEW bs, NEW b, NEW j \in 1 .. Len(c),
         NEW s \in Seq(Instruction), s = bs[b].statements, Segment(bs, c, b, j)
  PROVE  \E q \in 1 .. Len(c) : EndsAt(bs, c, b, j, s, q)
<1>1. /\ s # <<>> /\ j + Len(s) <= Len(c) + 1 /\ Through(bs, b, j) = j + Len(s)
      /\ \A k \in 1 .. Len(s) : s[k] = c[j - 1 + k]
  BY DEF Segment, Through
<1>2. Len(s) \in Nat \ {0} /\ Len(c) \in Nat
  BY <1>1, CodeType
<1>3. PICK q \in 1 .. Len(c) : q = j - 1 + Len(s)
  <2>1. j \in Int /\ Len(s) \in Int
    BY <1>2
  <2>2. j - 1 + Len(s) \in 1 .. Len(c)
    BY <1>1, <1>2
  <2> QED
    BY <2>2
<1>4. j + Len(s) = q + 1
  BY <1>2, <1>3
<1>5. Len(s) \in 1 .. Len(s)
  BY <1>2
<1>6. s[Len(s)] = c[q]
  BY <1>1, <1>3, <1>5
<1>7. Last(s) = c[q]
  BY <1>6 DEF Last
<1>8. \A i \in 1 .. Len(c) : c[i] = c[q] => i = q
  BY OneAddress
<1> QED
  BY <1>1, <1>2, <1>3, <1>4, <1>7, <1>8 DEF EndsAt

\* The edges of a block are the flow behind its last instruction.
LEMMA FlowFitsFrom ==
  ASSUME Base, Laid, phase = "edges", NEW b \in pending, ~Unusable(b), Common(b)
  PROVE  Insns(b) # <<>> /\ FlowFits(fun, Insns(b), Elems(EdgesFrom(b)))
<1>0. /\ Types /\ HeadsKnown /\ b \in DOMAIN blocks /\ b[1] = fun /\ fun \in DOMAIN prog.code /\ fun \notin left
      /\ phase # "heads"
  BY DEF Base, Types, Domains
<1>a. PICK s \in Seq(Instruction) : s = Insns(b)
  BY <1>0, Fields DEF Insns
<1>b. PICK c, E : c = Code /\ E = Elems(EdgesFrom(b))
  OBVIOUS
<1>1. c = Code /\ s = Insns(b) /\ E = Elems(EdgesFrom(b))
  BY <1>a, <1>b
<1>2. /\ WellFormed(c) /\ TablesInMemory(prog, c) /\ Len(c) \in Nat \ {0} /\ c = prog.code[fun]
      /\ \A i \in 1 .. Len(c) : c[i] \in Instruction /\ c[i].addr \in Nat /\ low_pc <= c[i].addr /\ c[i].addr <= high_pc
      /\ low_pc \in Nat /\ high_pc \in Nat
  BY <1>0, <1>1, CodeFacts, AddressAssumption DEF Code
<1>3. s # <<>>
  BY <1>1 DEF Unusable
<1>4. PICK j \in 1 .. Len(c) : Segment(blocks, c, b, j) /\ Closed(blocks, c, b, j)
  <2>1. Made(fun) /\ b \in BlocksOf(fun)
    BY <1>0 DEF Made, BlocksOf
  <2>2. LaidOut(blocks, c, b)
    BY <1>0, <1>2, <2>1 DEF Laid, LaidFor
  <2> QED
    BY <1>1, <1>3, <2>2 DEF LaidOut, Insns
<1>5. PICK q \in 1 .. Len(c) :
        /\ q = j - 1 + Len(s) /\ Through(blocks, b, j) = q + 1 /\ Len(s) \in Nat \ {0}
        /\ Last(s) = c[q]
        /\ \A k \in 1 .. Len(s) : s[k] = c[j - 1 + k]
        /\ \A i \in 1 .. Len(c) : c[i] = Last(s) => i = q
  <2>1. PICK bs : bs = blocks
    OBVIOUS
  <2>2. s = bs[b].statements /\ Segment(bs, c, b, j)
    BY <1>1, <1>4, <2>1 DEF Insns
  <2>3. PICK q \in 1 .. Len(c) : EndsAt(bs, c, b, j, s, q)
    <3>1. WellFormed(c)
      BY <1>2
    <3> QED
      BY <2>2, <3>1, LastOf
  <2> QED
    BY <2>1, <2>3 DEF EndsAt
<1>6. IF q = Len(Code) THEN blocks[b].next = NoBlock
      ELSE blocks[b].next = <<fun, Code[q + 1].addr>> /\ <<fun, Code[q + 1].addr>> \in DOMAIN blocks
  <2>1. q + 1 = Len(c) + 1 <=> q = Len(c)
    BY <1>2
  <2> QED
    BY <1>0, <1>1, <1>4, <1>5, <2>1 DEF Closed
<1>7. ASSUME NEW k \in {"default", "true", "false", "call_return"}
      PROVE  /\ \A e \in Elems(EdgeToNext(b, k)) : q < Len(c) /\ e.to = <<fun, c[q + 1].addr>>
             /\ q < Len(c) => \E e \in Elems(EdgeToNext(b, k)) : e.to = <<fun, c[q + 1].addr>>
             /\ \A a : /\ \A e \in Elems(EdgeToAddr(b, a, k)) : e.to = <<fun, a>> /\ Common(e.to)
                       /\ a \in heads => \E e \in Elems(EdgeToAddr(b, a, k)) : e.to = <<fun, a>>
  <2>1. q \in 1 .. Len(Code)
    BY <1>1
  <2>2. /\ \A e \in Elems(EdgeToNext(b, k)) : q < Len(Code) /\ e.to = <<fun, Code[q + 1].addr>>
        /\ q < Len(Code) => \E e \in Elems(EdgeToNext(b, k)) : e.to = <<fun, Code[q + 1].addr>>
    BY <1>0, <1>6, <2>1, NextEdges
  <2>3. \A a : /\ \A e \in Elems(EdgeToAddr(b, a, k)) : e.to = <<fun, a>> /\ Common(e.to)
               /\ a \in heads => \E e \in Elems(EdgeToAddr(b, a, k)) : e.to = <<fun, a>>
    BY <1>0, AddrEdges
  <2> QED
    BY <1>1, <2>2, <2>3
<1>8. b # Entry(fun) /\ b # Exit(fun)
  BY DEF Common, Entry, Exit
<1> DEFINE Complete == ((c[q].id = "jmprax" => Recognised(fun, s, Len(s))) =>
                          \A a \in FlowsOf(fun, q) : \E e \in E : e.to = <<fun, a>>)
           Sound == \A e \in E :
             \/ e.to[1] = fun /\ e.to[2] \in FlowsOf(fun, q)
             \/ e.to = <<fun, c[q].target>> /\ c[q].id \in Direct /\ Common(e.to)
             \/ /\ c[q].id = "jmprax"
                /\ LET t == lookBackForJumpTableAddr(s, Len(s))
                   IN \E k \in 1 .. Len(prog.words[t]) :
                        /\ t = c[q].target => k > prog.size[t]
                        /\ e.to = <<fun, prog.words[t][k]>>
<1> DEFINE behind == IF q < Len(c) THEN {c[q + 1].addr} ELSE {}
           own == {a \in {c[q].target} : \E k \in 1 .. Len(c) : c[k].addr = a}
<1>c. SUFFICES Complete /\ Sound
  <2>1. SUFFICES ASSUME Complete, Sound PROVE FlowFits(fun, s, E)
    BY <1>1, <1>3
  <2> HIDE DEF Complete, Sound
  <2>2. SUFFICES ASSUME NEW i \in 1 .. Len(prog.code[fun]), prog.code[fun][i] = Last(s)
                 PROVE  FlowFitsAt(fun, s, E, i)
    BY DEF FlowFits
  <2>3. i = q
    BY <1>2, <1>5, <2>2
  <2>4. prog.code[fun][i] = c[q] /\ Last(s) = c[q]
    BY <1>5, <2>2
  <2> QED
    BY <1>2, <1>5, <2>1, <2>3, <2>4 DEF FlowFitsAt, Complete, Sound
<1>9. c[q].id \in Direct => own \subseteq heads
  <2>1. HeadsAt(q) \subseteq heads
    BY <1>0, <1>1 DEF HeadsKnown
  <2>2. c[q].id \in Direct => {c[q].target} \intersect (low_pc .. high_pc) \subseteq HeadsAt(q)
    BY <1>1 DEF HeadsAt
  <2>3. own \subseteq low_pc .. high_pc
    BY <1>2
  <2> QED
    BY <2>1, <2>2, <2>3
<1>10. /\ c[q].id = "jmp" => FlowsOf(fun, q) = own
       /\ c[q].id = "jcc" => FlowsOf(fun, q) = behind \union own
       /\ c[q].id = "ret" => FlowsOf(fun, q) = {MaxAddr}
       /\ c[q].id = "jmprax" => FlowsOf(fun, q) = IF c[q].target = 0 THEN {}
            ELSE {prog.words[c[q].target][k] : k \in 1 .. prog.size[c[q].target]}
       /\ c[q].id \notin {"jmp", "jcc", "jmprax", "ret"} => FlowsOf(fun, q) = behind
  BY <1>2 DEF FlowsOf
<1>11. /\ c[q].id = "jmp" => EdgesFrom(b) = EdgeToAddr(b, c[q].target, "default")
       /\ c[q].id = "jcc" => EdgesFrom(b) = EdgeToNext(b, "false") \o EdgeToAddr(b, c[q].target, "true")
       /\ c[q].id = "ret" => EdgesFrom(b) = EdgeTo(b, Exit(fun), "default")
       /\ c[q].id = "jmprax" => EdgesFrom(b) = EdgesToTable(b)
       /\ c[q].id \notin {"jmp", "jcc", "jmprax", "ret"} => EdgesFrom(b) = EdgeToNext(b, "call_return")
  BY <1>1, <1>5, <1>8 DEF EdgesFrom
<1> HIDE DEF behind, own
<1>12. CASE c[q].id = "jmp"
  <2>1. E = Elems(EdgeToAddr(b, c[q].target, "default"))
    BY <1>1, <1>11, <1>12
  <2>2. /\ \A e \in E : e.to = <<fun, c[q].target>> /\ Common(e.to)
        /\ c[q].target \in heads => \E e \in E : e.to = <<fun, c[q].target>>
    BY <1>7, <2>1
  <2>3. c[q].id \in Direct /\ \A a \in own : a = c[q].target
    BY <1>12 DEF Direct, own
  <2> QED
    BY <1>9, <1>10, <1>12, <2>2, <2>3
<1>13. CASE c[q].id = "jcc"
  <2>1. PICK F, G : F = Elems(EdgeToNext(b, "false")) /\ G = Elems(EdgeToAddr(b, c[q].target, "true"))
    OBVIOUS
  <2>2. E = F \union G
    <3>1. Outward(b, DOMAIN blocks, EdgeToNext(b, "false")) /\ Outward(b, DOMAIN blocks, EdgeToAddr(b, c[q].target, "true"))
      BY <1>0, EdgesOutward
    <3>2. PICK es, ds, D : es = EdgeToNext(b, "false") /\ ds = EdgeToAddr(b, c[q].target, "true") /\ D = DOMAIN blocks
      OBVIOUS
    <3>3. Outward(b, D, es) /\ Outward(b, D, ds)
      BY <3>1, <3>2
    <3>a. PICK X : X = Edges(D)
      OBVIOUS
    <3>b. es \in Seq(X) /\ ds \in Seq(X)
      BY <3>3, <3>a DEF Outward
    <3>4. Elems(es \o ds) = Elems(es) \union Elems(ds)
      BY <3>b, ElemsConcat
    <3> QED
      BY <1>1, <1>11, <1>13, <2>1, <3>2, <3>4
  <2>3. /\ \A e \in F : q < Len(c) /\ e.to = <<fun, c[q + 1].addr>>
        /\ q < Len(c) => \E e \in F : e.to = <<fun, c[q + 1].addr>>
        /\ \A e \in G : e.to = <<fun, c[q].target>> /\ Common(e.to)
        /\ c[q].target \in heads => \E e \in G : e.to = <<fun, c[q].target>>
    BY <1>7, <2>1
  <2>4. c[q].id \in Direct /\ \A a \in own : a = c[q].target
    BY <1>13 DEF Direct, own
  <2>5. Complete
    BY <1>9, <1>10, <1>13, <2>2, <2>3, <2>4 DEF behind
  <2>6. Sound
    BY <1>10, <1>13, <2>2, <2>3, <2>4 DEF behind
  <2> QED
    BY <2>5, <2>6
<1>14. CASE c[q].id = "ret"
  <2>1. PICK D, x : D = DOMAIN blocks /\ x = Exit(fun)
    OBVIOUS
  <2>2. b \in D /\ x \in D
    BY <1>0, <2>1 DEF Base, Domains
  <2>3. OneEdge(D, b, x, "default")
    BY <2>2, EdgeToFacts
  <2>4. E = {[from |-> b, to |-> x, type |-> "default"]}
    BY <1>1, <1>11, <1>14, <2>1, <2>3 DEF OneEdge
  <2>5. x = <<fun, MaxAddr>>
    BY <2>1 DEF Exit
  <2> QED
    BY <1>10, <1>14, <2>4, <2>5
<1>15. CASE c[q].id = "jmprax"
  <2>1. PICK T : T = TableTargets(s, Len(s))
    OBVIOUS
  <2>2. PICK t : t = lookBackForJumpTableAddr(s, Len(s))
    OBVIOUS
  <2>3. /\ \A e \in E : \E a \in T : a \in heads /\ e.to = <<fun, a>>
        /\ \A a \in T : a \in heads /\ (\E i \in 1 .. Len(c) : c[i].addr = a) => \E e \in E : e.to = <<fun, a>>
    BY <1>0, <1>1, <1>11, <1>15, <2>1, TableEdges DEF Block
  <2>4. t # 0 => lookBackForJumpTableAddr(c, q) = t
    <3>1. j \in Nat \ {0} /\ q \in Nat /\ Len(s) \in Nat
      BY <1>2, <1>5
    <3> QED
      BY <1>5, <2>2, <3>1, LookBackSame
  <2>5. t # 0 => WordsAt(prog, t)
    BY <1>2, <1>15, <2>4 DEF TablesInMemory
  <2>6. T = IF t = 0 THEN {} ELSE getJumpAddr(t)
    BY <2>1, <2>2 DEF TableTargets
  <2>7. Complete
    <3> SUFFICES ASSUME Recognised(fun, s, Len(s)), NEW a \in FlowsOf(fun, q)
                 PROVE  \E e \in E : e.to = <<fun, a>>
      BY <1>15
    <3>1. s[Len(s)] = c[q]
      BY <1>5 DEF Last
    <3>2. t # 0 /\ c[q].target = t /\ Readable(fun, t)
      BY <2>2, <3>1 DEF Recognised
    <3>3. Recognised(fun, c, q)
      BY <2>4, <3>2 DEF Recognised
    <3>4. PICK k \in 1 .. prog.size[t] : a = prog.words[t][k]
      BY <1>10, <1>15, <3>2
    <3>5. PICK i \in 1 .. Len(c) : a = c[i].addr
      <4>1. PICK i \in 2 .. Len(c) - 1 : a = c[i].addr
        BY <1>2, <3>2, <3>4 DEF Readable
      <4>2. i \in 1 .. Len(c)
        BY <1>2
      <4> QED
        BY <4>1, <4>2
    <3>6. a \in heads
      BY <1>0, <1>1, <1>15, <3>3, <3>5, TargetHeads DEF Jumps
    <3>7. a \in T
      BY <1>0, <2>5, <2>6, <3>2, <3>4, ReadableFound
    <3> QED
      BY <2>3, <3>5, <3>6, <3>7
  <2>8. Sound
    <3> SUFFICES ASSUME NEW e \in E
                 PROVE  \/ e.to[1] = fun /\ e.to[2] \in FlowsOf(fun, q)
                        \/ \E k \in 1 .. Len(prog.words[t]) :
                             /\ t = c[q].target => k > prog.size[t]
                             /\ e.to = <<fun, prog.words[t][k]>>
      BY <1>15, <2>2
    <3>1. PICK a \in T : e.to = <<fun, a>>
      BY <2>3
    <3>2. t # 0 /\ a \in getJumpAddr(t) /\ WordsAt(prog, t)
      BY <2>5, <2>6
    <3>3. PICK k \in 1 .. Len(prog.words[t]) : prog.words[t][k] = a
      BY <1>0, <3>2, TableWords
    <3>4. CASE t = c[q].target /\ ~ (k > prog.size[t])
      <4>1. k \in 1 .. prog.size[t]
        BY <3>2, <3>4 DEF WordsAt
      <4>2. a \in FlowsOf(fun, q)
        BY <1>10, <1>15, <3>2, <3>3, <3>4, <4>1
      <4> QED
        BY <3>1, <4>2
    <3>5. CASE ~ (t = c[q].target /\ ~ (k > prog.size[t]))
      BY <3>1, <3>3, <3>5
    <3> QED
      BY <3>4, <3>5
  <2> QED
    BY <2>7, <2>8
<1>16. CASE c[q].id \notin {"jmp", "jcc", "jmprax", "ret"}
  <2>1. /\ \A e \in E : q < Len(c) /\ e.to = <<fun, c[q + 1].addr>>
        /\ q < Len(c) => \E e \in E : e.to = <<fun, c[q + 1].addr>>
    BY <1>1, <1>7, <1>11, <1>16
  <2> QED
    BY <1>10, <1>16, <2>1 DEF behind
<1> QED
  BY <1>12, <1>13, <1>14, <1>15, <1>16

\* The edges of the blocks that have been met.
LEMMA SameFits ==
  ASSUME prog' = prog
  PROVE  \A f, s, E : FlowFits(f, s, E)' <=> FlowFits(f, s, E)
<1>1. ASSUME NEW f, NEW s, NEW E, NEW i PROVE FlowFitsAt(f, s, E, i)' <=> FlowFitsAt(f, s, E, i)
  <2>1. FlowsOf(f, i)' = FlowsOf(f, i) /\ (Recognised(f, s, Len(s))' <=> Recognised(f, s, Len(s)))
    BY SameFlow
  <2> QED
    BY <2>1 DEF FlowFitsAt, Common
<1> QED
  BY <1>1 DEF FlowFits

LEMMA FlowsStep ==
  ASSUME prog' = prog,
         \A b \in DOMAIN blocks' : Met(b)' => Insns(b)' # <<>> /\ FlowFits(b[1], Insns(b)', ExceptCall(b)'),
         \A b \in DOMAIN blocks' :
           b[1] = fun' /\ (phase' = "fill" \/ (phase' = "edges" /\ b \in pending')) => blocks'[b].forward = <<>>
  PROVE  Flows'
BY SameFits DEF Flows

LEMMA SameEdges ==
  ASSUME NEW b, blocks'[b].forward = blocks[b].forward
  PROVE  EdgesOf(b)' = EdgesOf(b) /\ ExceptCall(b)' = ExceptCall(b)
BY DEF EdgesOf, ExceptCall

\* A block that stays as it is fits as before.
LEMMA FlowsAside ==
  ASSUME Flows, NEW b \in DOMAIN blocks, Met(b),
         blocks'[b].forward = blocks[b].forward, blocks'[b].statements = blocks[b].statements
  PROVE  Insns(b)' # <<>> /\ FlowFits(b[1], Insns(b)', ExceptCall(b)')
<1>1. Insns(b) # <<>> /\ FlowFits(b[1], Insns(b), ExceptCall(b))
  BY DEF Flows
<1>2. ExceptCall(b)' = ExceptCall(b) /\ Insns(b)' = Insns(b)
  BY SameEdges DEF Insns
<1> QED
  BY <1>1, <1>2

LEMMA MirroredKept ==
  ASSUME EdgesMirrored, DOMAIN blocks' = DOMAIN blocks,
         \A x \in DOMAIN blocks : blocks'[x].forward = blocks[x].forward /\ blocks'[x].backward = blocks[x].backward
  PROVE  EdgesMirrored'
BY DEF EdgesMirrored, Leaving, Reaching

LEMMA NothingMirrored ==
  ASSUME NEW x
  PROVE  Reaching(<<>>, x) = <<>> /\ Leaving(<<>>, x) = <<>>
<1>1. \A S, P : Chosen(<<>>, P) = <<>> /\ <<>> \in Seq(Edges(S))
  BY ChosenEmpty
<1> QED
  BY <1>1, LeavingIs

LEMMA MirroredMake == ASSUME Base, EdgesMirrored, MakeBlocks PROVE EdgesMirrored'
<1> DEFINE made == {Block(a) : a \in heads} \union {Entry(fun), Exit(fun)}
<1>0. PICK D : D = DOMAIN blocks
  OBVIOUS
<1>1. /\ DOMAIN blocks' = made \union D
      /\ \A b \in made : blocks'[b] = Empty
      /\ \A b \in D : b \notin made => blocks'[b] = blocks[b]
  BY <1>0 DEF MakeBlocks
<1>2. \A b \in D : b \notin made
  <2>1. \A b \in D : b[1] # fun
    BY <1>0 DEF Base, Domains, MakeBlocks
  <2> QED
    BY <2>1 DEF Block, Entry, Exit
<1> HIDE DEF made
<1>3. SUFFICES ASSUME NEW b \in made \union D, NEW c \in made \union D
               PROVE  Reaching(blocks'[b].forward, c) = Leaving(blocks'[c].backward, b)
  BY <1>1 DEF EdgesMirrored, Leaving, Reaching
<1>4. ASSUME NEW x \in made PROVE blocks'[x].forward = <<>> /\ blocks'[x].backward = <<>>
  BY <1>1 DEF Empty
<1>5. ASSUME NEW x \in D, NEW y \in made
      PROVE  Reaching(blocks'[x].forward, y) = <<>> /\ Leaving(blocks'[x].backward, y) = <<>>
  <2>1. PICK fs \in Seq(Edges(D)), bs \in Seq(Edges(D)) : fs = blocks[x].forward /\ bs = blocks[x].backward
    BY <1>0, Fields DEF Base
  <2>2. y \notin D
    BY <1>2
  <2> QED
    BY <1>1, <1>2, <2>1, <2>2, NoMirrors
<1>6. CASE b \in made /\ c \in made
  BY <1>4, <1>6, NothingMirrored
<1>7. CASE b \in made /\ c \in D
  BY <1>4, <1>5, <1>7, NothingMirrored
<1>8. CASE b \in D /\ c \in made
  BY <1>4, <1>5, <1>8, NothingMirrored
<1>9. CASE b \in D /\ c \in D
  BY <1>0, <1>1, <1>2, <1>9 DEF EdgesMirrored
<1> QED
  BY <1>6, <1>7, <1>8, <1>9

-----------------------------------------------------------------------------
(***************************************************************************)
(* Every step preserves the invariant.                                     *)
(***************************************************************************)
\* Steps that leave the blocks and the function alone.
LEMMA BlocksStay ==
  ASSUME CFGInv, Base', prog' = prog, blocks' = blocks, phase' # "fill", phase' # "undefined",
         \A f \in DOMAIN prog.code : Made(f)' => Made(f),
         \A b \in DOMAIN blocks : Met(b)' => Met(b),
         phase' # "edges"
  PROVE  CFGInv'
<1>1. Filling' /\ Stopped'
  BY DEF Filling, Stopped
<1>2. Laid'
  <2>1. \A f \in DOMAIN prog.code : Alike(blocks, blocks', f)
    BY DEF Alike
  <2> QED
    BY <2>1, LaidStep DEF CFGInv
<1>3. Flows'
  <2>1. ASSUME NEW b \in DOMAIN blocks', Met(b)'
        PROVE  Insns(b)' # <<>> /\ FlowFits(b[1], Insns(b)', ExceptCall(b)')
    BY <2>1, FlowsAside DEF CFGInv
  <2> QED
    BY <2>1, FlowsStep
<1>4. EdgesMirrored'
  BY MirroredKept DEF CFGInv
<1> QED
  BY <1>1, <1>2, <1>3, <1>4 DEF CFGInv

LEMMA StepHeads == ASSUME CFGInv, BasicBlockHead PROVE CFGInv'
<1>1. Base'
  BY BaseHeads DEF CFGInv
<1>2. prog' = prog /\ fun' = fun /\ left' = left /\ blocks' = blocks /\ phase' = phase /\ phase = "heads"
  BY DEF BasicBlockHead
<1>3. \A f \in DOMAIN prog.code : Made(f)' => Made(f)
  BY <1>2 DEF Made
<1>4. \A b \in DOMAIN blocks : Met(b)' => Met(b)
  BY <1>2 DEF Met, Common
<1> QED
  BY <1>1, <1>2, <1>3, <1>4, BlocksStay

LEMMA StepNextFunction == ASSUME CFGInv, NEW f \in left, NextFunction(f) PROVE CFGInv'
<1>1. Base'
  BY BaseNextFunction DEF CFGInv
<1>2. /\ prog' = prog /\ fun' = f /\ left' = left \ {f} /\ blocks' = blocks /\ phase' = "heads" /\ phase = "edges"
      /\ pending = {}
  BY DEF NextFunction
<1>3. \A g \in DOMAIN prog.code : Made(g)' => Made(g)
  BY <1>2 DEF Made
<1>4. \A b \in DOMAIN blocks : Met(b)' => Met(b)
  BY <1>2 DEF Met, Common
<1> QED
  BY <1>1, <1>2, <1>3, <1>4, BlocksStay

LEMMA StepAllBuilt == ASSUME CFGInv, AllBuilt PROVE CFGInv'
<1>1. Base'
  BY BaseLinking DEF CFGInv
<1>2. /\ prog' = prog /\ fun' = fun /\ left' = left /\ blocks' = blocks /\ phase' = "link" /\ phase = "edges"
      /\ pending = {}
  BY DEF AllBuilt
<1>3. \A g \in DOMAIN prog.code : Made(g)' => Made(g)
  BY <1>2 DEF Made
<1>4. \A b \in DOMAIN blocks : Met(b)' => Met(b)
  BY <1>2 DEF Met, Common
<1> QED
  BY <1>1, <1>2, <1>3, <1>4, BlocksStay

LEMMA StepLinked == ASSUME CFGInv, Linked PROVE CFGInv'
<1>1. Base'
  BY BaseLinking DEF CFGInv
<1>2. prog' = prog /\ fun' = fun /\ left' = left /\ blocks' = blocks /\ phase' = "done" /\ phase = "link"
  BY DEF Linked
<1>3. \A g \in DOMAIN prog.code : Made(g)' => Made(g)
  BY <1>2 DEF Made
<1>4. \A b \in DOMAIN blocks : Met(b)' => Met(b)
  BY <1>2 DEF Met, Common
<1> QED
  BY <1>1, <1>2, <1>3, <1>4, BlocksStay

LEMMA StepMake == ASSUME CFGInv, MakeBlocks PROVE CFGInv'
<1> DEFINE made == {Block(a) : a \in heads} \union {Entry(fun), Exit(fun)}
<1>0. Base /\ Types
  BY DEF CFGInv, Base
<1>1. Base' /\ Filling' /\ EdgesMirrored'
  BY BaseMake, FillingMake, MirroredMake DEF CFGInv
<1>2. prog' = prog /\ fun' = fun /\ left' = left /\ phase' = "fill" /\ phase = "heads"
  BY DEF MakeBlocks
<1>3. /\ DOMAIN blocks' = made \union DOMAIN blocks
      /\ \A b \in made : blocks'[b] = Empty /\ b[1] = fun
      /\ \A b \in DOMAIN blocks : b \notin made => blocks'[b] = blocks[b]
  BY DEF MakeBlocks, Block, Entry, Exit
<1>4. \A b \in DOMAIN blocks : b[1] # fun
  BY <1>0, <1>2 DEF Base, Domains
<1> HIDE DEF made
<1>5. Laid'
  <2>1. ASSUME NEW f \in DOMAIN prog.code, Made(f)' PROVE Made(f) /\ Alike(blocks, blocks', f)
    <3>1. f # fun /\ Made(f)
      BY <1>2, <2>1 DEF Made
    <3>2. \A a : <<f, a>> \in DOMAIN blocks' <=> <<f, a>> \in DOMAIN blocks
      BY <1>3, <3>1
    <3>3. \A b \in DOMAIN blocks : b[1] = f => b \in DOMAIN blocks' /\ blocks'[b] = blocks[b]
      BY <1>3, <1>4
    <3> QED
      BY <3>1, <3>2, <3>3 DEF Alike
  <2> QED
    BY <1>0, <1>1, <1>2, <2>1, LaidStep DEF CFGInv
<1>6. Flows'
  <2>1. ASSUME NEW b \in DOMAIN blocks', Met(b)'
        PROVE  Insns(b)' # <<>> /\ FlowFits(b[1], Insns(b)', ExceptCall(b)')
    <3>1. b[1] # fun /\ Met(b)
      BY <1>2, <2>1 DEF Met, Common
    <3>2. b \in DOMAIN blocks /\ blocks'[b] = blocks[b]
      BY <1>3, <1>4, <3>1
    <3> QED
      BY <3>1, <3>2, FlowsAside DEF CFGInv
  <2>2. \A b \in DOMAIN blocks' : b[1] = fun => blocks'[b].forward = <<>>
    BY <1>3, <1>4 DEF Empty
  <2> QED
    BY <1>2, <2>1, <2>2, FlowsStep
<1>7. Stopped'
  BY <1>2 DEF Stopped
<1> QED
  BY <1>1, <1>5, <1>6, <1>7 DEF CFGInv

LEMMA StepStatement == ASSUME CFGInv, Statement PROVE CFGInv'
<1>0. Base /\ Filling /\ Types
  BY DEF CFGInv, Base
<1>1. phase = "fill" /\ phase' = phase /\ prog' = prog /\ fun' = fun /\ left' = left
  BY DEF Statement
<1>2. cur \in DOMAIN blocks /\ cur[1] = fun
  BY <1>0, <1>1, CurKnown
<1>3. Base' /\ Filling'
  BY <1>0, <1>2, BaseStatement, FillingStatement
<1>4. /\ DOMAIN blocks' = DOMAIN blocks
      /\ \A x \in DOMAIN blocks : blocks'[x].forward = blocks[x].forward /\ blocks'[x].backward = blocks[x].backward
      /\ \A x \in DOMAIN blocks : x[1] # fun => /\ blocks'[x].statements = blocks[x].statements
                                                /\ blocks'[x].next = blocks[x].next
                                                /\ blocks'[x].end = blocks[x].end
  <2>1. CASE Code[pos].addr \in heads
    <3>1. Moved(Block(Code[pos].addr), TRUE, Code[pos])
      BY <1>0, <1>2, <2>1, StatementMoves
    <3>2. Block(Code[pos].addr)[1] = fun
      BY DEF Block
    <3> QED
      BY <1>2, <3>1, <3>2 DEF Moved
  <2>2. CASE Code[pos].addr \notin heads
    <3>1. Moved(cur, FALSE, Code[pos])
      BY <1>0, <1>2, <2>2, StatementMoves
    <3> QED
      BY <1>2, <3>1 DEF Moved
  <2> QED
    BY <2>1, <2>2
<1>5. Laid'
  <2>1. ASSUME NEW f \in DOMAIN prog.code, Made(f)' PROVE Made(f) /\ Alike(blocks, blocks', f)
    <3>1. f # fun /\ Made(f)
      BY <1>1, <2>1 DEF Made
    <3> QED
      BY <1>4, <3>1 DEF Alike
  <2> QED
    BY <1>0, <1>1, <1>3, <2>1, LaidStep DEF CFGInv
<1>6. Flows'
  <2>1. ASSUME NEW b \in DOMAIN blocks', Met(b)'
        PROVE  Insns(b)' # <<>> /\ FlowFits(b[1], Insns(b)', ExceptCall(b)')
    <3>1. b[1] # fun /\ Met(b) /\ b \in DOMAIN blocks
      BY <1>1, <1>4, <2>1 DEF Met, Common
    <3> QED
      BY <1>4, <3>1, FlowsAside DEF CFGInv
  <2>2. \A b \in DOMAIN blocks' : b[1] = fun => blocks'[b].forward = <<>>
    BY <1>1, <1>4 DEF CFGInv, Flows
  <2> QED
    BY <1>1, <2>1, <2>2, FlowsStep
<1>7. EdgesMirrored' /\ Stopped'
  BY <1>1, <1>4, MirroredKept DEF CFGInv, Stopped
<1> QED
  BY <1>3, <1>5, <1>6, <1>7 DEF CFGInv

LEMMA StepLast == ASSUME CFGInv, LastStatement PROVE CFGInv'
<1>0. Base /\ Filling /\ Types
  BY DEF CFGInv, Base
<1>1. /\ phase = "fill" /\ phase' = "edges" /\ prog' = prog /\ fun' = fun /\ left' = left
      /\ pending' = {b \in DOMAIN blocks : b[1] = fun}
  BY DEF LastStatement
<1>2. cur \in DOMAIN blocks /\ cur[1] = fun
  BY <1>0, <1>1, CurKnown
<1>3. Base' /\ Filling' /\ Stopped'
  BY <1>0, <1>1, <1>2, BaseLast DEF Filling, Stopped
<1>4. /\ DOMAIN blocks' = DOMAIN blocks
      /\ \A x \in DOMAIN blocks : blocks'[x].forward = blocks[x].forward /\ blocks'[x].backward = blocks[x].backward
      /\ \A x \in DOMAIN blocks : x[1] # fun => /\ blocks'[x].statements = blocks[x].statements
                                                /\ blocks'[x].next = blocks[x].next
                                                /\ blocks'[x].end = blocks[x].end
  BY <1>0, <1>2, LastFacts
<1>5. Laid'
  <2>1. ASSUME NEW f \in DOMAIN prog.code, Made(f)'
        PROVE  (Made(f) /\ Alike(blocks, blocks', f)) \/ LaidFor(f)'
    <3>1. CASE f # fun
      <4>1. Made(f)
        BY <1>1, <2>1, <3>1 DEF Made
      <4> QED
        BY <1>4, <3>1, <4>1 DEF Alike
    <3>2. CASE f = fun
      BY <1>0, <1>3, <3>2, LaidLast
    <3> QED
      BY <3>1, <3>2
  <2> QED
    BY <1>0, <1>1, <1>3, <2>1, LaidStep DEF CFGInv
<1>6. Flows'
  <2>1. ASSUME NEW b \in DOMAIN blocks', Met(b)'
        PROVE  Insns(b)' # <<>> /\ FlowFits(b[1], Insns(b)', ExceptCall(b)')
    <3>1. b[1] # fun /\ Met(b) /\ b \in DOMAIN blocks
      BY <1>1, <1>4, <2>1 DEF Met, Common
    <3>2. blocks'[b].forward = blocks[b].forward /\ blocks'[b].statements = blocks[b].statements
      BY <1>4, <3>1
    <3> QED
      BY <3>1, <3>2, FlowsAside DEF CFGInv
  <2>2. \A b \in DOMAIN blocks' : b[1] = fun => blocks'[b].forward = <<>>
    BY <1>1, <1>4 DEF CFGInv, Flows
  <2> QED
    BY <1>1, <2>1, <2>2, FlowsStep
<1>7. EdgesMirrored'
  BY <1>4, MirroredKept DEF CFGInv
<1> QED
  BY <1>3, <1>5, <1>6, <1>7 DEF CFGInv

\* What pushing edges does to the edges of a block that passes follow.
LEMMA PushedFlow ==
  ASSUME Types, NEW es \in Seq(Edges(DOMAIN blocks)), blocks' = WithEdges(es), NEW x \in DOMAIN blocks
  PROVE  /\ Insns(x)' = Insns(x)
         /\ ExceptCall(x)' = ExceptCall(x) \union {e \in Elems(es) : e.from = x /\ e.type \notin {"call", "return"}}
<1>1. PICK bs : bs = blocks'
  OBVIOUS
<1>2. /\ bs[x].statements = blocks[x].statements
      /\ Elems(bs[x].forward) = Elems(blocks[x].forward) \union {e \in Elems(es) : e.from = x}
  BY <1>1, Pushed
<1>3. EdgesOf(x) = Elems(blocks[x].forward) /\ EdgesOf(x)' = Elems(bs[x].forward)
  BY <1>1 DEF EdgesOf, Elems
<1>4. Insns(x)' = Insns(x)
  BY <1>1, <1>2 DEF Insns
<1> QED
  BY <1>2, <1>3, <1>4 DEF ExceptCall

LEMMA StepEdges == ASSUME CFGInv, NEW b \in pending, EdgesOfBasicBlock(b) PROVE CFGInv'
<1>0. Base /\ Types /\ b \in DOMAIN blocks
  BY DEF CFGInv, Base, Types
<1>1. Base'
  BY <1>0, BaseEdges
<1>2. phase = "edges" /\ prog' = prog /\ fun' = fun /\ left' = left
  BY DEF EdgesOfBasicBlock
<1>3. b[1] = fun /\ fun \notin left
  BY <1>0, <1>2 DEF Base, Domains, Types
<1>4. \A f \in DOMAIN prog.code : Made(f)' => Made(f)
  BY <1>2 DEF Made
<1>5. CASE phase' = "undefined"
  <2>1. blocks' = blocks /\ Unusable(b)
    BY <1>2, <1>5 DEF EdgesOfBasicBlock
  <2>2. Filling' /\ Stopped'
    BY <1>0, <1>2, <1>3, <1>5, <2>1 DEF Filling, Stopped, Unusable, Common, Insns
  <2>3. Laid'
    <3>1. \A f \in DOMAIN prog.code : Alike(blocks, blocks', f)
      BY <2>1 DEF Alike
    <3> QED
      BY <1>0, <1>1, <1>2, <1>4, <3>1, LaidStep DEF CFGInv
  <2>4. Flows'
    <3>1. \A x \in DOMAIN blocks' : ~Met(x)'
      BY <1>5 DEF Met
    <3> QED
      BY <1>2, <1>5, <3>1, FlowsStep
  <2>5. EdgesMirrored'
    BY <2>1, MirroredKept DEF CFGInv
  <2> QED
    BY <1>1, <2>2, <2>3, <2>4, <2>5 DEF CFGInv
<1>6. CASE phase' # "undefined"
  <2>1. PICK es \in Seq(Edges(DOMAIN blocks)) :
          /\ es = EdgesFrom(b) /\ blocks' = WithEdges(es) /\ Outward(b, DOMAIN blocks, es)
    BY <1>0, <1>2, <1>6, EdgesPushed, EdgesFromOut DEF Base
  <2>2. phase' = phase /\ pending' = pending \ {b} /\ ~Unusable(b)
    BY <1>0, <1>6, EdgesPushed
  <2>3. PICK bs : bs = blocks'
    OBVIOUS
  <2>4. DOMAIN blocks' = DOMAIN blocks
        /\ \A x \in DOMAIN blocks : /\ blocks'[x].statements = blocks[x].statements
                                    /\ blocks'[x].next = blocks[x].next /\ blocks'[x].end = blocks[x].end
    BY <1>0, <2>1, <2>3, Pushed
  <2>5. Filling' /\ Stopped'
    BY <1>2, <2>2 DEF Filling, Stopped
  <2>6. Laid'
    <3>1. \A f \in DOMAIN prog.code : Alike(blocks, blocks', f)
      BY <2>4 DEF Alike
    <3> QED
      BY <1>0, <1>1, <1>2, <1>4, <3>1, LaidStep DEF CFGInv
  <2>7. \A e \in Elems(es) : e.from = b /\ e.type \notin {"call", "return"}
    BY <2>1 DEF Outward
  <2>8. blocks[b].forward = <<>> /\ \A x \in pending : blocks[x].forward = <<>>
    BY <1>0, <1>2, <1>3 DEF CFGInv, Flows, Base, Domains, Types
  <2>9. ASSUME NEW x \in DOMAIN blocks, Met(x)'
        PROVE  Insns(x)' # <<>> /\ FlowFits(x[1], Insns(x)', ExceptCall(x)')
    <3>1. /\ Insns(x)' = Insns(x)
          /\ ExceptCall(x)' = ExceptCall(x) \union {e \in Elems(es) : e.from = x /\ e.type \notin {"call", "return"}}
      BY <1>0, <2>1, PushedFlow
    <3>2. CASE x = b
      <4>1. Common(b)
        BY <2>9, <3>2 DEF Met, Common
      <4>2. Insns(b) # <<>> /\ FlowFits(fun, Insns(b), Elems(es))
        BY <1>0, <1>2, <2>1, <2>2, <4>1, FlowFitsFrom DEF CFGInv
      <4>3. ExceptCall(b) = {}
        BY <2>8 DEF ExceptCall, EdgesOf
      <4>4. ExceptCall(x)' = Elems(es)
        BY <2>7, <3>1, <3>2, <4>3
      <4> QED
        BY <1>3, <3>1, <3>2, <4>2, <4>4
    <3>3. CASE x # b
      <4>1. Met(x)
        BY <1>2, <2>2, <2>9, <3>3 DEF Met, Common
      <4>2. ExceptCall(x)' = ExceptCall(x)
        BY <2>7, <3>1, <3>3
      <4>3. Insns(x) # <<>> /\ FlowFits(x[1], Insns(x), ExceptCall(x))
        BY <4>1 DEF CFGInv, Flows
      <4> QED
        BY <3>1, <4>2, <4>3
    <3> QED
      BY <3>2, <3>3
  <2>10. ASSUME NEW x \in pending' PROVE blocks'[x].forward = <<>>
    <3>1. x \in pending /\ x # b /\ x \in DOMAIN blocks
      BY <1>0, <2>2 DEF Types
    <3>2. bs[x].forward = blocks[x].forward \o Leaving(es, x)
      BY <1>0, <2>1, <2>3, <3>1, Pushed
    <3>3. Leaving(es, x) = <<>>
      <4>1. PICK D : D = DOMAIN blocks
        OBVIOUS
      <4>2. es \in Seq(Edges(D)) /\ Leaving(es, x) \in Seq(Edges(D))
            /\ Elems(Leaving(es, x)) = {e \in Elems(es) : e.from = x}
        BY <2>1, <4>1, LeavingFacts
      <4>3. Elems(Leaving(es, x)) = {}
        BY <2>7, <3>1, <4>2
      <4> QED
        BY <4>2, <4>3, NoElems
    <3>4. <<>> \o <<>> = <<>>
      OBVIOUS
    <3> QED
      BY <2>3, <2>8, <3>1, <3>2, <3>3, <3>4
  <2>11. Flows'
    BY <1>2, <2>2, <2>4, <2>9, <2>10, FlowsStep
  <2>12. EdgesMirrored'
    <3>1. \A x, c \in DOMAIN blocks : Reaching(bs[x].forward, c) = Leaving(bs[c].backward, x)
      BY <1>0, <2>1, <2>3, PushedMirrored DEF CFGInv
    <3> QED
      BY <2>3, <2>4, <3>1 DEF EdgesMirrored
  <2> QED
    BY <1>1, <2>5, <2>6, <2>11, <2>12 DEF CFGInv
<1> QED
  BY <1>5, <1>6

LEMMA LinkFlow ==
  ASSUME Base, NEW b \in pending, LinkBlock(b), NEW x \in DOMAIN blocks
  PROVE  Insns(x)' = Insns(x) /\ ExceptCall(x)' = ExceptCall(x)
<1>1. PICK es \in Seq(Edges(DOMAIN blocks)) :
        blocks' = WithEdges(es) /\ \A e \in Elems(es) : e.type \in {"call", "return"}
  BY LinksPushed
<1>2. /\ Insns(x)' = Insns(x)
      /\ ExceptCall(x)' = ExceptCall(x) \union {e \in Elems(es) : e.from = x /\ e.type \notin {"call", "return"}}
  BY <1>1, PushedFlow DEF Base
<1> QED
  BY <1>1, <1>2

LEMMA StepLink == ASSUME CFGInv, NEW b \in pending, LinkBlock(b) PROVE CFGInv'
<1>0. Base /\ Types
  BY DEF CFGInv, Base
<1>1. Base'
  BY <1>0, BaseLinking
<1>2. phase = "link" /\ phase' = phase /\ prog' = prog /\ fun' = fun /\ left' = left
  BY DEF LinkBlock
<1>3. PICK es \in Seq(Edges(DOMAIN blocks)) : blocks' = WithEdges(es)
  BY <1>0, LinksPushed
<1>4. PICK bs : bs = blocks'
  OBVIOUS
<1>5. DOMAIN blocks' = DOMAIN blocks
      /\ \A x \in DOMAIN blocks : /\ blocks'[x].statements = blocks[x].statements
                                  /\ blocks'[x].next = blocks[x].next /\ blocks'[x].end = blocks[x].end
  BY <1>0, <1>3, <1>4, Pushed
<1>6. Filling' /\ Stopped'
  BY <1>2 DEF Filling, Stopped
<1>7. Laid'
  <2>1. \A f \in DOMAIN prog.code : Alike(blocks, blocks', f)
    BY <1>5 DEF Alike
  <2>2. \A f \in DOMAIN prog.code : Made(f)' => Made(f)
    BY <1>2 DEF Made
  <2> QED
    BY <1>0, <1>1, <1>2, <2>1, <2>2, LaidStep DEF CFGInv
<1>8. Flows'
  <2>1. ASSUME NEW x \in DOMAIN blocks', Met(x)'
        PROVE  Insns(x)' # <<>> /\ FlowFits(x[1], Insns(x)', ExceptCall(x)')
    <3>1. x \in DOMAIN blocks /\ Met(x)
      BY <1>2, <1>5, <2>1 DEF Met, Common
    <3>2. Insns(x)' = Insns(x) /\ ExceptCall(x)' = ExceptCall(x)
      BY <1>0, <3>1, LinkFlow
    <3>3. Insns(x) # <<>> /\ FlowFits(x[1], Insns(x), ExceptCall(x))
      BY <3>1 DEF CFGInv, Flows
    <3> QED
      BY <3>2, <3>3
  <2> QED
    BY <1>2, <2>1, FlowsStep
<1>9. EdgesMirrored'
  <2>1. \A x, c \in DOMAIN blocks : Reaching(bs[x].forward, c) = Leaving(bs[c].backward, x)
    BY <1>0, <1>3, <1>4, PushedMirrored DEF CFGInv
  <2> QED
    BY <1>4, <1>5, <2>1 DEF EdgesMirrored
<1> QED
  BY <1>1, <1>6, <1>7, <1>8, <1>9 DEF CFGInv

LEMMA InitBase == Init => CFGInv
<1>1. SUFFICES ASSUME Init PROVE CFGInv
  OBVIOUS
<1>2. /\ phase = "heads" /\ blocks = <<>> /\ fun \in DOMAIN prog.code /\ left = (DOMAIN prog.code) \ {fun}
  BY <1>1 DEF Init
<1>3. DOMAIN blocks = {}
  BY <1>2
<1>4. Filling /\ Stopped
  BY <1>2 DEF Filling, Stopped
<1>5. Laid
  BY <1>2 DEF Laid, Made
<1>6. Flows /\ EdgesMirrored
  BY <1>3 DEF Flows, EdgesMirrored
<1> QED
  BY <1>1, <1>4, <1>5, <1>6, BaseInit DEF CFGInv

LEMMA CFGInductive == CFGInv /\ [Next]_vars => CFGInv'
<1>1. SUFFICES ASSUME CFGInv, [Next]_vars PROVE CFGInv'
  OBVIOUS
<1>2. CASE BasicBlockHead
  BY <1>1, <1>2, StepHeads
<1>3. CASE MakeBlocks
  BY <1>1, <1>3, StepMake
<1>4. CASE Statement
  BY <1>1, <1>4, StepStatement
<1>5. CASE LastStatement
  BY <1>1, <1>5, StepLast
<1>6. ASSUME NEW b \in pending, EdgesOfBasicBlock(b) PROVE CFGInv'
  BY <1>1, <1>6, StepEdges
<1>7. ASSUME NEW b \in pending, LinkBlock(b) PROVE CFGInv'
  BY <1>1, <1>7, StepLink
<1>8. ASSUME NEW f \in left, NextFunction(f) PROVE CFGInv'
  BY <1>1, <1>8, StepNextFunction
<1>9. CASE AllBuilt
  BY <1>1, <1>9, StepAllBuilt
<1>10. CASE Linked
  BY <1>1, <1>10, StepLinked
<1>11. CASE UNCHANGED vars
  <2>1. /\ prog' = prog /\ phase' = phase /\ fun' = fun /\ left' = left /\ pos' = pos
        /\ heads' = heads /\ blocks' = blocks /\ cur' = cur /\ pending' = pending
    BY <1>11 DEF vars
  <2>a. /\ Code' = Code /\ low_pc' = low_pc /\ high_pc' = high_pc /\ BlockIds' = BlockIds
        /\ (\A i : HeadsAt(i)' = HeadsAt(i)) /\ \A a : Block(a)' = Block(a)
    BY <2>1, SameCode
  <2>2. Base'
    <3>0. Types /\ Domains /\ HeadsKnown
      BY <1>1 DEF CFGInv, Base
    <3>1. Types'
      BY <2>1, <2>a, <3>0 DEF Types
    <3>2. Domains'
      BY <2>1, <3>0 DEF Domains, Entry, Exit, Common
    <3>3. HeadsKnown'
      BY <2>1, <2>a, <3>0 DEF HeadsKnown
    <3> QED
      BY <3>1, <3>2, <3>3 DEF Base
  <2>3. Filling'
    BY <1>1, <2>1, <2>a DEF CFGInv, Filling, BlocksOf, Common, Entry, Insns
  <2>4. Laid'
    <3>1. \A f \in DOMAIN prog.code : Alike(blocks, blocks', f)
      BY <2>1 DEF Alike
    <3>2. \A f \in DOMAIN prog.code : Made(f)' => Made(f)
      BY <2>1 DEF Made
    <3> QED
      BY <1>1, <2>1, <2>2, <3>1, <3>2, LaidStep DEF CFGInv
  <2>5. Flows'
    <3>1. ASSUME NEW b \in DOMAIN blocks', Met(b)'
          PROVE  Insns(b)' # <<>> /\ FlowFits(b[1], Insns(b)', ExceptCall(b)')
      <4>1. Met(b) /\ b \in DOMAIN blocks
        BY <2>1, <3>1 DEF Met, Common
      <4> QED
        BY <1>1, <2>1, <4>1, FlowsAside DEF CFGInv
    <3>2. \A b \in DOMAIN blocks' :
            b[1] = fun' /\ (phase' = "fill" \/ (phase' = "edges" /\ b \in pending')) => blocks'[b].forward = <<>>
      BY <1>1, <2>1 DEF CFGInv, Flows
    <3> QED
      BY <2>1, <3>1, <3>2, FlowsStep
  <2>6. EdgesMirrored' /\ Stopped'
    BY <1>1, <2>1, MirroredKept DEF CFGInv, Stopped, Unusable, Common, Insns
  <2> QED
    BY <2>2, <2>3, <2>4, <2>5, <2>6 DEF CFGInv
<1> QED
  BY <1>1, <1>2, <1>3, <1>4, <1>5, <1>6, <1>7, <1>8, <1>9, <1>10, <1>11 DEF Next

LEMMA CFGInvariant == Spec => []CFGInv
BY InitBase, CFGInductive, PTL DEF Spec

-----------------------------------------------------------------------------
(***************************************************************************)
(* What the invariant says of a finished graph.                            *)
(***************************************************************************)
LEMMA BuiltFacts ==
  ASSUME CFGInv, NEW f \in DOMAIN prog.code, Built(f)
  PROVE  /\ LaidFor(f) /\ WellFormed(prog.code[f])
         /\ \A b \in BlocksOf(f) :
              /\ b \in DOMAIN blocks /\ b = <<f, b[2]>> /\ Common(b)
              /\ Insns(b) # <<>> /\ Insns(b) \in Seq(Instruction)
              /\ FlowFits(f, Insns(b), ExceptCall(b)) /\ Straight(blocks, f, b)
              /\ \E j \in 1 .. Len(prog.code[f]) :
                   Segment(blocks, prog.code[f], b, j) /\ Closed(blocks, prog.code[f], b, j)
<1>0. Types /\ Domains /\ Laid /\ Flows
  BY DEF CFGInv, Base
<1>1. f \notin left /\ Made(f)
  BY <1>0 DEF Built, Made, Domains
<1>2. LaidFor(f) /\ WellFormed(prog.code[f])
  BY <1>0, <1>1, Programs DEF Laid
<1>3. ASSUME NEW b \in BlocksOf(f)
      PROVE  /\ b \in DOMAIN blocks /\ b = <<f, b[2]>> /\ Common(b)
             /\ Insns(b) # <<>> /\ Insns(b) \in Seq(Instruction)
             /\ FlowFits(f, Insns(b), ExceptCall(b)) /\ Straight(blocks, f, b)
             /\ \E j \in 1 .. Len(prog.code[f]) :
                  Segment(blocks, prog.code[f], b, j) /\ Closed(blocks, prog.code[f], b, j)
  <2>1. b \in DOMAIN blocks /\ b[1] = f /\ Common(b)
    BY DEF BlocksOf
  <2>2. b = <<f, b[2]>> /\ Insns(b) \in Seq(Instruction)
    BY <1>0, <2>1, Named, Fields DEF Insns
  <2>3. Met(b)
    BY <1>0, <1>1, <2>1 DEF Met, Built, Domains
  <2>4. Insns(b) # <<>> /\ FlowFits(f, Insns(b), ExceptCall(b))
    BY <1>0, <2>1, <2>3 DEF Flows
  <2>5. LaidOut(blocks, prog.code[f], b) /\ Straight(blocks, f, b)
    BY <1>2 DEF LaidFor
  <2>6. \E j \in 1 .. Len(prog.code[f]) :
          Segment(blocks, prog.code[f], b, j) /\ Closed(blocks, prog.code[f], b, j)
    BY <2>4, <2>5 DEF LaidOut, Insns
  <2> QED
    BY <2>1, <2>2, <2>4, <2>5, <2>6
<1> QED
  BY <1>2, <1>3

\* An instruction of a segment has its place in the code.
LEMMA PlaceInCode ==
  ASSUME NEW c, WellFormed(c), NEW bs, NEW b, NEW j \in 1 .. Len(c), Segment(bs, c, b, j),
         NEW s \in Seq(Instruction), s = bs[b].statements, NEW k \in 1 .. Len(s), NEW i \in 1 .. Len(c), s[k] = c[i]
  PROVE  i = j - 1 + k /\ j <= i
<1>1. s[k] = c[j - 1 + k] /\ j + Len(s) <= Len(c) + 1
  BY DEF Segment, Through
<1>2. Len(s) \in Nat /\ Len(c) \in Nat
  BY CodeType
<1>3. PICK m \in 1 .. Len(c) : m = j - 1 + k
  <2>1. j - 1 + k \in 1 .. Len(c)
    BY <1>1, <1>2
  <2> QED
    BY <2>1
<1>4. c[m].addr = c[i].addr
  BY <1>1, <1>3
<1>5. m = i
  BY <1>3, <1>4, OneAddress
<1> QED
  BY <1>2, <1>3, <1>5

\* Of two segments, the later does not begin within the earlier.
LEMMA Apart ==
  ASSUME NEW c, WellFormed(c), NEW bs, NEW b, NEW d \in DOMAIN bs, d = <<b[1], d[2]>>,
         NEW s \in Seq(Instruction), s = bs[b].statements,
         NEW j \in 1 .. Len(c), Segment(bs, c, b, j), NEW l \in 1 .. Len(c), Segment(bs, c, d, l),
         j < l, NEW k \in 1 .. Len(s), l <= j - 1 + k
  PROVE  FALSE
<1>1. /\ \A q \in 2 .. Len(s) : <<b[1], c[j - 1 + q].addr>> \notin DOMAIN bs
      /\ c[l].addr = d[2]
  BY DEF Segment
<1>2. Len(s) \in Nat /\ Len(c) \in Nat
  BY CodeType
<1>3. PICK q \in 2 .. Len(s) : j - 1 + q = l
  <2>1. l - j + 1 \in 2 .. Len(s) /\ j - 1 + (l - j + 1) = l
    BY <1>2
  <2> QED
    BY <2>1
<1> QED
  BY <1>1, <1>3

LEMMA PartitionHolds == CFGInv => Partition
<1> SUFFICES ASSUME CFGInv, NEW f \in DOMAIN prog.code, Built(f)
             PROVE  /\ \A i \in 1 .. Len(prog.code[f]) :
                         Cardinality({b \in BlocksOf(f) : \E k \in 1 .. Len(Insns(b)) :
                                                            Insns(b)[k] = prog.code[f][i]}) = 1
                    /\ \A b \in BlocksOf(f) :
                         /\ Insns(b)[1].addr = b[2]
                         /\ Last(Insns(b)).addr + Last(Insns(b)).size = blocks[b].end
                         /\ \A k \in 1 .. Len(Insns(b)) - 1 :
                              Insns(b)[k].addr + Insns(b)[k].size = Insns(b)[k + 1].addr
  BY DEF Partition
<1>1. PICK c : c = prog.code[f]
  OBVIOUS
<1>2. PICK bs : bs = blocks
  OBVIOUS
<1>3. /\ WellFormed(c) /\ Covered(bs, c, f, Len(c))
      /\ \A b \in BlocksOf(f) :
           /\ b \in DOMAIN bs /\ b = <<f, b[2]>> /\ bs[b].statements = Insns(b)
           /\ Insns(b) # <<>> /\ Insns(b) \in Seq(Instruction)
           /\ \E j \in 1 .. Len(c) : Segment(bs, c, b, j) /\ Closed(bs, c, b, j)
  BY <1>1, <1>2, BuiltFacts DEF LaidFor, Insns
<1>4. /\ Len(c) \in Nat \ {0} /\ \A i \in 1 .. Len(c) - 1 : c[i + 1].addr = Behind(c, i)
  BY <1>3, CodeType DEF WellFormed
<1>a. WellFormed(c)
  BY <1>3
<1>5. ASSUME NEW i \in 1 .. Len(c)
      PROVE  Cardinality({b \in BlocksOf(f) : \E k \in 1 .. Len(Insns(b)) : Insns(b)[k] = c[i]}) = 1
  <2> DEFINE S == {b \in BlocksOf(f) : \E k \in 1 .. Len(Insns(b)) : Insns(b)[k] = c[i]}
  <2>1. PICK b \in DOMAIN bs, j \in 1 .. i :
          b[1] = f /\ Common(b) /\ Segment(bs, c, b, j) /\ i < Through(bs, b, j)
    BY <1>3 DEF Covered
  <2>2. b \in BlocksOf(f)
    BY <1>2, <2>1 DEF BlocksOf
  <2>3. PICK s \in Seq(Instruction) : s = Insns(b) /\ s = bs[b].statements
    BY <1>3, <2>2
  <2>4. b \in S
    <3>1. i < j + Len(s) /\ Len(s) \in Nat
      BY <2>1, <2>3 DEF Through
    <3>2. PICK k \in 1 .. Len(s) : j - 1 + k = i
      <4>1. i - j + 1 \in 1 .. Len(s) /\ j - 1 + (i - j + 1) = i
        BY <1>4, <3>1
      <4> QED
        BY <4>1
    <3>3. s[k] = c[i]
      BY <2>1, <2>3, <3>2 DEF Segment
    <3> QED
      BY <2>2, <2>3, <3>3
  <2>5. ASSUME NEW d \in S PROVE d = b
    <3>0. d \in BlocksOf(f) /\ d \in DOMAIN bs /\ d = <<f, d[2]>> /\ b = <<f, b[2]>> /\ b[1] = f /\ d[1] = f
      BY <1>3, <2>2
    <3>1. PICK r \in Seq(Instruction) : r = Insns(d) /\ r = bs[d].statements
      BY <1>3, <3>0
    <3>2. PICK k \in 1 .. Len(s) : s[k] = c[i]
      BY <2>3, <2>4
    <3>3. PICK m \in 1 .. Len(r) : r[m] = c[i]
      BY <3>1
    <3>4. PICK l \in 1 .. Len(c) : Segment(bs, c, d, l)
      BY <1>3, <3>0
    <3>a. j \in 1 .. Len(c)
      BY <1>4
    <3>5. i = j - 1 + k /\ j <= i
      BY <1>a, <2>1, <2>3, <3>2, <3>a, PlaceInCode
    <3>6. i = l - 1 + m /\ l <= i
      BY <1>a, <3>1, <3>3, <3>4, PlaceInCode
    <3>7. ~ (j < l)
      <4>1. l <= j - 1 + k
        BY <3>5, <3>6
      <4>2. d = <<b[1], d[2]>>
        BY <3>0
      <4> QED
        BY <1>3, <2>1, <2>3, <3>0, <3>4, <3>a, <4>1, <4>2, Apart
    <3>8. ~ (l < j)
      <4>1. j <= l - 1 + m
        BY <3>5, <3>6
      <4>2. b = <<d[1], b[2]>>
        BY <3>0
      <4> QED
        BY <1>3, <2>1, <3>0, <3>1, <3>4, <3>a, <4>1, <4>2, Apart
    <3>9. j = l
      BY <1>4, <3>7, <3>8
    <3>10. b[2] = d[2]
      BY <2>1, <3>4, <3>9 DEF Segment
    <3> QED
      BY <3>0, <3>10
  <2>6. S = {b}
    BY <2>4, <2>5
  <2> QED
    BY <2>6, FS_Singleton
<1>6. ASSUME NEW b \in BlocksOf(f)
      PROVE  /\ Insns(b)[1].addr = b[2]
             /\ Last(Insns(b)).addr + Last(Insns(b)).size = blocks[b].end
             /\ \A k \in 1 .. Len(Insns(b)) - 1 :
                  Insns(b)[k].addr + Insns(b)[k].size = Insns(b)[k + 1].addr
  <2>1. PICK s \in Seq(Instruction) : s = Insns(b) /\ s = bs[b].statements
    BY <1>3
  <2>2. PICK j \in 1 .. Len(c) : Segment(bs, c, b, j) /\ Closed(bs, c, b, j)
    BY <1>3
  <2>3. PICK q \in 1 .. Len(c) : EndsAt(bs, c, b, j, s, q)
    <3>1. s = bs[b].statements /\ Segment(bs, c, b, j)
      BY <2>1, <2>2
    <3> QED
      BY <1>a, <3>1, LastOf
  <2>4. /\ q = j - 1 + Len(s) /\ Through(bs, b, j) = q + 1 /\ Len(s) \in Nat \ {0}
        /\ Last(s) = c[q]
        /\ \A k \in 1 .. Len(s) : s[k] = c[j - 1 + k]
    BY <2>3 DEF EndsAt
  <2>5. s[1].addr = b[2]
    <3>1. 1 \in 1 .. Len(s) /\ j - 1 + 1 = j
      BY <1>4, <2>4
    <3>2. s[1] = c[j - 1 + 1]
      BY <2>4, <3>1
    <3> QED
      BY <2>2, <3>1, <3>2 DEF Segment
  <2>6. Behind(c, q) = bs[b].end
    <3>1. CASE q = Len(c)
      BY <1>4, <2>2, <2>4, <3>1 DEF Closed
    <3>2. CASE q # Len(c)
      <4>1. q \in 1 .. Len(c) - 1 /\ q + 1 # Len(c) + 1
        BY <1>4, <3>2
      <4> QED
        BY <1>4, <2>2, <2>4, <4>1 DEF Closed
    <3> QED
      BY <3>1, <3>2
  <2>7. ASSUME NEW k \in 1 .. Len(s) - 1 PROVE s[k].addr + s[k].size = s[k + 1].addr
    <3>1. k \in 1 .. Len(s) /\ k + 1 \in 1 .. Len(s)
      BY <2>4
    <3>2. s[k] = c[j - 1 + k] /\ s[k + 1] = c[j - 1 + (k + 1)]
      BY <2>4, <3>1
    <3>3. PICK m \in 1 .. Len(c) - 1 : m = j - 1 + k /\ m + 1 = j - 1 + (k + 1)
      <4>1. j - 1 + k \in 1 .. Len(c) - 1
        BY <1>4, <2>4
      <4>2. (j - 1 + k) + 1 = j - 1 + (k + 1)
        BY <1>4
      <4> QED
        BY <4>1, <4>2
    <3> QED
      BY <1>4, <3>2, <3>3 DEF Behind
  <2> QED
    BY <1>2, <2>1, <2>4, <2>5, <2>6, <2>7 DEF Behind
<1> QED
  BY <1>1, <1>5, <1>6

LEMMA ExactHolds == CFGInv => BlocksExact
<1> SUFFICES ASSUME CFGInv PROVE BlocksExact
  OBVIOUS
<1>1. CFGTypeOK
  BY DEF CFGInv, Base, Types, CFGTypeOK
<1>2. Partition
  BY PartitionHolds
<1>3. StraightLine
  <2> SUFFICES ASSUME NEW f \in DOMAIN prog.code, Built(f), NEW b \in BlocksOf(f),
                      NEW k \in 1 .. Len(Insns(b)) - 1, NEW i \in 1 .. Len(prog.code[f])
               PROVE  IF prog.code[f][i] = Insns(b)[k] THEN FlowsOf(f, i) = {Insns(b)[k + 1].addr}
                      ELSE Insns(b)[k + 1].addr \in FlowsOf(f, i) =>
                             prog.code[f][i].id = "jmprax" /\ ~Recognised(f, prog.code[f], i)
    BY DEF StraightLine
  <2>1. Straight(blocks, f, b)
    BY BuiltFacts
  <2> QED
    BY <2>1 DEF Straight, Insns
<1> QED
  BY <1>1, <1>2, <1>3 DEF BlocksExact

\* A direct target with a block is the address of an instruction.
LEMMA TargetIsCode ==
  ASSUME CFGInv, NEW f \in DOMAIN prog.code, Built(f), NEW b \in DOMAIN blocks, Common(b), b[1] = f
  PROVE  \E k \in 1 .. Len(prog.code[f]) : prog.code[f][k].addr = b[2]
<1>1. b \in BlocksOf(f)
  BY DEF BlocksOf
<1>2. PICK j \in 1 .. Len(prog.code[f]) : Segment(blocks, prog.code[f], b, j)
  BY <1>1, BuiltFacts
<1> QED
  BY <1>2 DEF Segment

LEMMA FlowHolds == CFGInv => FlowExact
<1> SUFFICES ASSUME CFGInv PROVE FlowExact
  OBVIOUS
<1>1. FlowComplete
  <2> SUFFICES ASSUME NEW f \in DOMAIN prog.code, Built(f), NEW b \in BlocksOf(f), NEW i \in 1 .. Len(prog.code[f]),
                      prog.code[f][i] = Last(Insns(b)),
                      Last(Insns(b)).id = "jmprax" => Recognised(f, Insns(b), Len(Insns(b))),
                      NEW a \in FlowsOf(f, i)
               PROVE  \E e \in ExceptCall(b) : e.to = <<f, a>>
    BY DEF FlowComplete
  <2>1. FlowFits(f, Insns(b), ExceptCall(b))
    BY BuiltFacts
  <2>2. FlowFitsAt(f, Insns(b), ExceptCall(b), i)
    BY <2>1 DEF FlowFits
  <2> QED
    BY <2>2 DEF FlowFitsAt
<1>2. FlowSound
  <2> SUFFICES ASSUME NEW f \in DOMAIN prog.code, Built(f), NEW b \in BlocksOf(f), NEW i \in 1 .. Len(prog.code[f]),
                      prog.code[f][i] = Last(Insns(b)), NEW e \in ExceptCall(b)
               PROVE  \/ e.to[1] = f /\ e.to[2] \in FlowsOf(f, i)
                      \/ /\ Last(Insns(b)).id = "jmprax"
                         /\ LET t == lookBackForJumpTableAddr(Insns(b), Len(Insns(b)))
                            IN \E k \in 1 .. Len(prog.words[t]) :
                                 /\ t = prog.code[f][i].target => k > prog.size[t]
                                 /\ e.to = <<f, prog.words[t][k]>>
    BY DEF FlowSound
  <2>1. FlowFits(f, Insns(b), ExceptCall(b)) /\ b \in DOMAIN blocks
    BY BuiltFacts
  <2>2. FlowFitsAt(f, Insns(b), ExceptCall(b), i)
    BY <2>1 DEF FlowFits
  <2>3. CASE e.to = <<f, Last(Insns(b)).target>> /\ Last(Insns(b)).id \in Direct /\ Common(e.to)
    <3>1. e.to \in DOMAIN blocks
      <4>1. blocks[b].forward \in Seq(Edges(DOMAIN blocks)) /\ e \in Elems(blocks[b].forward)
        BY <2>1, Fields DEF ExceptCall, EdgesOf, Elems, CFGInv, Base
      <4>2. e \in Edges(DOMAIN blocks)
        BY <4>1, ElemsType
      <4> QED
        BY <4>2 DEF Edges
    <3>2. e.to[1] = f /\ e.to[2] = prog.code[f][i].target /\ prog.code[f][i].id \in {"jmp", "jcc"}
      BY <2>3 DEF Direct
    <3>3. \E k \in 1 .. Len(prog.code[f]) : prog.code[f][k].addr = e.to[2]
      BY <2>3, <3>1, <3>2, TargetIsCode
    <3>4. e.to[2] \in FlowsOf(f, i)
      BY <3>2, <3>3 DEF FlowsOf
    <3> QED
      BY <3>2, <3>4
  <2> QED
    BY <2>2, <2>3 DEF FlowFitsAt
<1> QED
  BY <1>1, <1>2 DEF FlowExact, CFGInv

LEMMA OverlapHolds == CFGInv => UndefinedByOverlap
<1> SUFFICES ASSUME CFGInv, phase = "undefined"
             PROVE  \E i, k \in 1 .. Len(Code) : /\ Code[i].id \in Direct
                                                 /\ Code[k].addr < Code[i].target
                                                 /\ Code[i].target < Behind(Code, k)
  BY DEF UndefinedByOverlap
<1>0. Base /\ Types /\ HeadsKnown
  BY DEF CFGInv, Base
<1>1. PICK b \in DOMAIN blocks : b[1] = fun /\ Common(b) /\ blocks[b].statements = <<>>
  BY DEF CFGInv, Stopped, Unusable, Insns
<1>2. LaidOut(blocks, Code, b)
  <2>1. fun \in DOMAIN prog.code /\ Made(fun) /\ b \in BlocksOf(fun)
    BY <1>0, <1>1 DEF Types, Made, BlocksOf
  <2> QED
    BY <2>1 DEF CFGInv, Laid, LaidFor, Code
<1>3. \A i \in 1 .. Len(Code) : Code[i].addr # b[2]
  BY <1>1, <1>2 DEF LaidOut, Segment
<1>4. b[2] \in heads
  <2>1. b = Block(b[2])
    BY <1>0, <1>1, Named DEF Block
  <2> QED
    BY <1>0, <1>1, <2>1, Heads
<1>5. PICK i \in 1 .. Len(Code) : Code[i].id \in Direct /\ Code[i].target = b[2]
  BY <1>0, <1>3, <1>4 DEF HeadsKnown
<1>6. PICK a \in Nat : a = b[2] /\ low_pc <= a /\ a <= high_pc
  BY <1>0, <1>4, CodeFacts, AddressAssumption DEF Types
<1>7. PICK c : c = Code
  OBVIOUS
<1>8. WellFormed(c) /\ c[1].addr <= a /\ a <= c[Len(c)].addr /\ \A k \in 1 .. Len(c) : c[k].addr # a
  BY <1>0, <1>3, <1>6, <1>7, CodeFacts DEF low_pc, high_pc, Last
<1>9. PICK k \in 1 .. Len(c) : c[k].addr < a /\ a < Behind(c, k)
  BY <1>8, Inside
<1> QED
  BY <1>5, <1>6, <1>7, <1>9

LEMMA LinkHolds ==
  CFGInv /\ [Next]_vars => [phase = "link" => \A b \in DOMAIN blocks : ExceptCall(b)' = ExceptCall(b)]_vars
<1> SUFFICES ASSUME CFGInv, Next, phase = "link", NEW x \in DOMAIN blocks PROVE ExceptCall(x)' = ExceptCall(x)
  OBVIOUS
<1>0. Base
  BY DEF CFGInv
<1>1. ASSUME NEW b \in pending, LinkBlock(b) PROVE ExceptCall(x)' = ExceptCall(x)
  BY <1>0, <1>1, LinkFlow
<1>2. CASE Linked
  BY <1>2, SameEdges DEF Linked
<1>3. /\ ~BasicBlockHead /\ ~MakeBlocks /\ ~Statement /\ ~LastStatement /\ ~AllBuilt
      /\ (\A b \in pending : ~EdgesOfBasicBlock(b)) /\ \A f \in left : ~NextFunction(f)
  BY DEF BasicBlockHead, MakeBlocks, Statement, LastStatement, AllBuilt, EdgesOfBasicBlock, NextFunction
<1> QED
  BY <1>1, <1>2, <1>3 DEF Next

-----------------------------------------------------------------------------

\* The blocks of a finished graph hold each instruction of the function once
\* and are its maximal straight-line pieces: AsmCFG's heads and addrSnMap leave
\* nothing between two blocks, nothing in two of them, and no jump into one.
THEOREM BlocksAreExact == Spec => []BlocksExact
BY CFGInvariant, ExactHolds, PTL

\* The edges of a finished graph are the flow of control and are pushed at both
\* of their ends, in whatever order initEdgesOfBasicBlock meets the blocks.
THEOREM EdgesAreFlow == Spec => []FlowExact
BY CFGInvariant, FlowHolds, PTL

\* statements.back() of an empty block is only reached where a direct jump goes
\* into the middle of an instruction.
THEOREM StopsByOverlap == Spec => []UndefinedByOverlap
BY CFGInvariant, OverlapHolds, PTL

\* initProgramCFG adds call and return edges only: what the passes follow in
\* the graph of a function is as its constructor left it.
THEOREM LinkingKeepsFlow == Spec => LinkKeepsFlow
BY CFGInvariant, LinkHolds, PTL DEF Spec, LinkKeepsFlow

=============================================================================
