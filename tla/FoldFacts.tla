-------------------------------- MODULE FoldFacts --------------------------------
(***************************************************************************)
(* Facts about the folds of the community modules, which every module of   *)
(* the project uses: a sum over a finite set is a number to which each     *)
(* element adds its own, in whatever order the fold takes them; a          *)
(* flattened sequence grows by each sequence appended to it.               *)
(***************************************************************************)
EXTENDS Integers, Sequences, SequencesExt, FiniteSetTheorems, SequenceTheorems, WellFoundedInduction,
        NaturalsInduction, TLAPS

\* The element that the folds take from a set first.
First(s) == CHOOSE x \in s : TRUE

\* The function MapThenFoldSet defines by recursion, for g over S from base.
Recurs(it, g, base, S) ==
  it = [s \in SUBSET S |-> IF s = {} THEN base ELSE g[First(s)] + it[s \ {First(s)}]]

Numbers(g, S) == \A x \in S : g[x] \in Nat

\* Induction over the natural numbers, for a set of them.
LEMMA AllNaturals ==
  ASSUME NEW T, 0 \in T, \A n \in Nat : n \in T => n + 1 \in T
  PROVE  Nat \subseteq T
<1> DEFINE F == {n \in Nat : n \notin T}
<1>1. SUFFICES ASSUME F # {} PROVE FALSE
  OBVIOUS
<1>2. \E x \in F : \A y \in F : ~ (<<y, x>> \in OpToRel(<, Nat))
  <2>1. IsWellFoundedOn(OpToRel(<, Nat), Nat) /\ F \subseteq Nat
    BY NatLessThanWellFounded
  <2> HIDE DEF F
  <2> QED
    BY <1>1, <2>1, WFMin
<1>3. PICK x \in F : \A y \in F : ~ (<<y, x>> \in OpToRel(<, Nat))
  BY <1>2
<1>4. x \in Nat /\ x # 0 /\ x - 1 \in Nat /\ x - 1 < x /\ (x - 1) + 1 = x
  OBVIOUS
<1>5. x - 1 \notin F
  BY <1>3, <1>4 DEF OpToRel
<1> QED
  BY <1>4, <1>5

-----------------------------------------------------------------------------
(***************************************************************************)
(* Sums.                                                                   *)
(***************************************************************************)
\* A set of subsets of a finite set has a least one.
LEMMA LeastSubset ==
  ASSUME NEW S, IsFiniteSet(S), NEW T, T # {}, \A x \in T : x \subseteq S
  PROVE  \E x \in T : \A y \in T : y \subseteq x => y = x
<1>1. IsWellFoundedOn(StrictSubsetOrdering(S), SUBSET S)
  BY FS_StrictSubsetOrderingWellFounded, FS_FiniteSubsetsOfFinite
<1>2. \E x \in T : \A y \in T : ~ (<<y, x>> \in StrictSubsetOrdering(S))
  BY <1>1, WFMin
<1> QED
  BY <1>2 DEF StrictSubsetOrdering

LEMMA Equation ==
  ASSUME NEW S, NEW g, NEW base, NEW it, Recurs(it, g, base, S)
  PROVE  /\ it[{}] = base
         /\ \A s \in SUBSET S : s # {} =>
              First(s) \in s /\ it[s] = g[First(s)] + it[s \ {First(s)}]
<1> SUFFICES ASSUME NEW s \in SUBSET S
             PROVE  /\ s = {} => it[s] = base
                    /\ s # {} => First(s) \in s /\ it[s] = g[First(s)] + it[s \ {First(s)}]
  OBVIOUS
<1>1. s # {} => First(s) \in s
  BY DEF First
<1>2. it[s] = IF s = {} THEN base ELSE g[First(s)] + it[s \ {First(s)}]
  BY DEF Recurs
<1> QED
  BY <1>1, <1>2

\* The recursion over a subset gives what it gives over the set.
LEMMA Agree ==
  ASSUME NEW S, NEW U \in SUBSET S, IsFiniteSet(U), NEW g, NEW base, NEW it, NEW jt,
         Recurs(it, g, base, S), Recurs(jt, g, base, U)
  PROVE  it[U] = jt[U]
<1> DEFINE T == {s \in SUBSET U : it[s] # jt[s]}
<1>1. SUFFICES ASSUME T # {} PROVE FALSE
  OBVIOUS
<1>a. \A y \in T : y \subseteq U
  OBVIOUS
<1>2. PICK s \in T : \A y \in T : y \subseteq s => y = s
  <2> HIDE DEF T
  <2> QED
    BY <1>1, <1>a, LeastSubset
<1>0. /\ it[{}] = base /\ jt[{}] = base
      /\ \A r \in SUBSET S : r # {} => First(r) \in r /\ it[r] = g[First(r)] + it[r \ {First(r)}]
      /\ \A r \in SUBSET U : r # {} => jt[r] = g[First(r)] + jt[r \ {First(r)}]
  <2>1. /\ it[{}] = base
        /\ \A r \in SUBSET S : r # {} => First(r) \in r /\ it[r] = g[First(r)] + it[r \ {First(r)}]
    BY Equation
  <2>2. /\ jt[{}] = base
        /\ \A r \in SUBSET U : r # {} => First(r) \in r /\ jt[r] = g[First(r)] + jt[r \ {First(r)}]
    BY Equation
  <2> QED
    BY <2>1, <2>2
<1>3. s # {}
  BY <1>0, <1>2
<1>4. First(s) \in s /\ it[s] = g[First(s)] + it[s \ {First(s)}] /\ jt[s] = g[First(s)] + jt[s \ {First(s)}]
  BY <1>0, <1>2, <1>3
<1>5. s \ {First(s)} \notin T
  BY <1>2, <1>4
<1> QED
  BY <1>4, <1>5

\* The recursion is well defined.
LEMMA Defined ==
  ASSUME NEW S, IsFiniteSet(S), NEW g, NEW base \in Nat, Numbers(g, S)
  PROVE  \E it \in [SUBSET S -> Nat] : Recurs(it, g, base, S)
<1> DEFINE Good(s) == \E it \in [SUBSET s -> Nat] : Recurs(it, g, base, s)
           T == {s \in SUBSET S : ~ Good(s)}
<1>1. SUFFICES ASSUME T # {} PROVE FALSE
  OBVIOUS
<1>a. \A y \in T : y \subseteq S
  OBVIOUS
<1>2. PICK x \in T : \A y \in T : y \subseteq x => y = x
  <2> HIDE DEF T
  <2> QED
    BY <1>1, <1>a, LeastSubset
<1>3. \A y \in SUBSET x : y # x => Good(y)
  BY <1>2
<1> DEFINE H(y) == CHOOSE it \in [SUBSET y -> Nat] : Recurs(it, g, base, y)
           f == First(x)
           top == IF x = {} THEN base ELSE g[f] + H(x \ {f})[x \ {f}]
           big == [s \in SUBSET x |-> IF s = x THEN top ELSE H(s)[s]]
<1>4. \A y \in SUBSET x : y # x => H(y) \in [SUBSET y -> Nat] /\ Recurs(H(y), g, base, y)
  BY <1>3
<1> HIDE DEF H
<1>5. \A y \in SUBSET x : y # x => H(y)[y] \in Nat
  BY <1>4
<1>6. x # {} => f \in x /\ g[f] \in Nat /\ x \ {f} \in SUBSET x /\ x \ {f} # x
  BY DEF First, Numbers
<1>7. top \in Nat
  BY <1>5, <1>6
<1>8. big \in [SUBSET x -> Nat]
  BY <1>5, <1>7
<1>9. ASSUME NEW s \in SUBSET x
      PROVE  big[s] = IF s = {} THEN base ELSE g[First(s)] + big[s \ {First(s)}]
  <2>1. CASE s = x
    <3>1. x # {} => big[x \ {f}] = H(x \ {f})[x \ {f}]
      BY <1>6
    <3> QED
      BY <2>1, <3>1
  <2>2. CASE s # x /\ s = {}
    <3>1. big[s] = H(s)[s]
      BY <2>2
    <3>2. Recurs(H(s), g, base, s)
      BY <1>4, <2>2
    <3>3. H(s)[s] = base
      BY <2>2, <3>2, Equation
    <3> QED
      BY <2>2, <3>1, <3>3
  <2>3. CASE s # x /\ s # {}
    <3> DEFINE t == s \ {First(s)}
    <3>1. Recurs(H(s), g, base, s)
      BY <1>4, <2>3
    <3>2. First(s) \in s /\ H(s)[s] = g[First(s)] + H(s)[t]
      BY <2>3, <3>1, Equation
    <3>3. t \in SUBSET x /\ t # x /\ t \in SUBSET s
      BY <2>3, <3>2
    <3>4. Recurs(H(t), g, base, t)
      BY <1>4, <3>3
    <3>5. IsFiniteSet(t)
      BY <3>3, FS_Subset
    <3>6. H(s)[t] = H(t)[t]
      BY <3>1, <3>3, <3>4, <3>5, Agree
    <3>7. big[s] = H(s)[s] /\ big[t] = H(t)[t]
      BY <2>3, <3>3
    <3> QED
      BY <2>3, <3>2, <3>6, <3>7
  <2> QED
    BY <2>1, <2>2, <2>3
<1> HIDE DEF big
<1>10. Recurs(big, g, base, x)
  BY <1>8, <1>9 DEF Recurs
<1> QED
  BY <1>2, <1>8, <1>10

\* Any element can be taken first.
TakesAny(it, g, S) == \A U \in SUBSET S : \A a \in U : it[U] = it[U \ {a}] + g[a]

LEMMA AnyFirst ==
  ASSUME NEW S, IsFiniteSet(S), NEW g, NEW base \in Nat, Numbers(g, S),
         NEW it \in [SUBSET S -> Nat], Recurs(it, g, base, S)
  PROVE  TakesAny(it, g, S)
<1> DEFINE T == {V \in SUBSET S : \E x \in V : it[V] # it[V \ {x}] + g[x]}
<1>1. SUFFICES ASSUME T # {} PROVE FALSE
  BY DEF TakesAny
<1>a. \A y \in T : y \subseteq S
  OBVIOUS
<1>2. PICK V \in T : \A y \in T : y \subseteq V => y = V
  <2> HIDE DEF T
  <2> QED
    BY <1>1, <1>a, LeastSubset
<1>3. PICK x \in V : it[V] # it[V \ {x}] + g[x]
  BY <1>2
<1> DEFINE f == First(V)
<1>4. f \in V /\ it[V] = g[f] + it[V \ {f}]
  BY <1>3, Equation
<1> HIDE DEF f
<1>5. /\ g[f] \in Nat /\ g[x] \in Nat /\ it[V \ {f}] \in Nat /\ it[V \ {x}] \in Nat
      /\ it[(V \ {f}) \ {x}] \in Nat
  BY <1>4 DEF Numbers
<1>6. x # f
  <2> SUFFICES ASSUME x = f PROVE FALSE
    OBVIOUS
  <2>1. it[V] = g[x] + it[V \ {x}]
    BY <1>4
  <2>2. g[x] + it[V \ {x}] = it[V \ {x}] + g[x]
    BY <1>5
  <2> QED
    BY <1>3, <2>1, <2>2
<1>7. V \ {f} \notin T /\ V \ {x} \notin T
  BY <1>2, <1>3, <1>4
<1>8. it[V \ {f}] = it[(V \ {f}) \ {x}] + g[x]
  BY <1>4, <1>6, <1>7
<1>9. it[V \ {x}] = it[(V \ {x}) \ {f}] + g[f]
  BY <1>4, <1>6, <1>7
<1>10. (V \ {x}) \ {f} = (V \ {f}) \ {x}
  OBVIOUS
<1> DEFINE both == it[(V \ {f}) \ {x}]
<1>11. it[V] = g[f] + (both + g[x]) /\ it[V \ {x}] = both + g[f] /\ both \in Nat
  BY <1>4, <1>5, <1>8, <1>9, <1>10
<1> HIDE DEF both
<1>12. it[V] = it[V \ {x}] + g[x]
  BY <1>5, <1>11
<1> QED
  BY <1>3, <1>12

-----------------------------------------------------------------------------
\* The sum of g over S, from base, as the folds define it.
Sum(g, base, S) == (CHOOSE it : Recurs(it, g, base, S))[S]

LEMMA SumUnique ==
  ASSUME NEW S, IsFiniteSet(S), NEW g, NEW base \in Nat, Numbers(g, S),
         NEW it, Recurs(it, g, base, S)
  PROVE  it[S] = Sum(g, base, S) /\ it[S] \in Nat
<1>1. PICK jt \in [SUBSET S -> Nat] : Recurs(jt, g, base, S)
  BY Defined
<1> DEFINE kt == CHOOSE i : Recurs(i, g, base, S)
<1>2. Recurs(kt, g, base, S)
  BY <1>1
<1> HIDE DEF kt
<1>3. it[S] = jt[S] /\ kt[S] = jt[S] /\ jt[S] \in Nat
  BY <1>1, <1>2, Agree
<1> QED
  BY <1>3 DEF Sum, kt

LEMMA SumIsNat ==
  ASSUME NEW S, IsFiniteSet(S), NEW g, NEW base \in Nat, Numbers(g, S)
  PROVE  Sum(g, base, S) \in Nat
<1>1. PICK jt \in [SUBSET S -> Nat] : Recurs(jt, g, base, S)
  BY Defined
<1> QED
  BY <1>1, SumUnique

LEMMA SumEmpty == ASSUME NEW g, NEW base \in Nat PROVE Sum(g, base, {}) = base
<1>1. IsFiniteSet({}) /\ Numbers(g, {})
  BY FS_EmptySet DEF Numbers
<1>2. PICK jt \in [SUBSET {} -> Nat] : Recurs(jt, g, base, {})
  BY <1>1, Defined
<1>3. jt[{}] = base
  BY <1>2, Equation
<1> QED
  BY <1>1, <1>2, <1>3, SumUnique

\* An element more.
LEMMA SumAdds ==
  ASSUME NEW S, IsFiniteSet(S), NEW a, a \notin S, NEW g, NEW base \in Nat, Numbers(g, S \union {a})
  PROVE  Sum(g, base, S \union {a}) = Sum(g, base, S) + g[a]
<1> DEFINE U == S \union {a}
<1>1. IsFiniteSet(U) /\ Numbers(g, U) /\ Numbers(g, S)
  BY FS_AddElement DEF Numbers
<1>2. PICK it \in [SUBSET U -> Nat] : Recurs(it, g, base, U)
  BY <1>1, Defined
<1>3. PICK jt \in [SUBSET S -> Nat] : Recurs(jt, g, base, S)
  BY <1>1, Defined
<1>4. it[U] = it[S] + g[a]
  <2>1. U \in SUBSET U /\ a \in U /\ U \ {a} = S
    OBVIOUS
  <2> HIDE DEF U
  <2>2. IsFiniteSet(U) /\ Numbers(g, U) /\ it \in [SUBSET U -> Nat] /\ Recurs(it, g, base, U) /\ base \in Nat
    BY <1>1, <1>2
  <2>3. TakesAny(it, g, U)
    BY <2>2, AnyFirst
  <2>4. it[U] = it[U \ {a}] + g[a]
    BY <2>1, <2>3 DEF TakesAny
  <2> QED
    BY <2>1, <2>4
<1>5. it[S] = jt[S]
  BY <1>2, <1>3, Agree
<1> QED
  BY <1>1, <1>2, <1>3, <1>4, <1>5, SumUnique

\* Only the values on the set count.
LEMMA SumSame ==
  ASSUME NEW S, IsFiniteSet(S), NEW g, NEW h, NEW base \in Nat, Numbers(g, S), \A x \in S : h[x] = g[x]
  PROVE  Sum(h, base, S) = Sum(g, base, S)
<1>1. Numbers(h, S)
  BY DEF Numbers
<1>2. PICK it \in [SUBSET S -> Nat] : Recurs(it, g, base, S)
  BY Defined
<1>3. \A s \in SUBSET S : s # {} => First(s) \in s
  BY DEF First
<1>4. Recurs(it, h, base, S)
  <2>1. ASSUME NEW s \in SUBSET S
        PROVE  it[s] = IF s = {} THEN base ELSE h[First(s)] + it[s \ {First(s)}]
    <3>1. /\ it[{}] = base
          /\ \A r \in SUBSET S : r # {} => First(r) \in r /\ it[r] = g[First(r)] + it[r \ {First(r)}]
      BY <1>2, Equation
    <3> QED
      BY <3>1
  <2>2. it = [s \in SUBSET S |-> it[s]]
    OBVIOUS
  <2> QED
    BY <2>1, <2>2 DEF Recurs
<1> QED
  BY <1>1, <1>2, <1>4, SumUnique

-----------------------------------------------------------------------------
(***************************************************************************)
(* Sums over sequences.                                                    *)
(***************************************************************************)
Total(base, s) == FoldSeq(+, base, s)

LEMMA TotalIsSum ==
  ASSUME NEW base, NEW s
  PROVE  Total(base, s) = Sum(s, base, DOMAIN s)
  BY DEF Total, FoldSeq, FoldFunction, FoldFunctionOnSet, MapThenFoldSet, Sum, Recurs, First

LEMMA TotalEmpty == ASSUME NEW base \in Nat PROVE Total(base, <<>>) = base
<1>1. DOMAIN <<>> = {}
  OBVIOUS
<1> QED
  BY <1>1, TotalIsSum, SumEmpty

LEMMA TotalType ==
  ASSUME NEW base \in Nat, NEW s \in Seq(Nat)
  PROVE  Total(base, s) \in Nat
<1>1. Len(s) \in Nat /\ DOMAIN s = 1 .. Len(s) /\ Numbers(s, 1 .. Len(s))
  BY DEF Numbers
<1>2. IsFiniteSet(1 .. Len(s))
  BY <1>1, FS_Interval
<1> QED
  BY <1>1, <1>2, TotalIsSum, SumIsNat

LEMMA TotalAppend ==
  ASSUME NEW base \in Nat, NEW s \in Seq(Nat), NEW x \in Nat
  PROVE  Total(base, Append(s, x)) = Total(base, s) + x
<1> DEFINE t == Append(s, x)  n == Len(s)
<1>1. /\ n \in Nat /\ DOMAIN s = 1 .. n /\ DOMAIN t = (1 .. n) \union {n + 1} /\ n + 1 \notin 1 .. n
      /\ t[n + 1] = x /\ \A i \in 1 .. n : t[i] = s[i]
  OBVIOUS
<1>2. Numbers(s, 1 .. n) /\ Numbers(t, (1 .. n) \union {n + 1})
  BY <1>1 DEF Numbers
<1>3. IsFiniteSet(1 .. n)
  BY <1>1, FS_Interval
<1> HIDE DEF t, n
<1>4. Sum(t, base, (1 .. n) \union {n + 1}) = Sum(t, base, 1 .. n) + t[n + 1]
  BY <1>1, <1>2, <1>3, SumAdds
<1>5. Sum(t, base, 1 .. n) = Sum(s, base, 1 .. n)
  BY <1>1, <1>2, <1>3, SumSame
<1>6. Total(base, t) = Total(base, s) + x
  BY <1>1, <1>4, <1>5, TotalIsSum
<1> QED
  BY <1>6 DEF t

\* The sum of two sequences, one after the other.
LEMMA TotalConcat ==
  ASSUME NEW base \in Nat, NEW s \in Seq(Nat), NEW t \in Seq(Nat)
  PROVE  Total(base, s \o t) = Total(base, s) + Total(0, t)
<1> DEFINE T == {n \in Nat : \A u \in Seq(Nat) : Len(u) = n => Total(base, s \o u) = Total(base, s) + Total(0, u)}
<1>1. 0 \in T
  <2> SUFFICES ASSUME NEW u \in Seq(Nat), Len(u) = 0
               PROVE  Total(base, s \o u) = Total(base, s) + Total(0, u)
    OBVIOUS
  <2>1. u = <<>> /\ s \o u = s
    OBVIOUS
  <2>2. Total(0, u) = 0 /\ Total(base, s) \in Nat
    BY <2>1, TotalEmpty, TotalType
  <2> QED
    BY <2>1, <2>2
<1>2. ASSUME NEW n \in Nat, n \in T PROVE n + 1 \in T
  <2> SUFFICES ASSUME NEW u \in Seq(Nat), Len(u) = n + 1
               PROVE  Total(base, s \o u) = Total(base, s) + Total(0, u)
    OBVIOUS
  <2>1. PICK v \in Seq(Nat), x \in Nat : u = Append(v, x)
    <3>1. u # <<>>
      OBVIOUS
    <3> QED
      BY <3>1, SequenceEmptyOrAppend
  <2>2. Len(v) = n
    BY <2>1
  <2>3. s \o v \in Seq(Nat) /\ s \o u = Append(s \o v, x)
    BY <2>1
  <2>4. Total(base, s \o v) = Total(base, s) + Total(0, v)
    BY <1>2, <2>2
  <2>a. PICK w \in Seq(Nat) : w = s \o v
    BY <2>3
  <2>5. Total(base, Append(w, x)) = Total(base, w) + x /\ Total(0, Append(v, x)) = Total(0, v) + x
    BY TotalAppend
  <2>6. Total(base, s) \in Nat /\ Total(0, v) \in Nat
    BY TotalType
  <2> QED
    BY <2>1, <2>3, <2>4, <2>a, <2>5, <2>6
<1>3. Nat \subseteq T
  <2> HIDE DEF T
  <2> QED
    BY <1>1, <1>2, AllNaturals
<1>4. Len(t) \in Nat
  OBVIOUS
<1> QED
  BY <1>3, <1>4

-----------------------------------------------------------------------------
(***************************************************************************)
(* Flattened sequences.                                                    *)
(***************************************************************************)
Flattens(fl, ss) == fl = [i \in 1 .. Len(ss) |-> IF i = 1 THEN ss[i] ELSE fl[i - 1] \o ss[i]]

\* ... up to n.
FlattensTo(fl, ss, n) == \A i \in 1 .. n : fl[i] = IF i = 1 THEN ss[i] ELSE fl[i - 1] \o ss[i]

LEMMA FlattenEmpty == FlattenSeq(<<>>) = <<>>
  BY DEF FlattenSeq

LEMMA FlattenDefined ==
  ASSUME NEW X, NEW ss \in Seq(Seq(X))
  PROVE  \E fl \in [1 .. Len(ss) -> Seq(X)] : Flattens(fl, ss)
<1> DEFINE T == {n \in Nat : n <= Len(ss) => \E fl \in [1 .. n -> Seq(X)] : FlattensTo(fl, ss, n)}
<1>0. Len(ss) \in Nat /\ \A i \in 1 .. Len(ss) : ss[i] \in Seq(X)
  OBVIOUS
<1>1. 0 \in T
  <2> DEFINE fl == [i \in 1 .. 0 |-> <<>>]
  <2>1. fl \in [1 .. 0 -> Seq(X)] /\ FlattensTo(fl, ss, 0)
    BY DEF FlattensTo
  <2> QED
    BY <2>1
<1>2. ASSUME NEW n \in Nat, n \in T PROVE n + 1 \in T
  <2> SUFFICES ASSUME n + 1 <= Len(ss)
               PROVE  \E fl \in [1 .. n + 1 -> Seq(X)] : FlattensTo(fl, ss, n + 1)
    OBVIOUS
  <2>1. PICK fl \in [1 .. n -> Seq(X)] : FlattensTo(fl, ss, n)
    BY <1>0, <1>2
  <2> DEFINE next == IF n = 0 THEN ss[1] ELSE fl[n] \o ss[n + 1]
             gl == [i \in 1 .. n + 1 |-> IF i = n + 1 THEN next ELSE fl[i]]
  <2>2. next \in Seq(X)
    <3>1. ss[n + 1] \in Seq(X) /\ (n # 0 => fl[n] \in Seq(X))
      BY <1>0, <2>1
    <3> QED
      BY <3>1, ConcatProperties
  <2>3. gl \in [1 .. n + 1 -> Seq(X)]
    BY <2>1, <2>2
  <2>4. ASSUME NEW i \in 1 .. n + 1 PROVE gl[i] = IF i = 1 THEN ss[i] ELSE gl[i - 1] \o ss[i]
    <3>1. CASE i = n + 1
      <4>1. i # 1 => i - 1 \in 1 .. n /\ i - 1 # n + 1 /\ i - 1 = n
        BY <3>1
      <4>2. i # 1 => gl[i - 1] = fl[n]
        BY <4>1
      <4> QED
        BY <3>1, <4>2
    <3>2. CASE i # n + 1
      <4>0. i \in 1 .. n
        BY <3>2
      <4>1. fl[i] = IF i = 1 THEN ss[i] ELSE fl[i - 1] \o ss[i]
        BY <2>1, <4>0 DEF FlattensTo
      <4>2. i # 1 => i - 1 \in 1 .. n + 1 /\ i - 1 # n + 1
        BY <4>0
      <4>3. gl[i] = fl[i] /\ (i # 1 => gl[i - 1] = fl[i - 1])
        BY <3>2, <4>2
      <4> QED
        BY <4>1, <4>3
    <3> QED
      BY <3>1, <3>2
  <2> HIDE DEF gl
  <2>5. FlattensTo(gl, ss, n + 1)
    BY <2>4 DEF FlattensTo
  <2> QED
    BY <2>3, <2>5
<1>3. Nat \subseteq T
  <2> HIDE DEF T
  <2> QED
    BY <1>1, <1>2, AllNaturals
<1>4. PICK fl \in [1 .. Len(ss) -> Seq(X)] : FlattensTo(fl, ss, Len(ss))
  BY <1>0, <1>3
<1>5. fl = [i \in 1 .. Len(ss) |-> fl[i]]
  OBVIOUS
<1>6. Flattens(fl, ss)
  BY <1>4, <1>5 DEF Flattens, FlattensTo
<1> QED
  BY <1>6

\* Two of them agree as far as the sequences do.
AgreeTo(fl, gl, n) == \A i \in 1 .. n : fl[i] = gl[i]

LEMMA FlattenAgree ==
  ASSUME NEW ss, NEW tt, NEW n \in Nat, NEW fl, NEW gl, FlattensTo(fl, ss, n), FlattensTo(gl, tt, n),
         \A i \in 1 .. n : ss[i] = tt[i]
  PROVE  AgreeTo(fl, gl, n)
<1> DEFINE T == {k \in Nat : k \in 1 .. n => fl[k] = gl[k]}
<1>1. 0 \in T
  OBVIOUS
<1>2. ASSUME NEW k \in Nat, k \in T PROVE k + 1 \in T
  <2> SUFFICES ASSUME k + 1 \in 1 .. n PROVE fl[k + 1] = gl[k + 1]
    OBVIOUS
  <2>1. PICK i \in 1 .. n : i = k + 1
    OBVIOUS
  <2>2. i # 1 => i - 1 = k /\ k \in 1 .. n
    BY <2>1
  <2>3. i # 1 => fl[i - 1] = gl[i - 1]
    BY <1>2, <2>2
  <2>4. /\ fl[i] = IF i = 1 THEN ss[i] ELSE fl[i - 1] \o ss[i]
        /\ gl[i] = IF i = 1 THEN tt[i] ELSE gl[i - 1] \o tt[i]
    BY DEF FlattensTo
  <2>5. fl[i] = gl[i]
    BY <2>3, <2>4
  <2> QED
    BY <2>1, <2>5
<1>3. Nat \subseteq T
  <2> HIDE DEF T
  <2> QED
    BY <1>1, <1>2, AllNaturals
<1> QED
  BY <1>3 DEF AgreeTo

\* What FlattenSeq chooses.
LEMMA Flattened ==
  ASSUME NEW X, NEW ss \in Seq(Seq(X)), ss # <<>>
  PROVE  \E fl \in [1 .. Len(ss) -> Seq(X)] :
           FlattensTo(fl, ss, Len(ss)) /\ FlattenSeq(ss) = fl[Len(ss)]
<1> DEFINE n == Len(ss)  kt == CHOOSE fl : Flattens(fl, ss)
<1>1. n \in Nat /\ n # 0
  OBVIOUS
<1>2. FlattenSeq(ss) = kt[n]
  BY <1>1 DEF FlattenSeq, Flattens
<1>3. PICK fl \in [1 .. n -> Seq(X)] : Flattens(fl, ss)
  BY FlattenDefined
<1>4. Flattens(kt, ss)
  BY <1>3
<1> HIDE DEF kt
<1>5. FlattensTo(fl, ss, n) /\ FlattensTo(kt, ss, n)
  BY <1>3, <1>4 DEF Flattens, FlattensTo
<1> HIDE DEF n
<1>a. AgreeTo(fl, kt, n)
  BY <1>1, <1>5, FlattenAgree
<1>6. \A i \in 1 .. n : fl[i] = kt[i]
  BY <1>a DEF AgreeTo
<1>7. FlattenSeq(ss) = fl[n]
  BY <1>1, <1>2, <1>6
<1> QED
  BY <1>3, <1>5, <1>7 DEF n

LEMMA FlattenType ==
  ASSUME NEW X, NEW ss \in Seq(Seq(X))
  PROVE  FlattenSeq(ss) \in Seq(X)
<1>1. CASE ss = <<>>
  <2>1. FlattenSeq(ss) = <<>>
    BY <1>1, FlattenEmpty
  <2> QED
    BY <2>1
<1>2. CASE ss # <<>>
  <2>1. PICK fl \in [1 .. Len(ss) -> Seq(X)] : FlattenSeq(ss) = fl[Len(ss)]
    BY <1>2, Flattened
  <2>2. Len(ss) \in 1 .. Len(ss)
    BY <1>2
  <2> QED
    BY <2>1, <2>2
<1> QED
  BY <1>1, <1>2

LEMMA FlattenAppend ==
  ASSUME NEW X, NEW ss \in Seq(Seq(X)), NEW s \in Seq(X)
  PROVE  FlattenSeq(Append(ss, s)) = FlattenSeq(ss) \o s
<1> DEFINE tt == Append(ss, s)  n == Len(ss)
<1>1. /\ tt \in Seq(Seq(X)) /\ tt # <<>> /\ n \in Nat /\ Len(tt) = n + 1 /\ tt[n + 1] = s
      /\ \A i \in 1 .. n : tt[i] = ss[i]
  <2> SUFFICES ASSUME NEW Y, ss \in Seq(Y), s \in Y
               PROVE  /\ Append(ss, s) \in Seq(Y) /\ Append(ss, s) # <<>> /\ Len(ss) \in Nat
                      /\ Len(Append(ss, s)) = Len(ss) + 1 /\ Append(ss, s)[Len(ss) + 1] = s
                      /\ \A i \in 1 .. Len(ss) : Append(ss, s)[i] = ss[i]
    OBVIOUS
  <2> QED
    OBVIOUS
<1> HIDE DEF tt
<1>2. PICK gl \in [1 .. Len(tt) -> Seq(X)] : FlattensTo(gl, tt, Len(tt)) /\ FlattenSeq(tt) = gl[Len(tt)]
  BY <1>1, Flattened
<1>3. CASE ss = <<>>
  <2>0. n = 0
    BY <1>3
  <2> HIDE DEF n
  <2>1. FlattenSeq(tt) = gl[1] /\ 1 \in 1 .. Len(tt) /\ tt[1] = s
    BY <1>1, <1>2, <2>0
  <2>2. gl[1] = s
    BY <1>2, <2>1 DEF FlattensTo
  <2>3. <<>> \o s = s
    OBVIOUS
  <2> QED
    BY <1>3, <2>1, <2>2, <2>3, FlattenEmpty DEF tt
<1>4. CASE ss # <<>>
  <2>1. PICK fl \in [1 .. n -> Seq(X)] : FlattensTo(fl, ss, n) /\ FlattenSeq(ss) = fl[n]
    BY <1>4, Flattened
  <2>2. n # 0 /\ n \in 1 .. n
    BY <1>4
  <2> HIDE DEF n
  <2>3. FlattensTo(gl, tt, n)
    <3>1. \A i \in 1 .. n : i \in 1 .. Len(tt)
      BY <1>1
    <3> QED
      BY <1>2, <3>1 DEF FlattensTo
  <2>4. \A i \in 1 .. n : fl[i] = gl[i]
    <3>1. n \in Nat /\ (\A i \in 1 .. n : ss[i] = tt[i]) /\ FlattensTo(fl, ss, n) /\ FlattensTo(gl, tt, n)
      BY <1>1, <2>1, <2>3
    <3>2. AgreeTo(fl, gl, n)
      BY <3>1, FlattenAgree
    <3> QED
      BY <3>2 DEF AgreeTo
  <2>5. gl[n + 1] = gl[n] \o tt[n + 1]
    <3>1. n + 1 \in 1 .. Len(tt) /\ n + 1 # 1 /\ (n + 1) - 1 = n
      BY <1>1, <2>2
    <3> QED
      BY <1>2, <3>1 DEF FlattensTo
  <2> QED
    BY <1>1, <1>2, <2>1, <2>2, <2>4, <2>5 DEF tt
<1> QED
  BY <1>3, <1>4

=============================================================================
