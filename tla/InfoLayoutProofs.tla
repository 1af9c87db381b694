-------------------------- MODULE InfoLayoutProofs --------------------------
(***************************************************************************)
(* The layout of the reduced debug info, for any types, functions and      *)
(* variables.  Proofs about InfoLayout.                                    *)
(***************************************************************************)
EXTENDS InfoLayout, FoldFacts, TLAPS

(***************************************************************************)
(* get_uint_length_leb128 is a number: its recursion ends.                 *)
(***************************************************************************)
LebTo(f, n) == \A i \in 0 .. n : f[i] = IF i < 128 THEN 1 ELSE 1 + f[i \div 128]

LEMMA LebDefined ==
  ASSUME NEW n \in Nat
  PROVE  \E f \in [0 .. n -> Nat] : LebTo(f, n)
<1> DEFINE T == {m \in Nat : \E f \in [0 .. m -> Nat] : LebTo(f, m)}
<1>1. 0 \in T
  <2> DEFINE f == [i \in 0 .. 0 |-> 1]
  <2>1. f \in [0 .. 0 -> Nat] /\ LebTo(f, 0)
    BY DEF LebTo
  <2> QED
    BY <2>1
<1>2. ASSUME NEW m \in Nat, m \in T PROVE m + 1 \in T
  <2>1. PICK f \in [0 .. m -> Nat] : LebTo(f, m)
    BY <1>2
  <2>2. PICK q \in Nat : q = (m + 1) \div 128
    OBVIOUS
  <2>3. q \in 0 .. m
    BY <2>2
  <2> DEFINE next == IF m + 1 < 128 THEN 1 ELSE 1 + f[q]
             g == [i \in 0 .. m + 1 |-> IF i = m + 1 THEN next ELSE f[i]]
  <2>4. next \in Nat
    BY <2>1, <2>3
  <2>5. g \in [0 .. m + 1 -> Nat]
    BY <2>1, <2>4
  <2>6. ASSUME NEW i \in 0 .. m + 1 PROVE g[i] = IF i < 128 THEN 1 ELSE 1 + g[i \div 128]
    <3>1. CASE i = m + 1
      <4>1. g[q] = f[q]
        BY <2>3
      <4> QED
        BY <2>2, <3>1, <4>1
    <3>2. CASE i # m + 1
      <4>1. i \in 0 .. m /\ i \div 128 \in 0 .. m
        BY <3>2
      <4>2. f[i] = IF i < 128 THEN 1 ELSE 1 + f[i \div 128]
        BY <2>1, <4>1 DEF LebTo
      <4>3. g[i] = f[i] /\ g[i \div 128] = f[i \div 128]
        BY <4>1
      <4> QED
        BY <4>2, <4>3
    <3> QED
      BY <3>1, <3>2
  <2> HIDE DEF g
  <2>7. LebTo(g, m + 1)
    BY <2>6 DEF LebTo
  <2> QED
    BY <2>5, <2>7
<1>3. Nat \subseteq T
  <2> HIDE DEF T
  <2> QED
    BY <1>1, <1>2, AllNaturals
<1> QED
  BY <1>3

LEMMA LebAgree ==
  ASSUME NEW n \in Nat, NEW m \in Nat, NEW f, NEW g, LebTo(f, n), LebTo(g, m), NEW c \in Nat, c <= n, c <= m
  PROVE  f[c] = g[c]
<1> DEFINE T == {b \in Nat : \A i \in 0 .. b : i <= n /\ i <= m => f[i] = g[i]}
<1>1. 0 \in T
  BY DEF LebTo
<1>2. ASSUME NEW b \in Nat, b \in T PROVE b + 1 \in T
  <2> SUFFICES ASSUME NEW i \in 0 .. b + 1, i <= n, i <= m PROVE f[i] = g[i]
    OBVIOUS
  <2>1. f[i] = (IF i < 128 THEN 1 ELSE 1 + f[i \div 128]) /\ g[i] = IF i < 128 THEN 1 ELSE 1 + g[i \div 128]
    BY DEF LebTo
  <2>2. i >= 128 => i \div 128 \in 0 .. b /\ i \div 128 <= n /\ i \div 128 <= m
    OBVIOUS
  <2>3. i >= 128 => f[i \div 128] = g[i \div 128]
    BY <1>2, <2>2
  <2> QED
    BY <2>1, <2>3
<1>3. Nat \subseteq T
  <2> HIDE DEF T
  <2> QED
    BY <1>1, <1>2, AllNaturals
<1> QED
  BY <1>3

LEMMA LebType == LebLength \in [Nat -> Nat]
<1> DEFINE Leb(f) == f = [n \in Nat |-> IF n < 128 THEN 1 ELSE 1 + f[n \div 128]]
           H(n) == CHOOSE f \in [0 .. n -> Nat] : LebTo(f, n)
           d == [n \in Nat |-> H(n)[n]]
<1>1. \A n \in Nat : H(n) \in [0 .. n -> Nat] /\ LebTo(H(n), n)
  BY LebDefined
<1> HIDE DEF H
<1>2. d \in [Nat -> Nat]
  BY <1>1
<1>3. ASSUME NEW n \in Nat PROVE d[n] = IF n < 128 THEN 1 ELSE 1 + d[n \div 128]
  <2>1. PICK q \in Nat : q = n \div 128
    OBVIOUS
  <2>2. q <= n
    BY <2>1
  <2>3. H(n)[q] = H(q)[q]
    BY <1>1, <2>2, LebAgree
  <2>4. H(n)[n] = IF n < 128 THEN 1 ELSE 1 + H(n)[q]
    <3>1. LebTo(H(n), n) /\ n \in 0 .. n
      BY <1>1
    <3> QED
      BY <2>1, <3>1 DEF LebTo
  <2> QED
    BY <2>1, <2>3, <2>4
<1> HIDE DEF d
<1>4. Leb(d)
  BY <1>2, <1>3
<1>5. LebLength = CHOOSE f : Leb(f)
  BY DEF LebLength
<1>6. Leb(LebLength)
  <2> HIDE DEF Leb
  <2> QED
    BY <1>4, <1>5
<1>7. ASSUME NEW n \in Nat PROVE LebLength[n] = d[n]
  <2> DEFINE T == {b \in Nat : \A i \in 0 .. b : LebLength[i] = d[i]}
  <2>0. \A i \in Nat : LebLength[i] = IF i < 128 THEN 1 ELSE 1 + LebLength[i \div 128]
    BY <1>6
  <2>1. 0 \in T
    BY <1>3, <2>0
  <2>2. ASSUME NEW b \in Nat, b \in T PROVE b + 1 \in T
    <3> SUFFICES ASSUME NEW i \in 0 .. b + 1 PROVE LebLength[i] = d[i]
      OBVIOUS
    <3>1. i >= 128 => i \div 128 \in 0 .. b
      OBVIOUS
    <3>2. i >= 128 => LebLength[i \div 128] = d[i \div 128]
      BY <2>2, <3>1
    <3> QED
      BY <1>3, <2>0, <3>2
  <2>3. Nat \subseteq T
    <3> HIDE DEF T
    <3> QED
      BY <2>1, <2>2, AllNaturals
  <2> QED
    BY <2>3
<1>8. DOMAIN LebLength = Nat /\ LebLength = [n \in DOMAIN LebLength |-> LebLength[n]]
  BY <1>6
<1> QED
  BY <1>2, <1>7, <1>8

-----------------------------------------------------------------------------
(***************************************************************************)
(* The iteration of a std::map: its keys in order, each once.              *)
(***************************************************************************)
Enumerates(s, R) ==
  /\ s \in [1 .. Cardinality(R) -> R]
  /\ \A i, j \in 1 .. Cardinality(R) : i < j => Before(s[i], s[j])

LEMMA Greatest ==
  ASSUME NEW R, IsFiniteSet(R), R # {}, R \subseteq Nat \X Nat
  PROVE  \E m \in R : \A r \in R : r = m \/ Before(r, m)
<1> DEFINE Up(y) == {z \in R : z = y \/ Before(y, z)}
           U == {Up(y) : y \in R}
<1>1. U # {} /\ \A x \in U : x \subseteq R
  OBVIOUS
<1>2. PICK x \in U : \A y \in U : y \subseteq x => y = x
  <2> HIDE DEF U
  <2> QED
    BY <1>1, LeastSubset
<1>3. PICK m \in R : x = Up(m)
  OBVIOUS
<1>4. ASSUME NEW r \in R, r # m, ~ Before(r, m) PROVE FALSE
  <2>1. r[1] \in Nat /\ r[2] \in Nat /\ m[1] \in Nat /\ m[2] \in Nat /\ r = <<r[1], r[2]>> /\ m = <<m[1], m[2]>>
    OBVIOUS
  <2>2. r[1] # m[1] \/ r[2] # m[2]
    BY <1>4, <2>1
  <2>3. Before(m, r)
    BY <1>4, <2>1, <2>2 DEF Before
  <2>4. ASSUME NEW z \in R, Before(r, z) PROVE Before(m, z)
    <3>1. z[1] \in Nat /\ z[2] \in Nat
      OBVIOUS
    <3> QED
      BY <2>1, <2>3, <2>4, <3>1 DEF Before
  <2>5. Up(r) \subseteq Up(m)
    BY <2>3, <2>4
  <2>6. m \notin Up(r)
    BY <1>4, <2>1, <2>3 DEF Before
  <2>7. m \in Up(m) /\ Up(r) \in U
    OBVIOUS
  <2> QED
    BY <1>2, <1>3, <2>5, <2>6, <2>7
<1> QED
  BY <1>4

LEMMA Ordered ==
  ASSUME NEW R, IsFiniteSet(R), R \subseteq Nat \X Nat
  PROVE  \E s : Enumerates(s, R)
<1> DEFINE T == {r \in SUBSET R : ~ \E s : Enumerates(s, r)}
<1>1. SUFFICES ASSUME T # {} PROVE FALSE
  OBVIOUS
<1>2. PICK x \in T : \A y \in T : y \subseteq x => y = x
  <2>1. \A y \in T : y \subseteq R
    OBVIOUS
  <2> HIDE DEF T
  <2> QED
    BY <1>1, <2>1, LeastSubset
<1>3. IsFiniteSet(x) /\ x \subseteq Nat \X Nat
  BY FS_Subset
<1>4. x # {}
  <2> SUFFICES ASSUME x = {} PROVE FALSE
    OBVIOUS
  <2>1. Cardinality(x) = 0
    BY FS_EmptySet
  <2>2. Enumerates([i \in 1 .. 0 |-> 0], x)
    BY <2>1 DEF Enumerates
  <2> QED
    BY <2>2
<1>5. PICK m \in x : \A r \in x : r = m \/ Before(r, m)
  BY <1>3, <1>4, Greatest
<1>6. PICK y : y = x \ {m}
  OBVIOUS
<1>7. PICK s : Enumerates(s, y)
  BY <1>2, <1>6
<1>8. PICK n \in Nat : n = Cardinality(y) /\ Cardinality(x) = n + 1
  <2>1. IsFiniteSet(y) /\ Cardinality(y) = Cardinality(x) - 1
    BY <1>3, <1>6, FS_RemoveElement
  <2>2. Cardinality(y) \in Nat /\ Cardinality(x) \in Nat
    BY <1>3, <2>1, FS_CardinalityType
  <2> QED
    BY <2>1, <2>2
<1> DEFINE t == [i \in 1 .. n + 1 |-> IF i = n + 1 THEN m ELSE s[i]]
<1>9. s \in [1 .. n -> y] /\ \A i, j \in 1 .. n : i < j => Before(s[i], s[j])
  BY <1>7, <1>8 DEF Enumerates
<1>10. t \in [1 .. n + 1 -> x]
  BY <1>6, <1>9
<1>11. ASSUME NEW i \in 1 .. n + 1, NEW j \in 1 .. n + 1, i < j PROVE Before(t[i], t[j])
  <2>1. i \in 1 .. n /\ t[i] = s[i] /\ s[i] \in y
    BY <1>9, <1>11
  <2>2. CASE j = n + 1
    <3>1. t[j] = m /\ s[i] \in x /\ s[i] # m
      BY <1>6, <2>1, <2>2
    <3> QED
      BY <1>5, <2>1, <3>1
  <2>3. CASE j # n + 1
    BY <1>9, <1>11, <2>1, <2>3
  <2> QED
    BY <2>2, <2>3
<1> HIDE DEF t
<1>12. Enumerates(t, x)
  BY <1>8, <1>10, <1>11 DEF Enumerates
<1> QED
  BY <1>12

LEMMA Iterated ==
  ASSUME NEW R, IsFiniteSet(R), R \subseteq Nat \X Nat
  PROVE  Enumerates(InOrder(R), R) /\ Cardinality(R) \in Nat
<1>1. \E s \in [1 .. Cardinality(R) -> R] : \A i, j \in 1 .. Cardinality(R) : i < j => Before(s[i], s[j])
  BY Ordered DEF Enumerates
<1>2. Enumerates(InOrder(R), R)
  BY <1>1 DEF Enumerates, InOrder
<1> QED
  BY <1>2, FS_CardinalityType

LEMMA RangesFinite ==
  ASSUME NEW V, NEW vs \in Seq(V)
  PROVE  IsFiniteSet({RangeOf(vs[i]) : i \in DOMAIN vs})
<1> DEFINE R == {RangeOf(vs[i]) : i \in DOMAIN vs}
           f == [i \in 1 .. Len(vs) |-> RangeOf(vs[i])]
<1>1. DOMAIN vs = 1 .. Len(vs) /\ Len(vs) \in Nat
  OBVIOUS
<1>2. f \in [1 .. Len(vs) -> R] /\ \A r \in R : \E i \in 1 .. Len(vs) : f[i] = r
  BY <1>1
<1> HIDE DEF f, R
<1>3. f \in Surjection(1 .. Len(vs), R)
  BY <1>2 DEF Surjection
<1>4. IsFiniteSet(1 .. Len(vs))
  BY <1>1, FS_Interval
<1>5. IsFiniteSet(R)
  BY <1>3, <1>4, FS_Surjection
<1> QED
  BY <1>5 DEF R

-----------------------------------------------------------------------------
(***************************************************************************)
(* DIEs that refer to the first n cells, and their sizes.                  *)
(***************************************************************************)
Fields(n) == [abbrev : Abbrevs \union {NoAbbrev}, size : Nat, target : 0 .. n - 1 \union {NoSn}, data : Nat]
Dies(n)   == Seq(Fields(n))
Sizes(d)  == [i \in DOMAIN d |-> d[i].size]

LEMMA FieldTypes ==
  ASSUME NEW n \in Nat
  PROVE  /\ \A a \in Abbrevs : Abbrev(a) \in Fields(n)
         /\ \A s, x \in Nat : Data(s, x) \in Fields(n)
         /\ \A x \in Nat : Udata(x) \in Fields(n)
         /\ \A sn \in 0 .. n - 1 : Ref4(sn) \in Fields(n)
         /\ End \in Dies(n)
<1>1. \A a \in Abbrevs : Abbrev(a) \in Fields(n)
  BY DEF Abbrev, Field, Fields
<1>2. \A s, x \in Nat : Data(s, x) \in Fields(n)
  BY DEF Data, Field, Fields
<1>3. \A x \in Nat : Udata(x) \in Fields(n)
  BY <1>2, LebType DEF Udata
<1>4. \A sn \in 0 .. n - 1 : Ref4(sn) \in Fields(n)
  BY DEF Ref4, Field, Fields
<1>5. "EndItem" \in Abbrevs
  BY DEF Abbrevs
<1>6. Abbrev("EndItem") \in Fields(n)
  BY <1>1, <1>5
<1>7. \A f : f \in Fields(n) => <<f>> \in Seq(Fields(n))
  OBVIOUS
<1> QED
  BY <1>1, <1>2, <1>3, <1>4, <1>6, <1>7 DEF End, Dies

LEMMA SizesType ==
  ASSUME NEW n \in Nat, NEW d \in Dies(n)
  PROVE  Sizes(d) \in Seq(Nat) /\ Size(d) = Total(0, Sizes(d)) /\ Size(d) \in Nat
<1>1. Len(d) \in Nat /\ DOMAIN d = 1 .. Len(d) /\ \A i \in 1 .. Len(d) : d[i] \in Fields(n)
  BY DEF Dies
<1>2. \A i \in 1 .. Len(d) : d[i].size \in Nat
  BY <1>1 DEF Fields
<1>3. Sizes(d) \in [1 .. Len(d) -> Nat]
  BY <1>1, <1>2 DEF Sizes
<1>4. Sizes(d) \in Seq(Nat)
  BY <1>1, <1>3
<1>5. Size(d) = Total(0, Sizes(d))
  BY DEF Size, Sizes, Total
<1> QED
  BY <1>4, <1>5, TotalType

LEMMA SizeConcat ==
  ASSUME NEW n \in Nat, NEW d \in Dies(n), NEW e \in Dies(n)
  PROVE  d \o e \in Dies(n) /\ Size(d \o e) = Size(d) + Size(e)
<1>1. d \o e \in Dies(n)
  BY DEF Dies
<1>2. Sizes(d \o e) = Sizes(d) \o Sizes(e)
  <2>1. /\ Len(d) \in Nat /\ Len(e) \in Nat /\ DOMAIN d = 1 .. Len(d) /\ DOMAIN e = 1 .. Len(e)
        /\ DOMAIN (d \o e) = 1 .. Len(d) + Len(e)
        /\ \A i \in 1 .. Len(d) + Len(e) : (d \o e)[i] = IF i <= Len(d) THEN d[i] ELSE e[i - Len(d)]
    BY DEF Dies
  <2>2. Sizes(d) \in Seq(Nat) /\ Sizes(e) \in Seq(Nat) /\ Sizes(d \o e) \in Seq(Nat)
    BY <1>1, SizesType
  <2>3. Len(Sizes(d)) = Len(d) /\ Len(Sizes(e)) = Len(e) /\ Len(Sizes(d \o e)) = Len(d) + Len(e)
    <3>1. DOMAIN Sizes(d) = 1 .. Len(d) /\ DOMAIN Sizes(e) = 1 .. Len(e) /\ DOMAIN Sizes(d \o e) = 1 .. Len(d) + Len(e)
      BY <2>1 DEF Sizes
    <3>2. \A s, m : s \in Seq(Nat) /\ m \in Nat /\ DOMAIN s = 1 .. m => Len(s) = m
      OBVIOUS
    <3>3. Len(d) + Len(e) \in Nat
      BY <2>1
    <3> QED
      BY <2>1, <2>2, <3>1, <3>2, <3>3
  <2>4. ASSUME NEW i \in 1 .. Len(d) + Len(e)
        PROVE  Sizes(d \o e)[i] = IF i <= Len(d) THEN Sizes(d)[i] ELSE Sizes(e)[i - Len(d)]
    <3>1. i <= Len(d) => i \in 1 .. Len(d)
      BY <2>1
    <3>2. ~ i <= Len(d) => i - Len(d) \in 1 .. Len(e)
      BY <2>1
    <3> QED
      BY <2>1, <3>1, <3>2 DEF Sizes
  <2>5. PICK u, v, w : u = Sizes(d) /\ v = Sizes(e) /\ w = Sizes(d \o e)
    OBVIOUS
  <2>6. PICK l, m \in Nat : l = Len(d) /\ m = Len(e)
    BY <2>1
  <2>7. /\ u \in Seq(Nat) /\ v \in Seq(Nat) /\ w \in Seq(Nat) /\ Len(u) = l /\ Len(v) = m /\ Len(w) = l + m
        /\ \A i \in 1 .. l + m : w[i] = IF i <= l THEN u[i] ELSE v[i - l]
    BY <2>2, <2>3, <2>4, <2>5, <2>6
  <2>8. w = u \o v
    <3>1. /\ u \o v \in Seq(Nat) /\ Len(u \o v) = l + m
          /\ \A i \in 1 .. l + m : (u \o v)[i] = IF i <= l THEN u[i] ELSE v[i - l]
      BY <2>7, ConcatProperties
    <3>2. PICK x : x = u \o v
      OBVIOUS
    <3>3. x \in Seq(Nat) /\ Len(x) = Len(w) /\ \A i \in 1 .. Len(x) : x[i] = w[i]
      BY <2>7, <3>1, <3>2
    <3>4. x = w
      BY <2>7, <3>3, SeqEqual
    <3> QED
      BY <3>2, <3>4
  <2> QED
    BY <2>5, <2>8
<1>3. Size(d) = Total(0, Sizes(d)) /\ Size(e) = Total(0, Sizes(e)) /\ Sizes(d) \in Seq(Nat) /\ Sizes(e) \in Seq(Nat)
  BY SizesType
<1>4. Size(d \o e) = Total(0, Sizes(d \o e))
  BY <1>1, SizesType
<1>5. Total(0, Sizes(d) \o Sizes(e)) = Total(0, Sizes(d)) + Total(0, Sizes(e))
  BY <1>3, TotalConcat
<1> QED
  BY <1>1, <1>2, <1>3, <1>4, <1>5

-----------------------------------------------------------------------------
(***************************************************************************)
(* Reading fields one after the other.                                     *)
(***************************************************************************)
ReadAll(state, d) == FoldLeft(Read, state, d)

\* The recursion of FoldLeft: `it` reads the fields with the indices in a set.
Reads(it, d, state, S) ==
  it = [s \in SUBSET S |-> IF s = {} THEN state ELSE Read(it[s \ {Max(s)}], d[Max(s)])]

LEMMA ReadAllIs ==
  ASSUME NEW state, NEW d
  PROVE  ReadAll(state, d) = (CHOOSE it : Reads(it, d, state, DOMAIN d))[DOMAIN d]
  BY DEF ReadAll, FoldLeft, MapThenFoldSet, Reads

LEMMA LastIndex ==
  ASSUME NEW n \in Nat, NEW s \in SUBSET (1 .. n + 1), n + 1 \in s
  PROVE  Max(s) = n + 1
<1>1. \A y \in s : n + 1 >= y
  OBVIOUS
<1>2. ASSUME NEW x \in s, \A y \in s : x >= y PROVE x = n + 1
  <2>1. x \in 1 .. n + 1 /\ x >= n + 1
    BY <1>2
  <2> QED
    BY <2>1
<1> QED
  BY <1>1, <1>2 DEF Max

LEMMA LastIn ==
  ASSUME NEW n \in Nat, NEW s \in SUBSET (1 .. n), s # {}
  PROVE  Max(s) \in s
<1> DEFINE T == {m \in Nat : \A x \in SUBSET (1 .. m) : x # {} => Max(x) \in x}
<1>1. 0 \in T
  <2>1. 1 .. 0 = {}
    OBVIOUS
  <2>2. \A x \in SUBSET (1 .. 0) : x = {}
    BY <2>1
  <2> HIDE DEF Max
  <2> QED
    BY <2>2
<1>2. ASSUME NEW m \in Nat, m \in T PROVE m + 1 \in T
  <2> SUFFICES ASSUME NEW x \in SUBSET (1 .. m + 1), x # {} PROVE Max(x) \in x
    OBVIOUS
  <2>1. CASE m + 1 \in x
    BY <2>1, LastIndex
  <2>2. CASE m + 1 \notin x
    <3>1. x \in SUBSET (1 .. m)
      BY <2>2
    <3> QED
      BY <1>2, <3>1
  <2> QED
    BY <2>1, <2>2
<1>3. Nat \subseteq T
  <2> HIDE DEF T
  <2> QED
    BY <1>1, <1>2, AllNaturals
<1> QED
  BY <1>3

LEMMA ReaderDefined ==
  ASSUME NEW n \in Nat, NEW d, NEW state
  PROVE  \E it : Reads(it, d, state, 1 .. n)
<1> DEFINE T == {m \in Nat : \E it : Reads(it, d, state, 1 .. m)}
<1>1. 0 \in T
  <2>1. Reads([s \in SUBSET (1 .. 0) |-> state], d, state, 1 .. 0)
    BY DEF Reads
  <2> QED
    BY <2>1
<1>2. ASSUME NEW m \in Nat, m \in T PROVE m + 1 \in T
  <2>1. PICK it : Reads(it, d, state, 1 .. m)
    BY <1>2
  <2> DEFINE jt == [s \in SUBSET (1 .. m + 1) |->
                      IF m + 1 \in s THEN Read(it[s \ {m + 1}], d[m + 1]) ELSE it[s]]
  <2>2. ASSUME NEW s \in SUBSET (1 .. m + 1)
        PROVE  jt[s] = IF s = {} THEN state ELSE Read(jt[s \ {Max(s)}], d[Max(s)])
    <3>1. CASE m + 1 \in s
      <4>1. Max(s) = m + 1
        BY <3>1, LastIndex
      <4>2. s \ {m + 1} \in SUBSET (1 .. m + 1) /\ m + 1 \notin s \ {m + 1}
        OBVIOUS
      <4>3. jt[s \ {m + 1}] = it[s \ {m + 1}]
        BY <4>2
      <4>4. jt[s] = Read(it[s \ {m + 1}], d[m + 1])
        BY <3>1
      <4> HIDE DEF jt
      <4> QED
        BY <3>1, <4>1, <4>3, <4>4
    <3>2. CASE m + 1 \notin s
      <4>1. s \in SUBSET (1 .. m)
        BY <3>2
      <4>2. it[s] = IF s = {} THEN state ELSE Read(it[s \ {Max(s)}], d[Max(s)])
        BY <2>1, <4>1 DEF Reads
      <4>3. s \ {Max(s)} \in SUBSET (1 .. m + 1) /\ m + 1 \notin s \ {Max(s)}
        BY <3>2
      <4>4. jt[s \ {Max(s)}] = it[s \ {Max(s)}] /\ jt[s] = it[s]
        BY <3>2, <4>3
      <4> HIDE DEF jt
      <4> QED
        BY <4>2, <4>4
    <3> QED
      BY <3>1, <3>2
  <2>3. jt = [s \in SUBSET (1 .. m + 1) |-> jt[s]]
    OBVIOUS
  <2> HIDE DEF jt
  <2>4. Reads(jt, d, state, 1 .. m + 1)
    BY <2>2, <2>3 DEF Reads
  <2> QED
    BY <2>4
<1>3. Nat \subseteq T
  <2> HIDE DEF T
  <2> QED
    BY <1>1, <1>2, AllNaturals
<1> QED
  BY <1>3

Alike(d, e, n) == \A i \in 1 .. n : \A state : Read(state, d[i]) = Read(state, e[i])
SameReads(it, jt, n) == \A s \in SUBSET (1 .. n) : it[s] = jt[s]

LEMMA ReadAgree ==
  ASSUME NEW n \in Nat, NEW m \in Nat, NEW c \in Nat, c <= n, c <= m, NEW d, NEW e, NEW state,
         NEW it, Reads(it, d, state, 1 .. n), NEW jt, Reads(jt, e, state, 1 .. m),
         Alike(d, e, c)
  PROVE  SameReads(it, jt, c)
<1> DEFINE T == {b \in Nat : b <= c => SameReads(it, jt, b)}
<1>0. /\ \A s \in SUBSET (1 .. n) : it[s] = IF s = {} THEN state ELSE Read(it[s \ {Max(s)}], d[Max(s)])
      /\ \A s \in SUBSET (1 .. m) : jt[s] = IF s = {} THEN state ELSE Read(jt[s \ {Max(s)}], e[Max(s)])
  BY DEF Reads
<1>1. 0 \in T
  <2>1. \A s \in SUBSET (1 .. 0) : s = {} /\ s \in SUBSET (1 .. n) /\ s \in SUBSET (1 .. m)
    OBVIOUS
  <2> QED
    BY <1>0, <2>1 DEF SameReads
<1>2. ASSUME NEW b \in Nat, b \in T PROVE b + 1 \in T
  <2> SUFFICES ASSUME b + 1 <= c, NEW s \in SUBSET (1 .. b + 1) PROVE it[s] = jt[s]
    BY DEF SameReads
  <2>1. SameReads(it, jt, b)
    BY <1>2
  <2>2. CASE b + 1 \in s
    <3>1. Max(s) = b + 1
      BY <2>2, LastIndex
    <3>2. s \in SUBSET (1 .. n) /\ s \in SUBSET (1 .. m) /\ s \ {b + 1} \in SUBSET (1 .. b) /\ s # {} /\ b + 1 \in 1 .. c
      BY <2>2
    <3>3. it[s \ {b + 1}] = jt[s \ {b + 1}]
      BY <2>1, <3>2 DEF SameReads
    <3>4. PICK r : r = it[s \ {b + 1}]
      OBVIOUS
    <3>5. Read(r, d[b + 1]) = Read(r, e[b + 1])
      BY <3>2 DEF Alike
    <3> QED
      BY <1>0, <3>1, <3>2, <3>3, <3>4, <3>5
  <2>3. CASE b + 1 \notin s
    <3>1. s \in SUBSET (1 .. b)
      BY <2>3
    <3> QED
      BY <2>1, <3>1 DEF SameReads
  <2> QED
    BY <2>2, <2>3
<1>3. Nat \subseteq T
  <2> HIDE DEF T
  <2> QED
    BY <1>1, <1>2, AllNaturals
<1> QED
  BY <1>3

LEMMA ReadEmpty == ASSUME NEW state PROVE ReadAll(state, <<>>) = state
<1>1. DOMAIN <<>> = 1 .. 0
  <2>1. DOMAIN <<>> = {} /\ 1 .. 0 = {}
    OBVIOUS
  <2> QED
    BY <2>1
<1>2. \E it : Reads(it, <<>>, state, DOMAIN <<>>)
  BY <1>1, ReaderDefined
<1>3. PICK it : it = CHOOSE jt : Reads(jt, <<>>, state, DOMAIN <<>>)
  OBVIOUS
<1>4. Reads(it, <<>>, state, DOMAIN <<>>)
  BY <1>2, <1>3
<1>5. it[DOMAIN <<>>] = state
  BY <1>1, <1>4 DEF Reads
<1> QED
  BY <1>3, <1>5, ReadAllIs

LEMMA ReadAppend ==
  ASSUME NEW X, NEW d \in Seq(X), NEW x \in X, NEW state
  PROVE  ReadAll(state, Append(d, x)) = Read(ReadAll(state, d), x)
<1>1. PICK n \in Nat : n = Len(d)
  OBVIOUS
<1>2. PICK e \in Seq(X) : e = Append(d, x)
  <2>1. Append(d, x) \in Seq(X)
    OBVIOUS
  <2> QED
    BY <2>1
<1>3. /\ DOMAIN d = 1 .. n /\ DOMAIN e = 1 .. n + 1 /\ e[n + 1] = x /\ \A i \in 1 .. n : d[i] = e[i]
  BY <1>1, <1>2
<1>4. PICK it : it = CHOOSE jt : Reads(jt, d, state, 1 .. n)
  OBVIOUS
<1>5. PICK jt : jt = CHOOSE kt : Reads(kt, e, state, 1 .. n + 1)
  OBVIOUS
<1>6. Reads(it, d, state, 1 .. n) /\ ReadAll(state, d) = it[1 .. n]
  BY <1>3, <1>4, ReaderDefined, ReadAllIs
<1>7. Reads(jt, e, state, 1 .. n + 1) /\ ReadAll(state, e) = jt[1 .. n + 1]
  <2>1. n + 1 \in Nat
    OBVIOUS
  <2>2. \E kt : Reads(kt, e, state, 1 .. n + 1)
    BY <2>1, ReaderDefined
  <2> QED
    BY <1>3, <1>5, <2>2, ReadAllIs
<1>8. SameReads(it, jt, n)
  <2>1. n + 1 \in Nat /\ n <= n + 1 /\ n <= n /\ Alike(d, e, n)
    BY <1>3 DEF Alike
  <2> QED
    BY <1>3, <1>6, <1>7, <2>1, ReadAgree
<1>9. it[1 .. n] = jt[1 .. n]
  BY <1>8 DEF SameReads
<1>10. jt[1 .. n + 1] = Read(jt[1 .. n], e[n + 1])
  <2>1. n + 1 \in 1 .. n + 1 /\ 1 .. n + 1 \in SUBSET (1 .. n + 1) /\ 1 .. n + 1 # {} /\ (1 .. n + 1) \ {n + 1} = 1 .. n
    <3>1. \A i : i \in (1 .. n + 1) \ {n + 1} <=> i \in 1 .. n
      OBVIOUS
    <3>2. n + 1 \in 1 .. n + 1
      OBVIOUS
    <3> QED
      BY <3>1, <3>2
  <2>2. Max(1 .. n + 1) = n + 1
    BY <2>1, LastIndex
  <2> QED
    BY <1>7, <2>1, <2>2 DEF Reads
<1> QED
  BY <1>2, <1>3, <1>6, <1>7, <1>9, <1>10

LEMMA ReadConcat ==
  ASSUME NEW X, NEW d \in Seq(X), NEW e \in Seq(X), NEW state
  PROVE  ReadAll(state, d \o e) = ReadAll(ReadAll(state, d), e)
<1> DEFINE T == {n \in Nat : \A u \in Seq(X) : Len(u) = n => ReadAll(state, d \o u) = ReadAll(ReadAll(state, d), u)}
<1>1. 0 \in T
  <2> SUFFICES ASSUME NEW u \in Seq(X), Len(u) = 0 PROVE ReadAll(state, d \o u) = ReadAll(ReadAll(state, d), u)
    OBVIOUS
  <2>1. u = <<>> /\ d \o u = d
    OBVIOUS
  <2> QED
    BY <2>1, ReadEmpty
<1>2. ASSUME NEW n \in Nat, n \in T PROVE n + 1 \in T
  <2> SUFFICES ASSUME NEW u \in Seq(X), Len(u) = n + 1 PROVE ReadAll(state, d \o u) = ReadAll(ReadAll(state, d), u)
    OBVIOUS
  <2>1. PICK v \in Seq(X), x \in X : u = Append(v, x)
    <3>1. u # <<>>
      OBVIOUS
    <3> QED
      BY <3>1, SequenceEmptyOrAppend
  <2>2. Len(v) = n
    BY <2>1
  <2>3. PICK w \in Seq(X) : w = d \o v
    <3>1. d \o v \in Seq(X)
      OBVIOUS
    <3> QED
      BY <3>1
  <2>4. d \o u = Append(w, x)
    BY <2>1, <2>3
  <2>5. ReadAll(state, w) = ReadAll(ReadAll(state, d), v)
    BY <1>2, <2>2, <2>3
  <2>6. PICK r : r = ReadAll(state, d)
    OBVIOUS
  <2>7. ReadAll(state, Append(w, x)) = Read(ReadAll(state, w), x) /\ ReadAll(r, Append(v, x)) = Read(ReadAll(r, v), x)
    BY ReadAppend
  <2> QED
    BY <2>1, <2>4, <2>5, <2>6, <2>7
<1>3. Nat \subseteq T
  <2> HIDE DEF T
  <2> QED
    BY <1>1, <1>2, AllNaturals
<1>4. Len(e) \in Nat
  OBVIOUS
<1> QED
  BY <1>3, <1>4

\* Between two DIEs at depth p: no attribute is awaited.
Awaits(w, p) == [ok |-> TRUE, want |-> w, depth |-> p]
At(p)        == Awaits(<<>>, p)
Takes(d, p, q) == ReadAll(At(p), d) = At(q)
Closed(d)    == \A p \in Nat \ {0} : Takes(d, p, p)

LEMMA ReadAbbrev ==
  ASSUME NEW a \in Abbrevs, NEW p \in Nat \ {0}
  PROVE  Read(At(p), Abbrev(a))
           = Awaits(Forms(a), p + (IF a \in HasChildren THEN 1 ELSE 0) - (IF a = "EndItem" THEN 1 ELSE 0))
<1>1. a # NoAbbrev
  BY DEF Abbrevs, NoAbbrev
<1>2. Abbrev(a).abbrev = a
  BY DEF Abbrev, Field
<1>3. p > 0 /\ At(p).ok = TRUE /\ At(p).want = <<>> /\ At(p).depth = p
  BY DEF At, Awaits
<1>4. (At(p).ok /\ At(p).want = <<>> /\ At(p).depth > 0) = TRUE
  BY <1>3
<1> HIDE DEF At
<1> QED
  BY <1>1, <1>2, <1>3, <1>4 DEF Read, Awaits

LEMMA ReadAttribute ==
  ASSUME NEW w, w # <<>>, NEW p, NEW f, f.abbrev = NoAbbrev, Fits(Head(w), f)
  PROVE  Read(Awaits(w, p), f) = Awaits(Tail(w), p)
<1>1. (TRUE /\ w # <<>> /\ Fits(Head(w), f)) = TRUE
  OBVIOUS
<1> QED
  BY <1>1 DEF Read, Awaits

LEMMA TakesBoth ==
  ASSUME NEW n, NEW d \in Dies(n), NEW e \in Dies(n), NEW p, NEW q, NEW r, Takes(d, p, q), Takes(e, q, r)
  PROVE  Takes(d \o e, p, r)
<1>1. ReadAll(At(p), d \o e) = ReadAll(ReadAll(At(p), d), e)
  BY ReadConcat DEF Dies
<1> QED
  BY <1>1 DEF Takes

LEMMA ClosedFlatten ==
  ASSUME NEW n, NEW ss \in Seq(Dies(n)), \A i \in DOMAIN ss : Closed(ss[i])
  PROVE  FlattenSeq(ss) \in Dies(n) /\ Closed(FlattenSeq(ss))
<1> DEFINE T == {m \in Nat : \A u \in Seq(Dies(n)) : Len(u) = m /\ (\A i \in DOMAIN u : Closed(u[i])) => Closed(FlattenSeq(u))}
<1>0. \A u \in Seq(Dies(n)) : FlattenSeq(u) \in Dies(n)
  BY FlattenType DEF Dies
<1>1. 0 \in T
  <2> SUFFICES ASSUME NEW u \in Seq(Dies(n)), Len(u) = 0 PROVE Closed(FlattenSeq(u))
    OBVIOUS
  <2>1. u = <<>>
    OBVIOUS
  <2> QED
    BY <2>1, FlattenEmpty, ReadEmpty DEF Closed, Takes
<1>2. ASSUME NEW m \in Nat, m \in T PROVE m + 1 \in T
  <2> SUFFICES ASSUME NEW u \in Seq(Dies(n)), Len(u) = m + 1, \A i \in DOMAIN u : Closed(u[i]) PROVE Closed(FlattenSeq(u))
    OBVIOUS
  <2>1. PICK v \in Seq(Dies(n)), x \in Dies(n) : u = Append(v, x)
    <3>1. u # <<>>
      OBVIOUS
    <3> QED
      BY <3>1, SequenceEmptyOrAppend
  <2>2. Len(v) = m /\ DOMAIN v \subseteq DOMAIN u /\ (\A i \in DOMAIN v : v[i] = u[i]) /\ u[m + 1] = x /\ m + 1 \in DOMAIN u
    BY <2>1
  <2>3. Closed(FlattenSeq(v)) /\ Closed(x)
    BY <1>2, <2>2
  <2>4. PICK w \in Dies(n) : w = FlattenSeq(v)
    BY <1>0
  <2>5. FlattenSeq(u) = w \o x
    BY <2>1, <2>4, FlattenAppend DEF Dies
  <2>6. ASSUME NEW p \in Nat \ {0} PROVE Takes(w \o x, p, p)
    <3>1. Takes(w, p, p) /\ Takes(x, p, p)
      BY <2>3, <2>4 DEF Closed
    <3> QED
      BY <3>1, TakesBoth
  <2> QED
    BY <2>5, <2>6 DEF Closed
<1>3. Nat \subseteq T
  <2> HIDE DEF T
  <2> QED
    BY <1>1, <1>2, AllNaturals
<1>4. Len(ss) \in Nat
  OBVIOUS
<1>5. Closed(FlattenSeq(ss))
  BY <1>3, <1>4
<1> QED
  BY <1>0, <1>5

LEMMA ReadFew ==
  ASSUME NEW X, NEW a \in X, NEW b \in X, NEW c \in X, NEW state
  PROVE  /\ ReadAll(state, <<a>>) = Read(state, a)
         /\ ReadAll(state, <<a, b>>) = Read(Read(state, a), b)
         /\ ReadAll(state, <<a, b, c>>) = Read(Read(Read(state, a), b), c)
<1>1. /\ <<>> \in Seq(X) /\ <<a>> \in Seq(X) /\ <<a, b>> \in Seq(X) /\ <<a>> = Append(<<>>, a)
      /\ <<a, b>> = Append(<<a>>, b) /\ <<a, b, c>> = Append(<<a, b>>, c)
  OBVIOUS
<1>2. PICK u, v, w \in Seq(X) : u = <<>> /\ v = <<a>> /\ w = <<a, b>>
  BY <1>1
<1>3. ReadAll(state, Append(u, a)) = Read(ReadAll(state, u), a)
  BY ReadAppend
<1>4. ReadAll(state, Append(v, b)) = Read(ReadAll(state, v), b)
  BY ReadAppend
<1>5. ReadAll(state, Append(w, c)) = Read(ReadAll(state, w), c)
  BY ReadAppend
<1> QED
  BY <1>1, <1>2, <1>3, <1>4, <1>5, ReadEmpty

-----------------------------------------------------------------------------
(***************************************************************************)
(* The getInfoEntry functions build whole DIEs: each attribute has the     *)
(* form its abbreviation announces and each subtree is closed.             *)
(***************************************************************************)
Whole(d, n) == d \in Dies(n) /\ Closed(d)

VarsTo(n)  == [id : Nat, type : 0 .. n - 1, size : Nat, lowPC : Nat, range : Nat]
MembersTo(n) == [type : 0 .. n - 1, bit : BOOLEAN, loc : Nat]
CellsTo(n) == [tag     : {"BASE", "VOID", "POINTER", "ARRAY", "STRUCTURE", "UNION"},
               ref     : 0 .. n - 1,
               bound   : Nat,
               members : Seq(MembersTo(n))]
FunctionsTo(n) == [lowPC : Nat, range : Nat, type : 0 .. n - 1 \union {NoSn},
                   args : Seq(VarsTo(n)), vars : Seq(VarsTo(n))]

\* What each form admits.
LEMMA Forming ==
  /\ \A d \in Nat : Fits("data2", Data(2, d)) /\ Fits("data1", Data(1, d)) /\ Fits("data4", Data(4, d))
  /\ \A s, d \in Nat : Fits("exprloc", Data(s, d))
  /\ \A d \in Nat : Fits("udata", Udata(d))
  /\ \A n \in Nat : \A sn \in 0 .. n - 1 : Fits("ref4", Ref4(sn))
  /\ \A s, d : Data(s, d).abbrev = NoAbbrev /\ Udata(d).abbrev = NoAbbrev /\ Ref4(s).abbrev = NoAbbrev
BY DEF Fits, Data, Udata, Ref4, Field, NoSn

\* A DIE of an abbreviation and one or two attributes.
LEMMA TakesFew ==
  ASSUME NEW n \in Nat, NEW a \in Abbrevs, NEW p \in Nat \ {0}, NEW q,
         q = p + (IF a \in HasChildren THEN 1 ELSE 0) - (IF a = "EndItem" THEN 1 ELSE 0),
         NEW f \in Fields(n), f.abbrev = NoAbbrev, NEW g \in Fields(n), g.abbrev = NoAbbrev
  PROVE  /\ Forms(a) = <<>> => Takes(<<Abbrev(a)>>, p, q)
         /\ \A x : Forms(a) = <<x>> /\ Fits(x, f) => Takes(<<Abbrev(a), f>>, p, q)
         /\ \A x, y : Forms(a) = <<x, y>> /\ Fits(x, f) /\ Fits(y, g) => Takes(<<Abbrev(a), f, g>>, p, q)
<1>1. Read(At(p), Abbrev(a)) = Awaits(Forms(a), q)
  BY ReadAbbrev
<1>2. Abbrev(a) \in Fields(n)
  BY FieldTypes
<1>3. /\ ReadAll(At(p), <<Abbrev(a)>>) = Read(At(p), Abbrev(a))
      /\ ReadAll(At(p), <<Abbrev(a), f>>) = Read(Read(At(p), Abbrev(a)), f)
      /\ ReadAll(At(p), <<Abbrev(a), f, g>>) = Read(Read(Read(At(p), Abbrev(a)), f), g)
  BY <1>2, ReadFew
<1>4. Forms(a) = <<>> => Takes(<<Abbrev(a)>>, p, q)
  BY <1>1, <1>3 DEF Takes, At
<1>5. ASSUME NEW x, Forms(a) = <<x>>, Fits(x, f) PROVE Takes(<<Abbrev(a), f>>, p, q)
  <2>1. PICK w : w = <<x>>
    OBVIOUS
  <2>2. w # <<>> /\ Head(w) = x /\ Tail(w) = <<>>
    BY <2>1
  <2>3. Read(Awaits(w, q), f) = Awaits(<<>>, q)
    BY <1>5, <2>2, ReadAttribute
  <2> QED
    BY <1>1, <1>3, <1>5, <2>1, <2>3 DEF Takes, At
<1>6. ASSUME NEW x, NEW y, Forms(a) = <<x, y>>, Fits(x, f), Fits(y, g) PROVE Takes(<<Abbrev(a), f, g>>, p, q)
  <2>1. PICK v, w : v = <<x, y>> /\ w = <<y>>
    OBVIOUS
  <2>2. v # <<>> /\ Head(v) = x /\ Tail(v) = w /\ w # <<>> /\ Head(w) = y /\ Tail(w) = <<>>
    BY <2>1
  <2>3. Read(Awaits(v, q), f) = Awaits(w, q)
    BY <1>6, <2>2, ReadAttribute
  <2>4. Read(Awaits(w, q), g) = Awaits(<<>>, q)
    BY <1>6, <2>2, ReadAttribute
  <2> QED
    BY <1>1, <1>3, <1>6, <2>1, <2>3, <2>4 DEF Takes, At
<1> QED
  BY <1>4, <1>5, <1>6

LEMMA EndTakes == ASSUME NEW p \in Nat \ {0} PROVE Takes(End, p, p - 1)
<1>1. "EndItem" \in Abbrevs /\ "EndItem" \notin HasChildren /\ Forms("EndItem") = <<>>
  BY DEF Abbrevs, HasChildren, Forms
<1>2. p - 1 = p + 0 - 1
  OBVIOUS
<1>3. 0 \in Nat /\ Data(1, 0) \in Fields(0) /\ Data(1, 0).abbrev = NoAbbrev
  BY FieldTypes, Forming
<1>4. Takes(<<Abbrev("EndItem")>>, p, p - 1)
  BY <1>1, <1>2, <1>3, TakesFew
<1> QED
  BY <1>4 DEF End

LEMMA VariableWhole ==
  ASSUME NEW n \in Nat, NEW v \in VarsTo(n), NEW a \in {"Variable", "Parameter"}
  PROVE  Whole(VariableShape(v, a), n)
<1>1. PICK f, g : f = Data(v.size, v.id) /\ g = Ref4(v.type)
  OBVIOUS
<1>2. v.size \in Nat /\ v.id \in Nat /\ v.type \in 0 .. n - 1
  BY DEF VarsTo
<1>3. f \in Fields(n) /\ g \in Fields(n) /\ f.abbrev = NoAbbrev /\ g.abbrev = NoAbbrev /\ Fits("exprloc", f) /\ Fits("ref4", g)
  BY <1>1, <1>2, FieldTypes, Forming
<1>4. a \in Abbrevs /\ a \notin HasChildren /\ a # "EndItem" /\ Forms(a) = <<"exprloc", "ref4">>
  BY DEF Abbrevs, HasChildren, Forms
<1>5. Abbrev(a) \in Fields(n)
  BY <1>4, FieldTypes
<1>6. VariableShape(v, a) = <<Abbrev(a), f, g>>
  BY <1>1 DEF VariableShape
<1>7. <<Abbrev(a), f, g>> \in Seq(Fields(n))
  BY <1>3, <1>5
<1>8. ASSUME NEW p \in Nat \ {0} PROVE Takes(<<Abbrev(a), f, g>>, p, p)
  <2>1. p = p + (IF a \in HasChildren THEN 1 ELSE 0) - (IF a = "EndItem" THEN 1 ELSE 0)
    BY <1>4
  <2> QED
    BY <1>3, <1>4, <2>1, TakesFew
<1> QED
  BY <1>6, <1>7, <1>8 DEF Whole, Closed, Dies

\* A DIE without children.
LEMMA LeafWhole ==
  ASSUME NEW n \in Nat, NEW a \in Abbrevs, a \notin HasChildren, a # "EndItem",
         NEW f \in Fields(n), f.abbrev = NoAbbrev, NEW g \in Fields(n), g.abbrev = NoAbbrev
  PROVE  /\ Forms(a) = <<>> => Whole(<<Abbrev(a)>>, n)
         /\ \A x : Forms(a) = <<x>> /\ Fits(x, f) => Whole(<<Abbrev(a), f>>, n)
         /\ \A x, y : Forms(a) = <<x, y>> /\ Fits(x, f) /\ Fits(y, g) => Whole(<<Abbrev(a), f, g>>, n)
<1>1. Abbrev(a) \in Fields(n)
  BY FieldTypes
<1>2. <<Abbrev(a)>> \in Seq(Fields(n)) /\ <<Abbrev(a), f>> \in Seq(Fields(n)) /\ <<Abbrev(a), f, g>> \in Seq(Fields(n))
  BY <1>1
<1>3. \A p \in Nat \ {0} : p = p + (IF a \in HasChildren THEN 1 ELSE 0) - (IF a = "EndItem" THEN 1 ELSE 0)
  OBVIOUS
<1>4. ASSUME NEW p \in Nat \ {0}
      PROVE  /\ Forms(a) = <<>> => Takes(<<Abbrev(a)>>, p, p)
             /\ \A x : Forms(a) = <<x>> /\ Fits(x, f) => Takes(<<Abbrev(a), f>>, p, p)
             /\ \A x, y : Forms(a) = <<x, y>> /\ Fits(x, f) /\ Fits(y, g) => Takes(<<Abbrev(a), f, g>>, p, p)
  BY <1>3, TakesFew
<1> QED
  BY <1>2, <1>4 DEF Whole, Closed, Dies

LEMMA MemberWhole ==
  ASSUME NEW n \in Nat, NEW m \in MembersTo(n)
  PROVE  Whole(MemberShape(m), n)
<1>1. PICK f, g : f = Udata(m.loc) /\ g = Ref4(m.type)
  OBVIOUS
<1>2. m.loc \in Nat /\ m.type \in 0 .. n - 1
  BY DEF MembersTo
<1>3. f \in Fields(n) /\ g \in Fields(n) /\ f.abbrev = NoAbbrev /\ g.abbrev = NoAbbrev /\ Fits("udata", f) /\ Fits("ref4", g)
  BY <1>1, <1>2, FieldTypes, Forming
<1>4. PICK a : a = IF m.bit THEN "BitLocMemberTYPE" ELSE "ByteLocMemberTYPE"
  OBVIOUS
<1>5. a \in Abbrevs /\ a \notin HasChildren /\ a # "EndItem" /\ Forms(a) = <<"udata", "ref4">>
  BY <1>4 DEF Abbrevs, HasChildren, Forms
<1>6. Whole(<<Abbrev(a), f, g>>, n)
  BY <1>3, <1>5, LeafWhole
<1> QED
  BY <1>1, <1>4, <1>6 DEF MemberShape

\* A DIE with its children, from its parts.
LEMMA TreeWhole ==
  ASSUME NEW n \in Nat, NEW d \in Dies(n), \A p \in Nat \ {0} : Takes(d, p, p + 1), NEW e, Whole(e, n)
  PROVE  Whole(d \o e \o End, n)
<1>1. e \in Dies(n) /\ End \in Dies(n)
  BY FieldTypes DEF Whole
<1>2. PICK u \in Dies(n) : u = d \o e
  BY <1>1, SizeConcat
<1>3. u \o End \in Dies(n)
  BY <1>1, SizeConcat
<1>4. ASSUME NEW p \in Nat \ {0} PROVE Takes(u \o End, p, p)
  <2>1. p + 1 \in Nat \ {0} /\ (p + 1) - 1 = p
    OBVIOUS
  <2>2. Takes(e, p + 1, p + 1) /\ Takes(End, p + 1, p)
    BY <2>1, EndTakes DEF Whole, Closed
  <2>3. Takes(u, p, p + 1)
    BY <1>1, <1>2, <2>2, TakesBoth
  <2> QED
    BY <1>1, <2>2, <2>3, TakesBoth
<1> QED
  BY <1>2, <1>3, <1>4 DEF Whole, Closed

LEMMA AggregateWhole ==
  ASSUME NEW n \in Nat, NEW c \in CellsTo(n), NEW a \in {"StructTYPE", "UnionType"}
  PROVE  Whole(AggregateShape(a, c), n)
<1>1. PICK f : f = Data(2, 0)
  OBVIOUS
<1>2. f \in Fields(n) /\ f.abbrev = NoAbbrev /\ Fits("data2", f)
  BY <1>1, FieldTypes, Forming
<1>3. a \in Abbrevs /\ a \in HasChildren /\ a # "EndItem" /\ Forms(a) = <<"data2">>
  BY DEF Abbrevs, HasChildren, Forms
<1>4. Abbrev(a) \in Fields(n)
  BY <1>3, FieldTypes
<1>5. <<Abbrev(a), f>> \in Dies(n)
  BY <1>2, <1>4 DEF Dies
<1>6. ASSUME NEW p \in Nat \ {0} PROVE Takes(<<Abbrev(a), f>>, p, p + 1)
  <2>1. p + 1 = p + (IF a \in HasChildren THEN 1 ELSE 0) - (IF a = "EndItem" THEN 1 ELSE 0)
    BY <1>3
  <2> QED
    BY <1>2, <1>3, <2>1, TakesFew
<1>7. PICK ms \in Seq(MembersTo(n)) : ms = c.members
  BY DEF CellsTo
<1>8. PICK ss : ss = [i \in DOMAIN ms |-> MemberShape(ms[i])]
  OBVIOUS
<1>9. \A i \in DOMAIN ss : ss[i] \in Dies(n) /\ Closed(ss[i])
  BY <1>8, MemberWhole DEF Whole
<1>10. ss \in Seq(Dies(n))
  <2>1. Len(ms) \in Nat /\ DOMAIN ss = 1 .. Len(ms)
    BY <1>8
  <2>2. ss \in [1 .. Len(ms) -> Dies(n)]
    BY <1>8, <1>9, <2>1
  <2> QED
    BY <2>1, <2>2
<1>11. Whole(FlattenSeq(ss), n)
  BY <1>9, <1>10, ClosedFlatten DEF Whole
<1>12. Whole(<<Abbrev(a), f>> \o FlattenSeq(ss) \o End, n)
  BY <1>5, <1>6, <1>11, TreeWhole
<1> QED
  BY <1>1, <1>7, <1>8, <1>12 DEF AggregateShape

LEMMA TypeWhole ==
  ASSUME NEW n \in Nat, NEW c \in CellsTo(n)
  PROVE  Whole(TypeShape(c), n)
<1>1. c.ref \in 0 .. n - 1 /\ c.bound \in Nat /\ c.tag \in {"BASE", "VOID", "POINTER", "ARRAY", "STRUCTURE", "UNION"}
  BY DEF CellsTo
<1>2. PICK f, g, h, i : f = Data(2, 0) /\ g = Data(1, 0) /\ h = Ref4(c.ref) /\ i = Udata(c.bound)
  OBVIOUS
<1>3. /\ f \in Fields(n) /\ g \in Fields(n) /\ h \in Fields(n) /\ i \in Fields(n)
      /\ f.abbrev = NoAbbrev /\ g.abbrev = NoAbbrev /\ h.abbrev = NoAbbrev /\ i.abbrev = NoAbbrev
      /\ Fits("data2", f) /\ Fits("data1", g) /\ Fits("ref4", h) /\ Fits("udata", i)
  BY <1>1, <1>2, FieldTypes, Forming
<1>4. /\ {"BaseType", "PointerType", "ArrayType", "VoidTYPE"} \subseteq Abbrevs \ HasChildren
      /\ Forms("BaseType") = <<"data2", "data1">> /\ Forms("PointerType") = <<"ref4">>
      /\ Forms("ArrayType") = <<"ref4", "udata">> /\ Forms("VoidTYPE") = <<>>
  BY DEF Abbrevs, HasChildren, Forms
<1>5. CASE c.tag = "BASE"
  <2>1. Whole(<<Abbrev("BaseType"), f, g>>, n)
    BY <1>3, <1>4, LeafWhole
  <2> QED
    BY <1>2, <1>5, <2>1 DEF TypeShape
<1>6. CASE c.tag = "POINTER"
  <2>1. Whole(<<Abbrev("PointerType"), h>>, n)
    BY <1>3, <1>4, LeafWhole
  <2> QED
    BY <1>2, <1>6, <2>1 DEF TypeShape
<1>7. CASE c.tag = "ARRAY"
  <2>1. Whole(<<Abbrev("ArrayType"), h, i>>, n)
    BY <1>3, <1>4, LeafWhole
  <2> QED
    BY <1>2, <1>7, <2>1 DEF TypeShape
<1>8. CASE c.tag = "VOID"
  <2>1. Whole(<<Abbrev("VoidTYPE")>>, n)
    BY <1>3, <1>4, LeafWhole
  <2> QED
    BY <1>8, <2>1 DEF TypeShape
<1>9. CASE c.tag = "STRUCTURE"
  BY <1>9, AggregateWhole DEF TypeShape
<1>10. CASE c.tag = "UNION"
  BY <1>10, AggregateWhole DEF TypeShape
<1> QED
  BY <1>1, <1>5, <1>6, <1>7, <1>8, <1>9, <1>10

\* A sequence of shapes, one for each index of a sequence.
LEMMA AllWhole ==
  ASSUME NEW n \in Nat, NEW m \in Nat, NEW ss, DOMAIN ss = 1 .. m, ss = [i \in 1 .. m |-> ss[i]],
         \A i \in 1 .. m : Whole(ss[i], n)
  PROVE  ss \in Seq(Dies(n)) /\ Whole(FlattenSeq(ss), n)
<1>1. ss \in [1 .. m -> Dies(n)]
  BY DEF Whole
<1>2. ss \in Seq(Dies(n))
  BY <1>1
<1> QED
  BY <1>2, ClosedFlatten DEF Whole

LEMMA EmptyWhole == ASSUME NEW n \in Nat PROVE Whole(<<>>, n)
<1>1. <<>> \in Dies(n)
  BY DEF Dies
<1> QED
  BY <1>1, ReadEmpty DEF Whole, Closed, Takes

LEMMA ParametersWhole ==
  ASSUME NEW n \in Nat, NEW vs \in Seq(VarsTo(n))
  PROVE  Whole(Parameters(vs), n)
<1>1. PICK m \in Nat : m = Len(vs)
  OBVIOUS
<1>2. PICK ss : ss = [i \in DOMAIN vs |-> VariableShape(vs[i], "Parameter")]
  OBVIOUS
<1>3. DOMAIN vs = 1 .. m /\ \A i \in 1 .. m : vs[i] \in VarsTo(n)
  BY <1>1
<1>4. \A i \in 1 .. m : Whole(ss[i], n)
  BY <1>2, <1>3, VariableWhole
<1>5. DOMAIN ss = 1 .. m /\ ss = [i \in 1 .. m |-> ss[i]]
  BY <1>2, <1>3
<1>6. Whole(FlattenSeq(ss), n)
  BY <1>4, <1>5, AllWhole
<1> QED
  BY <1>2, <1>6 DEF Parameters

LEMMA VariablesWhole ==
  ASSUME NEW n \in Nat, NEW vs \in Seq(VarsTo(n)), NEW r
  PROVE  Whole(VariablesOf(vs, r), n)
<1>1. PICK m \in Nat : m = Len(vs)
  OBVIOUS
<1>2. PICK ss : ss = [i \in DOMAIN vs |-> IF RangeOf(vs[i]) = r THEN VariableShape(vs[i], "Variable") ELSE <<>>]
  OBVIOUS
<1>3. DOMAIN vs = 1 .. m /\ \A i \in 1 .. m : vs[i] \in VarsTo(n)
  BY <1>1
<1>4. \A i \in 1 .. m : Whole(ss[i], n)
  BY <1>2, <1>3, VariableWhole, EmptyWhole
<1>5. DOMAIN ss = 1 .. m /\ ss = [i \in 1 .. m |-> ss[i]]
  BY <1>2, <1>3
<1>6. Whole(FlattenSeq(ss), n)
  BY <1>4, <1>5, AllWhole
<1> QED
  BY <1>2, <1>6 DEF VariablesOf

LEMMA BlockWhole ==
  ASSUME NEW n \in Nat, NEW vs \in Seq(VarsTo(n)), NEW r \in Nat \X Nat
  PROVE  Whole(BlockShape(r, vs), n)
<1>1. PICK f, g : f = Data(4, r[1]) /\ g = Data(4, r[2])
  OBVIOUS
<1>2. r[1] \in Nat /\ r[2] \in Nat
  OBVIOUS
<1>3. f \in Fields(n) /\ g \in Fields(n) /\ f.abbrev = NoAbbrev /\ g.abbrev = NoAbbrev /\ Fits("data4", f) /\ Fits("data4", g)
  BY <1>1, <1>2, FieldTypes, Forming
<1>4. "Block" \in Abbrevs /\ "Block" \in HasChildren /\ Forms("Block") = <<"data4", "data4">>
  BY DEF Abbrevs, HasChildren, Forms
<1>5. Abbrev("Block") \in Fields(n)
  BY <1>4, FieldTypes
<1>6. <<Abbrev("Block"), f, g>> \in Dies(n)
  BY <1>3, <1>5 DEF Dies
<1>7. ASSUME NEW p \in Nat \ {0} PROVE Takes(<<Abbrev("Block"), f, g>>, p, p + 1)
  <2>1. p + 1 = p + (IF "Block" \in HasChildren THEN 1 ELSE 0) - (IF "Block" = "EndItem" THEN 1 ELSE 0)
    BY <1>4
  <2> QED
    BY <1>3, <1>4, <2>1, TakesFew
<1>8. Whole(VariablesOf(vs, r), n)
  BY VariablesWhole
<1>9. Whole(<<Abbrev("Block"), f, g>> \o VariablesOf(vs, r) \o End, n)
  BY <1>6, <1>7, <1>8, TreeWhole
<1> QED
  BY <1>1, <1>9 DEF BlockShape

\* The ranges of the blocks of a function.
RangesIn(f, vs) == {RangeOf(vs[i]) : i \in DOMAIN vs} \ {RangeOf(f)}

LEMMA RangesType ==
  ASSUME NEW n \in Nat, NEW vs \in Seq(VarsTo(n)), NEW f
  PROVE  /\ IsFiniteSet(RangesIn(f, vs)) /\ RangesIn(f, vs) \subseteq Nat \X Nat
         /\ Enumerates(InOrder(RangesIn(f, vs)), RangesIn(f, vs)) /\ Cardinality(RangesIn(f, vs)) \in Nat
<1>1. PICK R : R = {RangeOf(vs[i]) : i \in DOMAIN vs}
  OBVIOUS
<1>2. IsFiniteSet(R)
  BY <1>1, RangesFinite
<1>3. R \subseteq Nat \X Nat
  <2>1. \A i \in DOMAIN vs : vs[i] \in VarsTo(n)
    OBVIOUS
  <2>2. \A v \in VarsTo(n) : RangeOf(v) \in Nat \X Nat
    BY DEF RangeOf, VarsTo
  <2> QED
    BY <1>1, <2>1, <2>2
<1>4. PICK Q : Q = RangesIn(f, vs)
  OBVIOUS
<1>5. Q \subseteq R
  BY <1>1, <1>4 DEF RangesIn
<1>6. IsFiniteSet(Q) /\ Q \subseteq Nat \X Nat
  BY <1>2, <1>3, <1>5, FS_Subset
<1>7. Enumerates(InOrder(Q), Q) /\ Cardinality(Q) \in Nat
  BY <1>6, Iterated
<1> QED
  BY <1>4, <1>6, <1>7

LEMMA BlocksWhole ==
  ASSUME NEW n \in Nat, NEW vs \in Seq(VarsTo(n)), NEW f
  PROVE  Whole(Blocks(f, vs), n)
<1>1. PICK Q, q : Q = RangesIn(f, vs) /\ q = InOrder(Q)
  OBVIOUS
<1>2. PICK m \in Nat : m = Cardinality(Q)
  BY <1>1, RangesType
<1>3. q \in [1 .. m -> Q] /\ Q \subseteq Nat \X Nat
  BY <1>1, <1>2, RangesType DEF Enumerates
<1>4. PICK ss : ss = [i \in DOMAIN q |-> BlockShape(q[i], vs)]
  OBVIOUS
<1>5. \A i \in 1 .. m : Whole(ss[i], n)
  BY <1>3, <1>4, BlockWhole
<1>6. DOMAIN ss = 1 .. m /\ ss = [i \in 1 .. m |-> ss[i]]
  BY <1>3, <1>4
<1>7. Whole(FlattenSeq(ss), n)
  BY <1>5, <1>6, AllWhole
<1> QED
  BY <1>1, <1>4, <1>7 DEF Blocks, RangesIn

\* Its abbreviation and attributes.
Sub(f)  == f.args # <<>> \/ f.vars # <<>>
Kind(f) ==
  CASE Sub(f) /\ f.type = NoSn      -> "FuncVoidWithSubNode"
    [] Sub(f) /\ ~ f.type = NoSn    -> "FuncWithSubNode"
    [] ~ Sub(f) /\ f.type = NoSn    -> "FuncVoidWithoutSubNode"
    [] ~ Sub(f) /\ ~ f.type = NoSn  -> "FuncWithoutSubNode"
HeadOf(f) ==
  <<Abbrev(Kind(f)), Data(4, f.lowPC), Data(4, f.range)>> \o (IF f.type = NoSn THEN <<>> ELSE <<Ref4(f.type)>>)

LEMMA FunctionIs ==
  ASSUME NEW f
  PROVE  FunctionShape(f) = HeadOf(f) \o (IF Sub(f) THEN Parameters(f.args) \o VariablesOf(f.vars, RangeOf(f)) \o Blocks(f, f.vars) \o End
                                                    ELSE <<>>)
BY DEF FunctionShape, HeadOf, Kind, Sub

LEMMA HeadTakes ==
  ASSUME NEW n \in Nat, NEW f \in FunctionsTo(n)
  PROVE  HeadOf(f) \in Dies(n) /\ \A p \in Nat \ {0} : Takes(HeadOf(f), p, IF Sub(f) THEN p + 1 ELSE p)
<1>1. PICK a, x, y, z : a = Kind(f) /\ x = Data(4, f.lowPC) /\ y = Data(4, f.range) /\ z = Ref4(f.type)
  OBVIOUS
<1>2. f.lowPC \in Nat /\ f.range \in Nat /\ (f.type # NoSn => f.type \in 0 .. n - 1)
  BY DEF FunctionsTo
<1>3. /\ x \in Fields(n) /\ y \in Fields(n) /\ x.abbrev = NoAbbrev /\ y.abbrev = NoAbbrev /\ z.abbrev = NoAbbrev
      /\ Fits("data4", x) /\ Fits("data4", y) /\ (f.type # NoSn => z \in Fields(n) /\ Fits("ref4", z))
  BY <1>1, <1>2, FieldTypes, Forming
<1>4. /\ a \in Abbrevs /\ a # "EndItem" /\ (a \in HasChildren <=> Sub(f))
      /\ Forms(a) = IF f.type = NoSn THEN <<"data4", "data4">> ELSE <<"data4", "data4", "ref4">>
  BY <1>1 DEF Kind, Abbrevs, HasChildren, Forms
<1>5. Abbrev(a) \in Fields(n)
  BY <1>4, FieldTypes
<1>6. <<Abbrev(a), x, y>> \in Dies(n)
  BY <1>3, <1>5 DEF Dies
<1>7. ASSUME NEW p \in Nat \ {0}
      PROVE  p + (IF a \in HasChildren THEN 1 ELSE 0) - (IF a = "EndItem" THEN 1 ELSE 0) = IF Sub(f) THEN p + 1 ELSE p
  BY <1>4
<1>8. CASE f.type = NoSn
  <2>1. HeadOf(f) = <<Abbrev(a), x, y>>
    <3>1. HeadOf(f) = <<Abbrev(a), x, y>> \o <<>>
      BY <1>1, <1>8 DEF HeadOf
    <3>2. \A u \in Dies(n) : u \o <<>> = u
      BY DEF Dies
    <3> QED
      BY <1>6, <3>1, <3>2
  <2>2. ASSUME NEW p \in Nat \ {0} PROVE Takes(<<Abbrev(a), x, y>>, p, IF Sub(f) THEN p + 1 ELSE p)
    BY <1>3, <1>4, <1>7, <1>8, TakesFew
  <2> QED
    BY <1>6, <2>1, <2>2
<1>9. CASE f.type # NoSn
  <2>1. z \in Fields(n) /\ Fits("ref4", z)
    BY <1>3, <1>9
  <2>2. PICK u \in Dies(n) : u = <<Abbrev(a), x, y>>
    BY <1>6
  <2>3. PICK v \in Dies(n) : v = <<z>>
    <3>1. <<z>> \in Seq(Fields(n))
      BY <2>1
    <3> QED
      BY <3>1 DEF Dies
  <2>4. HeadOf(f) = u \o v /\ u \o v \in Dies(n)
    BY <1>1, <1>9, <2>2, <2>3 DEF HeadOf, Dies
  <2>5. ASSUME NEW p \in Nat \ {0}, NEW q, q = IF Sub(f) THEN p + 1 ELSE p PROVE Takes(u \o v, p, q)
    <3>1. Read(At(p), Abbrev(a)) = Awaits(<<"data4", "data4", "ref4">>, q)
      BY <1>4, <1>7, <1>9, <2>5, ReadAbbrev
    <3>2. PICK w, w2, w3 : w = <<"data4", "data4", "ref4">> /\ w2 = <<"data4", "ref4">> /\ w3 = <<"ref4">>
      OBVIOUS
    <3>3. /\ w # <<>> /\ Head(w) = "data4" /\ Tail(w) = w2 /\ w2 # <<>> /\ Head(w2) = "data4" /\ Tail(w2) = w3
          /\ w3 # <<>> /\ Head(w3) = "ref4" /\ Tail(w3) = <<>>
      BY <3>2
    <3>4. Read(Awaits(w, q), x) = Awaits(w2, q) /\ Read(Awaits(w2, q), y) = Awaits(w3, q) /\ Read(Awaits(w3, q), z) = Awaits(<<>>, q)
      BY <1>3, <2>1, <3>3, ReadAttribute
    <3>5. ReadAll(At(p), u) = Read(Read(Read(At(p), Abbrev(a)), x), y)
      <4>0. x \in Fields(n) /\ y \in Fields(n)
        BY <1>3
      <4>1. /\ ReadAll(At(p), <<Abbrev(a)>>) = Read(At(p), Abbrev(a))
            /\ ReadAll(At(p), <<Abbrev(a), x>>) = Read(Read(At(p), Abbrev(a)), x)
            /\ ReadAll(At(p), <<Abbrev(a), x, y>>) = Read(Read(Read(At(p), Abbrev(a)), x), y)
        BY <1>5, <4>0, ReadFew
      <4> QED
        BY <2>2, <4>1
    <3>6. ReadAll(At(p), u) = Awaits(w3, q)
      BY <3>1, <3>2, <3>4, <3>5
    <3>7. ReadAll(Awaits(w3, q), v) = Awaits(<<>>, q)
      <4>1. ReadAll(Awaits(w3, q), v) = Read(Awaits(w3, q), z)
        <5>0. z \in Fields(n)
          BY <2>1
        <5>1. /\ ReadAll(Awaits(w3, q), <<z>>) = Read(Awaits(w3, q), z)
              /\ ReadAll(Awaits(w3, q), <<z, z>>) = Read(Read(Awaits(w3, q), z), z)
              /\ ReadAll(Awaits(w3, q), <<z, z, z>>) = Read(Read(Read(Awaits(w3, q), z), z), z)
          BY <5>0, ReadFew
        <5> QED
          BY <2>3, <5>1
      <4> QED
        BY <3>4, <4>1
    <3>8. ReadAll(At(p), u \o v) = ReadAll(ReadAll(At(p), u), v)
      BY ReadConcat DEF Dies
    <3> QED
      BY <3>6, <3>7, <3>8 DEF Takes, At
  <2> QED
    BY <2>4, <2>5
<1> QED
  BY <1>8, <1>9

LEMMA FunctionWhole ==
  ASSUME NEW n \in Nat, NEW f \in FunctionsTo(n)
  PROVE  Whole(FunctionShape(f), n)
<1>1. PICK h \in Dies(n) : h = HeadOf(f)
  BY HeadTakes
<1>2. PICK as, vs : as = f.args /\ vs = f.vars /\ as \in Seq(VarsTo(n)) /\ vs \in Seq(VarsTo(n))
  BY DEF FunctionsTo
<1>3. PICK u, v, w : u = Parameters(as) /\ v = VariablesOf(vs, RangeOf(f)) /\ w = Blocks(f, vs)
  OBVIOUS
<1>4. Whole(u, n) /\ Whole(v, n) /\ Whole(w, n)
  BY <1>2, <1>3, ParametersWhole, VariablesWhole, BlocksWhole
<1>5. CASE Sub(f)
  <2>1. Whole(u \o v \o w, n)
    <3>1. u \in Dies(n) /\ v \in Dies(n) /\ w \in Dies(n)
      BY <1>4 DEF Whole
    <3>2. PICK x \in Dies(n) : x = u \o v
      BY <3>1, SizeConcat
    <3>3. x \o w \in Dies(n)
      BY <3>1, SizeConcat
    <3>4. ASSUME NEW p \in Nat \ {0} PROVE Takes(x \o w, p, p)
      <4>1. Takes(u, p, p) /\ Takes(v, p, p) /\ Takes(w, p, p)
        BY <1>4 DEF Whole, Closed
      <4>2. Takes(x, p, p)
        BY <3>1, <3>2, <4>1, TakesBoth
      <4> QED
        BY <3>1, <4>1, <4>2, TakesBoth
    <3> QED
      BY <3>2, <3>3, <3>4 DEF Whole, Closed
  <2>2. \A p \in Nat \ {0} : Takes(h, p, p + 1)
    BY <1>1, <1>5, HeadTakes
  <2>3. PICK y : y = u \o v \o w
    OBVIOUS
  <2>4. Whole(h \o y \o End, n)
    BY <2>1, <2>2, <2>3, TreeWhole
  <2>5. FunctionShape(f) = h \o (y \o End)
    BY <1>1, <1>2, <1>3, <1>5, <2>3, FunctionIs
  <2>6. h \o (y \o End) = (h \o y) \o End
    <3>1. y \in Seq(Fields(n)) /\ h \in Seq(Fields(n)) /\ End \in Seq(Fields(n))
      BY <2>1, <2>3, FieldTypes DEF Whole, Dies
    <3> QED
      BY SMTT(60), <3>1, ConcatAssociative
  <2> QED
    BY <2>4, <2>5, <2>6
<1>6. CASE ~ Sub(f)
  <2>1. FunctionShape(f) = h
    <3>1. FunctionShape(f) = h \o <<>>
      BY <1>1, <1>6, FunctionIs
    <3> QED
      BY <3>1 DEF Dies
  <2> QED
    BY <1>1, <1>6, <2>1, HeadTakes DEF Whole, Closed
<1> QED
  BY <1>5, <1>6

-----------------------------------------------------------------------------
(***************************************************************************)
(* getInfoEntry with the offsets: the fields have the sizes they had       *)
(* without, and read the same.                                             *)
(***************************************************************************)
LEMMA ReadAlike ==
  ASSUME NEW X, NEW d \in Seq(X), NEW e \in Seq(X), Len(e) = Len(d), Alike(d, e, Len(d)), NEW state
  PROVE  ReadAll(state, d) = ReadAll(state, e)
<1>1. PICK n \in Nat : n = Len(d)
  OBVIOUS
<1>2. DOMAIN d = 1 .. n /\ DOMAIN e = 1 .. n /\ Alike(d, e, n) /\ n <= n
  BY <1>1
<1>3. PICK it : it = CHOOSE jt : Reads(jt, d, state, 1 .. n)
  OBVIOUS
<1>4. PICK jt : jt = CHOOSE kt : Reads(kt, e, state, 1 .. n)
  OBVIOUS
<1>5. Reads(it, d, state, 1 .. n) /\ ReadAll(state, d) = it[1 .. n]
  BY <1>2, <1>3, ReaderDefined, ReadAllIs
<1>6. Reads(jt, e, state, 1 .. n) /\ ReadAll(state, e) = jt[1 .. n]
  BY <1>2, <1>4, ReaderDefined, ReadAllIs
<1>7. SameReads(it, jt, n)
  BY <1>2, <1>5, <1>6, ReadAgree
<1> QED
  BY <1>5, <1>6, <1>7 DEF SameReads

LEMMA Filled ==
  ASSUME NEW n \in Nat, NEW d \in Dies(n), loc \in [1 .. n -> Nat]
  PROVE  /\ InfoEntry(d) \in Dies(n) /\ Len(InfoEntry(d)) = Len(d) /\ Size(InfoEntry(d)) = Size(d)
         /\ \A i \in 1 .. Len(d) : /\ InfoEntry(d)[i].target = d[i].target
                                   /\ d[i].target # NoSn => InfoEntry(d)[i].data = loc[d[i].target + 1] % Limit
         /\ Closed(d) => Closed(InfoEntry(d))
<1>1. PICK e : e = InfoEntry(d)
  OBVIOUS
<1>2. PICK m \in Nat : m = Len(d)
  BY DEF Dies
<1>3. DOMAIN d = 1 .. m /\ \A i \in 1 .. m : d[i] \in Fields(n)
  BY <1>2 DEF Dies
<1>4. e = [i \in 1 .. m |-> [d[i] EXCEPT !.data = IF d[i].target = NoSn THEN d[i].data ELSE loc[d[i].target + 1] % Limit]]
  BY <1>1, <1>3 DEF InfoEntry
<1>5. ASSUME NEW f \in Fields(n), NEW x, x = (IF f.target = NoSn THEN f.data ELSE loc[f.target + 1] % Limit),
             NEW g, g = [f EXCEPT !.data = x]
      PROVE  /\ g \in Fields(n) /\ g.size = f.size /\ g.target = f.target
             /\ f.target # NoSn => g.data = loc[f.target + 1] % Limit
             /\ \A state : Read(state, f) = Read(state, g)
  <2>1. f.abbrev \in Abbrevs \union {NoAbbrev} /\ f.size \in Nat /\ f.target \in 0 .. n - 1 \union {NoSn} /\ f.data \in Nat
    BY DEF Fields
  <2>2. x \in Nat
    <3>1. CASE f.target = NoSn
      BY <1>5, <2>1, <3>1
    <3>2. CASE f.target # NoSn
      <4>1. f.target + 1 \in 1 .. n
        BY <2>1, <3>2
      <4>2. loc[f.target + 1] \in Nat /\ Limit \in Nat \ {0}
        BY <4>1, LimitAssumption
      <4>3. \A a \in Nat : \A b \in Nat \ {0} : a % b \in Nat
        OBVIOUS
      <4>4. loc[f.target + 1] % Limit \in Nat
        BY <4>2, <4>3
      <4> QED
        BY <1>5, <3>2, <4>4
    <3> QED
      BY <3>1, <3>2
  <2>3. g \in Fields(n) /\ g.size = f.size /\ g.target = f.target /\ g.abbrev = f.abbrev /\ g.data = x
    BY <1>5, <2>1, <2>2 DEF Fields
  <2>4. f.target = NoSn => g.data = f.data
    BY <1>5, <2>3
  <2>5. \A form : Fits(form, f) = Fits(form, g)
    BY <2>3, <2>4 DEF Fits
  <2>6. \A state : Read(state, f) = Read(state, g)
    BY <2>3, <2>5 DEF Read
  <2> QED
    BY <1>5, <2>3, <2>6
<1>6. ASSUME NEW i \in 1 .. m
      PROVE  /\ e[i] \in Fields(n) /\ e[i].size = d[i].size /\ e[i].target = d[i].target
             /\ d[i].target # NoSn => e[i].data = loc[d[i].target + 1] % Limit
             /\ \A state : Read(state, d[i]) = Read(state, e[i])
  <2>1. PICK f \in Fields(n) : f = d[i]
    BY <1>3
  <2>2. PICK x : x = IF f.target = NoSn THEN f.data ELSE loc[f.target + 1] % Limit
    OBVIOUS
  <2>3. PICK g : g = [f EXCEPT !.data = x]
    OBVIOUS
  <2>4. e[i] = g
    BY <1>4, <2>1, <2>2, <2>3
  <2>5. /\ g \in Fields(n) /\ g.size = f.size /\ g.target = f.target
        /\ f.target # NoSn => g.data = loc[f.target + 1] % Limit
        /\ \A state : Read(state, f) = Read(state, g)
    BY <1>5, <2>2, <2>3
  <2> QED
    BY <2>1, <2>4, <2>5
<1>7. e \in Seq(Fields(n)) /\ Len(e) = m /\ DOMAIN e = 1 .. m
  <2>1. e \in [1 .. m -> Fields(n)]
    BY <1>4, <1>6
  <2> QED
    BY <1>4, <2>1
<1>8. Size(e) = Size(d)
  <2>1. Sizes(e) = Sizes(d)
    BY <1>3, <1>6, <1>7 DEF Sizes
  <2> QED
    BY <1>7, <2>1, SizesType DEF Dies
<1>9. Alike(d, e, m)
  BY <1>6 DEF Alike
<1>10. \A state : ReadAll(state, d) = ReadAll(state, e)
  BY <1>2, <1>7, <1>9, ReadAlike DEF Dies
<1>11. Closed(d) => Closed(e)
  BY <1>10 DEF Closed, Takes
<1> QED
  BY <1>1, <1>2, <1>6, <1>7, <1>8, <1>11 DEF Dies

-----------------------------------------------------------------------------
(***************************************************************************)
(* The header as it is written has the size it was given.                  *)
(***************************************************************************)
LEMMA TotalFew ==
  ASSUME NEW a \in Nat, NEW b \in Nat, NEW c \in Nat
  PROVE  /\ <<a>> \in Seq(Nat) /\ <<a, b>> \in Seq(Nat) /\ <<a, b, c>> \in Seq(Nat)
         /\ Total(0, <<a>>) = a /\ Total(0, <<a, b>>) = a + b /\ Total(0, <<a, b, c>>) = a + b + c
<1>1. /\ <<>> \in Seq(Nat) /\ <<a>> \in Seq(Nat) /\ <<a, b>> \in Seq(Nat) /\ <<a>> = Append(<<>>, a)
      /\ <<a, b>> = Append(<<a>>, b) /\ <<a, b, c>> = Append(<<a, b>>, c) /\ <<a, b, c>> \in Seq(Nat)
  OBVIOUS
<1>2. PICK u, v, w \in Seq(Nat) : u = <<>> /\ v = <<a>> /\ w = <<a, b>>
  BY <1>1
<1>3. Total(0, Append(u, a)) = Total(0, u) + a
  BY TotalAppend
<1>4. Total(0, Append(v, b)) = Total(0, v) + b
  BY TotalAppend
<1>5. Total(0, Append(w, c)) = Total(0, w) + c
  BY TotalAppend
<1>6. Total(0, u) = 0
  BY <1>2, TotalEmpty
<1>7. Total(0, v) = a
  BY <1>1, <1>2, <1>3, <1>6
<1>8. Total(0, w) = a + b
  BY <1>1, <1>2, <1>4, <1>7
<1>9. Total(0, <<a, b, c>>) = a + b + c
  BY <1>1, <1>2, <1>5, <1>8
<1> QED
  BY <1>1, <1>2, <1>7, <1>8, <1>9

LEMMA TopSize == Size(Top) \in Nat
<1>1. Top = <<Abbrev("Producer"), Data(23, 0)>>
  BY DEF Top
<1>2. Abbrev("Producer").size = 1 /\ Data(23, 0).size = 23
  BY DEF Abbrev, Data, Field
<1>3. Sizes(Top) \in [1 .. 2 -> Nat]
  BY <1>1, <1>2 DEF Sizes
<1>4. Sizes(Top) \in Seq(Nat)
  <2>1. \A m \in Nat : \A s \in [1 .. m -> Nat] : s \in Seq(Nat)
    OBVIOUS
  <2>2. 2 \in Nat
    OBVIOUS
  <2> QED
    BY <1>3, <2>1, <2>2
<1>5. Size(Top) = Total(0, Sizes(Top))
  BY DEF Size, Sizes, Total
<1> QED
  BY <1>4, <1>5, TotalType

LEMMA HeaderExact ==
  ASSUME NEW h, h.bitWidth \in {32, 64}, h.version \in {4, 5}
  PROVE  /\ HeaderFields(h) \in Seq(Nat) /\ HeaderSize(h) \in Nat
         /\ Total(0, HeaderFields(h)) = HeaderSize(h) /\ LengthSize(h) \in Nat
<1>1. PICK word \in Nat : word = IF h.bitWidth = 64 THEN 8 ELSE 4
  OBVIOUS
<1>a. PICK a : a = IF h.bitWidth = 64 THEN <<4, 8>> ELSE <<4>>
  OBVIOUS
<1>2. a \in Seq(Nat) /\ Total(0, a) = IF h.bitWidth = 64 THEN 12 ELSE 4
  <2>1. <<4, 8>> \in Seq(Nat) /\ <<4>> \in Seq(Nat) /\ Total(0, <<4, 8>>) = 4 + 8 /\ Total(0, <<4>>) = 4
    <3>1. 4 \in Nat /\ 8 \in Nat
      OBVIOUS
    <3> QED
      BY ZenonT(60), <3>1, TotalFew
  <2> QED
    BY <1>a, <2>1
<1>3. PICK b \in Seq(Nat) : b = <<2>> /\ Total(0, b) = 2
  <2>1. 2 \in Nat
    OBVIOUS
  <2> QED
    BY <2>1, TotalFew
<1>c. PICK c : c = IF h.version = 4 THEN <<word, 1>> ELSE <<1, 1, word>>
  OBVIOUS
<1>4. c \in Seq(Nat) /\ Total(0, c) = IF h.version = 4 THEN word + 1 ELSE word + 2
  <2>1. /\ <<word, 1>> \in Seq(Nat) /\ <<1, 1, word>> \in Seq(Nat)
        /\ Total(0, <<word, 1>>) = word + 1 /\ Total(0, <<1, 1, word>>) = 1 + 1 + word
    <3>1. 1 \in Nat
      OBVIOUS
    <3> QED
      BY ZenonT(60), <3>1, TotalFew
  <2> QED
    BY <1>c, <2>1
<1>d. PICK d : d = IF h.version = 4 THEN <<>>
                   ELSE IF h.unitType \in Skeleton THEN <<8>> ELSE IF h.unitType = "type" THEN <<8, 8>> ELSE <<>>
  OBVIOUS
<1>5. d \in Seq(Nat) /\ Total(0, d) = IF h.version = 4 THEN 0
                                       ELSE IF h.unitType \in Skeleton THEN 8 ELSE IF h.unitType = "type" THEN 16 ELSE 0
  <2>1. Total(0, <<>>) = 0 /\ <<>> \in Seq(Nat)
    BY TotalEmpty
  <2>2. Total(0, <<8>>) = 8 /\ Total(0, <<8, 8>>) = 8 + 8 /\ <<8>> \in Seq(Nat) /\ <<8, 8>> \in Seq(Nat)
    <3>1. 8 \in Nat
      OBVIOUS
    <3> QED
      BY ZenonT(60), <3>1, TotalFew
  <2> QED
    BY <1>d, <2>1, <2>2
<1>6. HeaderFields(h) = (a \o b) \o (c \o d)
  <2>1. CASE h.version = 4
    <3>1. c = <<word, 1>> /\ d = <<>> /\ c \o d = c
      BY <1>4, <1>c, <1>d, <2>1
    <3>2. HeaderFields(h) = a \o b \o <<word, 1>>
      BY <1>1, <1>a, <1>3, <2>1 DEF HeaderFields
    <3> QED
      BY <3>1, <3>2
  <2>2. CASE h.version # 4
    <3>1. c = <<1, 1, word>> /\ d = IF h.unitType \in Skeleton THEN <<8>>
                                    ELSE IF h.unitType = "type" THEN <<8, 8>> ELSE <<>>
      BY <1>c, <1>d, <2>2
    <3>2. HeaderFields(h) = a \o b \o (<<1, 1, word>> \o (IF h.unitType \in Skeleton THEN <<8>>
                                                      ELSE IF h.unitType = "type" THEN <<8, 8>> ELSE <<>>))
      BY <1>1, <1>a, <1>3, <2>2 DEF HeaderFields
    <3> QED
      BY <3>1, <3>2
  <2> QED
    BY <2>1, <2>2
<1>7. PICK u \in Seq(Nat) : u = a \o b
  <2>1. a \o b \in Seq(Nat)
    BY <1>2
  <2> QED
    BY <2>1
<1>8. PICK v \in Seq(Nat) : v = c \o d
  <2>1. c \o d \in Seq(Nat)
    BY <1>4, <1>5
  <2> QED
    BY <2>1
<1>9. Total(0, a \o b) = Total(0, a) + Total(0, b) /\ Total(0, c \o d) = Total(0, c) + Total(0, d)
  BY <1>2, <1>4, <1>5, TotalConcat
<1>10. Total(0, u \o v) = Total(0, u) + Total(0, v) /\ u \o v \in Seq(Nat)
  BY TotalConcat
<1>11. HeaderSize(h) = (IF h.bitWidth = 64 THEN 12 ELSE 4) + 2 + (IF h.version = 4 THEN word + 1 ELSE word + 2)
                          + IF h.version = 4 THEN 0
                            ELSE IF h.unitType \in Skeleton THEN 8 ELSE IF h.unitType = "type" THEN 16 ELSE 0
  BY <1>1 DEF HeaderSize
<1>12. Total(0, u \o v) = HeaderSize(h)
  BY <1>2, <1>3, <1>4, <1>5, <1>7, <1>8, <1>9, <1>10, <1>11
<1>13. Total(0, u \o v) \in Nat
  BY <1>10, TotalType
<1>14. HeaderFields(h) = u \o v
  BY <1>6, <1>7, <1>8
<1> QED
  BY <1>10, <1>12, <1>13, <1>14 DEF LengthSize

-----------------------------------------------------------------------------
(***************************************************************************)
(* What the run knows: the types are placed one after the other, in the    *)
(* sizes their DIEs have whatever the offsets in them, and the children    *)
(* are written in the order in which the types were placed.                *)
(***************************************************************************)
N == Len(Cells)
F == Len(prog.functions)
G == Len(prog.globals)
Base == HeaderSize(prog.header) + Size(Top)

\* The n-th child but the end item.
Shape(n) ==
  IF n <= N THEN TypeShape(Cells[n])
  ELSE IF n <= N + F THEN FunctionShape(prog.functions[n - N])
  ELSE VariableShape(prog.globals[n - N - F], "Variable")

\* The offset after the first n types.
After(n) == IF n = 0 THEN Base ELSE loc[n] + Size(TypeShape(Cells[n]))
Laid(n)  == \A i \in 1 .. n : loc[i] = After(i - 1)

\* The children built so far.
Count ==
  CASE pc = "place" -> 0
    [] pc = "types" -> k - 1
    [] pc = "functions" -> N + k - 1
    [] pc = "globals" -> N + F + k - 1
    [] pc = "close" -> N + F + G
    [] pc \in {"header", "top", "write", "done"} -> N + F + G + 1

Types ==
  /\ prog \in Programs /\ pc \in PC /\ k \in Nat \ {0}
  /\ DWARFloc \in Nat /\ loc \in [1 .. N -> Nat]
  /\ children \in Seq(Dies(N))
  /\ length \in Int /\ offset \in Nat /\ starts \in Seq(Nat)
Bounds ==
  /\ pc = "place" => k <= N + 1
  /\ pc = "types" => k <= N + 1
  /\ pc = "functions" => k <= F + 1
  /\ pc = "globals" => k <= G + 1
  /\ pc \in {"close", "header", "top", "done"} => k = 1
  /\ pc = "write" => k <= N + F + G + 2
Placing ==
  /\ pc = "place" => Laid(k - 1) /\ DWARFloc = After(k - 1)
  /\ pc # "place" => Laid(N)
Built ==
  /\ Len(children) = Count
  /\ \A n \in 1 .. Count : children[n] = IF n = N + F + G + 1 THEN End ELSE InfoEntry(Shape(n))
Lengths ==
  /\ pc \in {"header", "top", "write", "done"} =>
       length = Base + Size(FlattenSeq(children)) - LengthSize(prog.header)
  /\ pc \in {"place", "types", "functions", "globals", "close", "header"} => offset = 0
  /\ pc = "top" => offset = HeaderSize(prog.header)
  /\ pc = "write" => offset = Base + Size(FlattenSeq(SubSeq(children, 1, k - 1)))
  /\ pc = "done" => offset = Base + Size(FlattenSeq(children))
Starting ==
  /\ Len(starts) = (IF pc = "write" THEN k - 1 ELSE IF pc = "done" THEN N + F + G + 1 ELSE 0)
  /\ \A n \in 1 .. N : n <= Len(starts) => starts[n] = loc[n]
  /\ pc = "write" /\ k - 1 <= N => offset = After(k - 1)

Inv == Types /\ Bounds /\ Placing /\ Built /\ Lengths /\ Starting

LEMMA SamePlan ==
  ASSUME prog' = prog
  PROVE  /\ N' = N /\ F' = F /\ G' = G /\ Base' = Base
         /\ \A n : Shape(n)' = Shape(n)
         /\ HeaderSize(prog.header)' = HeaderSize(prog.header) /\ LengthSize(prog.header)' = LengthSize(prog.header)
BY DEF N, F, G, Base, Shape, Cells

LEMMA SameEntries ==
  ASSUME prog' = prog, loc' = loc
  PROVE  /\ \A d : InfoEntry(d)' = InfoEntry(d)
         /\ \A n : InfoEntry(Shape(n))' = InfoEntry(Shape(n))
         /\ \A n : After(n)' = After(n) /\ \A m : Laid(m)' <=> Laid(m)
<1>1. \A d : InfoEntry(d)' = InfoEntry(d)
  BY DEF InfoEntry
<1>2. \A n : InfoEntry(Shape(n))' = InfoEntry(Shape(n))
  BY SamePlan DEF InfoEntry
<1>3. \A n : After(n)' = After(n)
  BY SamePlan DEF After, Cells
<1>4. \A m : Laid(m)' <=> Laid(m)
  BY <1>3 DEF Laid
<1> QED
  BY <1>1, <1>2, <1>3, <1>4

\* What the earlier steps hand over, in a state.
LEMMA Handed ==
  ASSUME prog \in Programs
  PROVE  /\ N \in Nat /\ F \in Nat /\ G \in Nat
         /\ Cells \in Seq(CellsTo(N)) /\ prog.functions \in Seq(FunctionsTo(N)) /\ prog.globals \in Seq(VarsTo(N))
         /\ prog.header.bitWidth \in {32, 64} /\ prog.header.version \in {4, 5}
<1>1. WellFormed(prog)
  BY ProgramsAssumption
<1> QED
  BY <1>1 DEF WellFormed, N, F, G, Cells, CellsTo, FunctionsTo, VarsTo, MembersTo

LEMMA Planned ==
  ASSUME prog \in Programs
  PROVE  /\ Base \in Nat /\ HeaderSize(prog.header) \in Nat /\ LengthSize(prog.header) \in Nat
         /\ Total(0, HeaderFields(prog.header)) = HeaderSize(prog.header)
         /\ \A n \in 1 .. N + F + G : Whole(Shape(n), N)
         /\ \A n \in 1 .. N : Shape(n) = TypeShape(Cells[n]) /\ Size(Shape(n)) \in Nat
<1>1. /\ N \in Nat /\ F \in Nat /\ G \in Nat
      /\ Cells \in Seq(CellsTo(N)) /\ prog.functions \in Seq(FunctionsTo(N)) /\ prog.globals \in Seq(VarsTo(N))
      /\ prog.header.bitWidth \in {32, 64} /\ prog.header.version \in {4, 5}
  BY Handed
<1>2. /\ HeaderSize(prog.header) \in Nat /\ LengthSize(prog.header) \in Nat
      /\ Total(0, HeaderFields(prog.header)) = HeaderSize(prog.header)
  <2>1. PICK h : h = prog.header
    OBVIOUS
  <2>2. h.bitWidth \in {32, 64} /\ h.version \in {4, 5}
    BY <1>1, <2>1
  <2>3. HeaderSize(h) \in Nat /\ LengthSize(h) \in Nat /\ Total(0, HeaderFields(h)) = HeaderSize(h)
    BY <2>2, HeaderExact
  <2> QED
    BY <2>1, <2>3
<1>3. Base \in Nat
  <2>1. \A a, b \in Nat : a + b \in Nat
    OBVIOUS
  <2>2. HeaderSize(prog.header) \in Nat
    BY <1>2
  <2> QED
    BY <2>1, <2>2, TopSize DEF Base
<1>4. ASSUME NEW n \in 1 .. N + F + G PROVE Whole(Shape(n), N)
  <2>1. CASE n <= N
    <3>1. Cells[n] \in CellsTo(N)
      BY <1>1, <2>1 DEF N
    <3> QED
      BY <1>1, <2>1, <3>1, TypeWhole DEF Shape
  <2>2. CASE ~ n <= N /\ n <= N + F
    <3>1. n - N \in 1 .. F
      BY <1>1, <2>2
    <3>2. prog.functions[n - N] \in FunctionsTo(N)
      BY <1>1, <3>1 DEF F
    <3> QED
      BY <1>1, <2>2, <3>2, FunctionWhole DEF Shape
  <2>3. CASE ~ n <= N /\ ~ n <= N + F
    <3>1. n - N - F \in 1 .. G
      BY <1>1, <2>3
    <3>2. prog.globals[n - N - F] \in VarsTo(N)
      BY <1>1, <3>1 DEF G
    <3> QED
      BY <1>1, <2>3, <3>2, VariableWhole DEF Shape
  <2> QED
    BY <2>1, <2>2, <2>3
<1>5. ASSUME NEW n \in 1 .. N PROVE Shape(n) = TypeShape(Cells[n]) /\ Size(Shape(n)) \in Nat
  <2>1. n \in 1 .. N + F + G /\ n <= N
    BY <1>1
  <2>2. Shape(n) \in Dies(N)
    BY <1>4, <2>1 DEF Whole
  <2> QED
    BY <1>1, <2>1, <2>2, SizesType DEF Shape
<1> QED
  BY <1>2, <1>3, <1>4, <1>5

LEMMA InitInv == Init => Inv
<1> SUFFICES ASSUME Init PROVE Inv
  OBVIOUS
<1>1. /\ prog \in Programs /\ pc = "place" /\ k = 1 /\ DWARFloc = Base /\ loc = [n \in 1 .. N |-> 0]
      /\ children = <<>> /\ length = 0 /\ offset = 0 /\ starts = <<>>
  BY DEF Init, Base, N
<1>2. N \in Nat /\ F \in Nat /\ G \in Nat /\ Base \in Nat
  BY <1>1, Handed, Planned
<1>3. Types
  BY <1>1, <1>2 DEF Types, PC
<1>4. Bounds
  BY <1>1, <1>2 DEF Bounds
<1>5. Placing
  BY <1>1, <1>2 DEF Placing, Laid, After
<1>6. Built
  BY <1>1, <1>2 DEF Built, Count
<1>7. Lengths
  BY <1>1 DEF Lengths
<1>8. Starting
  BY <1>1, <1>2 DEF Starting
<1> QED
  BY <1>3, <1>4, <1>5, <1>6, <1>7, <1>8 DEF Inv

\* The numbers of a state.
LEMMA Numbered ==
  ASSUME Inv
  PROVE  /\ prog \in Programs /\ N \in Nat /\ F \in Nat /\ G \in Nat /\ Base \in Nat /\ k \in Nat \ {0}
         /\ DWARFloc \in Nat /\ loc \in [1 .. N -> Nat] /\ children \in Seq(Dies(N)) /\ starts \in Seq(Nat)
         /\ Len(children) \in Nat /\ Len(starts) \in Nat /\ offset \in Nat /\ length \in Int
         /\ HeaderSize(prog.header) \in Nat /\ LengthSize(prog.header) \in Nat
<1>1. prog \in Programs
  BY DEF Inv, Types
<1> QED
  BY <1>1, Handed, Planned DEF Inv, Types

LEMMA PlaceInv ==
  ASSUME Inv, Place
  PROVE  Inv'
<1>1. /\ pc = "place" /\ k <= N /\ loc' = [loc EXCEPT ![k] = DWARFloc]
      /\ DWARFloc' = DWARFloc + Size(InfoEntry(TypeShape(Cells[k])))
      /\ k' = k + 1 /\ prog' = prog /\ pc' = pc /\ children' = children /\ length' = length
      /\ offset' = offset /\ starts' = starts
  BY DEF Place, N
<1>2. N' = N /\ F' = F /\ G' = G /\ Base' = Base /\ \A n : Shape(n)' = Shape(n)
  BY <1>1, SamePlan
<1>3. PICK s \in Nat : s = Size(TypeShape(Cells[k])) /\ Size(InfoEntry(TypeShape(Cells[k]))) = s
  <2>1. prog \in Programs /\ N \in Nat /\ F \in Nat /\ G \in Nat /\ loc \in [1 .. N -> Nat] /\ k \in 1 .. N
    BY <1>1, Numbered
  <2>2. k \in 1 .. N + F + G
    BY <2>1
  <2>3. Whole(Shape(k), N) /\ Shape(k) = TypeShape(Cells[k]) /\ Size(Shape(k)) \in Nat
    BY <2>1, <2>2, Planned
  <2>4. Size(InfoEntry(Shape(k))) = Size(Shape(k))
    BY <2>1, <2>3, Filled DEF Whole
  <2> QED
    BY <2>3, <2>4
<1>4. /\ N \in Nat /\ k \in 1 .. N /\ DWARFloc \in Nat /\ loc \in [1 .. N -> Nat] /\ DWARFloc' = DWARFloc + s
      /\ Laid(k - 1) /\ DWARFloc = After(k - 1) /\ Base \in Nat
  BY SMTT(60), <1>1, <1>3, Numbered DEF Inv, Placing
<1>5. loc' \in [1 .. N -> Nat] /\ loc'[k] = DWARFloc /\ \A n \in 1 .. N : n # k => loc'[n] = loc[n]
  BY <1>1, <1>4
<1>6. Types'
  BY <1>1, <1>2, <1>4, <1>5 DEF Inv, Types
<1>7. Bounds'
  BY <1>1, <1>2, <1>4 DEF Bounds
<1>8. \A n \in 0 .. k - 1 : After(n)' = After(n)
  <2>1. \A n \in 0 .. k - 1 : n # 0 => n \in 1 .. N /\ n # k
    BY <1>4
  <2> QED
    BY <1>1, <1>2, <1>5, <2>1 DEF After, Cells
<1>9. \A i : i = k => After(i)' = DWARFloc'
  <2>1. k # 0
    BY <1>4
  <2> SUFFICES ASSUME NEW i, i = k PROVE After(i)' = DWARFloc'
    OBVIOUS
  <2>2. i = k
    OBVIOUS
  <2>3. After(i)' = loc'[i] + Size(TypeShape(Cells[i]))
    BY <1>1, <2>1, <2>2 DEF After, Cells
  <2>4. loc'[i] = DWARFloc /\ Size(TypeShape(Cells[i])) = s
    BY <1>3, <1>5, <2>2
  <2> QED
    BY <1>4, <2>2, <2>3, <2>4
<1>10. Placing'
  <2>1. k' = k + 1 /\ k' - 1 = k
    BY <1>1, <1>4
  <2>2. ASSUME NEW i \in 1 .. k PROVE loc'[i] = After(i - 1)'
    <3>1. i - 1 \in 0 .. k - 1
      BY <1>4
    <3>2. PICK j \in 0 .. k - 1 : j = i - 1
      BY <3>1
    <3>3. After(j)' = After(j)
      BY <1>8
    <3>4. CASE i = k
      BY <1>4, <1>5, <3>2, <3>3, <3>4
    <3>5. CASE i # k
      <4>1. i \in 1 .. k - 1 /\ i \in 1 .. N
        BY <1>4, <3>5
      <4>2. loc[i] = After(i - 1)
        BY <1>4, <4>1 DEF Laid
      <4> QED
        BY <1>5, <3>2, <3>3, <3>5, <4>1, <4>2
    <3> QED
      BY <3>4, <3>5
  <2>3. PICK m : m = k
    OBVIOUS
  <2>4. \A i \in 1 .. m : loc'[i] = After(i - 1)'
    BY <2>2, <2>3
  <2>5. Laid(m)'
    BY <2>4 DEF Laid
  <2>6. k' - 1 = m /\ After(m)' = DWARFloc'
    BY <1>9, <2>1, <2>3
  <2> QED
    BY <1>1, <2>5, <2>6 DEF Placing
<1>11. Built'
  BY <1>1, <1>2 DEF Inv, Built, Count
<1>12. Lengths'
  BY <1>1, <1>2 DEF Inv, Lengths
<1>13. Starting'
  BY <1>1, <1>2, <1>4 DEF Inv, Starting
<1> QED
  BY <1>6, <1>7, <1>10, <1>11, <1>12, <1>13 DEF Inv

\* One more child.
LEMMA BuiltMore ==
  ASSUME Inv, prog' = prog, loc' = loc, NEW e, children' = Append(children, e),
         NEW c, c = Count, Count' = c + 1, c + 1 \in 1 .. N + F + G + 1,
         e = IF c + 1 = N + F + G + 1 THEN End ELSE InfoEntry(Shape(c + 1))
  PROVE  e \in Dies(N) /\ children' \in Seq(Dies(N)) /\ Built'
<1>1. /\ prog \in Programs /\ N \in Nat /\ F \in Nat /\ G \in Nat /\ loc \in [1 .. N -> Nat] /\ children \in Seq(Dies(N))
      /\ Len(children) = c /\ \A n \in 1 .. c : children[n] = IF n = N + F + G + 1 THEN End ELSE InfoEntry(Shape(n))
  BY Numbered DEF Inv, Built
<1>2. N' = N /\ F' = F /\ G' = G /\ \A n : InfoEntry(Shape(n))' = InfoEntry(Shape(n))
  BY SamePlan, SameEntries
<1>3. e \in Dies(N)
  <2>1. CASE c + 1 = N + F + G + 1
    BY <1>1, <2>1, FieldTypes
  <2>2. CASE c + 1 # N + F + G + 1
    <3>1. c + 1 \in 1 .. N + F + G
      BY <1>1, <2>2
    <3>2. Shape(c + 1) \in Dies(N)
      BY <1>1, <3>1, Planned DEF Whole
    <3> QED
      BY <1>1, <2>2, <3>2, Filled
  <2> QED
    BY <2>1, <2>2
<1>4. PICK cs \in Seq(Dies(N)) : cs = Append(children, e)
  <2>1. Append(children, e) \in Seq(Dies(N))
    BY <1>1, <1>3
  <2> QED
    BY <2>1
<1>5. Len(cs) = c + 1 /\ cs[c + 1] = e /\ \A n \in 1 .. c : cs[n] = children[n]
  BY <1>1, <1>3, <1>4
<1>6. ASSUME NEW n \in 1 .. c + 1 PROVE cs[n] = IF n = N + F + G + 1 THEN End ELSE InfoEntry(Shape(n))
  <2>1. CASE n = c + 1
    BY <1>5, <2>1
  <2>2. CASE n # c + 1
    <3>1. n \in 1 .. c
      BY <1>1, <2>2
    <3> QED
      BY <1>1, <1>5, <3>1
  <2> QED
    BY <2>1, <2>2
<1>7. children' = cs
  BY <1>4
<1>8. Built'
  BY <1>2, <1>5, <1>6, <1>7 DEF Built
<1> QED
  BY <1>3, <1>7, <1>8

LEMMA EmitInv ==
  ASSUME Inv, NEW l, NEW shapes, Emit(l, shapes),
         NEW m \in Nat, Len(shapes) = m,
         \/ l = "types" /\ m = N /\ \A n \in 1 .. m : shapes[n] = Shape(n)
         \/ l = "functions" /\ m = F /\ \A n \in 1 .. m : shapes[n] = Shape(N + n)
         \/ l = "globals" /\ m = G /\ \A n \in 1 .. m : shapes[n] = Shape(N + F + n)
  PROVE  Inv'
<1>1. /\ pc = l /\ k <= m /\ children' = Append(children, InfoEntry(shapes[k])) /\ k' = k + 1
      /\ prog' = prog /\ pc' = pc /\ DWARFloc' = DWARFloc /\ loc' = loc /\ length' = length
      /\ offset' = offset /\ starts' = starts
  BY DEF Emit
<1>2. /\ N' = N /\ F' = F /\ G' = G /\ Base' = Base /\ (\A n : Laid(n)' <=> Laid(n)) /\ (\A n : After(n)' = After(n))
      /\ LengthSize(prog.header)' = LengthSize(prog.header)
  BY <1>1, SamePlan, SameEntries
<1>3. N \in Nat /\ F \in Nat /\ G \in Nat /\ k \in 1 .. m
  BY <1>1, Numbered
<1>4. PICK c \in Nat : /\ c = (IF l = "types" THEN k - 1 ELSE IF l = "functions" THEN N + k - 1 ELSE N + F + k - 1)
  BY <1>3
<1>5. c = Count /\ Count' = c + 1
  BY SMTT(60), <1>1, <1>2, <1>3, <1>4 DEF Count
<1>6. c + 1 \in 1 .. N + F + G /\ shapes[k] = Shape(c + 1)
  <2>1. CASE l = "types"
    BY <1>3, <1>4, <2>1
  <2>2. CASE l = "functions"
    <3>1. c + 1 = N + k
      BY <1>3, <1>4, <2>2
    <3> QED
      BY <1>3, <2>2, <3>1
  <2>3. CASE l = "globals"
    <3>1. c + 1 = N + F + k
      BY <1>3, <1>4, <2>3
    <3> QED
      BY <1>3, <2>3, <3>1
  <2> QED
    BY <2>1, <2>2, <2>3
<1>7. children' \in Seq(Dies(N)) /\ Built'
  <2>1. c + 1 \in 1 .. N + F + G + 1 /\ c + 1 # N + F + G + 1
    BY <1>3, <1>6
  <2>2. PICK e : e = InfoEntry(shapes[k])
    OBVIOUS
  <2>3. e = IF c + 1 = N + F + G + 1 THEN End ELSE InfoEntry(Shape(c + 1))
    BY <1>6, <2>1, <2>2
  <2>4. children' = Append(children, e)
    BY <1>1, <2>2
  <2> QED
    BY <1>1, <1>5, <2>1, <2>3, <2>4, BuiltMore
<1>8. Types'
  BY <1>1, <1>2, <1>3, <1>7 DEF Inv, Types
<1>9. Bounds'
  BY <1>1, <1>2, <1>3 DEF Bounds
<1>10. Placing'
  BY <1>1, <1>2 DEF Inv, Placing
<1>11. Lengths'
  BY <1>1, <1>2 DEF Inv, Lengths
<1>12. Starting'
  BY <1>1, <1>2 DEF Inv, Starting
<1> QED
  BY <1>7, <1>8, <1>9, <1>10, <1>11, <1>12 DEF Inv

\* The end of a loop of initDstInfoObject.
LEMMA LeaveInv ==
  ASSUME Inv, NEW last, NEW next, Leave(last, next),
         \/ pc = "place" /\ last = N /\ next = "types"
         \/ pc = "types" /\ last = N /\ next = "functions"
         \/ pc = "functions" /\ last = F /\ next = "globals"
         \/ pc = "globals" /\ last = G /\ next = "close"
  PROVE  Inv'
<1>1. /\ k = last + 1 /\ pc' = next /\ k' = 1 /\ prog' = prog /\ DWARFloc' = DWARFloc /\ loc' = loc
      /\ children' = children /\ length' = length /\ offset' = offset /\ starts' = starts
  BY DEF Leave
<1>2. /\ N' = N /\ F' = F /\ G' = G /\ Base' = Base /\ (\A n : Laid(n)' <=> Laid(n)) /\ (\A n : After(n)' = After(n))
      /\ LengthSize(prog.header)' = LengthSize(prog.header) /\ \A n : InfoEntry(Shape(n))' = InfoEntry(Shape(n))
  BY <1>1, SamePlan, SameEntries
<1>3. N \in Nat /\ F \in Nat /\ G \in Nat
  BY Numbered
<1>4. Types'
  BY <1>1, <1>2 DEF Inv, Types, PC
<1>5. Bounds'
  BY <1>1, <1>2, <1>3 DEF Bounds
<1>6. Placing'
  <2>1. pc = "place" => k - 1 = N
    BY <1>1, <1>3
  <2> QED
    BY <1>1, <1>2, <2>1 DEF Inv, Placing
<1>7. Built'
  <2>1. Count' = Count
    BY <1>1, <1>2, <1>3 DEF Count
  <2>2. PICK c : c = Count /\ Count' = c
    BY <2>1
  <2>3. Len(children) = c /\ \A n \in 1 .. c : children[n] = IF n = N + F + G + 1 THEN End ELSE InfoEntry(Shape(n))
    BY <2>2 DEF Inv, Built
  <2> QED
    BY <1>1, <1>2, <2>2, <2>3 DEF Built
<1>8. Lengths'
  BY <1>1, <1>2 DEF Inv, Lengths
<1>9. Starting'
  BY <1>1, <1>2 DEF Inv, Starting
<1> QED
  BY <1>4, <1>5, <1>6, <1>7, <1>8, <1>9 DEF Inv

LEMMA EmitTypesInv == ASSUME Inv, EmitTypes PROVE Inv'
<1>1. N \in Nat
  BY Numbered
<1>2. Len(TypeShapes) = N /\ \A n \in 1 .. N : TypeShapes[n] = Shape(n)
  <2>1. prog \in Programs
    BY Numbered
  <2>2. Cells \in Seq(CellsTo(N)) /\ DOMAIN Cells = 1 .. N
    BY <1>1, <2>1, Handed DEF N
  <2>3. DOMAIN TypeShapes = 1 .. N
    BY <2>2 DEF TypeShapes
  <2>4. \A n \in 1 .. N : TypeShapes[n] = Shape(n)
    BY <1>1, <2>2 DEF TypeShapes, Shape
  <2> QED
    BY <1>1, <2>3, <2>4
<1>3. CASE Emit("types", TypeShapes)
  BY <1>1, <1>2, <1>3, EmitInv
<1>4. CASE pc = "types" /\ Leave(Len(TypeShapes), "functions")
  BY <1>2, <1>4, LeaveInv
<1> QED
  BY <1>3, <1>4 DEF EmitTypes

LEMMA EmitFunctionsInv == ASSUME Inv, EmitFunctions PROVE Inv'
<1>1. F \in Nat /\ N \in Nat
  BY Numbered
<1>2. Len(FunctionShapes) = F /\ \A n \in 1 .. F : FunctionShapes[n] = Shape(N + n)
  <2>1. prog \in Programs
    BY Numbered
  <2>2. prog.functions \in Seq(FunctionsTo(N)) /\ DOMAIN prog.functions = 1 .. F
    BY <1>1, <2>1, Handed DEF F
  <2>3. DOMAIN FunctionShapes = 1 .. F
    BY <2>2 DEF FunctionShapes
  <2>4. ASSUME NEW n \in 1 .. F PROVE FunctionShapes[n] = Shape(N + n)
    <3>1. ~ N + n <= N /\ N + n <= N + F /\ (N + n) - N = n
      BY <1>1
    <3> QED
      BY <2>2, <3>1 DEF FunctionShapes, Shape
  <2> QED
    BY <1>1, <2>3, <2>4
<1>3. CASE Emit("functions", FunctionShapes)
  BY <1>1, <1>2, <1>3, EmitInv
<1>4. CASE pc = "functions" /\ Leave(Len(FunctionShapes), "globals")
  BY <1>2, <1>4, LeaveInv
<1> QED
  BY <1>3, <1>4 DEF EmitFunctions

LEMMA EmitGlobalsInv == ASSUME Inv, EmitGlobals PROVE Inv'
<1>1. F \in Nat /\ N \in Nat /\ G \in Nat
  BY Numbered
<1>2. Len(GlobalShapes) = G /\ \A n \in 1 .. G : GlobalShapes[n] = Shape(N + F + n)
  <2>1. prog \in Programs
    BY Numbered
  <2>2. prog.globals \in Seq(VarsTo(N)) /\ DOMAIN prog.globals = 1 .. G
    BY <1>1, <2>1, Handed DEF G
  <2>3. DOMAIN GlobalShapes = 1 .. G
    BY <2>2 DEF GlobalShapes
  <2>4. ASSUME NEW n \in 1 .. G PROVE GlobalShapes[n] = Shape(N + F + n)
    <3>1. ~ N + F + n <= N /\ ~ N + F + n <= N + F /\ (N + F + n) - N - F = n
      BY <1>1
    <3> QED
      BY <2>2, <3>1 DEF GlobalShapes, Shape
  <2> QED
    BY <1>1, <2>3, <2>4
<1>3. CASE Emit("globals", GlobalShapes)
  BY <1>1, <1>2, <1>3, EmitInv
<1>4. CASE pc = "globals" /\ Leave(Len(GlobalShapes), "close")
  BY <1>2, <1>4, LeaveInv
<1> QED
  BY <1>3, <1>4 DEF EmitGlobals

LEMMA CloseInv ==
  ASSUME Inv, Close
  PROVE  Inv'
<1>1. /\ pc = "close" /\ children' = Append(children, End) /\ pc' = "header"
      /\ length' = HeaderSize(prog.header) + Size(Top) + Size(FlattenSeq(children')) - LengthSize(prog.header)
      /\ prog' = prog /\ k' = k /\ DWARFloc' = DWARFloc /\ loc' = loc /\ offset' = offset /\ starts' = starts
  BY DEF Close
<1>2. /\ N' = N /\ F' = F /\ G' = G /\ Base' = Base /\ (\A n : Laid(n)' <=> Laid(n)) /\ (\A n : After(n)' = After(n))
      /\ LengthSize(prog.header)' = LengthSize(prog.header)
  BY <1>1, SamePlan, SameEntries
<1>3. N \in Nat /\ F \in Nat /\ G \in Nat /\ Base \in Nat /\ LengthSize(prog.header) \in Nat /\ k = 1
  BY <1>1, Numbered DEF Inv, Bounds
<1>4. PICK c \in Nat : c = N + F + G
  BY <1>3
<1>5. c = Count /\ Count' = c + 1
  BY <1>1, <1>2, <1>3, <1>4 DEF Count
<1>6. children' \in Seq(Dies(N)) /\ Built'
  <2>1. c + 1 \in 1 .. N + F + G + 1 /\ c + 1 = N + F + G + 1
    BY <1>3, <1>4
  <2>2. PICK e : e = End
    OBVIOUS
  <2>3. e = IF c + 1 = N + F + G + 1 THEN End ELSE InfoEntry(Shape(c + 1))
    BY <2>1, <2>2
  <2>4. children' = Append(children, e)
    BY <1>1, <2>2
  <2> QED
    BY <1>1, <1>5, <2>1, <2>3, <2>4, BuiltMore
<1>7. PICK cs \in Seq(Dies(N)) : cs = children'
  BY <1>6
<1>8. PICK s \in Nat : s = Size(FlattenSeq(cs))
  <2>1. FlattenSeq(cs) \in Dies(N)
    BY FlattenType DEF Dies
  <2> QED
    BY <1>3, <2>1, SizesType
<1>9. length' = Base + s - LengthSize(prog.header)
  BY <1>1, <1>7, <1>8 DEF Base
<1>10. Types'
  BY <1>1, <1>2, <1>3, <1>6, <1>9 DEF Inv, Types, PC
<1>11. Bounds'
  BY <1>1, <1>3 DEF Bounds
<1>12. Placing'
  BY <1>1, <1>2 DEF Inv, Placing
<1>13. Lengths'
  BY <1>1, <1>2, <1>7, <1>8, <1>9 DEF Inv, Lengths
<1>14. Starting'
  BY <1>1, <1>2 DEF Inv, Starting
<1> QED
  BY <1>6, <1>10, <1>11, <1>12, <1>13, <1>14 DEF Inv

\* The unit is written: its layout does not change.
LEMMA WriteKeeps ==
  ASSUME Inv, pc \in {"header", "top", "write"}, pc' \in {"top", "write", "done"},
         UNCHANGED <<prog, DWARFloc, loc, children, length>>,
         k' \in Nat \ {0}, offset' \in Nat, starts' \in Seq(Nat)
  PROVE  /\ Types' /\ Placing' /\ Built'
         /\ length' = Base' + Size(FlattenSeq(children'))  - LengthSize(prog.header)'
         /\ N' = N /\ F' = F /\ G' = G /\ Base' = Base /\ \A n : After(n)' = After(n)
<1>1. /\ N' = N /\ F' = F /\ G' = G /\ Base' = Base /\ (\A n : Laid(n)' <=> Laid(n)) /\ (\A n : After(n)' = After(n))
      /\ LengthSize(prog.header)' = LengthSize(prog.header) /\ \A n : InfoEntry(Shape(n))' = InfoEntry(Shape(n))
  BY SamePlan, SameEntries
<1>2. Types'
  BY <1>1 DEF Inv, Types, PC
<1>3. Placing'
  BY <1>1 DEF Inv, Placing
<1>4. Built'
  <2>1. PICK c : c = Count /\ Count' = c
    BY <1>1 DEF Count
  <2>2. Len(children) = c /\ \A n \in 1 .. c : children[n] = IF n = N + F + G + 1 THEN End ELSE InfoEntry(Shape(n))
    BY <2>1 DEF Inv, Built
  <2> QED
    BY <1>1, <2>1, <2>2 DEF Built
<1>5. length = Base + Size(FlattenSeq(children)) - LengthSize(prog.header)
  BY DEF Inv, Lengths
<1> QED
  BY <1>1, <1>2, <1>3, <1>4, <1>5

LEMMA WriteHeaderInv == ASSUME Inv, WriteHeader PROVE Inv'
<1>1. /\ pc = "header" /\ offset' = Total(offset, HeaderFields(prog.header)) /\ pc' = "top"
      /\ prog' = prog /\ k' = k /\ DWARFloc' = DWARFloc /\ loc' = loc /\ children' = children /\ length' = length
      /\ starts' = starts
  BY DEF WriteHeader, Total
<1>2. prog \in Programs /\ k = 1 /\ offset = 0 /\ k \in Nat \ {0} /\ starts \in Seq(Nat)
  BY <1>1 DEF Inv, Types, Bounds, Lengths
<1>3. offset' = HeaderSize(prog.header) /\ offset' \in Nat
  BY <1>1, <1>2, Planned
<1>4. /\ Types' /\ Placing' /\ Built' /\ length' = Base' + Size(FlattenSeq(children'))  - LengthSize(prog.header)'
      /\ N' = N
  BY <1>1, <1>2, <1>3, WriteKeeps
<1>5. Bounds'
  BY <1>1, <1>2 DEF Bounds
<1>6. Lengths'
  BY <1>1, <1>3, <1>4, SamePlan DEF Lengths
<1>7. Starting'
  BY <1>1, <1>4 DEF Inv, Starting
<1> QED
  BY <1>4, <1>5, <1>6, <1>7 DEF Inv

LEMMA WriteTopInv == ASSUME Inv, WriteTop PROVE Inv'
<1>1. /\ pc = "top" /\ offset' = offset + Size(Top) /\ pc' = "write"
      /\ prog' = prog /\ k' = k /\ DWARFloc' = DWARFloc /\ loc' = loc /\ children' = children /\ length' = length
      /\ starts' = starts
  BY DEF WriteTop
<1>2. /\ prog \in Programs /\ k = 1 /\ offset = HeaderSize(prog.header) /\ k \in Nat \ {0} /\ starts \in Seq(Nat) /\ Len(starts) = 0
      /\ N \in Nat /\ F \in Nat /\ G \in Nat /\ Base \in Nat /\ children \in Seq(Dies(N))
  BY <1>1, Numbered DEF Inv, Bounds, Lengths, Starting
<1>3. offset' = Base /\ offset' \in Nat
  BY <1>1, <1>2 DEF Base
<1>4. /\ Types' /\ Placing' /\ Built' /\ length' = Base' + Size(FlattenSeq(children'))  - LengthSize(prog.header)'
      /\ N' = N /\ F' = F /\ G' = G /\ Base' = Base /\ \A n : After(n)' = After(n)
  BY <1>1, <1>2, <1>3, WriteKeeps
<1>5. Bounds'
  BY <1>1, <1>2, <1>4 DEF Bounds
<1>6. Size(FlattenSeq(SubSeq(children, 1, 0))) = 0
  <2>1. SubSeq(children, 1, 0) = <<>>
    BY <1>2
  <2>2. Size(<<>>) = 0
    <3>1. <<>> \in Dies(N)
      BY DEF Dies
    <3>2. Sizes(<<>>) = <<>>
      BY DEF Sizes
    <3>3. Size(<<>>) = Total(0, Sizes(<<>>))
      BY <1>2, <3>1, SizesType
    <3> QED
      BY <3>2, <3>3, TotalEmpty
  <2> QED
    BY <2>1, <2>2, FlattenEmpty
<1>7. Lengths'
  <2>1. k' - 1 = 0
    BY <1>1, <1>2
  <2>2. offset' = Base + 0
    BY <1>2, <1>3
  <2> QED
    BY <1>1, <1>4, <1>6, <2>1, <2>2 DEF Lengths
<1>8. Starting'
  <2>1. k' - 1 = 0 /\ After(0) = Base
    BY <1>1, <1>2 DEF After
  <2> QED
    BY <1>1, <1>2, <1>3, <1>4, <2>1 DEF Starting
<1> QED
  BY <1>4, <1>5, <1>7, <1>8 DEF Inv

LEMMA WriteChildInv == ASSUME Inv, WriteChild PROVE Inv'
<1>1. /\ pc = "write" /\ k <= Len(children) /\ starts' = Append(starts, offset) /\ offset' = offset + Size(children[k])
      /\ k' = k + 1 /\ prog' = prog /\ pc' = pc /\ DWARFloc' = DWARFloc /\ loc' = loc /\ children' = children
      /\ length' = length
  BY DEF WriteChild
<1>2. /\ prog \in Programs /\ N \in Nat /\ F \in Nat /\ G \in Nat /\ Base \in Nat /\ children \in Seq(Dies(N))
      /\ k \in Nat \ {0} /\ starts \in Seq(Nat) /\ offset \in Nat /\ loc \in [1 .. N -> Nat]
  BY Numbered
<1>3. /\ Len(children) = N + F + G + 1
      /\ \A n \in 1 .. N + F + G + 1 : children[n] = IF n = N + F + G + 1 THEN End ELSE InfoEntry(Shape(n))
  BY <1>1 DEF Inv, Built, Count
<1>4. /\ Len(starts) = k - 1 /\ \A n \in 1 .. N : n <= Len(starts) => starts[n] = loc[n]
      /\ k - 1 <= N => offset = After(k - 1)
  BY <1>1 DEF Inv, Starting
<1>5. k \in 1 .. N + F + G + 1
  BY <1>1, <1>2, <1>3
<1>6. PICK d \in Dies(N) : d = children[k]
  BY <1>2, <1>3, <1>5
<1>7. PICK s \in Nat : s = Size(d)
  BY <1>2, SizesType
<1>8. offset' = offset + s /\ offset' \in Nat /\ k' \in Nat \ {0} /\ starts' \in Seq(Nat) /\ Len(starts') = k
      /\ starts'[k] = offset /\ \A n \in 1 .. k - 1 : starts'[n] = starts[n]
  BY <1>1, <1>2, <1>4, <1>6, <1>7
<1>9. /\ Types' /\ Placing' /\ Built' /\ length' = Base' + Size(FlattenSeq(children'))  - LengthSize(prog.header)'
      /\ N' = N /\ F' = F /\ G' = G /\ Base' = Base /\ \A n : After(n)' = After(n)
  BY <1>1, <1>8, WriteKeeps
<1>10. Bounds'
  BY <1>1, <1>2, <1>5, <1>9 DEF Bounds
<1>11. Lengths'
  <2>1. offset = Base + Size(FlattenSeq(SubSeq(children, 1, k - 1)))
    BY <1>1 DEF Inv, Lengths
  <2>2. PICK j \in Nat : j = k - 1 /\ j + 1 = k
    BY <1>2
  <2>3. PICK u \in Seq(Dies(N)) : u = SubSeq(children, 1, j)
    <3>1. j <= Len(children)
      BY <1>1, <1>2, <2>2
    <3>2. SubSeq(children, 1, j) \in Seq(Dies(N))
      BY <1>2, <2>2, <3>1
    <3> QED
      BY <3>2
  <2>4. SubSeq(children, 1, k) = Append(u, d)
    <3>1. j + 1 \in 1 .. Len(children)
      BY <1>1, <1>2, <2>2
    <3>2. SubSeq(children, 1, j + 1) = Append(SubSeq(children, 1, j), children[j + 1])
      BY <1>2, <2>2, <3>1
    <3> QED
      BY <1>6, <2>2, <2>3, <3>2
  <2>5. PICK w \in Dies(N) : w = FlattenSeq(u)
    BY FlattenType DEF Dies
  <2>6. FlattenSeq(Append(u, d)) = w \o d
    BY <2>5, FlattenAppend DEF Dies
  <2>7. Size(w \o d) = Size(w) + Size(d) /\ Size(w) \in Nat
    BY <1>2, SizeConcat, SizesType
  <2>8. offset' = Base + Size(FlattenSeq(SubSeq(children, 1, k)))
    <3>1. PICK t \in Nat : t = Size(w)
      BY <2>7
    <3>2. offset = Base + t
      BY <2>1, <2>2, <2>3, <2>5, <3>1
    <3>3. Size(FlattenSeq(SubSeq(children, 1, k))) = t + s
      BY <1>7, <2>4, <2>6, <2>7, <3>1
    <3> QED
      BY <1>2, <1>8, <3>2, <3>3
  <2>9. k' - 1 = k
    BY <1>1, <1>2
  <2> QED
    BY <1>1, <1>9, <2>8, <2>9 DEF Lengths
<1>12. Starting'
  <2>1. k' - 1 = k /\ Len(starts') = k
    BY <1>1, <1>2, <1>8
  <2>2. k <= N => k \in 1 .. N /\ offset = After(k - 1)
    BY <1>2, <1>4
  <2>3. k <= N => loc[k] = After(k - 1)
    <3>1. Laid(N)
      BY <1>1 DEF Inv, Placing
    <3> QED
      BY <2>2, <3>1 DEF Laid
  <2>4. ASSUME NEW n \in 1 .. N, n <= k PROVE starts'[n] = loc[n]
    <3>1. CASE n = k
      BY <1>8, <2>2, <2>3, <3>1
    <3>2. CASE n # k
      <4>1. n \in 1 .. k - 1 /\ n <= Len(starts)
        BY <1>2, <1>4, <2>4, <3>2
      <4> QED
        BY <1>4, <1>8, <4>1
    <3> QED
      BY <3>1, <3>2
  <2>5. ASSUME k <= N PROVE offset' = After(k)
    <3>1. children[k] = InfoEntry(Shape(k))
      BY <1>2, <1>3, <1>5, <2>5
    <3>2. k \in 1 .. N /\ k \in 1 .. N + F + G
      BY <1>2, <2>5
    <3>3. Shape(k) \in Dies(N) /\ Shape(k) = TypeShape(Cells[k])
      BY <1>2, <3>2, Planned DEF Whole
    <3>4. s = Size(TypeShape(Cells[k]))
      BY <1>2, <1>6, <1>7, <3>1, <3>3, Filled
    <3>5. After(k) = loc[k] + s
      BY <1>2, <3>4 DEF After
    <3> QED
      BY <1>8, <2>2, <2>3, <2>5, <3>5
  <2>6. PICK i : i = k
    OBVIOUS
  <2>7. i <= N => offset' = After(i)'
    BY <1>9, <2>5, <2>6
  <2> QED
    BY <1>1, <1>9, <2>1, <2>4, <2>6, <2>7 DEF Starting
<1> QED
  BY <1>9, <1>10, <1>11, <1>12 DEF Inv

LEMMA WrittenInv == ASSUME Inv, Written PROVE Inv'
<1>1. /\ pc = "write" /\ k = Len(children) + 1 /\ pc' = "done" /\ k' = 1 /\ prog' = prog /\ DWARFloc' = DWARFloc
      /\ loc' = loc /\ children' = children /\ length' = length /\ offset' = offset /\ starts' = starts
  BY DEF Written, Leave
<1>2. /\ prog \in Programs /\ N \in Nat /\ F \in Nat /\ G \in Nat /\ Base \in Nat /\ children \in Seq(Dies(N))
      /\ k \in Nat \ {0} /\ starts \in Seq(Nat) /\ offset \in Nat
  BY Numbered
<1>3. Len(children) = N + F + G + 1
  BY <1>1 DEF Inv, Built, Count
<1>4. /\ Types' /\ Placing' /\ Built' /\ length' = Base' + Size(FlattenSeq(children'))  - LengthSize(prog.header)'
      /\ N' = N /\ F' = F /\ G' = G /\ Base' = Base /\ \A n : After(n)' = After(n)
  BY <1>1, <1>2, WriteKeeps
<1>5. Bounds'
  BY <1>1, <1>2 DEF Bounds
<1>6. Lengths'
  <2>1. k - 1 = Len(children) /\ SubSeq(children, 1, Len(children)) = children
    BY <1>1, <1>2
  <2>2. offset = Base + Size(FlattenSeq(children))
    BY <1>1, <2>1 DEF Inv, Lengths
  <2> QED
    BY <1>1, <1>4, <2>2 DEF Lengths
<1>7. Starting'
  BY <1>1, <1>2, <1>3, <1>4 DEF Inv, Starting
<1> QED
  BY <1>4, <1>5, <1>6, <1>7 DEF Inv

LEMMA Inductive == Inv /\ [Next]_vars => Inv'
<1> SUFFICES ASSUME Inv, [Next]_vars PROVE Inv'
  OBVIOUS
<1>1. CASE Place
  BY <1>1, PlaceInv
<1>2. CASE Placed
  <2>1. pc = "place" /\ Leave(N, "types")
    BY <1>2 DEF Placed, N
  <2> QED
    BY <2>1, LeaveInv
<1>3. CASE EmitTypes
  BY <1>3, EmitTypesInv
<1>4. CASE EmitFunctions
  BY <1>4, EmitFunctionsInv
<1>5. CASE EmitGlobals
  BY <1>5, EmitGlobalsInv
<1>6. CASE Close
  BY <1>6, CloseInv
<1>7. CASE WriteHeader
  BY <1>7, WriteHeaderInv
<1>8. CASE WriteTop
  BY <1>8, WriteTopInv
<1>9. CASE WriteChild
  BY <1>9, WriteChildInv
<1>10. CASE Written
  BY <1>10, WrittenInv
<1>11. CASE UNCHANGED vars
  <2>1. /\ prog' = prog /\ pc' = pc /\ k' = k /\ DWARFloc' = DWARFloc /\ loc' = loc /\ children' = children
        /\ length' = length /\ offset' = offset /\ starts' = starts
    BY <1>11 DEF vars
  <2>2. /\ N' = N /\ F' = F /\ G' = G /\ Base' = Base /\ (\A n : Laid(n)' <=> Laid(n)) /\ (\A n : After(n)' = After(n))
        /\ LengthSize(prog.header)' = LengthSize(prog.header) /\ \A n : InfoEntry(Shape(n))' = InfoEntry(Shape(n))
    BY <2>1, SamePlan, SameEntries
  <2>3. Count' = Count
    BY <2>1, <2>2 DEF Count
  <2>4. Types' /\ Bounds' /\ Placing'
    BY <2>1, <2>2 DEF Inv, Types, Bounds, Placing
  <2>5. Built'
    BY <2>1, <2>2, <2>3 DEF Inv, Built
  <2>6. Lengths' /\ Starting'
    BY <2>1, <2>2 DEF Inv, Lengths, Starting
  <2> QED
    BY <2>4, <2>5, <2>6 DEF Inv
<1> QED
  BY <1>1, <1>2, <1>3, <1>4, <1>5, <1>6, <1>7, <1>8, <1>9, <1>10, <1>11 DEF Next

LEMMA InvHolds == Spec => []Inv
<1>1. Init => Inv
  BY InitInv
<1>2. Inv /\ [Next]_vars => Inv'
  BY Inductive
<1> QED
  BY <1>1, <1>2, PTL DEF Spec

-----------------------------------------------------------------------------
(***************************************************************************)
(* The theorems.                                                           *)
(***************************************************************************)
LEMMA RefsResolveInv == Inv => RefsResolve
<1> SUFFICES ASSUME Inv, pc = "done", NEW n \in DOMAIN children, NEW i \in DOMAIN children[n], children[n][i].target # NoSn
             PROVE  children[n][i].data = starts[children[n][i].target + 1] % Limit
  BY DEF RefsResolve
<1>1. /\ prog \in Programs /\ N \in Nat /\ F \in Nat /\ G \in Nat /\ loc \in [1 .. N -> Nat] /\ children \in Seq(Dies(N))
  BY Numbered
<1>2. /\ Len(children) = N + F + G + 1 /\ Len(starts) = N + F + G + 1
      /\ \A m \in 1 .. N + F + G + 1 : children[m] = IF m = N + F + G + 1 THEN End ELSE InfoEntry(Shape(m))
      /\ \A m \in 1 .. N : m <= Len(starts) => starts[m] = loc[m]
  BY DEF Inv, Built, Count, Starting
<1>3. n \in 1 .. N + F + G + 1
  BY <1>1, <1>2
<1>4. CASE n = N + F + G + 1
  <2>1. children[n] = <<Abbrev("EndItem")>>
    BY <1>2, <1>3, <1>4 DEF End
  <2>2. i = 1
    BY <2>1
  <2>3. Abbrev("EndItem").target = NoSn
    BY DEF Abbrev, Field
  <2> QED
    BY <2>1, <2>2, <2>3
<1>5. CASE n # N + F + G + 1
  <2>1. n \in 1 .. N + F + G
    BY <1>1, <1>3, <1>5
  <2>2. PICK d \in Dies(N) : d = Shape(n)
    BY <1>1, <2>1, Planned DEF Whole
  <2>3. children[n] = InfoEntry(d)
    BY <1>2, <1>3, <1>5, <2>2
  <2>4. /\ Len(InfoEntry(d)) = Len(d) /\ InfoEntry(d) \in Dies(N)
        /\ \A j \in 1 .. Len(d) : /\ InfoEntry(d)[j].target = d[j].target
                                  /\ d[j].target # NoSn => InfoEntry(d)[j].data = loc[d[j].target + 1] % Limit
    BY <1>1, Filled
  <2>5. i \in 1 .. Len(d)
    BY <2>3, <2>4 DEF Dies
  <2>6. d[i] \in Fields(N)
    BY <2>5 DEF Dies
  <2>7. PICK t : t = d[i].target /\ children[n][i].target = t /\ children[n][i].data = loc[t + 1] % Limit
    BY <2>3, <2>4, <2>5
  <2>8. t + 1 \in 1 .. N /\ t + 1 <= Len(starts)
    <3>1. t \in 0 .. N - 1
      BY <2>6, <2>7 DEF Fields
    <3> QED
      BY <1>1, <1>2, <3>1
  <2>9. starts[t + 1] = loc[t + 1]
    BY <1>2, <2>8
  <2> QED
    BY <2>7, <2>9
<1> QED
  BY <1>4, <1>5

\* Every reference holds the offset at which the type it means is written, for
\* any number of cells, functions and variables: the first pass of
\* initDstInfoObject gives each type the offset the last pass writes it at.
THEOREM ReferencesResolve == Spec => []RefsResolve
<1>1. Inv => RefsResolve
  BY RefsResolveInv
<1> QED
  BY <1>1, InvHolds, PTL

LEMMA TypesInv == Inv => TypeOK
<1> SUFFICES ASSUME Inv PROVE TypeOK
  OBVIOUS
<1>1. children \in Seq(Dies(N))
  BY DEF Inv, Types
<1>2. ASSUME NEW n \in DOMAIN children, NEW i \in DOMAIN children[n] PROVE IsField(children[n][i])
  <2>1. children[n] \in Dies(N)
    BY <1>1
  <2>2. PICK d \in Dies(N) : d = children[n]
    BY <2>1
  <2>3. d[i] \in Fields(N)
    BY <2>2 DEF Dies
  <2>4. \A f \in Fields(N) : IsField(f)
    BY DEF Fields, IsField, N
  <2> QED
    BY <2>2, <2>3, <2>4
<1> QED
  BY <1>2 DEF Inv, Types, TypeOK, N

LEMMA LengthInv == Inv => LengthExact
<1> SUFFICES ASSUME Inv, pc = "done" PROVE offset = length + LengthSize(prog.header)
  BY DEF LengthExact
<1>1. /\ length = Base + Size(FlattenSeq(children)) - LengthSize(prog.header)
      /\ offset = Base + Size(FlattenSeq(children))
  BY DEF Inv, Lengths
<1>2. N \in Nat /\ Base \in Nat /\ LengthSize(prog.header) \in Nat /\ children \in Seq(Dies(N))
  BY Numbered
<1>3. PICK s \in Nat : s = Size(FlattenSeq(children))
  <2>1. FlattenSeq(children) \in Dies(N)
    BY <1>2, FlattenType DEF Dies
  <2> QED
    BY <1>2, <2>1, SizesType
<1> QED
  BY <1>1, <1>2, <1>3

LEMMA ReadableInv == Inv => Readable
<1> SUFFICES ASSUME Inv, pc = "done" PROVE ReadAll(At(1), FlattenSeq(children)) = At(0)
  BY DEF Readable, ReadAll, At, Awaits
<1>1. /\ prog \in Programs /\ N \in Nat /\ F \in Nat /\ G \in Nat /\ loc \in [1 .. N -> Nat] /\ children \in Seq(Dies(N))
  BY Numbered
<1>2. /\ Len(children) = N + F + G + 1
      /\ \A m \in 1 .. N + F + G + 1 : children[m] = IF m = N + F + G + 1 THEN End ELSE InfoEntry(Shape(m))
  BY DEF Inv, Built, Count
<1>3. PICK m \in Nat : m = N + F + G
  BY <1>1
<1>4. PICK ss \in Seq(Dies(N)), e \in Dies(N) : children = Append(ss, e)
  <2>1. children # <<>>
    BY <1>1, <1>2
  <2> QED
    BY <1>1, <2>1, SequenceEmptyOrAppend
<1>5. Len(ss) = m /\ e = children[m + 1] /\ \A n \in 1 .. m : ss[n] = children[n]
  BY <1>2, <1>3, <1>4
<1>6. e = End
  BY <1>2, <1>3, <1>5
<1>7. ASSUME NEW n \in 1 .. m PROVE Closed(ss[n])
  <2>1. n \in 1 .. N + F + G /\ n \in 1 .. N + F + G + 1 /\ n # N + F + G + 1
    BY <1>1, <1>3
  <2>2. ss[n] = InfoEntry(Shape(n))
    BY <1>2, <1>5, <2>1
  <2>3. Shape(n) \in Dies(N) /\ Closed(Shape(n))
    BY <1>1, <2>1, Planned DEF Whole
  <2> QED
    BY <1>1, <2>2, <2>3, Filled
<1>8. FlattenSeq(ss) \in Dies(N) /\ Closed(FlattenSeq(ss))
  BY <1>5, <1>7, ClosedFlatten
<1>9. PICK w \in Dies(N) : w = FlattenSeq(ss)
  BY <1>8
<1>10. FlattenSeq(children) = w \o e
  BY <1>4, <1>9, FlattenAppend DEF Dies
<1>11. Takes(w, 1, 1)
  BY <1>8, <1>9 DEF Closed
<1>12. Takes(e, 1, 0)
  <2>1. 1 \in Nat \ {0} /\ 1 - 1 = 0
    OBVIOUS
  <2> QED
    BY <1>6, <2>1, EndTakes
<1>13. Takes(w \o e, 1, 0)
  BY <1>11, <1>12, TakesBoth
<1> QED
  BY <1>10, <1>13 DEF Takes

\* What the linker writes can be read back: the length field ends the unit where
\* the writer stopped, and the reader, which knows the fields and the children
\* of a DIE only from its abbreviation, finds every attribute and closes the
\* tree at the last end item, for any reduced program.
THEOREM UnitDecodable == Spec => []Decodable
<1>1. Inv => Decodable
  BY TypesInv, LengthInv, ReadableInv DEF Decodable
<1> QED
  BY <1>1, InvHolds, PTL

-----------------------------------------------------------------------------
(***************************************************************************)
(* The scopes of variables.  A part of a DIE that stands in a scope of     *)
(* range outer writes the variables of W, pairs of an id and a range: each *)
(* once, and in a scope of its range.                                      *)
(***************************************************************************)
Opens(d, i, p) == d[p].abbrev = "Block" /\ \A q \in p .. i : d[q].abbrev # "EndItem"
InRange(d, i, outer, r) ==
  \/ r = outer /\ \A p \in 1 .. i - 1 : ~ Opens(d, i, p)
  \/ \E p \in 1 .. i - 1 : /\ Opens(d, i, p) /\ r = <<d[p + 1].data, d[p + 2].data>>
                           /\ \A q \in 1 .. i - 1 : Opens(d, i, q) => q <= p

BlocksEnd(d) ==
  \A p \in 1 .. Len(d) : d[p].abbrev = "Block" =>
     /\ p + 2 <= Len(d) /\ d[p + 1].target = NoSn /\ d[p + 2].target = NoSn
     /\ \E q \in p .. Len(d) : d[q].abbrev = "EndItem"
IsVar(d, i) == d[i].abbrev = "Variable"
Writes(d, outer, W) ==
  /\ \A i \in 1 .. Len(d) : IsVar(d, i) =>
       /\ i + 1 <= Len(d) /\ d[i + 1].target = NoSn
       /\ \E w \in W : w[1] = d[i + 1].data /\ InRange(d, i, outer, w[2])
  /\ \A w \in W : \E i \in 1 .. Len(d) : IsVar(d, i) /\ d[i + 1].data = w[1]
  /\ \A i, j \in 1 .. Len(d) : IsVar(d, i) /\ IsVar(d, j) /\ d[i + 1].data = d[j + 1].data => i = j
Scoped(d, outer, W) == BlocksEnd(d) /\ Writes(d, outer, W)
Apart(W, X) == \A w \in W : \A x \in X : w[1] # x[1]

LEMMA Concatenated ==
  ASSUME NEW n, NEW d \in Dies(n), NEW e \in Dies(n)
  PROVE  /\ Len(d) \in Nat /\ Len(e) \in Nat /\ d \o e \in Dies(n) /\ Len(d \o e) = Len(d) + Len(e)
         /\ \A i \in 1 .. Len(d) : (d \o e)[i] = d[i]
         /\ \A i \in 1 .. Len(e) : (d \o e)[Len(d) + i] = e[i]
  BY DEF Dies

LEMMA ScopedBoth ==
  ASSUME NEW n, NEW d \in Dies(n), NEW e \in Dies(n), NEW outer, NEW W, NEW X,
         Scoped(d, outer, W), Scoped(e, outer, X), Apart(W, X)
  PROVE  d \o e \in Dies(n) /\ Scoped(d \o e, outer, W \union X)
<1>0. /\ Len(d) \in Nat /\ Len(e) \in Nat /\ d \o e \in Dies(n) /\ Len(d \o e) = Len(d) + Len(e)
      /\ \A i \in 1 .. Len(d) : (d \o e)[i] = d[i]
      /\ \A i \in 1 .. Len(e) : (d \o e)[Len(d) + i] = e[i]
  BY DEF Dies
<1> DEFINE t == d \o e  a == Len(d)  b == Len(e)
<1>1. /\ a \in Nat /\ b \in Nat /\ t \in Dies(n) /\ Len(t) = a + b
      /\ \A i \in 1 .. a : t[i] = d[i]
      /\ \A i \in 1 .. b : t[a + i] = e[i]
  BY ONLY <1>0
<1> HIDE DEF t, a, b
<1>2. \A i \in 1 .. a + b : i \in 1 .. a \/ \E j \in 1 .. b : i = a + j
  <2> SUFFICES ASSUME NEW i \in 1 .. a + b, i \notin 1 .. a
               PROVE  \E j \in 1 .. b : i = a + j
    OBVIOUS
  <2>1. i - a \in 1 .. b /\ i = a + (i - a)
    BY <1>1
  <2> QED
    BY <2>1
<1>3. \A i \in 1 .. a : i \in 1 .. a + b
  BY <1>1
<1>4. \A j \in 1 .. b : a + j \in 1 .. a + b /\ j \in Nat /\ j >= 1
  BY <1>1
<1>5. /\ \A p \in 1 .. a : d[p].abbrev = "Block" =>
            /\ p + 2 <= a /\ d[p + 1].target = NoSn /\ d[p + 2].target = NoSn
            /\ \E q \in p .. a : d[q].abbrev = "EndItem"
      /\ \A p \in 1 .. b : e[p].abbrev = "Block" =>
            /\ p + 2 <= b /\ e[p + 1].target = NoSn /\ e[p + 2].target = NoSn
            /\ \E q \in p .. b : e[q].abbrev = "EndItem"
  BY DEF Scoped, BlocksEnd, a, b
<1>6. BlocksEnd(t)
  <2>1. ASSUME NEW p \in 1 .. a, t[p].abbrev = "Block"
        PROVE  /\ p + 2 <= a + b /\ t[p + 1].target = NoSn /\ t[p + 2].target = NoSn
               /\ \E q \in p .. a + b : t[q].abbrev = "EndItem"
    <3>1. /\ p + 2 <= a /\ d[p + 1].target = NoSn /\ d[p + 2].target = NoSn
          /\ \E q \in p .. a : d[q].abbrev = "EndItem"
      BY <1>1, <1>5, <2>1
    <3>2. PICK q \in p .. a : d[q].abbrev = "EndItem"
      BY <3>1
    <3>3. p + 1 \in 1 .. a /\ p + 2 \in 1 .. a /\ q \in 1 .. a /\ q \in p .. a + b /\ p + 2 <= a + b
      BY <1>1, <3>1
    <3> QED
      BY <1>1, <3>1, <3>2, <3>3
  <2>2. ASSUME NEW p \in 1 .. b, t[a + p].abbrev = "Block"
        PROVE  /\ a + p + 2 <= a + b /\ t[a + p + 1].target = NoSn /\ t[a + p + 2].target = NoSn
               /\ \E q \in a + p .. a + b : t[q].abbrev = "EndItem"
    <3>1. /\ p + 2 <= b /\ e[p + 1].target = NoSn /\ e[p + 2].target = NoSn
          /\ \E q \in p .. b : e[q].abbrev = "EndItem"
      BY <1>1, <1>5, <2>2
    <3>2. PICK q \in p .. b : e[q].abbrev = "EndItem"
      BY <3>1
    <3>3. /\ p + 1 \in 1 .. b /\ p + 2 \in 1 .. b /\ q \in 1 .. b /\ a + q \in a + p .. a + b
          /\ a + p + 2 <= a + b /\ a + (p + 1) = a + p + 1 /\ a + (p + 2) = a + p + 2
      BY <1>1, <3>1
    <3>4. t[a + (p + 1)] = e[p + 1] /\ t[a + (p + 2)] = e[p + 2] /\ t[a + q] = e[q]
      BY <1>1, <3>3
    <3> QED
      BY <3>1, <3>2, <3>3, <3>4
  <2>3. ASSUME NEW p \in 1 .. a + b, t[p].abbrev = "Block"
        PROVE  /\ p + 2 <= a + b /\ t[p + 1].target = NoSn /\ t[p + 2].target = NoSn
               /\ \E q \in p .. a + b : t[q].abbrev = "EndItem"
    BY <1>2, <2>1, <2>2, <2>3
  <2> QED
    BY <1>1, <2>3 DEF BlocksEnd
<1>7. ASSUME NEW i \in 1 .. a, NEW r, InRange(d, i, outer, r)
      PROVE  InRange(t, i, outer, r)
  <2>1. \A q \in 1 .. i : q \in 1 .. a /\ t[q] = d[q]
    BY <1>1
  <2>2. ASSUME NEW p \in 1 .. i - 1
        PROVE  Opens(t, i, p) <=> Opens(d, i, p)
    <3>1. p \in 1 .. i /\ \A q \in p .. i : q \in 1 .. i
      BY <1>1
    <3> QED
      BY <2>1, <3>1 DEF Opens
  <2>3. CASE r = outer /\ \A p \in 1 .. i - 1 : ~ Opens(d, i, p)
    BY <2>2, <2>3 DEF InRange
  <2>4. ASSUME NEW p \in 1 .. i - 1, Opens(d, i, p), r = <<d[p + 1].data, d[p + 2].data>>,
               \A q \in 1 .. i - 1 : Opens(d, i, q) => q <= p
        PROVE  InRange(t, i, outer, r)
    <3>1. p \in 1 .. a
      BY <1>1
    <3>2. p + 2 <= a
      BY <1>5, <2>4, <3>1 DEF Opens
    <3>3. p + 1 \in 1 .. a /\ p + 2 \in 1 .. a
      BY <1>1, <3>1, <3>2
    <3> QED
      BY <1>1, <2>2, <2>4, <3>3 DEF InRange
  <2> QED
    BY <1>7, <2>3, <2>4 DEF InRange
<1>8. ASSUME NEW i \in 1 .. b, NEW r, InRange(e, i, outer, r)
      PROVE  InRange(t, a + i, outer, r)
  <2>1. \A q \in 1 .. i : q \in 1 .. b /\ t[a + q] = e[q]
    BY <1>1
  <2>2. ASSUME NEW p \in 1 .. i - 1
        PROVE  Opens(t, a + i, a + p) <=> Opens(e, i, p)
    <3>1. p \in 1 .. i /\ t[a + p] = e[p] /\ p \in Nat /\ i \in Nat
      BY <1>1, <2>1
    <3>2. ASSUME Opens(e, i, p), NEW q \in a + p .. a + i
          PROVE  t[q].abbrev # "EndItem"
      <4>1. q - a \in p .. i /\ q - a \in 1 .. i /\ a + (q - a) = q
        BY <1>1, <3>1
      <4>2. t[a + (q - a)] = e[q - a]
        BY <2>1, <4>1
      <4> QED
        BY <3>2, <4>1, <4>2 DEF Opens
    <3>3. ASSUME Opens(t, a + i, a + p), NEW q \in p .. i
          PROVE  e[q].abbrev # "EndItem"
      <4>1. a + q \in a + p .. a + i /\ q \in 1 .. i
        BY <1>1, <3>1
      <4> QED
        BY <2>1, <3>3, <4>1 DEF Opens
    <3> QED
      BY <3>1, <3>2, <3>3 DEF Opens
  <2>3. ASSUME NEW p \in 1 .. a, Opens(t, a + i, p)
        PROVE  FALSE
    <3>1. d[p].abbrev = "Block" /\ t[p] = d[p]
      BY <1>1, <2>3 DEF Opens
    <3>2. PICK q \in p .. a : d[q].abbrev = "EndItem"
      BY <1>5, <3>1
    <3>3. q \in 1 .. a /\ q \in p .. a + i
      BY <1>1
    <3>4. t[q] = d[q]
      BY <1>1, <3>3
    <3> QED
      BY <2>3, <3>2, <3>3, <3>4 DEF Opens
  <2>4. ASSUME NEW q \in 1 .. (a + i) - 1, Opens(t, a + i, q)
        PROVE  \E p \in 1 .. i - 1 : q = a + p /\ Opens(e, i, p)
    <3>1. q \notin 1 .. a
      BY <2>3, <2>4
    <3>2. q - a \in 1 .. i - 1 /\ q = a + (q - a)
      BY <1>1, <3>1
    <3>3. PICK p \in 1 .. i - 1 : q = a + p
      BY <3>2
    <3> QED
      BY <2>2, <2>4, <3>3
  <2>5. CASE r = outer /\ \A p \in 1 .. i - 1 : ~ Opens(e, i, p)
    <3>1. \A q \in 1 .. (a + i) - 1 : ~ Opens(t, a + i, q)
      BY <2>4, <2>5
    <3> QED
      BY <2>5, <3>1 DEF InRange
  <2>6. ASSUME NEW p \in 1 .. i - 1, Opens(e, i, p), r = <<e[p + 1].data, e[p + 2].data>>,
               \A q \in 1 .. i - 1 : Opens(e, i, q) => q <= p
        PROVE  InRange(t, a + i, outer, r)
    <3>1. p \in 1 .. b /\ i \in Nat /\ p \in Nat
      BY <1>1
    <3>2. p + 2 <= b
      BY <1>5, <2>6, <3>1 DEF Opens
    <3>3. p + 1 \in 1 .. b /\ p + 2 \in 1 .. b /\ a + (p + 1) = (a + p) + 1 /\ a + (p + 2) = (a + p) + 2
          /\ a + p \in 1 .. (a + i) - 1
      BY <1>1, <3>1, <3>2
    <3>4. t[(a + p) + 1] = e[p + 1] /\ t[(a + p) + 2] = e[p + 2]
      BY <1>1, <3>3
    <3>5. ASSUME NEW q \in 1 .. (a + i) - 1, Opens(t, a + i, q)
          PROVE  q <= a + p
      <4>1. PICK x \in 1 .. i - 1 : q = a + x /\ Opens(e, i, x)
        BY <2>4, <3>5
      <4>2. x <= p /\ x \in Nat
        BY <2>6, <4>1
      <4> QED
        BY <1>1, <3>1, <4>1, <4>2
    <3>6. Opens(t, a + i, a + p)
      BY <2>2, <2>6
    <3> QED
      BY <2>6, <3>3, <3>4, <3>5, <3>6 DEF InRange
  <2> QED
    BY <1>8, <2>5, <2>6 DEF InRange
<1>9. /\ \A i \in 1 .. a : IsVar(d, i) =>
            /\ i + 1 <= a /\ d[i + 1].target = NoSn
            /\ \E w \in W : w[1] = d[i + 1].data /\ InRange(d, i, outer, w[2])
      /\ \A w \in W : \E i \in 1 .. a : IsVar(d, i) /\ d[i + 1].data = w[1]
      /\ \A i, j \in 1 .. a : IsVar(d, i) /\ IsVar(d, j) /\ d[i + 1].data = d[j + 1].data => i = j
  BY DEF Scoped, Writes, a
<1>10. /\ \A i \in 1 .. b : IsVar(e, i) =>
            /\ i + 1 <= b /\ e[i + 1].target = NoSn
            /\ \E w \in X : w[1] = e[i + 1].data /\ InRange(e, i, outer, w[2])
       /\ \A w \in X : \E i \in 1 .. b : IsVar(e, i) /\ e[i + 1].data = w[1]
       /\ \A i, j \in 1 .. b : IsVar(e, i) /\ IsVar(e, j) /\ e[i + 1].data = e[j + 1].data => i = j
  BY DEF Scoped, Writes, b
<1>11. ASSUME NEW i \in 1 .. a
       PROVE  /\ IsVar(t, i) <=> IsVar(d, i)
              /\ IsVar(d, i) => /\ i + 1 <= a + b /\ t[i + 1] = d[i + 1] /\ t[i + 1].target = NoSn
                                /\ \E w \in W : w[1] = t[i + 1].data /\ InRange(t, i, outer, w[2])
  <2>1. IsVar(t, i) <=> IsVar(d, i)
    BY <1>1 DEF IsVar
  <2>2. ASSUME IsVar(d, i)
        PROVE  i + 1 <= a + b /\ t[i + 1] = d[i + 1]
    <3>1. i + 1 <= a
      BY <1>9, <2>2
    <3>2. i + 1 \in 1 .. a /\ i + 1 <= a + b
      BY <1>1, <3>1
    <3> QED
      BY <1>1, <3>2
  <2> QED
    BY <1>7, <1>9, <2>1, <2>2
<1>12. ASSUME NEW i \in 1 .. b
       PROVE  /\ IsVar(t, a + i) <=> IsVar(e, i)
              /\ IsVar(e, i) => /\ (a + i) + 1 <= a + b /\ t[(a + i) + 1] = e[i + 1] /\ t[(a + i) + 1].target = NoSn
                                /\ \E w \in X : w[1] = t[(a + i) + 1].data /\ InRange(t, a + i, outer, w[2])
  <2>1. IsVar(t, a + i) <=> IsVar(e, i)
    BY <1>1 DEF IsVar
  <2>2. ASSUME IsVar(e, i)
        PROVE  (a + i) + 1 <= a + b /\ t[(a + i) + 1] = e[i + 1]
    <3>1. i + 1 <= b
      BY <1>10, <2>2
    <3>2. i + 1 \in 1 .. b /\ (a + i) + 1 = a + (i + 1) /\ (a + i) + 1 <= a + b
      BY <1>1, <3>1
    <3> QED
      BY <1>1, <3>2
  <2> QED
    BY <1>8, <1>10, <2>1, <2>2
<1>13. ASSUME NEW i \in 1 .. a + b, IsVar(t, i)
       PROVE  /\ i + 1 <= a + b /\ t[i + 1].target = NoSn
              /\ \E w \in W \union X : w[1] = t[i + 1].data /\ InRange(t, i, outer, w[2])
  <2>1. CASE i \in 1 .. a
    BY <1>11, <1>13, <2>1
  <2>2. ASSUME NEW j \in 1 .. b, i = a + j
        PROVE  /\ i + 1 <= a + b /\ t[i + 1].target = NoSn
               /\ \E w \in W \union X : w[1] = t[i + 1].data /\ InRange(t, i, outer, w[2])
    BY <1>12, <1>13, <2>2
  <2> QED
    BY <1>2, <2>1, <2>2
<1>14. ASSUME NEW w \in W \union X
       PROVE  \E i \in 1 .. a + b : IsVar(t, i) /\ t[i + 1].data = w[1]
  <2>1. CASE w \in W
    <3>1. PICK i \in 1 .. a : IsVar(d, i) /\ d[i + 1].data = w[1]
      BY <1>9, <2>1
    <3> QED
      BY <1>3, <1>11, <3>1
  <2>2. CASE w \in X
    <3>1. PICK i \in 1 .. b : IsVar(e, i) /\ e[i + 1].data = w[1]
      BY <1>10, <2>2
    <3>2. a + i \in 1 .. a + b /\ IsVar(t, a + i) /\ t[(a + i) + 1].data = w[1]
      BY <1>4, <1>12, <3>1
    <3> QED
      BY <3>2
  <2> QED
    BY <2>1, <2>2
<1>15. ASSUME NEW i \in 1 .. a + b, NEW j \in 1 .. a + b, IsVar(t, i), IsVar(t, j), t[i + 1].data = t[j + 1].data
       PROVE  i = j
  <2>0. ASSUME NEW x \in 1 .. a, NEW y \in 1 .. b, IsVar(t, x), IsVar(t, a + y), t[x + 1].data = t[(a + y) + 1].data
        PROVE  FALSE
    <3>1. PICK w \in W : w[1] = t[x + 1].data
      BY <1>11, <2>0
    <3>2. PICK v \in X : v[1] = t[(a + y) + 1].data
      BY <1>12, <2>0
    <3> QED
      BY <2>0, <3>1, <3>2 DEF Apart
  <2>1. CASE i \in 1 .. a /\ j \in 1 .. a
    BY <1>9, <1>11, <1>15, <2>1
  <2>2. ASSUME NEW x \in 1 .. b, NEW y \in 1 .. b, i = a + x, j = a + y
        PROVE  i = j
    <3>1. x = y
      BY <1>10, <1>12, <1>15, <2>2
    <3> QED
      BY <2>2, <3>1
  <2>3. ASSUME i \in 1 .. a, NEW y \in 1 .. b, j = a + y
        PROVE  i = j
    BY <1>15, <2>0, <2>3
  <2>4. ASSUME j \in 1 .. a, NEW x \in 1 .. b, i = a + x
        PROVE  i = j
    BY <1>15, <2>0, <2>4
  <2> QED
    BY <1>2, <2>1, <2>2, <2>3, <2>4
<1>16. Writes(t, outer, W \union X)
  BY <1>1, <1>13, <1>14, <1>15 DEF Writes
<1> QED
  BY <1>1, <1>6, <1>16 DEF Scoped, t

LEMMA FlattenScoped ==
  ASSUME NEW n, NEW ss \in Seq(Dies(n)), NEW outer, NEW W,
         \A i \in DOMAIN ss : Scoped(ss[i], outer, W[i]),
         \A i, j \in DOMAIN ss : i # j => Apart(W[i], W[j]),
         NEW X, \A x : x \in X <=> \E i \in DOMAIN ss : x \in W[i]
  PROVE  FlattenSeq(ss) \in Dies(n) /\ Scoped(FlattenSeq(ss), outer, X)
<1> DEFINE All(m) == UNION {W[i] : i \in 1 .. m}
           T == {m \in Nat : \A u \in Seq(Dies(n)) :
                   Len(u) = m /\ m <= Len(ss) /\ (\A i \in 1 .. m : u[i] = ss[i]) => Scoped(FlattenSeq(u), outer, All(m))}
<1>0. \A u \in Seq(Dies(n)) : FlattenSeq(u) \in Dies(n)
  BY FlattenType DEF Dies
<1>1. 0 \in T
  <2> SUFFICES ASSUME NEW u \in Seq(Dies(n)), Len(u) = 0 PROVE Scoped(FlattenSeq(u), outer, All(0))
    OBVIOUS
  <2>1. u = <<>> /\ All(0) = {}
    OBVIOUS
  <2>2. FlattenSeq(u) = <<>> /\ Len(<<>>) = 0
    BY <2>1, FlattenEmpty
  <2>3. Scoped(<<>>, outer, {})
    BY <2>2 DEF Scoped, BlocksEnd, Writes
  <2> QED
    BY <2>1, <2>2, <2>3
<1>2. ASSUME NEW m \in Nat, m \in T PROVE m + 1 \in T
  <2> HIDE DEF All
  <2> SUFFICES ASSUME NEW u \in Seq(Dies(n)), Len(u) = m + 1, m + 1 <= Len(ss), \A i \in 1 .. m + 1 : u[i] = ss[i]
               PROVE  Scoped(FlattenSeq(u), outer, All(m + 1))
    <3>1. m + 1 \in Nat
      OBVIOUS
    <3> QED
      BY <3>1
  <2>1. PICK v \in Seq(Dies(n)), x \in Dies(n) : u = Append(v, x)
    <3>1. u # <<>>
      OBVIOUS
    <3> QED
      BY <3>1, SequenceEmptyOrAppend
  <2>2. Len(v) = m /\ (\A i \in 1 .. m : v[i] = ss[i]) /\ x = ss[m + 1] /\ m <= Len(ss) /\ m + 1 \in DOMAIN ss
        /\ \A i \in 1 .. m : i \in DOMAIN ss /\ i # m + 1
    BY <2>1
  <2>3. Scoped(FlattenSeq(v), outer, All(m)) /\ Scoped(x, outer, W[m + 1])
    BY <1>2, <2>2
  <2>4. PICK w \in Dies(n) : w = FlattenSeq(v)
    BY <1>0
  <2>5. FlattenSeq(u) = w \o x
    BY <2>1, <2>4, FlattenAppend DEF Dies
  <2>6. Apart(All(m), W[m + 1])
    <3>1. ASSUME NEW y \in All(m), NEW z \in W[m + 1] PROVE y[1] # z[1]
      <4>1. PICK i \in 1 .. m : y \in W[i]
        BY DEF All
      <4>2. Apart(W[i], W[m + 1])
        BY <2>2
      <4> QED
        BY <4>1, <4>2 DEF Apart
    <3> QED
      BY <3>1 DEF Apart
  <2>7. All(m + 1) = All(m) \union W[m + 1]
    <3>1. 1 .. m + 1 = (1 .. m) \union {m + 1}
      OBVIOUS
    <3> QED
      BY <3>1 DEF All
  <2>8. Scoped(w \o x, outer, All(m) \union W[m + 1])
    <3>1. PICK y : y = All(m)
      OBVIOUS
    <3> QED
      BY <2>3, <2>4, <2>6, <3>1, ScopedBoth
  <2> QED
    BY <2>5, <2>7, <2>8
<1>3. Nat \subseteq T
  <2> HIDE DEF T
  <2> QED
    BY <1>1, <1>2, AllNaturals
<1>4. Len(ss) \in Nat /\ DOMAIN ss = 1 .. Len(ss)
  OBVIOUS
<1>5. Scoped(FlattenSeq(ss), outer, All(Len(ss)))
  BY <1>3, <1>4
<1>6. X = All(Len(ss))
  BY <1>4
<1> QED
  BY <1>0, <1>5, <1>6

\* Fields that neither open nor close a scope, and fields that are no scopes and
\* no variables.
PlainFields(n) == {x \in Fields(n) : x.abbrev \notin {"Block", "EndItem"}}
QuietFields(n) == {x \in Fields(n) : x.abbrev \notin {"Block", "Variable"}}

LEMMA QuietScoped ==
  ASSUME NEW n, NEW d \in Seq(QuietFields(n)), NEW outer
  PROVE  d \in Dies(n) /\ Scoped(d, outer, {})
<1>1. \A i \in 1 .. Len(d) : d[i] \in QuietFields(n)
  OBVIOUS
<1>2. \A i \in 1 .. Len(d) : d[i] \in Fields(n) /\ d[i].abbrev # "Block" /\ d[i].abbrev # "Variable"
  BY <1>1 DEF QuietFields
<1>3. d \in Dies(n)
  BY <1>2 DEF Dies
<1> QED
  BY <1>2, <1>3 DEF Scoped, BlocksEnd, Writes, IsVar

LEMMA VariableFields ==
  ASSUME NEW n \in Nat, NEW v \in VarsTo(n), NEW a \in {"Variable", "Parameter"}
  PROVE  /\ VariableShape(v, a) = <<Abbrev(a), Data(v.size, v.id), Ref4(v.type)>>
         /\ Abbrev(a) \in PlainFields(n) /\ Data(v.size, v.id) \in PlainFields(n) \cap QuietFields(n)
         /\ Ref4(v.type) \in PlainFields(n) \cap QuietFields(n) /\ (a = "Parameter" => Abbrev(a) \in QuietFields(n))
         /\ Abbrev(a).abbrev = a /\ Data(v.size, v.id).data = v.id /\ Data(v.size, v.id).target = NoSn
         /\ Data(v.size, v.id).abbrev = NoAbbrev /\ Ref4(v.type).abbrev = NoAbbrev
<1>1. v.size \in Nat /\ v.id \in Nat /\ v.type \in 0 .. n - 1
  BY DEF VarsTo
<1>2. a \in Abbrevs
  BY DEF Abbrevs
<1>3. Abbrev(a) \in Fields(n) /\ Data(v.size, v.id) \in Fields(n) /\ Ref4(v.type) \in Fields(n)
  BY <1>1, <1>2, FieldTypes
<1>4. /\ Abbrev(a).abbrev = a /\ Data(v.size, v.id).data = v.id /\ Data(v.size, v.id).target = NoSn
      /\ Data(v.size, v.id).abbrev = NoAbbrev /\ Ref4(v.type).abbrev = NoAbbrev
  BY DEF Abbrev, Data, Ref4, Field
<1> QED
  BY <1>3, <1>4 DEF PlainFields, QuietFields, VariableShape, NoAbbrev

LEMMA ParametersQuiet ==
  ASSUME NEW n \in Nat, NEW vs \in Seq(VarsTo(n))
  PROVE  Parameters(vs) \in Seq(QuietFields(n))
<1>1. PICK ss : ss = [i \in DOMAIN vs |-> VariableShape(vs[i], "Parameter")]
  OBVIOUS
<1>2. ASSUME NEW i \in DOMAIN vs PROVE ss[i] \in Seq(QuietFields(n))
  <2>1. PICK v \in VarsTo(n) : v = vs[i]
    OBVIOUS
  <2>2. PICK x, y, z : x = Abbrev("Parameter") /\ y = Data(v.size, v.id) /\ z = Ref4(v.type)
    OBVIOUS
  <2>3. ss[i] = <<x, y, z>> /\ x \in QuietFields(n) /\ y \in QuietFields(n) /\ z \in QuietFields(n)
    BY <1>1, <2>1, <2>2, VariableFields
  <2> QED
    BY <2>3
<1>3. ss \in Seq(Seq(QuietFields(n)))
  BY <1>1, <1>2
<1> QED
  BY <1>1, <1>3, FlattenType DEF Parameters

LEMMA VariablesPlain ==
  ASSUME NEW n \in Nat, NEW vs \in Seq(VarsTo(n)), NEW r
  PROVE  VariablesOf(vs, r) \in Seq(PlainFields(n))
<1>1. PICK ss : ss = [i \in DOMAIN vs |-> IF RangeOf(vs[i]) = r THEN VariableShape(vs[i], "Variable") ELSE <<>>]
  OBVIOUS
<1>2. ASSUME NEW i \in DOMAIN vs PROVE ss[i] \in Seq(PlainFields(n))
  <2>1. PICK v \in VarsTo(n) : v = vs[i]
    OBVIOUS
  <2>2. PICK x, y, z : x = Abbrev("Variable") /\ y = Data(v.size, v.id) /\ z = Ref4(v.type)
    OBVIOUS
  <2>3. VariableShape(v, "Variable") = <<x, y, z>> /\ x \in PlainFields(n) /\ y \in PlainFields(n) /\ z \in PlainFields(n)
    BY <2>2, VariableFields
  <2>4. ss[i] = <<x, y, z>> \/ ss[i] = <<>>
    BY <1>1, <2>1, <2>3
  <2>5. <<x, y, z>> \in Seq(PlainFields(n))
    BY <2>3
  <2>6. <<>> \in Seq(PlainFields(n))
    OBVIOUS
  <2> QED
    BY <2>4, <2>5, <2>6
<1>3. ss \in Seq(Seq(PlainFields(n)))
  <2>1. Len(vs) \in Nat /\ DOMAIN vs = 1 .. Len(vs)
    OBVIOUS
  <2>2. ss \in [1 .. Len(vs) -> Seq(PlainFields(n))]
    BY <1>1, <1>2, <2>1
  <2> QED
    BY <2>1, <2>2
<1> QED
  BY <1>1, <1>3, FlattenType DEF VariablesOf

LEMMA VariableScoped ==
  ASSUME NEW n \in Nat, NEW v \in VarsTo(n), NEW r
  PROVE  Scoped(VariableShape(v, "Variable"), r, {<<v.id, r>>})
<1>1. PICK x, y, z : x = Abbrev("Variable") /\ y = Data(v.size, v.id) /\ z = Ref4(v.type)
  OBVIOUS
<1>2. PICK d : d = <<x, y, z>>
  OBVIOUS
<1>3. d = VariableShape(v, "Variable") /\ x.abbrev = "Variable" /\ y.data = v.id /\ y.target = NoSn
      /\ y.abbrev = NoAbbrev /\ z.abbrev = NoAbbrev
  BY <1>1, <1>2, VariableFields
<1>4. Len(d) = 3 /\ d[1] = x /\ d[2] = y /\ d[3] = z /\ 1 .. 3 = {1, 2, 3}
  BY <1>2
<1>5. d[1].abbrev = "Variable" /\ d[2].abbrev = NoAbbrev /\ d[3].abbrev = NoAbbrev /\ d[1 + 1] = y
  BY <1>3, <1>4
<1>6. \A i \in 1 .. Len(d) : d[i].abbrev # "Block" /\ (IsVar(d, i) <=> i = 1)
  BY <1>4, <1>5 DEF IsVar, NoAbbrev
<1>7. BlocksEnd(d)
  BY <1>6 DEF BlocksEnd
<1>8. InRange(d, 1, r, r)
  BY DEF InRange
<1>9. <<v.id, r>>[1] = v.id /\ <<v.id, r>>[2] = r
  OBVIOUS
<1>10. Writes(d, r, {<<v.id, r>>})
  <2>1. \A i \in 1 .. Len(d) : IsVar(d, i) =>
          i + 1 <= Len(d) /\ d[i + 1].target = NoSn /\ d[i + 1].data = v.id /\ InRange(d, i, r, r)
    BY <1>3, <1>4, <1>5, <1>6, <1>8
  <2>2. 1 \in 1 .. Len(d) /\ IsVar(d, 1) /\ d[1 + 1].data = v.id
    BY <1>3, <1>4, <1>5, <1>6
  <2>3. \A i, j \in 1 .. Len(d) : IsVar(d, i) /\ IsVar(d, j) => i = j
    BY <1>6
  <2> QED
    BY <1>9, <2>1, <2>2, <2>3 DEF Writes
<1> QED
  BY <1>3, <1>7, <1>10 DEF Scoped

\* The variables of vs in the range r, and all.
Of(vs, r)  == {<<vs[i].id, r>> : i \in {j \in DOMAIN vs : RangeOf(vs[j]) = r}}
AllOf(vs)  == {<<vs[i].id, RangeOf(vs[i])>> : i \in DOMAIN vs}
Distinct(vs) == \A i, j \in DOMAIN vs : vs[i].id = vs[j].id => i = j

LEMMA VariablesScope ==
  ASSUME NEW n \in Nat, NEW vs \in Seq(VarsTo(n)), Distinct(vs), NEW r
  PROVE  VariablesOf(vs, r) \in Dies(n) /\ Scoped(VariablesOf(vs, r), r, Of(vs, r))
<1>1. PICK ss : ss = [i \in DOMAIN vs |-> IF RangeOf(vs[i]) = r THEN VariableShape(vs[i], "Variable") ELSE <<>>]
  OBVIOUS
<1>2. PICK W : W = [i \in DOMAIN vs |-> IF RangeOf(vs[i]) = r THEN {<<vs[i].id, r>>} ELSE {}]
  OBVIOUS
<1>3. ASSUME NEW i \in DOMAIN vs PROVE ss[i] \in Dies(n) /\ Scoped(ss[i], r, W[i])
  <2>1. PICK v \in VarsTo(n) : v = vs[i]
    OBVIOUS
  <2>2. CASE RangeOf(v) = r
    <3>1. ss[i] = VariableShape(v, "Variable") /\ W[i] = {<<v.id, r>>}
      BY <1>1, <1>2, <2>1, <2>2
    <3>2. Whole(VariableShape(v, "Variable"), n)
      BY VariableWhole
    <3> QED
      BY <3>1, <3>2, VariableScoped DEF Whole
  <2>3. CASE RangeOf(v) # r
    <3>1. ss[i] = <<>> /\ W[i] = {}
      BY <1>1, <1>2, <2>1, <2>3
    <3>2. <<>> \in Seq(QuietFields(n))
      OBVIOUS
    <3> QED
      BY <3>1, <3>2, QuietScoped
  <2> QED
    BY <2>2, <2>3
<1>4. DOMAIN ss = DOMAIN vs /\ ss \in Seq(Dies(n))
  <2>1. Len(vs) \in Nat /\ DOMAIN vs = 1 .. Len(vs)
    OBVIOUS
  <2>2. ss \in [1 .. Len(vs) -> Dies(n)]
    BY <1>1, <1>3, <2>1
  <2> QED
    BY <2>1, <2>2
<1>5. ASSUME NEW i \in DOMAIN vs, NEW j \in DOMAIN vs, i # j PROVE Apart(W[i], W[j])
  <2>1. vs[i].id # vs[j].id
    BY <1>5 DEF Distinct
  <2>2. \A x \in W[i] : x[1] = vs[i].id
    BY <1>2
  <2>3. \A x \in W[j] : x[1] = vs[j].id
    BY <1>2
  <2> QED
    BY <2>1, <2>2, <2>3 DEF Apart
<1>6. FlattenSeq(ss) \in Dies(n) /\ Scoped(FlattenSeq(ss), r, Of(vs, r))
  <2>1. \A i \in DOMAIN ss : Scoped(ss[i], r, W[i])
    BY <1>3, <1>4
  <2>2. \A i, j \in DOMAIN ss : i # j => Apart(W[i], W[j])
    BY <1>4, <1>5
  <2>3. ss \in Seq(Dies(n))
    BY <1>4
  <2>4. \A x : x \in Of(vs, r) <=> \E i \in DOMAIN ss : x \in W[i]
    BY <1>2, <1>4 DEF Of
  <2>5. PICK X : X = Of(vs, r)
    OBVIOUS
  <2> QED
    BY <2>1, <2>2, <2>3, <2>4, <2>5, FlattenScoped
<1> QED
  BY <1>1, <1>6 DEF VariablesOf

LEMMA BlockScoped ==
  ASSUME NEW n \in Nat, NEW vs \in Seq(VarsTo(n)), Distinct(vs), NEW r \in Nat \X Nat, NEW outer
  PROVE  BlockShape(r, vs) \in Dies(n) /\ Scoped(BlockShape(r, vs), outer, Of(vs, r))
<1>1. PICK V, W : V = VariablesOf(vs, r) /\ W = Of(vs, r)
  OBVIOUS
<1>2. V \in Dies(n) /\ V \in Seq(PlainFields(n)) /\ Scoped(V, r, W)
  BY <1>1, VariablesScope, VariablesPlain
<1>3. PICK b \in Nat : b = Len(V)
  BY <1>2 DEF Dies
<1>4. PICK B, f, g, e : B = Abbrev("Block") /\ f = Data(4, r[1]) /\ g = Data(4, r[2]) /\ e = Abbrev("EndItem")
  OBVIOUS
<1>5. /\ B.abbrev = "Block" /\ f.abbrev = NoAbbrev /\ g.abbrev = NoAbbrev /\ e.abbrev = "EndItem"
      /\ f.target = NoSn /\ g.target = NoSn /\ r = <<f.data, g.data>>
  <2>1. f.data = r[1] /\ g.data = r[2] /\ r = <<r[1], r[2]>>
    BY <1>4 DEF Data, Field
  <2> QED
    BY <1>4, <2>1 DEF Abbrev, Data, Field
<1>6. B \in Fields(n) /\ f \in Fields(n) /\ g \in Fields(n) /\ e \in Fields(n)
  <2>1. r[1] \in Nat /\ r[2] \in Nat /\ 4 \in Nat
    OBVIOUS
  <2>2. "Block" \in Abbrevs /\ "EndItem" \in Abbrevs
    BY DEF Abbrevs
  <2> QED
    BY <1>4, <2>1, <2>2, FieldTypes
<1>7. PICK h \in Dies(n) : h = <<B, f, g>> /\ Len(h) = 3 /\ h[1] = B /\ h[2] = f /\ h[3] = g
  <2>1. <<B, f, g>> \in Dies(n)
    BY <1>6 DEF Dies
  <2>2. PICK h : h = <<B, f, g>>
    OBVIOUS
  <2>3. Len(h) = 3 /\ h[1] = B /\ h[2] = f /\ h[3] = g
    BY <2>2
  <2> QED
    BY <2>1, <2>2, <2>3
<1>8. PICK z \in Dies(n) : z = End /\ Len(z) = 1 /\ z[1] = e
  <2>1. End = <<e>>
    BY <1>4 DEF End
  <2>2. Len(<<e>>) = 1 /\ <<e>>[1] = e
    OBVIOUS
  <2>3. End \in Dies(n)
    BY FieldTypes
  <2> QED
    BY <2>1, <2>2, <2>3
<1>9. PICK t \in Dies(n) : t = BlockShape(r, vs) /\ t = h \o (V \o z)
  <2>1. BlockShape(r, vs) = (h \o V) \o z
    BY <1>1, <1>4, <1>7, <1>8 DEF BlockShape
  <2>2. (h \o V) \o z = h \o (V \o z) /\ h \o (V \o z) \in Dies(n)
    <3>1. h \in Seq(Fields(n)) /\ V \in Seq(Fields(n)) /\ z \in Seq(Fields(n))
      BY <1>2 DEF Dies
    <3>2. h \o (V \o z) \in Seq(Fields(n))
      BY <3>1
    <3> QED
      BY SMTT(60), <3>1, <3>2, ConcatAssociative DEF Dies
  <2> QED
    BY <2>1, <2>2
<1>10. /\ Len(t) = b + 4 /\ t[1] = B /\ t[2] = f /\ t[3] = g /\ t[b + 4] = e
       /\ \A i \in 1 .. b : t[3 + i] = V[i]
  <2>1. PICK y \in Dies(n) : y = V \o z
    BY <1>2, Concatenated
  <2>2. /\ Len(y) = b + 1 /\ (\A i \in 1 .. b : y[i] = V[i]) /\ y[b + 1] = e
    <3>1. /\ Len(y) = Len(V) + Len(z)
          /\ \A i \in 1 .. Len(V) : y[i] = V[i]
          /\ \A i \in 1 .. Len(z) : y[Len(V) + i] = z[i]
      BY <1>2, <2>1, Concatenated
    <3>2. 1 \in 1 .. 1
      OBVIOUS
    <3> QED
      BY <1>3, <1>8, <3>1, <3>2
  <2>3. /\ Len(t) = Len(h) + Len(y)
        /\ \A i \in 1 .. Len(h) : t[i] = h[i]
        /\ \A i \in 1 .. Len(y) : t[Len(h) + i] = y[i]
    <3>1. t = h \o y
      BY <1>9, <2>1
    <3> QED
      BY <3>1, Concatenated
  <2>4. 1 \in 1 .. 3 /\ 2 \in 1 .. 3 /\ 3 \in 1 .. 3 /\ b + 1 \in 1 .. b + 1 /\ 3 + (b + 1) = b + 4
        /\ \A i \in 1 .. b : i \in 1 .. b + 1
    OBVIOUS
  <2> QED
    BY <1>7, <2>2, <2>3, <2>4
<1>11. \A i \in 1 .. b : V[i].abbrev # "Block" /\ V[i].abbrev # "EndItem"
  <2>1. \A i \in 1 .. b : V[i] \in PlainFields(n)
    BY <1>2, <1>3
  <2> QED
    BY <2>1 DEF PlainFields
<1>12. ASSUME NEW i \in 1 .. b + 4
       PROVE  \/ i = 1 /\ t[i].abbrev = "Block"
              \/ i \in {2, 3} /\ t[i].abbrev = NoAbbrev
              \/ (\E j \in 1 .. b : i = 3 + j) /\ t[i].abbrev # "Block" /\ t[i].abbrev # "EndItem"
              \/ i = b + 4 /\ t[i].abbrev = "EndItem"
  <2>1. CASE i \in {1, 2, 3, b + 4}
    BY <1>5, <1>10, <2>1
  <2>2. CASE i \notin {1, 2, 3, b + 4}
    <3>1. i - 3 \in 1 .. b /\ i = 3 + (i - 3)
      BY <2>2
    <3>2. PICK j \in 1 .. b : i = 3 + j
      BY <3>1
    <3>3. t[i] = V[j]
      BY <1>10, <3>2
    <3> QED
      BY <1>11, <3>2, <3>3
  <2> QED
    BY <2>1, <2>2
<1>13. \A i \in 1 .. b + 4 : t[i].abbrev = "Block" => i = 1
  BY <1>12 DEF NoAbbrev
<1>14. BlocksEnd(t)
  <2>1. ASSUME NEW p \in 1 .. b + 4, t[p].abbrev = "Block"
        PROVE  /\ p + 2 <= b + 4 /\ t[p + 1].target = NoSn /\ t[p + 2].target = NoSn
               /\ \E q \in p .. b + 4 : t[q].abbrev = "EndItem"
    <3>1. p = 1
      BY <1>13, <2>1
    <3>2. p + 1 = 2 /\ p + 2 = 3 /\ 3 <= b + 4 /\ b + 4 \in p .. b + 4
      BY <3>1
    <3> QED
      BY <1>5, <1>10, <3>2
  <2> QED
    BY <1>10, <2>1 DEF BlocksEnd
<1>15. ASSUME NEW i \in 1 .. b + 4
       PROVE  IsVar(t, i) <=> \E j \in 1 .. b : i = 3 + j /\ IsVar(V, j)
  <2>1. \A j \in 1 .. b : IsVar(t, 3 + j) <=> IsVar(V, j)
    BY <1>10 DEF IsVar
  <2>2. IsVar(t, i) => \E j \in 1 .. b : i = 3 + j
    BY <1>12 DEF IsVar, NoAbbrev
  <2> QED
    BY <2>1, <2>2
<1>16. ASSUME NEW j \in 1 .. b
       PROVE  InRange(t, 3 + j, outer, r)
  <2>1. ASSUME NEW q \in 1 .. 3 + j PROVE t[q].abbrev # "EndItem"
    <3>1. q \in 1 .. b + 4 /\ q # b + 4
      OBVIOUS
    <3> QED
      BY <1>12, <3>1 DEF NoAbbrev
  <2>2. Opens(t, 3 + j, 1)
    BY <1>5, <1>10, <2>1 DEF Opens
  <2>3. ASSUME NEW q \in 1 .. (3 + j) - 1, Opens(t, 3 + j, q) PROVE q <= 1
    <3>1. q \in 1 .. b + 4
      OBVIOUS
    <3> QED
      BY <1>13, <2>3, <3>1 DEF Opens
  <2>4. 1 \in 1 .. (3 + j) - 1 /\ 1 + 1 = 2 /\ 1 + 2 = 3
    OBVIOUS
  <2>5. r = <<t[1 + 1].data, t[1 + 2].data>>
    BY <1>5, <1>10, <2>4
  <2> QED
    BY <2>2, <2>3, <2>4, <2>5 DEF InRange
<1>17. ASSUME NEW j \in 1 .. b, NEW w, InRange(V, j, r, w)
       PROVE  w = r
  <2>1. \A p \in 1 .. j - 1 : ~ Opens(V, j, p)
    <3>1. \A p \in 1 .. j - 1 : p \in 1 .. b
      OBVIOUS
    <3> QED
      BY <1>11, <3>1 DEF Opens
  <2> QED
    BY <1>17, <2>1 DEF InRange
<1>18. /\ \A i \in 1 .. b : IsVar(V, i) =>
             /\ i + 1 <= b /\ V[i + 1].target = NoSn
             /\ \E w \in W : w[1] = V[i + 1].data /\ InRange(V, i, r, w[2])
       /\ \A w \in W : \E i \in 1 .. b : IsVar(V, i) /\ V[i + 1].data = w[1]
       /\ \A i, j \in 1 .. b : IsVar(V, i) /\ IsVar(V, j) /\ V[i + 1].data = V[j + 1].data => i = j
  BY <1>2, <1>3 DEF Scoped, Writes
<1>19. ASSUME NEW j \in 1 .. b, IsVar(V, j)
       PROVE  /\ 3 + j \in 1 .. b + 4 /\ (3 + j) + 1 <= b + 4 /\ t[(3 + j) + 1] = V[j + 1] /\ V[j + 1].target = NoSn
              /\ \E w \in W : w[1] = V[j + 1].data /\ InRange(t, 3 + j, outer, w[2])
  <2>1. j + 1 <= b /\ V[j + 1].target = NoSn
    BY <1>18, <1>19
  <2>2. PICK w \in W : w[1] = V[j + 1].data /\ InRange(V, j, r, w[2])
    BY <1>18, <1>19
  <2>3. w[2] = r
    BY <1>17, <2>2
  <2>4. j + 1 \in 1 .. b /\ (3 + j) + 1 = 3 + (j + 1) /\ 3 + j \in 1 .. b + 4 /\ (3 + j) + 1 <= b + 4
    BY <2>1
  <2>5. t[(3 + j) + 1] = V[j + 1]
    BY <1>10, <2>4
  <2> QED
    BY <1>16, <2>1, <2>2, <2>3, <2>4, <2>5
<1>20. ASSUME NEW i \in 1 .. b + 4, IsVar(t, i)
       PROVE  /\ i + 1 <= b + 4 /\ t[i + 1].target = NoSn
              /\ \E w \in W : w[1] = t[i + 1].data /\ InRange(t, i, outer, w[2])
  BY <1>15, <1>19, <1>20
<1>21. ASSUME NEW w \in W PROVE \E i \in 1 .. b + 4 : IsVar(t, i) /\ t[i + 1].data = w[1]
  <2>1. PICK j \in 1 .. b : IsVar(V, j) /\ V[j + 1].data = w[1]
    BY <1>18
  <2>2. 3 + j \in 1 .. b + 4 /\ t[(3 + j) + 1].data = w[1]
    BY <1>19, <2>1
  <2>3. IsVar(t, 3 + j)
    BY <1>15, <2>1, <2>2
  <2> QED
    BY <2>2, <2>3
<1>22. ASSUME NEW i \in 1 .. b + 4, NEW j \in 1 .. b + 4, IsVar(t, i), IsVar(t, j), t[i + 1].data = t[j + 1].data
       PROVE  i = j
  <2>1. PICK x \in 1 .. b : i = 3 + x /\ IsVar(V, x)
    BY <1>15, <1>22
  <2>2. PICK y \in 1 .. b : j = 3 + y /\ IsVar(V, y)
    BY <1>15, <1>22
  <2>3. V[x + 1].data = V[y + 1].data
    BY <1>19, <1>22, <2>1, <2>2
  <2>4. x = y
    BY <1>18, <2>1, <2>2, <2>3
  <2> QED
    BY <2>1, <2>2, <2>4
<1>23. Writes(t, outer, W)
  BY <1>10, <1>20, <1>21, <1>22 DEF Writes
<1> QED
  BY <1>1, <1>9, <1>14, <1>23 DEF Scoped

\* Each range has one block.
LEMMA EachOnce ==
  ASSUME NEW R, IsFiniteSet(R), R \subseteq Nat \X Nat, NEW s, Enumerates(s, R), NEW m \in Nat, m = Cardinality(R)
  PROVE  /\ \A i, j \in 1 .. m : i # j => s[i] # s[j]
         /\ \A x \in R : \E i \in 1 .. m : s[i] = x
<1>1. s \in [1 .. m -> R] /\ \A i, j \in 1 .. m : i < j => Before(s[i], s[j])
  BY DEF Enumerates
<1>2. \A x \in R : ~ Before(x, x)
  <2>1. \A x \in R : x[1] \in Nat /\ x[2] \in Nat
    OBVIOUS
  <2> QED
    BY <2>1 DEF Before
<1>3. ASSUME NEW i \in 1 .. m, NEW j \in 1 .. m, i # j PROVE s[i] # s[j]
  <2>1. i < j \/ j < i
    BY <1>3
  <2> QED
    BY <1>1, <1>2, <2>1
<1>4. s \in Injection(1 .. m, R)
  BY <1>1, <1>3 DEF Injection, IsInjective
<1>5. IsFiniteSet(1 .. m) /\ Cardinality(1 .. m) = m
  <2>1. 1 \in Int /\ m \in Int
    OBVIOUS
  <2>2. Cardinality(1 .. m) = (IF 1 > m THEN 0 ELSE m - 1 + 1) /\ IsFiniteSet(1 .. m)
    BY <2>1, FS_Interval
  <2> QED
    BY <2>2
<1>6. s \in Surjection(1 .. m, R)
  BY <1>4, <1>5, FS_Injection
<1> QED
  BY <1>3, <1>6 DEF Surjection

\* The variables that are not in the range of the function.
Others(f, vs) == {<<vs[i].id, RangeOf(vs[i])>> : i \in {j \in DOMAIN vs : RangeOf(vs[j]) # RangeOf(f)}}

LEMMA BlocksScoped ==
  ASSUME NEW n \in Nat, NEW vs \in Seq(VarsTo(n)), Distinct(vs), NEW f, NEW outer
  PROVE  Blocks(f, vs) \in Dies(n) /\ Scoped(Blocks(f, vs), outer, Others(f, vs))
<1>1. PICK Q, q : Q = RangesIn(f, vs) /\ q = InOrder(Q)
  OBVIOUS
<1>2. PICK m \in Nat : m = Cardinality(Q)
  BY <1>1, RangesType
<1>3. q \in [1 .. m -> Q] /\ Q \subseteq Nat \X Nat /\ IsFiniteSet(Q) /\ Enumerates(q, Q)
  BY <1>1, <1>2, RangesType DEF Enumerates
<1>4. PICK ss : ss = [i \in DOMAIN q |-> BlockShape(q[i], vs)]
  OBVIOUS
<1>5. PICK W : W = [i \in 1 .. m |-> Of(vs, q[i])]
  OBVIOUS
<1>6. DOMAIN ss = 1 .. m /\ \A i \in 1 .. m : ss[i] = BlockShape(q[i], vs) /\ W[i] = Of(vs, q[i]) /\ q[i] \in Nat \X Nat
  BY <1>3, <1>4, <1>5
<1>7. ASSUME NEW i \in 1 .. m PROVE ss[i] \in Dies(n) /\ Scoped(ss[i], outer, W[i])
  <2>1. PICK r \in Nat \X Nat : r = q[i]
    BY <1>6
  <2>2. BlockShape(r, vs) \in Dies(n) /\ Scoped(BlockShape(r, vs), outer, Of(vs, r))
    BY BlockScoped
  <2>3. ss[i] = BlockShape(r, vs) /\ W[i] = Of(vs, r)
    BY <1>6, <2>1
  <2> QED
    BY <2>2, <2>3
<1>8. ss \in Seq(Dies(n))
  <2>1. ss \in [1 .. m -> Dies(n)]
    BY <1>3, <1>4, <1>7
  <2> QED
    BY <2>1
<1>9. (\A i, j \in 1 .. m : i # j => q[i] # q[j]) /\ \A x \in Q : \E i \in 1 .. m : q[i] = x
  <2>1. m = Cardinality(Q)
    BY <1>2
  <2>2. IsFiniteSet(Q)
    BY <1>3
  <2>3. Q \subseteq Nat \X Nat
    BY <1>3
  <2>4. Enumerates(q, Q)
    BY <1>3
  <2> QED
    BY ONLY m \in Nat, <2>1, <2>2, <2>3, <2>4, EachOnce
<1>10. ASSUME NEW i \in 1 .. m, NEW j \in 1 .. m, i # j PROVE Apart(W[i], W[j])
  <2>1. ASSUME NEW x \in W[i], NEW y \in W[j], x[1] = y[1] PROVE FALSE
    <3>0. x \in Of(vs, q[i]) /\ y \in Of(vs, q[j])
      BY <1>6
    <3>1. PICK a \in DOMAIN vs : RangeOf(vs[a]) = q[i] /\ x = <<vs[a].id, q[i]>>
      BY <3>0 DEF Of
    <3>2. PICK b \in DOMAIN vs : RangeOf(vs[b]) = q[j] /\ y = <<vs[b].id, q[j]>>
      BY <3>0 DEF Of
    <3>3. vs[a].id = vs[b].id
      BY <2>1, <3>1, <3>2
    <3>4. a = b
      BY <3>3 DEF Distinct
    <3> QED
      BY <1>9, <1>10, <3>1, <3>2, <3>4
  <2> QED
    BY <2>1 DEF Apart
<1>11. PICK X : X = Others(f, vs)
  OBVIOUS
<1>12. ASSUME NEW x PROVE x \in X <=> \E i \in DOMAIN ss : x \in W[i]
  <2>1. ASSUME x \in X PROVE \E i \in DOMAIN ss : x \in W[i]
    <3>1. PICK a \in DOMAIN vs : RangeOf(vs[a]) # RangeOf(f) /\ x = <<vs[a].id, RangeOf(vs[a])>>
      BY <1>11, <2>1 DEF Others
    <3>2. RangeOf(vs[a]) \in Q
      BY <1>1, <3>1 DEF RangesIn
    <3>3. PICK i \in 1 .. m : q[i] = RangeOf(vs[a])
      BY <1>9, <3>2
    <3>4. x \in Of(vs, q[i])
      BY <3>1, <3>3 DEF Of
    <3> QED
      BY <1>6, <3>4
  <2>2. ASSUME NEW i \in DOMAIN ss, x \in W[i] PROVE x \in X
    <3>1. PICK a \in DOMAIN vs : RangeOf(vs[a]) = q[i] /\ x = <<vs[a].id, q[i]>>
      BY <1>6, <2>2 DEF Of
    <3>2. q[i] \in Q
      BY <1>3, <1>6
    <3>3. q[i] # RangeOf(f)
      BY <1>1, <3>2 DEF RangesIn
    <3> QED
      BY <1>11, <3>1, <3>3 DEF Others
  <2> QED
    BY <2>1, <2>2
<1>13. FlattenSeq(ss) \in Dies(n) /\ Scoped(FlattenSeq(ss), outer, X)
  <2>1. \A i \in DOMAIN ss : Scoped(ss[i], outer, W[i])
    BY <1>6, <1>7
  <2>2. \A i, j \in DOMAIN ss : i # j => Apart(W[i], W[j])
    BY <1>6, <1>10
  <2>3. \A x : x \in X <=> \E i \in DOMAIN ss : x \in W[i]
    BY <1>12
  <2> QED
    BY <1>8, <2>1, <2>2, <2>3, FlattenScoped
<1> QED
  BY <1>1, <1>4, <1>11, <1>13 DEF Blocks, RangesIn

LEMMA HeadQuiet ==
  ASSUME NEW n \in Nat, NEW f \in FunctionsTo(n)
  PROVE  /\ HeadOf(f) \in Seq(QuietFields(n)) /\ Len(HeadOf(f)) >= 3
         /\ HeadOf(f)[2] = Data(4, f.lowPC) /\ HeadOf(f)[3] = Data(4, f.range)
<1>1. PICK a, x, y, z : a = Abbrev(Kind(f)) /\ x = Data(4, f.lowPC) /\ y = Data(4, f.range) /\ z = Ref4(f.type)
  OBVIOUS
<1>2. f.lowPC \in Nat /\ f.range \in Nat /\ (f.type # NoSn => f.type \in 0 .. n - 1)
  BY DEF FunctionsTo
<1>3. Kind(f) \in Abbrevs /\ Kind(f) # "Block" /\ Kind(f) # "Variable"
  BY DEF Kind, Abbrevs
<1>4. a \in Fields(n) /\ x \in Fields(n) /\ y \in Fields(n) /\ (f.type # NoSn => z \in Fields(n))
  BY <1>1, <1>2, <1>3, FieldTypes
<1>5. a.abbrev = Kind(f) /\ x.abbrev = NoAbbrev /\ y.abbrev = NoAbbrev /\ z.abbrev = NoAbbrev
  BY <1>1 DEF Abbrev, Data, Ref4, Field
<1>6. a \in QuietFields(n) /\ x \in QuietFields(n) /\ y \in QuietFields(n) /\ (f.type # NoSn => z \in QuietFields(n))
  BY <1>3, <1>4, <1>5 DEF QuietFields, NoAbbrev
<1>7. PICK h : h = <<a, x, y>>
  OBVIOUS
<1>8. h \in Seq(QuietFields(n)) /\ Len(h) = 3 /\ h[2] = x /\ h[3] = y
  BY <1>6, <1>7
<1>9. CASE f.type = NoSn
  <2>1. HeadOf(f) = h \o <<>>
    <3>1. HeadOf(f) = <<a, x, y>> \o (IF f.type = NoSn THEN <<>> ELSE <<z>>)
      BY <1>1 DEF HeadOf
    <3> QED
      BY <1>7, <1>9, <3>1
  <2>2. h \o <<>> = h
    BY <1>8
  <2>3. HeadOf(f) = h
    BY <2>1, <2>2
  <2>4. h \in Seq(QuietFields(n)) /\ Len(h) >= 3 /\ h[2] = x /\ h[3] = y
    BY <1>8
  <2> QED
    BY <1>1, <2>3, <2>4
<1>10. CASE f.type # NoSn
  <2>1. HeadOf(f) = h \o <<z>>
    <3>1. HeadOf(f) = <<a, x, y>> \o (IF f.type = NoSn THEN <<>> ELSE <<z>>)
      BY <1>1 DEF HeadOf
    <3> QED
      BY <1>7, <1>10, <3>1
  <2>2. <<z>> \in Seq(QuietFields(n)) /\ Len(<<z>>) = 1
    BY <1>6, <1>10
  <2>3. PICK u \in Seq(QuietFields(n)) : u = <<z>> /\ Len(u) = 1
    BY <2>2
  <2>4. h \o u \in Seq(QuietFields(n))
    BY ONLY <1>8, <2>3
  <2>5. Len(h \o u) = 4
    <3>1. h \in Dies(n) /\ u \in Dies(n)
      BY <1>8, <2>3, QuietScoped
    <3>2. Len(h \o u) = Len(h) + Len(u)
      BY <3>1, Concatenated
    <3> QED
      BY <1>8, <2>3, <3>2
  <2>6. (h \o u)[2] = h[2] /\ (h \o u)[3] = h[3]
    <3>1. h \in Dies(n) /\ u \in Dies(n)
      BY <1>8, <2>3, QuietScoped
    <3>2. \A i \in 1 .. Len(h) : (h \o u)[i] = h[i]
      BY <3>1, Concatenated
    <3>3. 2 \in 1 .. 3 /\ 3 \in 1 .. 3
      OBVIOUS
    <3> QED
      BY <1>8, <3>2, <3>3
  <2> QED
    BY <1>1, <1>8, <2>1, <2>3, <2>4, <2>5, <2>6
<1> QED
  BY <1>9, <1>10

\* Every variable of the function is written once, in a scope of its range.
LEMMA FunctionScoped ==
  ASSUME NEW n \in Nat, NEW f \in FunctionsTo(n), Distinct(f.vars)
  PROVE  /\ Scoped(FunctionShape(f), RangeOf(f), AllOf(f.vars)) /\ Len(FunctionShape(f)) >= 3
         /\ FunctionShape(f)[2] = Data(4, f.lowPC) /\ FunctionShape(f)[3] = Data(4, f.range)
<1>1. PICK r, vs : r = RangeOf(f) /\ vs = f.vars
  OBVIOUS
<1>2. f.args \in Seq(VarsTo(n)) /\ vs \in Seq(VarsTo(n)) /\ Distinct(vs)
  BY <1>1 DEF FunctionsTo
<1>3. PICK h, u, v, w, e : h = HeadOf(f) /\ u = Parameters(f.args) /\ v = VariablesOf(vs, r) /\ w = Blocks(f, vs) /\ e = End
  OBVIOUS
<1>4. h \in Dies(n) /\ Scoped(h, r, {})
  BY <1>3, HeadQuiet, QuietScoped
<1>5. u \in Dies(n) /\ Scoped(u, r, {})
  BY <1>2, <1>3, ParametersQuiet, QuietScoped
<1>6. PICK X, Y : X = Of(vs, r) /\ Y = Others(f, vs)
  OBVIOUS
<1>7. v \in Dies(n) /\ Scoped(v, r, X)
  BY <1>2, <1>3, <1>6, VariablesScope
<1>8. w \in Dies(n) /\ Scoped(w, r, Y)
  BY <1>2, <1>3, <1>6, BlocksScoped
<1>9. e \in Dies(n) /\ Scoped(e, r, {})
  <2>1. e = <<Abbrev("EndItem")>> /\ Abbrev("EndItem").abbrev = "EndItem" /\ "EndItem" \in Abbrevs
    BY <1>3 DEF End, Abbrev, Field, Abbrevs
  <2>2. Abbrev("EndItem") \in QuietFields(n)
    BY <2>1, FieldTypes DEF QuietFields
  <2>3. e \in Seq(QuietFields(n))
    BY <2>1, <2>2
  <2> QED
    BY <2>3, QuietScoped
<1>10. X \union Y = AllOf(vs)
  BY <1>1, <1>6 DEF Of, Others, AllOf
<1>11. Apart(X, Y)
  <2>1. ASSUME NEW x \in X, NEW y \in Y, x[1] = y[1] PROVE FALSE
    <3>1. PICK a \in DOMAIN vs : RangeOf(vs[a]) = r /\ x = <<vs[a].id, r>>
      BY <1>6 DEF Of
    <3>2. PICK b \in DOMAIN vs : RangeOf(vs[b]) # r /\ y = <<vs[b].id, RangeOf(vs[b])>>
      BY <1>1, <1>6 DEF Others
    <3>3. vs[a].id = vs[b].id
      BY <2>1, <3>1, <3>2
    <3>4. a = b
      BY <1>2, <3>3 DEF Distinct
    <3> QED
      BY <3>1, <3>2, <3>4
  <2> QED
    BY <2>1 DEF Apart
<1>12. (\A W : Apart({}, W) /\ Apart(W, {})) /\ {} \union X = X /\ \A W : W \union {} = W /\ {} \union W = W
  BY DEF Apart
<1>13. Len(h) \in Nat /\ Len(h) >= 3 /\ h[2] = Data(4, f.lowPC) /\ h[3] = Data(4, f.range)
  BY <1>3, <1>4, HeadQuiet DEF Dies
<1>14. CASE Sub(f)
  <2>1. PICK p \in Dies(n) : p = u \o v /\ Scoped(p, r, X)
    <3>1. u \o v \in Dies(n) /\ Scoped(u \o v, r, {} \union X)
      BY <1>5, <1>7, <1>12, ScopedBoth
    <3> QED
      BY <1>12, <3>1
  <2>2. PICK q \in Dies(n) : q = p \o w /\ Scoped(q, r, X \union Y)
    BY <1>8, <1>11, <2>1, ScopedBoth
  <2>3. PICK s \in Dies(n) : s = q \o e /\ Scoped(s, r, X \union Y)
    <3>1. PICK Z : Z = X \union Y
      OBVIOUS
    <3>2. q \o e \in Dies(n) /\ Scoped(q \o e, r, Z \union {})
      BY <1>9, <1>12, <2>2, <3>1, ScopedBoth
    <3> QED
      BY <1>12, <3>1, <3>2
  <2>4. Scoped(h \o s, r, X \union Y)
    <3>1. PICK Z : Z = X \union Y
      OBVIOUS
    <3>2. h \o s \in Dies(n) /\ Scoped(h \o s, r, {} \union Z)
      BY <1>4, <1>12, <2>3, <3>1, ScopedBoth
    <3> QED
      BY <1>12, <3>1, <3>2
  <2>5. FunctionShape(f) = h \o s
    <3>1. FunctionShape(f) = h \o (((u \o v) \o w) \o e)
      BY <1>1, <1>3, <1>14, FunctionIs
    <3> QED
      BY <2>1, <2>2, <2>3, <3>1
  <2>6. Len(h \o s) >= 3 /\ (h \o s)[2] = h[2] /\ (h \o s)[3] = h[3]
    <3>1. Len(s) \in Nat /\ Len(h \o s) = Len(h) + Len(s) /\ \A i \in 1 .. Len(h) : (h \o s)[i] = h[i]
      BY <1>4, <2>3, Concatenated
    <3>2. 2 \in 1 .. Len(h) /\ 3 \in 1 .. Len(h)
      BY <1>13
    <3> QED
      BY <1>13, <3>1, <3>2
  <2> QED
    BY <1>1, <1>10, <1>13, <2>4, <2>5, <2>6
<1>15. CASE ~ Sub(f)
  <2>1. FunctionShape(f) = h
    <3>1. FunctionShape(f) = h \o <<>>
      BY <1>3, <1>15, FunctionIs
    <3> QED
      BY <1>4, <3>1 DEF Dies
  <2>2. AllOf(vs) = {}
    <3>1. vs = <<>>
      BY <1>1, <1>15 DEF Sub
    <3> QED
      BY <3>1 DEF AllOf
  <2> QED
    BY <1>1, <1>4, <1>13, <2>1, <2>2
<1> QED
  BY <1>14, <1>15

\* The offsets of the types leave the scopes as they are.
LEMMA EntryScoped ==
  ASSUME NEW n \in Nat, NEW d \in Dies(n), loc \in [1 .. n -> Nat], NEW outer, NEW W, Scoped(d, outer, W)
  PROVE  /\ Scoped(InfoEntry(d), outer, W) /\ Len(InfoEntry(d)) = Len(d)
         /\ \A i \in 1 .. Len(d) : d[i].target = NoSn => InfoEntry(d)[i].data = d[i].data
<1>1. PICK e : e = InfoEntry(d)
  OBVIOUS
<1>2. PICK m \in Nat : m = Len(d)
  BY DEF Dies
<1>3. e \in Dies(n) /\ Len(e) = m
  BY <1>1, <1>2, Filled
<1>4. DOMAIN d = 1 .. m /\ \A i \in 1 .. m : d[i] \in Fields(n)
  BY <1>2 DEF Dies
<1>5. e = [i \in 1 .. m |-> [d[i] EXCEPT !.data = IF d[i].target = NoSn THEN d[i].data ELSE loc[d[i].target + 1] % Limit]]
  BY <1>1, <1>4 DEF InfoEntry
<1>6. ASSUME NEW i \in 1 .. m
      PROVE  e[i].abbrev = d[i].abbrev /\ e[i].target = d[i].target /\ (d[i].target = NoSn => e[i].data = d[i].data)
  <2>1. PICK f \in Fields(n) : f = d[i]
    BY <1>4
  <2>2. PICK x : x = IF f.target = NoSn THEN f.data ELSE loc[f.target + 1] % Limit
    OBVIOUS
  <2>3. e[i] = [f EXCEPT !.data = x]
    BY <1>5, <2>1, <2>2
  <2>4. /\ [f EXCEPT !.data = x].abbrev = f.abbrev /\ [f EXCEPT !.data = x].target = f.target
        /\ [f EXCEPT !.data = x].data = x
    BY DEF Fields
  <2> QED
    BY <2>1, <2>2, <2>3, <2>4
<1>7. \A p \in 1 .. m : d[p].abbrev = "Block" =>
         /\ p + 2 <= m /\ d[p + 1].target = NoSn /\ d[p + 2].target = NoSn
         /\ \E q \in p .. m : d[q].abbrev = "EndItem"
  BY <1>2 DEF Scoped, BlocksEnd
<1>8. ASSUME NEW p \in 1 .. m, e[p].abbrev = "Block"
      PROVE  /\ p + 2 <= m /\ e[p + 1].target = NoSn /\ e[p + 2].target = NoSn
             /\ \E q \in p .. m : e[q].abbrev = "EndItem"
  <2>1. /\ p + 2 <= m /\ d[p + 1].target = NoSn /\ d[p + 2].target = NoSn
        /\ \E q \in p .. m : d[q].abbrev = "EndItem"
    BY <1>6, <1>7, <1>8
  <2>2. p + 1 \in 1 .. m /\ p + 2 \in 1 .. m /\ \A q \in p .. m : q \in 1 .. m
    BY <2>1
  <2> QED
    BY <1>6, <2>1, <2>2
<1>9. ASSUME NEW i \in 1 .. m, NEW r, InRange(d, i, outer, r)
      PROVE  InRange(e, i, outer, r)
  <2>1. \A p \in 1 .. i - 1 : p \in 1 .. m /\ \A q \in p .. i : q \in 1 .. m
    OBVIOUS
  <2>2. \A p \in 1 .. i - 1 : Opens(e, i, p) <=> Opens(d, i, p)
    BY <1>6, <2>1 DEF Opens
  <2>3. CASE r = outer /\ \A p \in 1 .. i - 1 : ~ Opens(d, i, p)
    BY <2>2, <2>3 DEF InRange
  <2>4. ASSUME NEW p \in 1 .. i - 1, Opens(d, i, p), r = <<d[p + 1].data, d[p + 2].data>>,
               \A q \in 1 .. i - 1 : Opens(d, i, q) => q <= p
        PROVE  InRange(e, i, outer, r)
    <3>1. p + 2 <= m /\ d[p + 1].target = NoSn /\ d[p + 2].target = NoSn
      BY <1>7, <2>1, <2>4 DEF Opens
    <3>2. p + 1 \in 1 .. m /\ p + 2 \in 1 .. m
      BY <3>1
    <3>3. e[p + 1].data = d[p + 1].data /\ e[p + 2].data = d[p + 2].data
      BY <1>6, <3>1, <3>2
    <3> QED
      BY <2>2, <2>4, <3>3 DEF InRange
  <2> QED
    BY <1>9, <2>3, <2>4 DEF InRange
<1>10. /\ \A i \in 1 .. m : IsVar(d, i) =>
             /\ i + 1 <= m /\ d[i + 1].target = NoSn
             /\ \E w \in W : w[1] = d[i + 1].data /\ InRange(d, i, outer, w[2])
       /\ \A w \in W : \E i \in 1 .. m : IsVar(d, i) /\ d[i + 1].data = w[1]
       /\ \A i, j \in 1 .. m : IsVar(d, i) /\ IsVar(d, j) /\ d[i + 1].data = d[j + 1].data => i = j
  BY <1>2 DEF Scoped, Writes
<1>11. ASSUME NEW i \in 1 .. m
       PROVE  /\ IsVar(e, i) <=> IsVar(d, i)
              /\ IsVar(d, i) => i + 1 <= m /\ e[i + 1].target = NoSn /\ e[i + 1].data = d[i + 1].data
  <2>1. i + 1 <= m => i + 1 \in 1 .. m
    OBVIOUS
  <2> QED
    BY <1>6, <1>10, <2>1 DEF IsVar
<1>12. \A i \in 1 .. m : IsVar(e, i) =>
             /\ i + 1 <= m /\ e[i + 1].target = NoSn
             /\ \E w \in W : w[1] = e[i + 1].data /\ InRange(e, i, outer, w[2])
  BY <1>9, <1>10, <1>11
<1>13. \A w \in W : \E i \in 1 .. m : IsVar(e, i) /\ e[i + 1].data = w[1]
  BY <1>10, <1>11
<1>14. \A i, j \in 1 .. m : IsVar(e, i) /\ IsVar(e, j) /\ e[i + 1].data = e[j + 1].data => i = j
  BY <1>10, <1>11
<1> QED
  BY <1>1, <1>2, <1>3, <1>6, <1>8, <1>12, <1>13, <1>14 DEF Scoped, BlocksEnd, Writes

LEMMA ScopeIs ==
  ASSUME NEW d, Len(d) \in Nat, NEW i \in 1 .. Len(d), NEW r, InRange(d, i, <<d[2].data, d[3].data>>, r)
  PROVE  ScopeOf(d, i) = r
<1>1. PICK open : open = {p \in 1 .. i - 1 : Opens(d, i, p)}
  OBVIOUS
<1>2. ScopeOf(d, i) = LET p == IF open = {} THEN 1 ELSE Max(open) IN <<d[p + 1].data, d[p + 2].data>>
  BY <1>1 DEF ScopeOf, Opens
<1>3. CASE r = <<d[2].data, d[3].data>> /\ \A p \in 1 .. i - 1 : ~ Opens(d, i, p)
  <2>1. open = {}
    BY <1>1, <1>3
  <2>2. 1 + 1 = 2 /\ 1 + 2 = 3
    OBVIOUS
  <2> QED
    BY <1>2, <1>3, <2>1, <2>2
<1>4. ASSUME NEW p \in 1 .. i - 1, Opens(d, i, p), r = <<d[p + 1].data, d[p + 2].data>>,
             \A q \in 1 .. i - 1 : Opens(d, i, q) => q <= p
      PROVE  ScopeOf(d, i) = r
  <2>1. p \in open /\ \A q \in open : p >= q
    BY <1>1, <1>4
  <2>2. ASSUME NEW x \in open, \A y \in open : x >= y PROVE x = p
    <3>1. x \in 1 .. i - 1 /\ x >= p /\ p >= x
      BY <1>1, <2>1, <2>2
    <3> QED
      BY <3>1
  <2>3. Max(open) = p
    BY <2>1, <2>2 DEF Max
  <2> QED
    BY <1>2, <1>4, <2>1, <2>3
<1> QED
  BY <1>3, <1>4 DEF InRange

\* d writes the variable v once, and in a scope of its range.
WrittenOnce(d, v) ==
  \E i \in 1 .. Len(d) - 1 :
     /\ d[i].abbrev = "Variable" /\ d[i + 1].data = v.id /\ ScopeOf(d, i) = <<v.lowPC, v.range>>
     /\ \A m \in 1 .. Len(d) - 1 : d[m].abbrev = "Variable" /\ d[m + 1].data = v.id => m = i

LEMMA OnePlace ==
  ASSUME Inv, pc = "done", NEW j \in DOMAIN prog.functions, NEW f, f = prog.functions[j],
         NEW n \in DOMAIN f.vars, NEW v, v = f.vars[n], NEW d, d = children[Len(Cells) + j]
  PROVE  WrittenOnce(d, v)
<1>1. /\ prog \in Programs /\ N \in Nat /\ F \in Nat /\ G \in Nat /\ loc \in [1 .. N -> Nat]
      /\ prog.functions \in Seq(FunctionsTo(N))
  BY Numbered, Handed
<1>2. f \in FunctionsTo(N)
  BY <1>1
<1>3. Distinct(f.vars)
  <2>1. WellFormed(prog)
    BY <1>1, ProgramsAssumption
  <2> QED
    BY <1>2, <2>1 DEF WellFormed, Distinct
<1>4. j \in 1 .. F
  BY <1>1 DEF F
<1>5. d = InfoEntry(FunctionShape(f))
  <2>1. /\ Len(children) = N + F + G + 1
        /\ \A m \in 1 .. N + F + G + 1 : children[m] = IF m = N + F + G + 1 THEN End ELSE InfoEntry(Shape(m))
    BY DEF Inv, Built, Count
  <2>2. PICK m : m = N + j
    OBVIOUS
  <2>3. m \in 1 .. N + F + G + 1 /\ m # N + F + G + 1 /\ ~ m <= N /\ m <= N + F /\ m - N = j
    BY <1>1, <1>4, <2>2
  <2>4. Shape(m) = FunctionShape(f)
    BY <1>2, <2>3 DEF Shape
  <2>5. children[m] = InfoEntry(Shape(m))
    BY <2>1, <2>3
  <2> QED
    BY <2>2, <2>4, <2>5 DEF N
<1>6. PICK s \in Dies(N) : s = FunctionShape(f)
  BY <1>1, FunctionWhole DEF Whole
<1>7. PICK r, A : r = RangeOf(f) /\ A = AllOf(f.vars)
  OBVIOUS
<1>8. Scoped(s, r, A) /\ Len(s) >= 3 /\ s[2] = Data(4, f.lowPC) /\ s[3] = Data(4, f.range)
  <2>1. /\ Scoped(FunctionShape(f), RangeOf(f), AllOf(f.vars)) /\ Len(FunctionShape(f)) >= 3
        /\ FunctionShape(f)[2] = Data(4, f.lowPC) /\ FunctionShape(f)[3] = Data(4, f.range)
    BY <1>1, <1>3, FunctionScoped
  <2> QED
    BY <1>6, <1>7, <2>1
<1>9. /\ Scoped(d, r, A) /\ Len(d) = Len(s) /\ d \in Dies(N)
      /\ \A i \in 1 .. Len(s) : s[i].target = NoSn => d[i].data = s[i].data
  <2>1. d = InfoEntry(s)
    BY <1>5, <1>6
  <2> QED
    <3>1. Scoped(s, r, A)
      BY <1>8
    <3>2. /\ Scoped(InfoEntry(s), r, A) /\ Len(InfoEntry(s)) = Len(s)
          /\ \A i \in 1 .. Len(s) : s[i].target = NoSn => InfoEntry(s)[i].data = s[i].data
      BY <1>1, <3>1, EntryScoped
    <3>3. InfoEntry(s) \in Dies(N)
      BY <1>1, Filled
    <3> QED
      BY <2>1, <3>2, <3>3
<1>10. PICK b \in Nat : b = Len(d) /\ b >= 3
  BY <1>8, <1>9 DEF Dies
<1>11. r = <<d[2].data, d[3].data>>
  <2>1. 2 \in 1 .. Len(s) /\ 3 \in 1 .. Len(s)
    BY <1>9, <1>10
  <2>2. \A x : Data(4, x).target = NoSn /\ Data(4, x).data = x
    BY DEF Data, Field
  <2>3. d[2].data = f.lowPC /\ d[3].data = f.range
    BY <1>8, <1>9, <2>1, <2>2
  <2> QED
    BY <1>7, <2>3 DEF RangeOf
<1>12. /\ \A i \in 1 .. b : IsVar(d, i) =>
             i + 1 <= b /\ \E w \in A : w[1] = d[i + 1].data /\ InRange(d, i, r, w[2])
       /\ \A w \in A : \E i \in 1 .. b : IsVar(d, i) /\ d[i + 1].data = w[1]
       /\ \A i, m \in 1 .. b : IsVar(d, i) /\ IsVar(d, m) /\ d[i + 1].data = d[m + 1].data => i = m
  BY <1>9, <1>10 DEF Scoped, Writes
<1>13. <<v.id, RangeOf(v)>> \in A /\ n \in DOMAIN f.vars /\ v = f.vars[n]
  BY <1>2, <1>7 DEF AllOf
<1>14. PICK i \in 1 .. b : IsVar(d, i) /\ d[i + 1].data = v.id
  <2>1. <<v.id, RangeOf(v)>>[1] = v.id
    OBVIOUS
  <2> QED
    BY <1>12, <1>13, <2>1
<1>15. i \in 1 .. b - 1
  BY <1>12, <1>14
<1>16. ScopeOf(d, i) = RangeOf(v)
  <2>1. PICK w \in A : w[1] = d[i + 1].data /\ InRange(d, i, r, w[2])
    BY <1>12, <1>14
  <2>2. PICK m \in DOMAIN f.vars : w = <<f.vars[m].id, RangeOf(f.vars[m])>>
    BY <1>7, <2>1 DEF AllOf
  <2>3. m = n
    BY <1>3, <1>13, <1>14, <2>1, <2>2 DEF Distinct
  <2>4. w[2] = RangeOf(v)
    BY <1>13, <2>2, <2>3
  <2>5. Len(d) \in Nat /\ i \in 1 .. Len(d)
    BY <1>10
  <2> QED
    BY <1>11, <2>1, <2>4, <2>5, ScopeIs
<1> QED
  <2>1. ASSUME NEW m \in 1 .. b - 1, d[m].abbrev = "Variable", d[m + 1].data = v.id PROVE m = i
    <3>1. m \in 1 .. b /\ IsVar(d, m)
      BY <2>1 DEF IsVar
    <3> QED
      BY <1>12, <1>14, <2>1, <3>1
  <2>2. d[i].abbrev = "Variable" /\ d[i + 1].data = v.id /\ ScopeOf(d, i) = <<v.lowPC, v.range>>
    BY <1>14, <1>16 DEF IsVar, RangeOf
  <2> QED
    BY <1>10, <1>15, <2>1, <2>2 DEF WrittenOnce

LEMMA VariablesScopedInv == Inv => VariablesScoped
<1> SUFFICES ASSUME Inv, pc = "done", NEW j \in DOMAIN prog.functions, NEW n \in DOMAIN prog.functions[j].vars
             PROVE  LET d == children[Len(Cells) + j]  v == prog.functions[j].vars[n]
                        P == {i \in 1 .. Len(d) - 1 : d[i].abbrev = "Variable" /\ d[i + 1].data = v.id}
                    IN  Cardinality(P) = 1 /\ \A i \in P : ScopeOf(d, i) = <<v.lowPC, v.range>>
  BY DEF VariablesScoped
<1>1. PICK d : d = children[Len(Cells) + j]
  OBVIOUS
<1>2. PICK f, v : f = prog.functions[j] /\ v = f.vars[n]
  OBVIOUS
<1>3. PICK P : P = {i \in 1 .. Len(d) - 1 : d[i].abbrev = "Variable" /\ d[i + 1].data = v.id}
  OBVIOUS
<1>4. WrittenOnce(d, v)
  <2>1. f = prog.functions[j]
    BY <1>2
  <2>2. v = f.vars[n]
    BY <1>2
  <2>3. n \in DOMAIN f.vars
    BY <1>2
  <2>4. d = children[Len(Cells) + j]
    BY <1>1
  <2> QED
    BY <2>1, <2>2, <2>3, <2>4, OnePlace
<1>5. PICK i \in 1 .. Len(d) - 1 :
        /\ d[i].abbrev = "Variable" /\ d[i + 1].data = v.id /\ ScopeOf(d, i) = <<v.lowPC, v.range>>
        /\ \A m \in 1 .. Len(d) - 1 : d[m].abbrev = "Variable" /\ d[m + 1].data = v.id => m = i
  BY <1>4 DEF WrittenOnce
<1>6. P = {i}
  BY <1>3, <1>5
<1>7. Cardinality(P) = 1 /\ \A m \in P : ScopeOf(d, m) = <<v.lowPC, v.range>>
  BY <1>5, <1>6, FS_Singleton
<1> QED
  BY <1>1, <1>2, <1>3, <1>7

\* Each variable of a function is written once, in a scope with its own range,
\* for any functions and any nesting of the source's blocks: merging the blocks
\* of equal ranges and flattening the others moves no variable out of its range.
THEOREM ScopesKept == Spec => []VariablesScoped
<1>1. Inv => VariablesScoped
  BY VariablesScopedInv
<1> QED
  BY <1>1, InvHolds, PTL

=============================================================================
