-------------------------- MODULE CollectionProofs --------------------------
(***************************************************************************)
(* For every program: the inference and the linker find the same global    *)
(* variables and the same functions with the same variables, and the       *)
(* linker reads whatever the inference could read.  Proofs about           *)
(* Collection.                                                             *)
(***************************************************************************)
EXTENDS Collection, FoldFacts, TLAPS

-----------------------------------------------------------------------------
(***************************************************************************)
(* The inductive invariant.  A collection has seen the DIEs that precede   *)
(* the one it is at; each list has an entry for each DIE of its kind that  *)
(* was seen, in the order of the DIEs.                                     *)
(***************************************************************************)
Places == {p \in Nat \X Nat : p[1] \in DOMAIN program /\ p[2] \in DOMAIN program[p[1]].dies}
Precedes(p, q) == p[1] < q[1] \/ (p[1] = q[1] /\ p[2] < q[2])
DieAt(p) == program[p[1]].dies[p[2]]

GlobalPlaces == {p \in Places : FirstLevel(p[1], p[2]) /\ IsVariable(DieAt(p))}
FuncPlaces == {p \in Places : IsFunc(DieAt(p))}
TopFuncPlaces == {p \in FuncPlaces : FirstLevel(p[1], p[2])}

\* The collection ph, which the phases next follow, has been at p.
Seen(ph, next, p) == phase \in next \/ (phase = ph /\ Precedes(p, at))
Read(p) == Seen("globals", {"funcs", "custom", "link", "done"}, p)
Analysed(p) == Seen("funcs", {"custom", "link", "done"}, p)
Linked(p) == Seen("link", {"done"}, p)

\* list has one entry for each place of S, in their order.
Lists(list, S) ==
  /\ IsSeq(list)
  /\ \A i \in DOMAIN list : list[i].die \in S
  /\ \A i, j \in DOMAIN list : i < j => Precedes(list[i].die, list[j].die)
  /\ \A p \in S : \E i \in DOMAIN list : list[i].die = p

TypeOK ==
  /\ program \in Programs
  /\ phase \in {"absvars", "absfuncs", "globals", "funcs", "custom", "link", "done", "panic"}
  /\ at \in Places /\ (phase = "custom" => at = <<1, 1>>)
  /\ DOMAIN funcs = DOMAIN program

GlobalsListed ==
  /\ Lists(globals, {p \in GlobalPlaces : Read(p)})
  /\ \A i \in DOMAIN globals :
       globals[i].type = Described(globals[i].die[1], UpToLocation(DieAt(globals[i].die).attrs)).type
  /\ \A p \in GlobalPlaces : Read(p) => ~Undescribed(p[1], UpToLocation(DieAt(p).attrs))

FuncsListed ==
  /\ \A u \in DOMAIN funcs : \A a \in DOMAIN funcs[u] :
       \E p \in FuncPlaces : Analysed(p) /\ p[1] = u /\ funcs[u][a] = Func(p[1], p[2]) /\ a = Func(p[1], p[2]).low
  /\ \A p \in FuncPlaces : Analysed(p) =>
       /\ ~BadFunc(p[1], p[2])
       /\ Func(p[1], p[2]).low = 0 \/ Func(p[1], p[2]).low \in DOMAIN funcs[p[1]]

FirstOfUnits(a) == CHOOSE u \in DOMAIN funcs :
                     a \in DOMAIN funcs[u] /\ \A w \in DOMAIN funcs : a \in DOMAIN funcs[w] => u <= w
CustomFilled ==
  phase \in {"link", "done"} =>
    custom = [a \in UNION {DOMAIN funcs[u] : u \in DOMAIN funcs} |-> funcs[FirstOfUnits(a)][a]]

CellsListed ==
  /\ Lists(functionCells, {p \in TopFuncPlaces : Linked(p)})
  /\ \A i \in DOMAIN functionCells :
       functionCells[i] = FunctionCell(functionCells[i].die[1], functionCells[i].die[2])
  /\ Lists(globalCells, {p \in GlobalPlaces : Linked(p)})
  /\ \A i \in DOMAIN globalCells :
       globalCells[i].type = Described(globalCells[i].die[1], DieAt(globalCells[i].die).attrs).type

IInv ==
  /\ TypeOK
  /\ phase # "panic" => GlobalsListed /\ FuncsListed /\ CustomFilled /\ CellsListed

-----------------------------------------------------------------------------
(***************************************************************************)
(* Sequences.                                                              *)
(***************************************************************************)
LEMMA SeqFacts ==
  ASSUME NEW s, IsSeq(s)
  PROVE  Len(s) \in Nat /\ DOMAIN s = 1 .. Len(s)
  BY DEF IsSeq

LEMMA Appended ==
  ASSUME NEW s, IsSeq(s), NEW x
  PROVE  /\ IsSeq(Append(s, x))
         /\ Len(s) \in Nat /\ DOMAIN s = 1 .. Len(s) /\ Len(Append(s, x)) = Len(s) + 1
         /\ DOMAIN Append(s, x) = 1 .. Len(s) + 1
         /\ Append(s, x)[Len(s) + 1] = x
         /\ \A i \in 1 .. Len(s) : Append(s, x)[i] = s[i]
         /\ s \o <<x>> = Append(s, x)
<1> DEFINE n == Len(s)  S == Elements(s) \union {x}  t == Append(s, x)
<1>1. s \in Seq(S) /\ x \in S
  BY DEF IsSeq
<1> HIDE DEF S
<1>2. /\ t \in Seq(S) /\ n \in Nat /\ DOMAIN s = 1 .. n /\ Len(t) = n + 1 /\ DOMAIN t = 1 .. n + 1
      /\ t[n + 1] = x /\ \A i \in 1 .. n : t[i] = s[i]
  BY <1>1
<1>3. s \o <<x>> = t
  BY <1>1
<1>4. \A i \in 1 .. Len(t) : t[i] \in Elements(t)
  BY <1>2 DEF Elements
<1>5. t \in Seq(Elements(t))
  BY <1>2, <1>4
<1> QED
  BY <1>2, <1>3, <1>5 DEF IsSeq

LEMMA NothingAppended ==
  ASSUME NEW s, IsSeq(s)
  PROVE  s \o <<>> = s
  BY DEF IsSeq

LEMMA EmptyList == Lists(<<>>, {})
<1>1. IsSeq(<<>>) /\ DOMAIN <<>> = {}
  BY DEF IsSeq
<1> QED
  BY <1>1 DEF Lists

\* The order of the DIEs.
LEMMA Order ==
  ASSUME NEW p \in Nat \X Nat, NEW q \in Nat \X Nat
  PROVE  /\ ~ Precedes(p, p)
         /\ p = q \/ Precedes(p, q) \/ Precedes(q, p)
         /\ \A r \in Nat \X Nat : Precedes(p, q) /\ Precedes(q, r) => Precedes(p, r)
  BY DEF Precedes

LEMMA AppendList ==
  ASSUME NEW list, NEW S, Lists(list, S), NEW x, \A q \in S : Precedes(q, x.die)
  PROVE  Lists(Append(list, x), S \union {x.die})
<1> DEFINE t == Append(list, x)  n == Len(list)
<1>0. IsSeq(list)
  BY DEF Lists
<1>1. /\ IsSeq(t) /\ n \in Nat /\ DOMAIN list = 1 .. n /\ DOMAIN t = 1 .. n + 1
      /\ t[n + 1] = x /\ \A i \in 1 .. n : t[i] = list[i]
  BY <1>0, Appended
<1> HIDE DEF t, n
<1>2. /\ \A i \in 1 .. n : t[i].die \in S
      /\ \A i, j \in 1 .. n : i < j => Precedes(t[i].die, t[j].die)
      /\ \A p \in S : \E i \in 1 .. n : t[i].die = p
  BY <1>1 DEF Lists
<1>3. \A i \in DOMAIN t : i \in 1 .. n \/ i = n + 1
  BY <1>1
<1>4. n + 1 \in DOMAIN t /\ 1 .. n \subseteq DOMAIN t
  BY <1>1
<1>5. \A i \in DOMAIN t : t[i].die \in S \union {x.die}
  BY <1>1, <1>2, <1>3
<1>6. ASSUME NEW i \in DOMAIN t, NEW j \in DOMAIN t, i < j
      PROVE  Precedes(t[i].die, t[j].die)
  <2>1. i \in 1 .. n
    BY <1>1, <1>6
  <2>2. CASE j \in 1 .. n
    BY <1>2, <1>6, <2>1, <2>2
  <2>3. CASE j = n + 1
    BY <1>1, <1>2, <2>1, <2>3
  <2> QED
    BY <1>3, <2>2, <2>3
<1>7. \A p \in S \union {x.die} : \E i \in DOMAIN t : t[i].die = p
  BY <1>1, <1>2, <1>4
<1> QED
  BY <1>1, <1>5, <1>6, <1>7 DEF Lists, t

\* Two lists of the same places name them at the same index.
LEMMA ListBegins ==
  ASSUME NEW S, S \subseteq Nat \X Nat, NEW a, NEW b, Lists(a, S), Lists(b, S)
  PROVE  \A i \in DOMAIN a : i \in DOMAIN b /\ a[i].die = b[i].die
<1> DEFINE T == {n \in Nat : \A k \in 1 .. n : k \in DOMAIN a => k \in DOMAIN b /\ a[k].die = b[k].die}
<1>0. Len(a) \in Nat /\ DOMAIN a = 1 .. Len(a) /\ Len(b) \in Nat /\ DOMAIN b = 1 .. Len(b)
  BY SeqFacts DEF Lists
<1>1. 0 \in T
  OBVIOUS
<1>2. ASSUME NEW n \in Nat, n \in T
      PROVE  n + 1 \in T
  <2>0. \A k \in 1 .. n : k \in DOMAIN a => k \in DOMAIN b /\ a[k].die = b[k].die
    BY <1>2
  <2>1. SUFFICES ASSUME n + 1 \in DOMAIN a
                 PROVE  n + 1 \in DOMAIN b /\ a[n + 1].die = b[n + 1].die
    BY <2>0
  <2>2. PICK j \in DOMAIN b : b[j].die = a[n + 1].die
    BY <2>1 DEF Lists
  <2>3. a[n + 1].die \in Nat \X Nat
    BY <2>1 DEF Lists
  <2>4. ~ (j <= n)
    <3> SUFFICES ASSUME j <= n PROVE FALSE
      OBVIOUS
    <3>1. j \in 1 .. n /\ j \in DOMAIN a /\ j < n + 1
      BY <1>0, <2>1
    <3>2. a[j].die = a[n + 1].die
      BY <2>0, <2>2, <3>1
    <3>3. Precedes(a[j].die, a[n + 1].die)
      BY <2>1, <3>1 DEF Lists
    <3> QED
      BY <2>3, <3>2, <3>3, Order
  <2>5. n + 1 \in DOMAIN b /\ (j = n + 1 \/ n + 1 < j)
    BY <1>0, <2>1, <2>4
  <2>6. ASSUME n + 1 < j
        PROVE  FALSE
    <3>1. Precedes(b[n + 1].die, b[j].die) /\ b[n + 1].die \in Nat \X Nat
      BY <2>5, <2>6 DEF Lists
    <3>2. PICK i \in DOMAIN a : a[i].die = b[n + 1].die
      BY <2>5 DEF Lists
    <3>3. ~ (i <= n)
      <4> SUFFICES ASSUME i <= n PROVE FALSE
        OBVIOUS
      <4>1. i \in 1 .. n /\ i \in DOMAIN b /\ i < n + 1
        BY <1>0, <2>5
      <4>2. b[i].die = b[n + 1].die
        BY <2>0, <3>2, <4>1
      <4>3. Precedes(b[i].die, b[n + 1].die)
        BY <2>5, <4>1 DEF Lists
      <4> QED
        BY <3>1, <4>2, <4>3, Order
    <3>4. i = n + 1 \/ n + 1 < i
      BY <1>0, <3>3
    <3>5. CASE i = n + 1
      BY <2>2, <2>3, <3>1, <3>2, <3>5, Order
    <3>6. CASE n + 1 < i
      <4>1. Precedes(a[n + 1].die, a[i].die)
        BY <2>1, <3>6 DEF Lists
      <4> QED
        BY <2>2, <2>3, <3>1, <3>2, <4>1, Order
    <3> QED
      BY <3>4, <3>5, <3>6
  <2> QED
    BY <2>2, <2>5, <2>6
<1> HIDE DEF T
<1>3. Nat \subseteq T
  BY <1>1, <1>2, AllNaturals
<1>4. \A n \in Nat : n \in T
  BY <1>3
<1> USE DEF T
<1>5. \A n \in Nat : \A k \in 1 .. n : k \in DOMAIN a => k \in DOMAIN b /\ a[k].die = b[k].die
  BY <1>4
<1>6. ASSUME NEW i \in DOMAIN a
      PROVE  i \in DOMAIN b /\ a[i].die = b[i].die
  <2>1. i \in Nat /\ i \in 1 .. i
    BY <1>0
  <2> HIDE DEF T
  <2> QED
    BY <1>5, <2>1
<1> QED
  BY <1>6

LEMMA SameLists ==
  ASSUME NEW S, S \subseteq Nat \X Nat, NEW a, NEW b, Lists(a, S), Lists(b, S)
  PROVE  Len(a) = Len(b) /\ \A i \in DOMAIN a : a[i].die = b[i].die
<1>1. Len(a) \in Nat /\ DOMAIN a = 1 .. Len(a) /\ Len(b) \in Nat /\ DOMAIN b = 1 .. Len(b)
  BY SeqFacts DEF Lists
<1>2. (\A i \in DOMAIN a : i \in DOMAIN b /\ a[i].die = b[i].die) /\ \A i \in DOMAIN b : i \in DOMAIN a
  BY ListBegins
<1>3. ~ (Len(a) < Len(b)) /\ ~ (Len(b) < Len(a))
  <2>1. Len(a) # 0 => Len(a) \in DOMAIN b
    BY <1>1, <1>2
  <2>2. Len(b) # 0 => Len(b) \in DOMAIN a
    BY <1>1, <1>2
  <2> QED
    BY <1>1, <2>1, <2>2
<1>4. Len(a) = Len(b)
  <2>1. \A n, m \in Nat : ~ (n < m) /\ ~ (m < n) => n = m
    OBVIOUS
  <2> QED
    BY <1>1, <1>3, <2>1
<1> QED
  BY <1>2, <1>4

\* A place that is listed is listed once.
LEMMA ListedOnce ==
  ASSUME NEW S, S \subseteq Nat \X Nat, NEW a, Lists(a, S), NEW p \in S
  PROVE  Cardinality({i \in DOMAIN a : a[i].die = p}) = 1
<1>1. Len(a) \in Nat /\ DOMAIN a = 1 .. Len(a)
  BY SeqFacts DEF Lists
<1>2. PICK i \in DOMAIN a : a[i].die = p
  BY DEF Lists
<1>3. ASSUME NEW j \in DOMAIN a, a[j].die = p, j # i
      PROVE  FALSE
  <2>1. i < j \/ j < i
    BY <1>1, <1>3
  <2>2. Precedes(p, p)
    BY <1>2, <1>3, <2>1 DEF Lists
  <2> QED
    BY <2>2, Order
<1>4. {j \in DOMAIN a : a[j].die = p} = {i}
  BY <1>2, <1>3
<1> QED
  BY <1>4, FS_Singleton

-----------------------------------------------------------------------------
(***************************************************************************)
(* Sets of numbers, and their elements in order.                           *)
(***************************************************************************)
LEMMA Least ==
  ASSUME NEW T, T \subseteq Nat, T # {}
  PROVE  \E x \in T : \A y \in T : x <= y
<1>1. \E x \in T : \A y \in T : ~ (<<y, x>> \in OpToRel(<, Nat))
  BY NatLessThanWellFounded, WFMin
<1>2. PICK x \in T : \A y \in T : ~ (<<y, x>> \in OpToRel(<, Nat))
  BY <1>1
<1>3. ASSUME NEW y \in T
      PROVE  x <= y
  <2>1. x \in Nat /\ y \in Nat /\ ~ (<<y, x>> \in OpToRel(<, Nat))
    BY <1>2
  <2>2. ~ (y < x)
    BY <2>1 DEF OpToRel
  <2>3. \A a, b \in Nat : ~ (b < a) => a <= b
    OBVIOUS
  <2> QED
    BY <2>1, <2>2, <2>3
<1> QED
  BY <1>3

LEMMA Largest ==
  ASSUME NEW n \in Nat, NEW T, T \subseteq 1 .. n, T # {}
  PROVE  \E x \in T : \A y \in T : y <= x
<1> DEFINE F == {n - y : y \in T}
<1>0. \A y \in T : y \in Nat /\ n - y \in Nat
  OBVIOUS
<1>1. F \subseteq Nat /\ F # {}
  BY <1>0
<1>2. PICK z \in F : \A y \in F : z <= y
  <2> HIDE DEF F
  <2> QED
    BY <1>1, Least
<1>3. PICK x \in T : z = n - x
  BY <1>2
<1>4. ASSUME NEW y \in T
      PROVE  y <= x
  <2>1. n - y \in F
    OBVIOUS
  <2>2. n - x <= n - y
    BY <1>2, <1>3, <2>1
  <2> HIDE DEF F
  <2> QED
    BY <1>0, <2>2
<1> QED
  BY <1>4

\* The elements of S below x, and the element with i - 1 of them below it.
Below(S, x) == {y \in S : y < x}
Nth(S, i) == CHOOSE x \in S : Cardinality(Below(S, x)) = i - 1

LEMMA Ranks ==
  ASSUME NEW S, S \subseteq Nat, IsFiniteSet(S)
  PROVE  /\ Cardinality(S) \in Nat
         /\ \A x \in S : Cardinality(Below(S, x)) \in 0 .. Cardinality(S) - 1
         /\ \A x, z \in S : x < z => Cardinality(Below(S, x)) < Cardinality(Below(S, z))
<1>1. Cardinality(S) \in Nat
  BY FS_CardinalityType
<1>2. ASSUME NEW x \in S
      PROVE  /\ IsFiniteSet(Below(S, x)) /\ Cardinality(Below(S, x)) \in Nat
             /\ Cardinality(Below(S, x)) < Cardinality(S)
  <2>1. Below(S, x) \in SUBSET S /\ Below(S, x) # S
    BY DEF Below
  <2>2. IsFiniteSet(Below(S, x)) /\ Cardinality(Below(S, x)) <= Cardinality(S)
        /\ Cardinality(S) # Cardinality(Below(S, x))
    BY <2>1, FS_Subset
  <2>3. Cardinality(Below(S, x)) \in Nat
    BY <2>2, FS_CardinalityType
  <2> QED
    BY <1>1, <2>2, <2>3
<1>3. ASSUME NEW x \in S, NEW z \in S, x < z
      PROVE  Cardinality(Below(S, x)) < Cardinality(Below(S, z))
  <2>0. x \in Nat /\ z \in Nat /\ \A y \in S : y \in Nat
    OBVIOUS
  <2>1. Below(S, x) \in SUBSET Below(S, z)
    <3>1. \A y \in S : y < x => y < z
      BY <1>3, <2>0
    <3> QED
      BY <3>1 DEF Below
  <2>a. x \in Below(S, z) /\ x \notin Below(S, x)
    BY <1>3, <2>0 DEF Below
  <2>2. Cardinality(Below(S, x)) <= Cardinality(Below(S, z))
        /\ Cardinality(Below(S, z)) # Cardinality(Below(S, x))
    BY <1>2, <2>1, <2>a, FS_Subset
  <2> QED
    BY <1>2, <2>2
<1>4. \A x \in S : Cardinality(Below(S, x)) \in 0 .. Cardinality(S) - 1
  BY <1>1, <1>2
<1> QED
  BY <1>1, <1>3, <1>4

LEMMA NthFacts ==
  ASSUME NEW S, S \subseteq Nat, IsFiniteSet(S)
  PROVE  /\ Cardinality(S) \in Nat
         /\ \A i \in 1 .. Cardinality(S) : Nth(S, i) \in S
         /\ \A i, j \in 1 .. Cardinality(S) : i < j => Nth(S, i) < Nth(S, j)
         /\ \A x \in S : \E i \in 1 .. Cardinality(S) : Nth(S, i) = x
<1> DEFINE n == Cardinality(S)  r == [x \in S |-> Cardinality(Below(S, x))]
<1>1. /\ n \in Nat
      /\ \A x \in S : r[x] \in 0 .. n - 1
      /\ \A x, z \in S : x < z => r[x] < r[z]
  BY Ranks
<1>2. r \in [S -> 0 .. n - 1]
  BY <1>1
<1>3. \A x \in S : r[x] = Cardinality(Below(S, x))
  OBVIOUS
<1> HIDE DEF r
<1>4. \A x, z \in S : r[x] = r[z] => x = z
  <2> SUFFICES ASSUME NEW x \in S, NEW z \in S, r[x] = r[z], x # z
               PROVE  FALSE
    OBVIOUS
  <2>1. x < z \/ z < x
    OBVIOUS
  <2>2. r[x] \in Int /\ (r[x] < r[z] \/ r[z] < r[x])
    BY <1>1, <2>1
  <2> QED
    BY <2>2
<1>5. r \in Injection(S, 0 .. n - 1)
  BY <1>2, <1>4 DEF Injection, IsInjective
<1>6. IsFiniteSet(0 .. n - 1) /\ Cardinality(0 .. n - 1) = n
  <2>1. 0 \in Int /\ n - 1 \in Int /\ (IF 0 > n - 1 THEN 0 ELSE (n - 1) - 0 + 1) = n
    BY <1>1
  <2> HIDE DEF n
  <2>2. IsFiniteSet(0 .. n - 1) /\ Cardinality(0 .. n - 1) = IF 0 > n - 1 THEN 0 ELSE (n - 1) - 0 + 1
    BY <2>1, FS_Interval
  <2> QED
    BY <2>1, <2>2
<1>7. r \in Surjection(S, 0 .. n - 1)
  BY <1>5, <1>6, FS_Injection
<1>8. \A k \in 0 .. n - 1 : \E x \in S : r[x] = k
  BY <1>7 DEF Surjection
<1>9. ASSUME NEW i \in 1 .. n
      PROVE  Nth(S, i) \in S /\ r[Nth(S, i)] = i - 1
  <2>1. i - 1 \in 0 .. n - 1
    BY <1>1
  <2>2. \E x \in S : Cardinality(Below(S, x)) = i - 1
    BY <1>3, <1>8, <2>1
  <2>3. Nth(S, i) \in S /\ Cardinality(Below(S, Nth(S, i))) = i - 1
    BY <2>2 DEF Nth
  <2> QED
    BY <1>3, <2>3
<1>10. ASSUME NEW i \in 1 .. n, NEW j \in 1 .. n, i < j
       PROVE  Nth(S, i) < Nth(S, j)
  <2>1. PICK x : x = Nth(S, i)
    OBVIOUS
  <2>2. PICK z : z = Nth(S, j)
    OBVIOUS
  <2>3. x \in S /\ z \in S /\ r[x] = i - 1 /\ r[z] = j - 1
    BY <1>9, <2>1, <2>2
  <2>4. r[x] < r[z]
    BY <1>1, <1>10, <2>3
  <2>5. ~ (z < x) /\ x # z
    BY <1>1, <2>3, <2>4
  <2>6. x < z
    BY <2>3, <2>5
  <2> QED
    BY <2>1, <2>2, <2>6
<1>11. ASSUME NEW x \in S
       PROVE  \E i \in 1 .. n : Nth(S, i) = x
  <2>1. r[x] \in 0 .. n - 1 /\ r[x] + 1 \in 1 .. n /\ (r[x] + 1) - 1 = r[x]
    BY <1>1
  <2>2. Nth(S, r[x] + 1) \in S /\ r[Nth(S, r[x] + 1)] = r[x]
    BY <1>9, <2>1
  <2>3. Nth(S, r[x] + 1) = x
    BY <1>4, <2>2
  <2> QED
    BY <2>1, <2>3
<1> QED
  BY <1>1, <1>9, <1>10, <1>11

\* The function of the recursion of Ordered.
OrderedTo(S) == CHOOSE f : f = [n \in 0 .. Cardinality(S) |->
                  IF n = 0 THEN <<>>
                  ELSE Append(f[n - 1], CHOOSE x \in S : Cardinality({y \in S : y < x}) = n - 1)]

LEMMA OrderedIsTo == ASSUME NEW S PROVE Ordered(S) = OrderedTo(S)[Cardinality(S)]
  BY DEF Ordered, OrderedTo

LEMMA OrderedFacts ==
  ASSUME NEW S, S \subseteq Nat, IsFiniteSet(S)
  PROVE  Ordered(S) = [i \in 1 .. Cardinality(S) |-> Nth(S, i)]
<1> DEFINE N == Cardinality(S)
           Solves(f) == f = [n \in 0 .. N |-> IF n = 0 THEN <<>> ELSE Append(f[n - 1], Nth(S, n))]
           g == [n \in 0 .. N |-> [i \in 1 .. n |-> Nth(S, i)]]
           h == OrderedTo(S)
<1>1. N \in Nat
  BY FS_CardinalityType
<1> HIDE DEF N
<1>2. \A n \in 0 .. N : g[n] = [i \in 1 .. n |-> Nth(S, i)]
  OBVIOUS
<1>3. Solves(g)
  <2>1. ASSUME NEW n \in 0 .. N
        PROVE  g[n] = IF n = 0 THEN <<>> ELSE Append(g[n - 1], Nth(S, n))
    <3>1. CASE n = 0
      BY <1>2, <3>1
    <3>2. CASE n # 0
      <4>1. n - 1 \in 0 .. N /\ g[n - 1] = [i \in 1 .. n - 1 |-> Nth(S, i)]
        BY <1>1, <1>2, <3>2
      <4> DEFINE V == {Nth(S, i) : i \in 1 .. n}
      <4>2. n \in Nat /\ n \in 1 .. n /\ n - 1 \in Nat /\ (n - 1) + 1 = n
        BY <1>1, <3>2
      <4>3. [i \in 1 .. n - 1 |-> Nth(S, i)] \in Seq(V) /\ Nth(S, n) \in V
            /\ Len([i \in 1 .. n - 1 |-> Nth(S, i)]) = n - 1
        <5>1. \A i \in 1 .. n - 1 : Nth(S, i) \in V
          BY <4>2
        <5>2. Nth(S, n) \in V
          BY <4>2
        <5> HIDE DEF V
        <5>3. [i \in 1 .. n - 1 |-> Nth(S, i)] \in [1 .. n - 1 -> V]
          BY <5>1
        <5> QED
          BY <4>2, <5>2, <5>3
      <4> HIDE DEF V
      <4>4. Append([i \in 1 .. n - 1 |-> Nth(S, i)], Nth(S, n)) = [i \in 1 .. n |-> Nth(S, i)]
        BY <4>2, <4>3
      <4> QED
        BY <1>2, <3>2, <4>1, <4>4
    <3> QED
      BY <3>1, <3>2
  <2>2. DOMAIN g = 0 .. N /\ g = [n \in 0 .. N |-> g[n]]
    OBVIOUS
  <2> HIDE DEF g
  <2> QED
    BY <2>1, <2>2
<1> HIDE DEF g
<1>4. h = CHOOSE f : Solves(f)
  BY DEF OrderedTo, Nth, Below, N
<1>5. Solves(h)
  <2> HIDE DEF Solves, h
  <2> QED
    BY <1>3, <1>4
<1> HIDE DEF h
<1>6. \A n \in 0 .. N : h[n] = IF n = 0 THEN <<>> ELSE Append(h[n - 1], Nth(S, n))
  BY <1>5
<1>7. \A n \in 0 .. N : g[n] = IF n = 0 THEN <<>> ELSE Append(g[n - 1], Nth(S, n))
  BY <1>3
<1> HIDE DEF Solves
<1> DEFINE T == {n \in Nat : n \in 0 .. N => h[n] = g[n]}
<1>8. 0 \in T
  BY <1>6, <1>7
<1>9. ASSUME NEW n \in Nat, n \in T
      PROVE  n + 1 \in T
  <2> SUFFICES ASSUME n + 1 \in 0 .. N PROVE h[n + 1] = g[n + 1]
    OBVIOUS
  <2>1. n \in 0 .. N /\ (n + 1) - 1 = n /\ n + 1 # 0
    BY <1>1
  <2>2. h[n] = g[n]
    BY <1>9, <2>1
  <2> QED
    BY <1>6, <1>7, <2>1, <2>2
<1> HIDE DEF T
<1>10. Nat \subseteq T
  BY <1>8, <1>9, AllNaturals
<1> USE DEF T
<1>11. h[N] = g[N]
  BY <1>1, <1>10
<1>12. g[N] = [i \in 1 .. N |-> Nth(S, i)]
  BY <1>1, <1>2
<1>13. Ordered(S) = h[N]
  BY OrderedIsTo DEF h, N
<1> QED
  BY <1>11, <1>12, <1>13 DEF N

-----------------------------------------------------------------------------
(***************************************************************************)
(* Attributes.                                                             *)
(***************************************************************************)
LEMMA OneAttribute ==
  ASSUME NEW attrs, WellFormedAttributes(attrs), NEW name, NEW i \in Indices(attrs, {name}), NEW default
  PROVE  Indices(attrs, {name}) = {i} /\ Value(attrs, {name}, default) = attrs[i].value
<1>1. i \in Nat /\ i <= i
  BY SeqFacts DEF WellFormedAttributes, Indices
<1>2. Indices(attrs, {name}) = {i}
  BY DEF WellFormedAttributes, Indices
<1>3. (CHOOSE k \in {i} : \A j \in {i} : j <= k) = i
  BY <1>1
<1> QED
  BY <1>2, <1>3 DEF Value

LEMMA NumberAttribute ==
  ASSUME NEW attrs, WellFormedAttributes(attrs), NEW name \in {"low_pc", "high_pc"}, NEW default \in Int
  PROVE  Value(attrs, {name}, default) \in Int
<1>1. CASE Indices(attrs, {name}) = {}
  BY <1>1 DEF Value
<1>2. CASE Indices(attrs, {name}) # {}
  <2>1. PICK i \in Indices(attrs, {name}) : TRUE
    BY <1>2
  <2>2. Value(attrs, {name}, default) = attrs[i].value
    BY <2>1, OneAttribute, ZenonT(60)
  <2>3. attrs[i].value \in Nat
    BY <2>1 DEF Indices, WellFormedAttributes
  <2> QED
    BY <2>2, <2>3
<1> QED
  BY <1>1, <1>2

\* A loop that ends with the location has read the attributes before it.
LEMMA UpToFacts ==
  ASSUME NEW attrs, WellFormedAttributes(attrs), Indices(attrs, {"location"}) # {}
  PROVE  /\ DOMAIN UpToLocation(attrs) \subseteq DOMAIN attrs
         /\ \A i \in DOMAIN UpToLocation(attrs) : UpToLocation(attrs)[i] = attrs[i]
         /\ Indices(UpToLocation(attrs), {"location"}) = Indices(attrs, {"location"})
<1>1. PICK k \in Indices(attrs, {"location"}) : TRUE
  OBVIOUS
<1>2. Indices(attrs, {"location"}) = {k}
  BY OneAttribute
<1>3. Len(attrs) \in Nat /\ DOMAIN attrs = 1 .. Len(attrs) /\ k \in 1 .. Len(attrs) /\ attrs \in Seq(Elements(attrs))
  BY <1>1, SeqFacts DEF WellFormedAttributes, Indices, IsSeq
<1>4. (CHOOSE i \in {k} : \A j \in {k} : i <= j) = k
  BY <1>3
<1>5. UpToLocation(attrs) = SubSeq(attrs, 1, k)
  BY <1>2, <1>4 DEF UpToLocation
<1>6. DOMAIN SubSeq(attrs, 1, k) = 1 .. k /\ \A i \in 1 .. k : SubSeq(attrs, 1, k)[i] = attrs[i]
  BY <1>3
<1>7. 1 .. k \subseteq 1 .. Len(attrs) /\ k \in 1 .. k
  BY <1>3
<1> QED
  BY <1>1, <1>2, <1>3, <1>5, <1>6, <1>7 DEF Indices

LEMMA SameValue ==
  ASSUME NEW attrs, IsSeq(attrs), NEW b, DOMAIN b \subseteq DOMAIN attrs, \A i \in DOMAIN b : b[i] = attrs[i],
         NEW names, Indices(b, names) = Indices(attrs, names), NEW default
  PROVE  Value(b, names, default) = Value(attrs, names, default)
<1> DEFINE is == Indices(attrs, names)
<1>1. Len(attrs) \in Nat /\ is \subseteq 1 .. Len(attrs)
  BY SeqFacts DEF Indices
<1>2. CASE is = {}
  BY <1>2 DEF Value
<1>3. CASE is # {}
  <2>1. \E x \in is : \A y \in is : y <= x
    BY <1>1, <1>3, Largest
  <2>2. PICK i : i = CHOOSE x \in is : \A y \in is : y <= x
    OBVIOUS
  <2>3. i \in is
    BY <2>1, <2>2
  <2>4. i \in DOMAIN b
    BY <2>3 DEF Indices
  <2>5. Value(b, names, default) = b[i].value /\ Value(attrs, names, default) = attrs[i].value
    BY <1>3, <2>2 DEF Value
  <2> QED
    BY <2>4, <2>5
<1> QED
  BY <1>2, <1>3

\* Which of the attributes with names in a set come before the location.
LEMMA FewerNames ==
  ASSUME NEW attrs, NEW b, NEW names, NEW more, names \subseteq more, Indices(b, more) = Indices(attrs, more),
         \A i \in DOMAIN b : b[i] = attrs[i]
  PROVE  Indices(b, names) = Indices(attrs, names)
  BY DEF Indices

\* A variable that tells its type before its location is described by the
\* attributes up to there.
LEMMA DescribedSame ==
  ASSUME NEW u, NEW attrs, WellFormedAttributes(attrs), Indices(attrs, {"location"}) # {}, TypeBeforeLocation(attrs)
  PROVE  /\ Described(u, UpToLocation(attrs)).type = Described(u, attrs).type
         /\ Undescribed(u, attrs) => Undescribed(u, UpToLocation(attrs))
<1> DEFINE b == UpToLocation(attrs)
<1>1. /\ DOMAIN b \subseteq DOMAIN attrs /\ \A i \in DOMAIN b : b[i] = attrs[i]
      /\ Indices(b, {"location"}) = Indices(attrs, {"location"})
  BY UpToFacts
<1>2. IsSeq(attrs) /\ Indices(b, {"type"} \union Origin) = Indices(attrs, {"type"} \union Origin)
  BY DEF WellFormedAttributes, TypeBeforeLocation
<1> HIDE DEF b
<1>3. Indices(b, {"type"}) = Indices(attrs, {"type"})
  <2>1. {"type"} \subseteq {"type"} \union Origin
    OBVIOUS
  <2> QED
    BY <1>1, <1>2, <2>1, FewerNames
<1>4. Indices(b, Origin) = Indices(attrs, Origin)
  <2>1. Origin \subseteq {"type"} \union Origin
    OBVIOUS
  <2> QED
    BY <1>1, <1>2, <2>1, FewerNames
<1>5. Value(b, {"type"}, NoType) = Value(attrs, {"type"}, NoType)
  BY <1>1, <1>2, <1>3, SameValue
<1>6. Value(b, Origin, 0) = Value(attrs, Origin, 0)
  BY <1>1, <1>2, <1>4, SameValue
<1>7. OriginOf(u, b) = OriginOf(u, attrs)
  BY <1>4, <1>6 DEF OriginOf
<1>8. Described(u, b).type = Described(u, attrs).type
  BY <1>5, <1>7 DEF Described
<1>9. Indices(attrs, {"type", "location"} \union Origin) \subseteq Indices(b, {"type", "location"} \union Origin)
  BY <1>1, <1>2 DEF Indices
<1>10. Unreadable(attrs, {"type", "location"} \union Origin) => Unreadable(b, {"type", "location"} \union Origin)
  <2> SUFFICES ASSUME NEW i \in Indices(attrs, {"type", "location"} \union Origin),
                      attrs[i].form \notin KnownForms(attrs[i].at)
               PROVE  \E j \in Indices(b, {"type", "location"} \union Origin) : b[j].form \notin KnownForms(b[j].at)
    BY DEF Unreadable
  <2>1. i \in Indices(b, {"type", "location"} \union Origin)
    BY <1>9
  <2>2. b[i] = attrs[i]
    BY <1>1, <2>1 DEF Indices
  <2> QED
    BY <2>1, <2>2
<1>11. \A i \in Indices(attrs, {"type"}) : i \in Indices(b, {"type"}) /\ b[i] = attrs[i]
  BY <1>1, <1>3 DEF Indices
<1>12. Undescribed(u, attrs) => Undescribed(u, b)
  BY <1>7, <1>10, <1>11 DEF Undescribed
<1> QED
  BY <1>8, <1>12 DEF b

-----------------------------------------------------------------------------
(***************************************************************************)
(* The walk from a function into its lexical blocks.                       *)
(***************************************************************************)
LEMMA ProgramFacts ==
  ASSUME program \in Programs
  PROVE  /\ Len(program) \in Nat /\ Len(program) >= 1 /\ DOMAIN program = 1 .. Len(program)
         /\ \A u \in DOMAIN program :
              LET dies == program[u].dies
              IN /\ WellFormed(program[u])
                 /\ Len(dies) \in Nat /\ Len(dies) >= 1 /\ DOMAIN dies = 1 .. Len(dies)
<1>1. \A s : IsSeq(s) /\ s # <<>> => Len(s) \in Nat /\ Len(s) >= 1 /\ DOMAIN s = 1 .. Len(s)
  BY DEF IsSeq
<1>2. IsSeq(program) /\ program # <<>> /\ \A u \in DOMAIN program : WellFormed(program[u])
  BY ProgramsAssumption
<1>3. \A u \in DOMAIN program : IsSeq(program[u].dies) /\ program[u].dies # <<>>
  BY <1>2 DEF WellFormed
<1> QED
  BY <1>1, <1>2, <1>3

\* The DIEs of a unit, each after its parent.
Parented(dies) ==
  /\ Len(dies) \in Nat /\ DOMAIN dies = 1 .. Len(dies)
  /\ \A d \in DOMAIN dies : WellFormedAttributes(dies[d].attrs) /\ (d > 1 => dies[d].parent \in 1 .. d - 1)

LEMMA UnitParented ==
  ASSUME program \in Programs, NEW u \in DOMAIN program
  PROVE  Parented(program[u].dies)
  BY ProgramFacts DEF WellFormed, Parented

\* The walk visits what is at x, or the children of the block at x.
UpAt(dies, f, up, x) == IF x = f THEN TRUE ELSE x > f /\ dies[x].tag = "lexical_block" /\ up[dies[x].parent]
Scope(dies, f) == CHOOSE up : up = [x \in DOMAIN dies |->
                    IF x = f THEN TRUE ELSE x > f /\ dies[x].tag = "lexical_block" /\ up[dies[x].parent]]

LEMMA InScopeIs ==
  ASSUME NEW u, NEW f, NEW d
  PROVE  InScope(u, f, d) <=> d > f /\ Scope(program[u].dies, f)[program[u].dies[d].parent]
  BY DEF InScope, Scope

LEMMA ScopeExists ==
  ASSUME NEW dies, Parented(dies), NEW f \in DOMAIN dies
  PROVE  \E up : up = [x \in DOMAIN dies |-> UpAt(dies, f, up, x)]
<1> DEFINE N == Len(dies)
           T == {n \in Nat : n <= N => \E up : DOMAIN up = 1 .. n /\ up = [x \in 1 .. n |-> UpAt(dies, f, up, x)]}
<1>1. N \in Nat /\ DOMAIN dies = 1 .. N /\ f \in Nat /\ f >= 1
  BY DEF Parented
<1>2. 0 \in T
  <2> DEFINE up == [x \in 1 .. 0 |-> TRUE]
  <2>1. DOMAIN up = 1 .. 0 /\ up = [x \in 1 .. 0 |-> UpAt(dies, f, up, x)]
    OBVIOUS
  <2> QED
    BY <2>1
<1>3. ASSUME NEW n \in Nat, n \in T
      PROVE  n + 1 \in T
  <2> SUFFICES ASSUME n + 1 <= N
               PROVE  \E up : DOMAIN up = 1 .. n + 1 /\ up = [x \in 1 .. n + 1 |-> UpAt(dies, f, up, x)]
    OBVIOUS
  <2>1. n <= N
    BY <1>1
  <2>2. PICK up : DOMAIN up = 1 .. n /\ up = [x \in 1 .. n |-> UpAt(dies, f, up, x)]
    BY <1>3, <2>1
  <2> DEFINE new == [x \in 1 .. n + 1 |-> UpAt(dies, f, up, x)]
  <2>3. ASSUME NEW x \in 1 .. n
        PROVE  new[x] = up[x]
    <3>1. x \in 1 .. n + 1
      OBVIOUS
    <3>2. up[x] = UpAt(dies, f, up, x)
      BY <2>2
    <3> QED
      BY <3>1, <3>2
  <2>4. ASSUME NEW x \in 1 .. n + 1
        PROVE  UpAt(dies, f, new, x) = UpAt(dies, f, up, x)
    <3>1. CASE x > f
      <4>1. x \in DOMAIN dies /\ x > 1
        BY <1>1, <3>1
      <4>2. dies[x].parent \in 1 .. x - 1
        BY <4>1 DEF Parented
      <4>3. dies[x].parent \in 1 .. n
        BY <4>2
      <4>4. new[dies[x].parent] = up[dies[x].parent]
        BY <2>3, <4>3
      <4> HIDE DEF new
      <4> QED
        BY <4>4 DEF UpAt
    <3>2. CASE ~ (x > f)
      BY <3>2 DEF UpAt
    <3> QED
      BY <3>1, <3>2
  <2>5. DOMAIN new = 1 .. n + 1 /\ \A x \in 1 .. n + 1 : new[x] = UpAt(dies, f, up, x)
    OBVIOUS
  <2>6. new = [x \in 1 .. n + 1 |-> UpAt(dies, f, new, x)]
    <3>1. new = [x \in 1 .. n + 1 |-> new[x]]
      OBVIOUS
    <3>2. \A x \in 1 .. n + 1 : new[x] = UpAt(dies, f, new, x)
      BY <2>4, <2>5
    <3> HIDE DEF new
    <3> QED
      BY <3>1, <3>2
  <2> HIDE DEF new
  <2> QED
    BY <2>5, <2>6
<1> HIDE DEF T
<1>4. N \in T
  BY <1>1, <1>2, <1>3, AllNaturals
<1> USE DEF T
<1>5. PICK up : DOMAIN up = 1 .. N /\ up = [x \in 1 .. N |-> UpAt(dies, f, up, x)]
  BY <1>1, <1>4
<1> QED
  BY <1>1, <1>5

LEMMA ScopeFacts ==
  ASSUME NEW dies, Parented(dies), NEW f \in DOMAIN dies, NEW x \in DOMAIN dies
  PROVE  Scope(dies, f)[x] <=> x = f \/ (x > f /\ dies[x].tag = "lexical_block" /\ Scope(dies, f)[dies[x].parent])
<1> DEFINE Solves(up) == up = [y \in DOMAIN dies |-> UpAt(dies, f, up, y)]
           s == Scope(dies, f)
<1>1. s = CHOOSE up : Solves(up)
  BY DEF Scope, UpAt
<1>2. \E up : Solves(up)
  BY ScopeExists
<1> HIDE DEF s, Solves
<1>3. Solves(s)
  BY <1>1, <1>2
<1> USE DEF Solves
<1>4. s[x] = UpAt(dies, f, s, x)
  BY <1>3
<1> QED
  BY <1>4 DEF UpAt, s

\* A DIE is in the scope of one function.
LEMMA ScopeOfOne ==
  ASSUME NEW dies, Parented(dies), NEW f \in DOMAIN dies, NEW g \in DOMAIN dies,
         dies[f].tag = "subprogram", dies[g].tag = "subprogram",
         NEW x \in DOMAIN dies, Scope(dies, f)[x], Scope(dies, g)[x]
  PROVE  f = g
<1> DEFINE F == Scope(dies, f)  G == Scope(dies, g)
           T == {n \in Nat : \A y \in 1 .. n : y \in DOMAIN dies /\ F[y] /\ G[y] => f = g}
<1>1. Len(dies) \in Nat /\ DOMAIN dies = 1 .. Len(dies)
  BY DEF Parented
<1>2. \A y \in DOMAIN dies : F[y] <=> y = f \/ (y > f /\ dies[y].tag = "lexical_block" /\ F[dies[y].parent])
  BY ScopeFacts
<1>3. \A y \in DOMAIN dies : G[y] <=> y = g \/ (y > g /\ dies[y].tag = "lexical_block" /\ G[dies[y].parent])
  BY ScopeFacts
<1> HIDE DEF F, G
<1>4. 0 \in T
  OBVIOUS
<1>5. ASSUME NEW n \in Nat, n \in T
      PROVE  n + 1 \in T
  <2> SUFFICES ASSUME n + 1 \in DOMAIN dies, F[n + 1], G[n + 1]
               PROVE  f = g
    BY <1>5
  <2>1. CASE n + 1 = f
    BY <1>3, <2>1
  <2>2. CASE n + 1 = g
    BY <1>2, <2>2
  <2>3. CASE n + 1 # f /\ n + 1 # g
    <3>1. n + 1 > f /\ F[dies[n + 1].parent] /\ G[dies[n + 1].parent]
      BY <1>2, <1>3, <2>3
    <3>2. dies[n + 1].parent \in 1 .. n
      <4>1. n + 1 > 1 /\ (n + 1) - 1 = n
        BY <1>1, <3>1
      <4> QED
        BY <4>1 DEF Parented
    <3>3. dies[n + 1].parent \in DOMAIN dies
      BY <1>1, <3>2
    <3> QED
      BY <1>5, <3>1, <3>2, <3>3
  <2> QED
    BY <2>1, <2>2, <2>3
<1> HIDE DEF T
<1>6. x \in T
  <2>1. x \in Nat
    BY <1>1
  <2> QED
    BY <1>4, <1>5, <2>1, AllNaturals
<1> USE DEF T
<1> QED
  BY <1>1, <1>6 DEF F, G

-----------------------------------------------------------------------------
(***************************************************************************)
(* The range of a block, as start and length and as start and end.         *)
(***************************************************************************)
\* G has for each DIE how it changes a range in R.
Changes(dies, R, G) == \A x \in DOMAIN dies : G[x] \in [R -> R]
HandsDown(dies, f, R, outer, G, h) ==
  /\ h \in [DOMAIN dies -> R]
  /\ \A x \in DOMAIN dies : h[x] = IF x <= f THEN outer ELSE G[x][h[dies[x].parent]]

LEMMA HandedExists ==
  ASSUME NEW dies, Parented(dies), NEW f \in DOMAIN dies, NEW R, NEW outer \in R, NEW G, Changes(dies, R, G)
  PROVE  \E h : HandsDown(dies, f, R, outer, G, h)
<1> DEFINE N == Len(dies)
           At(h, x) == IF x <= f THEN outer ELSE G[x][h[dies[x].parent]]
           T == {n \in Nat : n <= N => \E h \in [1 .. n -> R] : \A x \in 1 .. n : h[x] = At(h, x)}
<1>0. \A x \in DOMAIN dies : G[x] \in [R -> R]
  BY DEF Changes
<1>1. N \in Nat /\ DOMAIN dies = 1 .. N /\ f \in Nat /\ f >= 1
  BY DEF Parented
<1>2. \A x \in DOMAIN dies : ~ (x <= f) => dies[x].parent \in 1 .. x - 1
  BY <1>1 DEF Parented
<1> HIDE DEF N
<1>3. 0 \in T
  <2>1. [x \in 1 .. 0 |-> outer] \in [1 .. 0 -> R]
    OBVIOUS
  <2>2. \A x \in 1 .. 0 : [y \in 1 .. 0 |-> outer][x] = At([y \in 1 .. 0 |-> outer], x)
    OBVIOUS
  <2> HIDE DEF At
  <2> QED
    BY <2>1, <2>2
<1>4. ASSUME NEW n \in Nat, n \in T
      PROVE  n + 1 \in T
  <2> SUFFICES ASSUME n + 1 <= N
               PROVE  \E h \in [1 .. n + 1 -> R] : \A x \in 1 .. n + 1 : h[x] = At(h, x)
    OBVIOUS
  <2>1. n <= N /\ n + 1 \in DOMAIN dies
    BY <1>1
  <2>2. PICK h \in [1 .. n -> R] : \A x \in 1 .. n : h[x] = At(h, x)
    BY <1>4, <2>1
  <2> DEFINE new == [x \in 1 .. n + 1 |-> IF x = n + 1 THEN At(h, n + 1) ELSE h[x]]
  <2>3. At(h, n + 1) \in R
    <3>1. CASE n + 1 <= f
      BY <3>1
    <3>2. CASE ~ (n + 1 <= f)
      <4>1. dies[n + 1].parent \in 1 .. n
        BY <1>2, <2>1, <3>2
      <4>2. h[dies[n + 1].parent] \in R
        BY <4>1
      <4>3. G[n + 1] \in [R -> R]
        BY <1>0, <2>1
      <4>4. G[n + 1][h[dies[n + 1].parent]] \in R
        BY <4>2, <4>3
      <4> QED
        BY <3>2, <4>4
    <3> QED
      BY <3>1, <3>2
  <2> HIDE DEF At
  <2>4. new \in [1 .. n + 1 -> R]
    <3>1. \A x \in 1 .. n + 1 : x = n + 1 \/ x \in 1 .. n
      OBVIOUS
    <3> QED
      BY <2>3, <3>1
  <2>5. \A x \in 1 .. n : new[x] = h[x]
    OBVIOUS
  <2>6. new[n + 1] = At(h, n + 1)
    OBVIOUS
  <2> HIDE DEF new
  <2>7. ASSUME NEW x \in 1 .. n + 1
        PROVE  At(new, x) = At(h, x)
    <3>1. CASE x <= f
      BY <3>1 DEF At
    <3>2. CASE ~ (x <= f)
      <4>1. x \in DOMAIN dies
        BY <1>1
      <4>2. dies[x].parent \in 1 .. n
        BY <1>2, <3>2, <4>1
      <4>3. new[dies[x].parent] = h[dies[x].parent]
        BY <2>5, <4>2
      <4> QED
        BY <3>2, <4>3 DEF At
    <3> QED
      BY <3>1, <3>2
  <2>8. ASSUME NEW x \in 1 .. n + 1
        PROVE  new[x] = At(new, x)
    <3>1. x = n + 1 \/ x \in 1 .. n
      OBVIOUS
    <3> QED
      BY <2>2, <2>5, <2>6, <2>7, <3>1
  <2> QED
    BY <2>4, <2>8
<1> HIDE DEF T
<1>5. N \in T
  BY <1>1, <1>3, <1>4, AllNaturals
<1> USE DEF T
<1> HIDE DEF At
<1>6. PICK h \in [1 .. N -> R] : \A x \in 1 .. N : h[x] = At(h, x)
  BY <1>1, <1>5
<1> QED
  BY <1>1, <1>6 DEF At, HandsDown

Ranges == [low : Int, length : Int]
Bounds == [low : Int, high : Int]

RangeTo(dies, f, outer) == CHOOSE h : h = [x \in DOMAIN dies |->
                             IF x <= f THEN outer ELSE BlockRange(dies[x].attrs, h[dies[x].parent])]
BoundsTo(dies, f, outer) == CHOOSE h : h = [x \in DOMAIN dies |->
                              IF x <= f THEN outer ELSE BlockBounds(dies[x].attrs, h[dies[x].parent])]

LEMMA HandedIs ==
  ASSUME NEW u, NEW f, NEW d, NEW outer
  PROVE  /\ Handed(u, f, d, outer, BlockRange) = RangeTo(program[u].dies, f, outer)[program[u].dies[d].parent]
         /\ Handed(u, f, d, outer, BlockBounds) = BoundsTo(program[u].dies, f, outer)[program[u].dies[d].parent]
  BY DEF Handed, RangeTo, BoundsTo

LEMMA RangeFacts ==
  ASSUME NEW dies, Parented(dies), NEW f \in DOMAIN dies, NEW outer \in Ranges, NEW x \in DOMAIN dies
  PROVE  RangeTo(dies, f, outer)[x] =
           IF x <= f THEN outer ELSE BlockRange(dies[x].attrs, RangeTo(dies, f, outer)[dies[x].parent])
<1> DEFINE Solves(h) == h = [y \in DOMAIN dies |->
                          IF y <= f THEN outer ELSE BlockRange(dies[y].attrs, h[dies[y].parent])]
           s == RangeTo(dies, f, outer)
<1>1. ASSUME NEW y \in DOMAIN dies, NEW r \in Ranges
      PROVE  BlockRange(dies[y].attrs, r) \in Ranges
  <2>1. WellFormedAttributes(dies[y].attrs) /\ r.low \in Int /\ r.length \in Int
    BY DEF Parented, Ranges
  <2>2. Value(dies[y].attrs, {"low_pc"}, r.low) \in Int /\ Value(dies[y].attrs, {"high_pc"}, r.length) \in Int
    BY <2>1, NumberAttribute
  <2> QED
    BY <2>2 DEF BlockRange, Ranges
<1>b. PICK G : G = [y \in DOMAIN dies |-> [r \in Ranges |-> BlockRange(dies[y].attrs, r)]]
  OBVIOUS
<1>2. \A y \in DOMAIN dies : G[y] \in [Ranges -> Ranges]
  BY <1>1, <1>b
<1>3. \A y \in DOMAIN dies : \A r \in Ranges : G[y][r] = BlockRange(dies[y].attrs, r)
  BY <1>b
<1>c. Changes(dies, Ranges, G)
  BY <1>2 DEF Changes
<1>d. PICK h : HandsDown(dies, f, Ranges, outer, G, h)
  BY <1>c, HandedExists
<1>4. /\ h \in [DOMAIN dies -> Ranges]
      /\ \A y \in DOMAIN dies : h[y] = IF y <= f THEN outer ELSE G[y][h[dies[y].parent]]
  BY <1>d DEF HandsDown
<1>5. ASSUME NEW y \in DOMAIN dies
      PROVE  h[y] = IF y <= f THEN outer ELSE BlockRange(dies[y].attrs, h[dies[y].parent])
  <2>1. CASE y <= f
    BY <1>4, <2>1
  <2>2. CASE ~ (y <= f)
    <3>1. dies[y].parent \in DOMAIN dies
      <4>1. y \in Nat /\ f \in Nat /\ f >= 1 /\ Len(dies) \in Nat /\ DOMAIN dies = 1 .. Len(dies)
        BY DEF Parented
      <4>2. y > 1 /\ 1 .. y - 1 \subseteq DOMAIN dies
        BY <2>2, <4>1
      <4> QED
        BY <4>2 DEF Parented
    <3> QED
      BY <1>3, <1>4, <2>2, <3>1
  <2> QED
    BY <2>1, <2>2
<1>6. Solves(h)
  BY <1>4, <1>5
<1>7. s = CHOOSE k : Solves(k)
  BY DEF RangeTo
<1> HIDE DEF s, Solves
<1>8. Solves(s)
  BY <1>6, <1>7
<1> USE DEF Solves
<1> DEFINE e == [y \in DOMAIN dies |-> IF y <= f THEN outer ELSE BlockRange(dies[y].attrs, s[dies[y].parent])]
<1>9. s[x] = IF x <= f THEN outer ELSE BlockRange(dies[x].attrs, s[dies[x].parent])
  <2>1. s = e
    BY <1>8
  <2>2. e[x] = IF x <= f THEN outer ELSE BlockRange(dies[x].attrs, s[dies[x].parent])
    OBVIOUS
  <2> HIDE DEF e
  <2> QED
    BY <2>1, <2>2
<1> QED
  BY <1>9 DEF s

LEMMA BoundsFacts ==
  ASSUME NEW dies, Parented(dies), NEW f \in DOMAIN dies, NEW outer \in Bounds, NEW x \in DOMAIN dies
  PROVE  BoundsTo(dies, f, outer)[x] =
           IF x <= f THEN outer ELSE BlockBounds(dies[x].attrs, BoundsTo(dies, f, outer)[dies[x].parent])
<1> DEFINE Solves(h) == h = [y \in DOMAIN dies |->
                          IF y <= f THEN outer ELSE BlockBounds(dies[y].attrs, h[dies[y].parent])]
           s == BoundsTo(dies, f, outer)
<1>1. ASSUME NEW y \in DOMAIN dies, NEW r \in Bounds
      PROVE  BlockBounds(dies[y].attrs, r) \in Bounds
  <2>1. WellFormedAttributes(dies[y].attrs) /\ r.low \in Int /\ r.high - r.low \in Int
    BY DEF Parented, Bounds
  <2>2. Value(dies[y].attrs, {"low_pc"}, r.low) \in Int /\ Value(dies[y].attrs, {"high_pc"}, r.high - r.low) \in Int
    BY <2>1, NumberAttribute
  <2> QED
    BY <2>2 DEF BlockBounds, Bounds
<1>b. PICK G : G = [y \in DOMAIN dies |-> [r \in Bounds |-> BlockBounds(dies[y].attrs, r)]]
  OBVIOUS
<1>2. \A y \in DOMAIN dies : G[y] \in [Bounds -> Bounds]
  BY <1>1, <1>b
<1>3. \A y \in DOMAIN dies : \A r \in Bounds : G[y][r] = BlockBounds(dies[y].attrs, r)
  BY <1>b
<1>c. Changes(dies, Bounds, G)
  BY <1>2 DEF Changes
<1>d. PICK h : HandsDown(dies, f, Bounds, outer, G, h)
  BY <1>c, HandedExists
<1>4. /\ h \in [DOMAIN dies -> Bounds]
      /\ \A y \in DOMAIN dies : h[y] = IF y <= f THEN outer ELSE G[y][h[dies[y].parent]]
  BY <1>d DEF HandsDown
<1>5. ASSUME NEW y \in DOMAIN dies
      PROVE  h[y] = IF y <= f THEN outer ELSE BlockBounds(dies[y].attrs, h[dies[y].parent])
  <2>1. CASE y <= f
    BY <1>4, <2>1
  <2>2. CASE ~ (y <= f)
    <3>1. dies[y].parent \in DOMAIN dies
      <4>1. y \in Nat /\ f \in Nat /\ f >= 1 /\ Len(dies) \in Nat /\ DOMAIN dies = 1 .. Len(dies)
        BY DEF Parented
      <4>2. y > 1 /\ 1 .. y - 1 \subseteq DOMAIN dies
        BY <2>2, <4>1
      <4> QED
        BY <4>2 DEF Parented
    <3> QED
      BY <1>3, <1>4, <2>2, <3>1
  <2> QED
    BY <2>1, <2>2
<1>6. Solves(h)
  BY <1>4, <1>5
<1>7. s = CHOOSE k : Solves(k)
  BY DEF BoundsTo
<1> HIDE DEF s, Solves
<1>8. Solves(s)
  BY <1>6, <1>7
<1> USE DEF Solves
<1> DEFINE e == [y \in DOMAIN dies |-> IF y <= f THEN outer ELSE BlockBounds(dies[y].attrs, s[dies[y].parent])]
<1>9. s[x] = IF x <= f THEN outer ELSE BlockBounds(dies[x].attrs, s[dies[x].parent])
  <2>1. s = e
    BY <1>8
  <2>2. e[x] = IF x <= f THEN outer ELSE BlockBounds(dies[x].attrs, s[dies[x].parent])
    OBVIOUS
  <2> HIDE DEF e
  <2> QED
    BY <2>1, <2>2
<1> QED
  BY <1>9 DEF s

\* Whatever blocks lie between, the linker's range of a variable ends where
\* the inference's does.
LEMMA SameRanges ==
  ASSUME NEW dies, Parented(dies), NEW f \in DOMAIN dies, NEW low \in Int, NEW length \in Int, NEW x \in DOMAIN dies
  PROVE  LET r == RangeTo(dies, f, [low |-> low, length |-> length])[x]
             b == BoundsTo(dies, f, [low |-> low, high |-> low + length])[x]
         IN b.low = r.low /\ b.high = r.low + r.length
<1> DEFINE ro == [low |-> low, length |-> length]
           bo == [low |-> low, high |-> low + length]
           R == RangeTo(dies, f, ro)
           B == BoundsTo(dies, f, bo)
           Same(y) == R[y].low \in Int /\ R[y].length \in Int /\ B[y].low = R[y].low /\ B[y].high = R[y].low + R[y].length
           T == {n \in Nat : \A y \in 1 .. n : y \in DOMAIN dies => Same(y)}
<1>1. ro \in Ranges /\ bo \in Bounds
  BY DEF Ranges, Bounds
<1>2. Len(dies) \in Nat /\ DOMAIN dies = 1 .. Len(dies) /\ f \in Nat /\ f >= 1
  BY DEF Parented
<1>3. \A y \in DOMAIN dies : R[y] = IF y <= f THEN ro ELSE BlockRange(dies[y].attrs, R[dies[y].parent])
  <2> HIDE DEF ro
  <2> QED
    BY <1>1, RangeFacts
<1>4. \A y \in DOMAIN dies : B[y] = IF y <= f THEN bo ELSE BlockBounds(dies[y].attrs, B[dies[y].parent])
  <2> HIDE DEF bo
  <2> QED
    BY <1>1, BoundsFacts
<1> HIDE DEF R, B
<1>5. 0 \in T
  OBVIOUS
<1>6. ASSUME NEW n \in Nat, n \in T
      PROVE  n + 1 \in T
  <2> SUFFICES ASSUME n + 1 \in DOMAIN dies PROVE Same(n + 1)
    BY <1>6
  <2>1. CASE n + 1 <= f
    <3>1. R[n + 1] = ro /\ B[n + 1] = bo
      BY <1>3, <1>4, <2>1
    <3> QED
      BY <3>1
  <2>2. CASE ~ (n + 1 <= f)
    <3> DEFINE p == dies[n + 1].parent  attrs == dies[n + 1].attrs
    <3>1. p \in 1 .. n /\ p \in DOMAIN dies /\ WellFormedAttributes(attrs)
      <4>1. n + 1 > 1 /\ (n + 1) - 1 = n /\ 1 .. n \subseteq DOMAIN dies
        BY <1>2, <2>2
      <4> QED
        BY <4>1 DEF Parented
    <3>2. Same(p)
      BY <1>6, <3>1
    <3>3. R[n + 1] = BlockRange(attrs, R[p]) /\ B[n + 1] = BlockBounds(attrs, B[p])
      BY <1>3, <1>4, <2>2
    <3> HIDE DEF p, attrs
    <3> DEFINE l == Value(attrs, {"low_pc"}, R[p].low)  h == Value(attrs, {"high_pc"}, R[p].length)
    <3>4. l \in Int /\ h \in Int
      BY <3>1, <3>2, NumberAttribute
    <3>5. R[n + 1].low = l /\ R[n + 1].length = h
      BY <3>3 DEF BlockRange
    <3>6. B[p].low = R[p].low /\ B[p].high - B[p].low = R[p].length
      BY <3>2
    <3>7. B[n + 1].low = l /\ B[n + 1].high = l + h
      BY <3>3, <3>6 DEF BlockBounds
    <3> HIDE DEF l, h
    <3> QED
      BY <3>4, <3>5, <3>7
  <2> QED
    BY <2>1, <2>2
<1> HIDE DEF T
<1>7. x \in T
  <2>1. x \in Nat
    BY <1>2
  <2> QED
    BY <1>5, <1>6, <2>1, AllNaturals
<1> USE DEF T
<1>8. Same(x)
  BY <1>2, <1>7
<1> QED
  BY <1>8 DEF R, B

-----------------------------------------------------------------------------
(***************************************************************************)
(* The variables of a function, for the inference and for the linker.      *)
(***************************************************************************)
RangeOf(u, d) ==
  [low |-> Value(program[u].dies[d].attrs, {"low_pc"}, 0),
   length |-> Value(program[u].dies[d].attrs, {"high_pc"}, 0)]
BoundsOf(u, d) ==
  [low |-> Value(program[u].dies[d].attrs, {"low_pc"}, 0),
   high |-> Value(program[u].dies[d].attrs, {"low_pc"}, 0) + Value(program[u].dies[d].attrs, {"high_pc"}, 0)]
VarsOf(u, d, S) == [i \in DOMAIN Ordered(S) |-> Var(u, d, Ordered(S)[i], BoundsOf(u, d))]
CellsOf(u, d, S) == [i \in DOMAIN Ordered(S) |-> VarCell(u, d, Ordered(S)[i], RangeOf(u, d))]
Kept(u, S) == {v \in S : GlobalOffset(u, v) \notin redundant}

LEMMA FuncIs ==
  ASSUME NEW u, NEW d
  PROVE  /\ Func(u, d).die = <<u, d>>
         /\ Func(u, d).low = RangeOf(u, d).low
         /\ Func(u, d).high = RangeOf(u, d).low + RangeOf(u, d).length
         /\ Func(u, d).type = Declared(u, program[u].dies[d].attrs).type
         /\ Func(u, d).parameters = VarsOf(u, d, Objects(u, d, IsParameter))
         /\ Func(u, d).variables = VarsOf(u, d, Objects(u, d, IsVariable))
  BY DEF Func, RangeOf, VarsOf, BoundsOf

LEMMA FunctionCellIs ==
  ASSUME NEW u, NEW d
  PROVE  /\ FunctionCell(u, d).die = <<u, d>>
         /\ FunctionCell(u, d).address = RangeOf(u, d).low
         /\ FunctionCell(u, d).size = RangeOf(u, d).length
         /\ FunctionCell(u, d).type = Value(program[u].dies[d].attrs, {"type"}, NoType)
         /\ FunctionCell(u, d).args = CellsOf(u, d, Kept(u, Objects(u, d, IsParameter)))
         /\ FunctionCell(u, d).varCells = CellsOf(u, d, Kept(u, Objects(u, d, IsVariable)))
  BY DEF FunctionCell, RangeOf, CellsOf, Kept

\* S holds DIEs in the scope of the function d.
InScopeOf(u, d, S) == \A v \in S : v \in DOMAIN program[u].dies /\ InScope(u, d, v)

LEMMA ObjectsInScope ==
  ASSUME NEW u, NEW d
  PROVE  /\ InScopeOf(u, d, Objects(u, d, IsParameter))
         /\ InScopeOf(u, d, Objects(u, d, IsVariable))
  BY DEF InScopeOf, Objects

LEMMA ScopeNumbers ==
  ASSUME program \in Programs, NEW u \in DOMAIN program, NEW d \in DOMAIN program[u].dies, NEW S, InScopeOf(u, d, S)
  PROVE  /\ S \subseteq Nat /\ IsFiniteSet(S)
         /\ \A v \in S : /\ v > d
                         /\ program[u].dies[v].parent \in DOMAIN program[u].dies
                         /\ Scope(program[u].dies, d)[program[u].dies[v].parent]
<1> DEFINE n == Len(program[u].dies)
<1>1. n \in Nat /\ DOMAIN program[u].dies = 1 .. n /\ Parented(program[u].dies)
  BY ProgramFacts, UnitParented
<1>2. S \in SUBSET (1 .. n)
  BY <1>1 DEF InScopeOf
<1>3. IsFiniteSet(1 .. n)
  BY <1>1, FS_Interval
<1>4. IsFiniteSet(S)
  <2> HIDE DEF n
  <2> QED
    BY <1>2, <1>3, FS_Subset
<1>5. ASSUME NEW v \in S
      PROVE  /\ v > d
             /\ program[u].dies[v].parent \in DOMAIN program[u].dies
             /\ Scope(program[u].dies, d)[program[u].dies[v].parent]
  <2>1. v \in 1 .. n /\ d \in 1 .. n /\ v > d /\ Scope(program[u].dies, d)[program[u].dies[v].parent]
    BY <1>1, InScopeIs DEF InScopeOf
  <2>2. v > 1 /\ 1 .. v - 1 \subseteq 1 .. n
    BY <1>1, <2>1
  <2>3. program[u].dies[v].parent \in 1 .. v - 1
    BY <1>1, <2>1, <2>2 DEF Parented
  <2> QED
    BY <1>1, <2>1, <2>2, <2>3
<1>6. S \subseteq Nat
  BY <1>1, <1>2
<1> QED
  BY <1>4, <1>5, <1>6

\* The linker's cell of a variable and the inference's entry for it agree.
LEMMA SameEntry ==
  ASSUME program \in Programs, NEW u \in DOMAIN program, NEW d \in DOMAIN program[u].dies,
         NEW v, program[u].dies[v].parent \in DOMAIN program[u].dies
  PROVE  LET c == VarCell(u, d, v, RangeOf(u, d))
             a == Var(u, d, v, BoundsOf(u, d))
         IN /\ c.varId = a.varId /\ c.type = a.type /\ c.isParameter = a.isParameter
            /\ c.low = a.low /\ c.low + c.length = a.high
<1> DEFINE dies == program[u].dies
           attrs == dies[d].attrs
           low == Value(attrs, {"low_pc"}, 0)
           length == Value(attrs, {"high_pc"}, 0)
           r == RangeTo(dies, d, [low |-> low, length |-> length])[dies[v].parent]
           b == BoundsTo(dies, d, [low |-> low, high |-> low + length])[dies[v].parent]
<1>1. Parented(dies)
  BY UnitParented
<1>2. low \in Int /\ length \in Int
  <2>1. WellFormedAttributes(attrs)
    BY <1>1 DEF Parented
  <2> HIDE DEF attrs
  <2> QED
    BY <2>1, NumberAttribute
<1>3. b.low = r.low /\ b.high = r.low + r.length
  <2> HIDE DEF low, length, dies
  <2>1. dies[v].parent \in DOMAIN dies /\ d \in DOMAIN dies
    BY DEF dies
  <2> QED
    BY <1>1, <1>2, <2>1, SameRanges
<1>4. Handed(u, d, v, RangeOf(u, d), BlockRange) = r
  BY HandedIs DEF RangeOf
<1>5. Handed(u, d, v, BoundsOf(u, d), BlockBounds) = b
  BY HandedIs DEF BoundsOf
<1> HIDE DEF r, b
<1>6. VarCell(u, d, v, RangeOf(u, d)).low = r.low /\ VarCell(u, d, v, RangeOf(u, d)).length = r.length
  BY <1>4 DEF VarCell
<1>7. Var(u, d, v, BoundsOf(u, d)).low = b.low /\ Var(u, d, v, BoundsOf(u, d)).high = b.high
  BY <1>5 DEF Var
<1>8. /\ VarCell(u, d, v, RangeOf(u, d)).varId = Var(u, d, v, BoundsOf(u, d)).varId
      /\ VarCell(u, d, v, RangeOf(u, d)).type = Var(u, d, v, BoundsOf(u, d)).type
      /\ VarCell(u, d, v, RangeOf(u, d)).isParameter = Var(u, d, v, BoundsOf(u, d)).isParameter
  BY DEF Var, VarCell
<1> QED
  BY <1>3, <1>6, <1>7, <1>8

LEMMA SameVarsHold ==
  ASSUME program \in Programs, NEW u \in DOMAIN program, NEW d \in DOMAIN program[u].dies, NEW S, InScopeOf(u, d, S)
  PROVE  SameVars(CellsOf(u, d, Kept(u, S)), VarsOf(u, d, S))
<1> DEFINE K == Kept(u, S)
           cells == CellsOf(u, d, K)
           analysed == VarsOf(u, d, S)
           m == Cardinality(K)
           n == Cardinality(S)
<1>1. /\ S \subseteq Nat /\ IsFiniteSet(S)
      /\ \A v \in S : program[u].dies[v].parent \in DOMAIN program[u].dies
  BY ScopeNumbers
<1>2. K \subseteq Nat /\ IsFiniteSet(K) /\ K \subseteq S
  <2>1. K \in SUBSET S
    BY DEF Kept
  <2>2. IsFiniteSet(K)
    BY <1>1, <2>1, FS_Subset
  <2> QED
    BY <1>1, <2>1, <2>2
<1>3. /\ n \in Nat /\ \A i \in 1 .. n : Nth(S, i) \in S
      /\ \A i, j \in 1 .. n : i < j => Nth(S, i) < Nth(S, j)
      /\ \A x \in S : \E i \in 1 .. n : Nth(S, i) = x
  BY <1>1, NthFacts
<1>4. /\ m \in Nat /\ \A i \in 1 .. m : Nth(K, i) \in K
      /\ \A i, j \in 1 .. m : i < j => Nth(K, i) < Nth(K, j)
      /\ \A x \in K : \E i \in 1 .. m : Nth(K, i) = x
  <2> HIDE DEF K
  <2> QED
    BY <1>2, NthFacts
<1>5. \A x \in S : x \in K <=> GlobalOffset(u, x) \notin redundant
  BY DEF Kept
<1>6. DOMAIN cells = 1 .. m /\ \A i \in 1 .. m : cells[i] = VarCell(u, d, Nth(K, i), RangeOf(u, d))
  <2>1. Ordered(K) = [i \in 1 .. m |-> Nth(K, i)]
    <3> HIDE DEF K
    <3> QED
      BY <1>2, OrderedFacts
  <2> HIDE DEF K, m
  <2> QED
    BY <2>1 DEF CellsOf
<1>7. DOMAIN analysed = 1 .. n /\ \A i \in 1 .. n : analysed[i] = Var(u, d, Nth(S, i), BoundsOf(u, d))
  <2>1. Ordered(S) = [i \in 1 .. n |-> Nth(S, i)]
    BY <1>1, OrderedFacts
  <2> HIDE DEF n
  <2> QED
    BY <2>1 DEF VarsOf
<1> HIDE DEF K, m, n, cells, analysed
<1> DEFINE to == [i \in 1 .. m |-> CHOOSE j \in 1 .. n : Nth(S, j) = Nth(K, i)]
<1>8. ASSUME NEW i \in 1 .. m
      PROVE  to[i] \in 1 .. n /\ Nth(S, to[i]) = Nth(K, i)
  <2>1. \E j \in 1 .. n : Nth(S, j) = Nth(K, i)
    BY <1>2, <1>3, <1>4
  <2> QED
    BY <2>1
<1>9. to \in [DOMAIN cells -> DOMAIN analysed]
  <2>1. to = [i \in 1 .. m |-> to[i]]
    OBVIOUS
  <2> HIDE DEF to
  <2> QED
    BY <1>6, <1>7, <1>8, <2>1
<1> HIDE DEF to
<1>10. ASSUME NEW i \in 1 .. n, NEW j \in 1 .. n, Nth(S, i) = Nth(S, j)
       PROVE  i = j
  <2>1. \A x \in Nat : ~ (x < x)
    OBVIOUS
  <2>2. Nth(S, i) \in Nat /\ Nth(S, j) \in Nat
    BY <1>1, <1>3
  <2>3. ~ (i < j) /\ ~ (j < i)
    BY <1>3, <1>10, <2>1, <2>2
  <2> QED
    BY <1>3, <2>3
<1>11. ASSUME NEW i \in DOMAIN cells, NEW j \in DOMAIN cells, i < j
       PROVE  to[i] < to[j]
  <2>1. i \in 1 .. m /\ j \in 1 .. m /\ Nth(K, i) < Nth(K, j)
    BY <1>4, <1>6, <1>11
  <2>2. PICK a \in 1 .. n : a = to[i] /\ Nth(S, a) = Nth(K, i)
    BY <1>8, <2>1
  <2>3. PICK b \in 1 .. n : b = to[j] /\ Nth(S, b) = Nth(K, j)
    BY <1>8, <2>1
  <2>4. Nth(S, a) < Nth(S, b) /\ Nth(S, a) \in Nat /\ Nth(S, b) \in Nat
    BY <1>1, <1>3, <2>1, <2>2, <2>3
  <2>5. a # b
    BY <2>4
  <2>6. ~ (b < a)
    <3>1. b < a => Nth(S, b) < Nth(S, a)
      BY <1>3
    <3> QED
      BY <2>4, <3>1
  <2> QED
    BY <2>2, <2>3, <2>5, <2>6
<1>12. \A j \in 1 .. n : analysed[j].varId = GlobalOffset(u, Nth(S, j))
  BY <1>7 DEF Var
<1>13. ASSUME NEW j \in DOMAIN analysed
       PROVE  analysed[j].varId \notin redundant <=> \E i \in DOMAIN cells : to[i] = j
  <2>1. j \in 1 .. n /\ Nth(S, j) \in S
    BY <1>3, <1>7
  <2>2. analysed[j].varId \notin redundant <=> Nth(S, j) \in K
    BY <1>5, <1>12, <2>1
  <2>3. ASSUME NEW i \in DOMAIN cells, to[i] = j
        PROVE  Nth(S, j) \in K
    BY <1>4, <1>6, <1>8, <2>3
  <2>4. ASSUME Nth(S, j) \in K
        PROVE  \E i \in DOMAIN cells : to[i] = j
    <3>1. PICK i \in 1 .. m : Nth(K, i) = Nth(S, j)
      BY <1>4, <2>4
    <3>2. to[i] \in 1 .. n /\ Nth(S, to[i]) = Nth(S, j)
      BY <1>8, <3>1
    <3>3. to[i] = j
      BY <1>10, <2>1, <3>2
    <3> QED
      BY <1>6, <3>1, <3>3
  <2> QED
    BY <2>2, <2>3, <2>4
<1>14. {to[i] : i \in DOMAIN cells} = {j \in DOMAIN analysed : analysed[j].varId \notin redundant}
  <2>1. \A i \in DOMAIN cells : to[i] \in DOMAIN analysed
    BY <1>9
  <2> QED
    BY <1>13, <2>1
<1>15. ASSUME NEW i \in DOMAIN cells
       PROVE  /\ cells[i].varId = analysed[to[i]].varId /\ cells[i].type = analysed[to[i]].type
              /\ cells[i].isParameter = analysed[to[i]].isParameter
              /\ cells[i].low = analysed[to[i]].low
              /\ cells[i].low + cells[i].length = analysed[to[i]].high
  <2>1. i \in 1 .. m
    BY <1>6
  <2>2. PICK j \in 1 .. n : j = to[i] /\ Nth(S, j) = Nth(K, i)
    BY <1>8, <2>1
  <2>3. PICK v \in S : v = Nth(S, j)
    BY <1>3
  <2>4. cells[i] = VarCell(u, d, v, RangeOf(u, d)) /\ analysed[to[i]] = Var(u, d, v, BoundsOf(u, d))
    BY <1>6, <1>7, <2>1, <2>2, <2>3
  <2>5. program[u].dies[v].parent \in DOMAIN program[u].dies
    BY <1>1
  <2> QED
    BY <2>4, <2>5, SameEntry
<1>16. SameVars(cells, analysed)
  BY <1>9, <1>11, <1>14, <1>15 DEF SameVars
<1> QED
  BY <1>16 DEF cells, analysed, K

-----------------------------------------------------------------------------
(***************************************************************************)
(* What a step leaves alone.                                               *)
(***************************************************************************)
LEMMA SamePlaces ==
  ASSUME program' = program
  PROVE  /\ Places' = Places /\ GlobalPlaces' = GlobalPlaces
         /\ FuncPlaces' = FuncPlaces /\ TopFuncPlaces' = TopFuncPlaces
         /\ \A p : DieAt(p)' = DieAt(p)
<1>1. Places' = Places /\ \A p : DieAt(p)' = DieAt(p)
  BY DEF Places, DieAt
<1>2. \A u, d : FirstLevel(u, d)' <=> FirstLevel(u, d)
  BY DEF FirstLevel
<1>3. GlobalPlaces' = GlobalPlaces
  BY <1>1, <1>2 DEF GlobalPlaces
<1>4. FuncPlaces' = FuncPlaces
  BY <1>1 DEF FuncPlaces
<1>5. TopFuncPlaces' = TopFuncPlaces
  BY <1>2, <1>4 DEF TopFuncPlaces
<1> QED
  BY <1>1, <1>3, <1>4, <1>5

LEMMA SameDescribed ==
  ASSUME program' = program, absVars' = absVars, NEW u, NEW attrs
  PROVE  Described(u, attrs)' = Described(u, attrs) /\ (Undescribed(u, attrs)' <=> Undescribed(u, attrs))
  BY DEF Described, Undescribed, OriginOf, GlobalOffset, TypeKnown

LEMMA SameFunc ==
  ASSUME program' = program, absVars' = absVars, absFuncs' = absFuncs, NEW u, NEW d
  PROVE  Func(u, d)' = Func(u, d) /\ (BadFunc(u, d)' <=> BadFunc(u, d))
<1>1. Func(u, d)' = Func(u, d)
  <2>1. /\ Objects(u, d, IsParameter)' = Objects(u, d, IsParameter)
        /\ Objects(u, d, IsVariable)' = Objects(u, d, IsVariable)
    BY DEF Objects, InScope
  <2>2. \A v, b : Var(u, d, v, b)' = Var(u, d, v, b)
    BY DEF Var, Handed, Described, OriginOf, GlobalOffset
  <2>3. \A attrs : Declared(u, attrs)' = Declared(u, attrs)
    BY DEF Declared, GlobalOffset
  <2> QED
    BY <2>1, <2>2, <2>3 DEF Func
<1>2. BadFunc(u, d)' <=> BadFunc(u, d)
  BY DEF BadFunc, Declared, Blocks, Objects, InScope, BadVar, Undescribed, OriginOf, GlobalOffset, TypeKnown
<1> QED
  BY <1>1, <1>2

LEMMA SameFunctionCell ==
  ASSUME program' = program, absVars' = absVars, redundant' = redundant, NEW u, NEW d
  PROVE  FunctionCell(u, d)' = FunctionCell(u, d)
  BY DEF FunctionCell, Objects, VarCell, Handed, InScope, Described, OriginOf, GlobalOffset

-----------------------------------------------------------------------------
(***************************************************************************)
(* How a collection moves on.                                              *)
(***************************************************************************)
LEMMA PlaceFacts ==
  ASSUME program \in Programs, NEW p \in Places
  PROVE  /\ p \in Nat \X Nat /\ p = <<p[1], p[2]>>
         /\ p[1] \in 1 .. Len(program) /\ p[2] \in 1 .. Len(program[p[1]].dies)
         /\ p[1] \in DOMAIN program /\ p[2] \in DOMAIN program[p[1]].dies
         /\ p[1] \in Nat /\ p[2] \in Nat /\ p[1] >= 1 /\ p[2] >= 1
<1>1. p \in Nat \X Nat /\ p[1] \in DOMAIN program /\ p[2] \in DOMAIN program[p[1]].dies
  BY DEF Places
<1>2. DOMAIN program = 1 .. Len(program) /\ Len(program) \in Nat
      /\ DOMAIN program[p[1]].dies = 1 .. Len(program[p[1]].dies) /\ Len(program[p[1]].dies) \in Nat
  BY <1>1, ProgramFacts
<1> QED
  BY <1>1, <1>2

LEMMA FirstPlace ==
  ASSUME program \in Programs
  PROVE  <<1, 1>> \in Places /\ \A p \in Places : ~ Precedes(p, <<1, 1>>)
<1>1. 1 \in DOMAIN program
  BY ProgramFacts
<1>2. 1 \in DOMAIN program[1].dies
  BY <1>1, ProgramFacts
<1>3. \A p \in Places : p[1] >= 1 /\ p[2] >= 1 /\ p[1] \in Nat /\ p[2] \in Nat
  BY PlaceFacts
<1>4. <<1, 1>> \in Places
  BY <1>1, <1>2 DEF Places
<1> QED
  BY <1>3, <1>4 DEF Precedes

LEMMA AdvanceSees ==
  ASSUME TypeOK, NEW next, Advance(next), program' = program
  PROVE  /\ at' \in Places
         /\ \/ phase' = phase /\ \A p \in Places : Precedes(p, at') <=> Precedes(p, at) \/ p = at
            \/ phase' = next /\ at' = <<1, 1>> /\ \A p \in Places : Precedes(p, at) \/ p = at
<1> DEFINE a == at[1]  b == at[2]
<1>1. program \in Programs /\ at \in Places
  BY DEF TypeOK
<1>2. /\ at = <<a, b>> /\ a \in 1 .. Len(program) /\ b \in 1 .. Len(program[a].dies) /\ a \in Nat /\ b \in Nat
      /\ Len(program) \in Nat /\ Len(program[a].dies) \in Nat
      /\ DOMAIN program = 1 .. Len(program) /\ DOMAIN program[a].dies = 1 .. Len(program[a].dies)
  BY <1>1, PlaceFacts, ProgramFacts
<1>3. \A p \in Places : /\ p = <<p[1], p[2]>> /\ p[1] \in Nat /\ p[2] \in Nat /\ p[1] >= 1 /\ p[2] >= 1
                        /\ p[1] <= Len(program) /\ p[2] <= Len(program[p[1]].dies)
  BY <1>1, <1>2, PlaceFacts
<1> HIDE DEF a, b
<1>4. CASE ~ AtLast
  <2>1. at' = <<a, b + 1>> /\ phase' = phase /\ b # Len(program[a].dies)
    BY <1>4 DEF Advance, AtLast, a, b
  <2>2. <<a, b + 1>> \in Nat \X Nat /\ b + 1 \in 1 .. Len(program[a].dies)
    BY <1>2, <2>1
  <2>3. at' \in Places
    BY <1>2, <2>1, <2>2 DEF Places
  <2>4. ASSUME NEW p \in Places
        PROVE  Precedes(p, at') <=> Precedes(p, at) \/ p = at
    <3>1. p = at <=> p[1] = a /\ p[2] = b
      BY <1>2, <1>3
    <3>2. Precedes(p, at') <=> p[1] < a \/ (p[1] = a /\ p[2] < b + 1)
      BY <2>1 DEF Precedes
    <3>3. Precedes(p, at) <=> p[1] < a \/ (p[1] = a /\ p[2] < b)
      BY <1>2 DEF Precedes
    <3>4. p[2] \in Nat /\ b \in Nat /\ (p[2] < b + 1 <=> p[2] < b \/ p[2] = b)
      BY <1>2, <1>3
    <3> QED
      BY <3>1, <3>2, <3>3, <3>4
  <2> QED
    BY <2>1, <2>3, <2>4
<1>5. CASE AtLast /\ a < Len(program)
  <2>1. at' = <<a + 1, 1>> /\ phase' = phase /\ b = Len(program[a].dies)
    BY <1>5 DEF Advance, AtLast, a, b
  <2>2. <<a + 1, 1>> \in Nat \X Nat /\ a + 1 \in DOMAIN program
    BY <1>2, <1>5
  <2>3. 1 \in DOMAIN program[a + 1].dies
    BY <1>1, <2>2, ProgramFacts
  <2>4. at' \in Places
    BY <2>1, <2>2, <2>3 DEF Places
  <2>5. ASSUME NEW p \in Places
        PROVE  Precedes(p, at') <=> Precedes(p, at) \/ p = at
    <3>1. p = at <=> p[1] = a /\ p[2] = b
      BY <1>2, <1>3
    <3>2. Precedes(p, at') <=> p[1] < a + 1 \/ (p[1] = a + 1 /\ p[2] < 1)
      BY <2>1 DEF Precedes
    <3>3. Precedes(p, at) <=> p[1] < a \/ (p[1] = a /\ p[2] < b)
      BY <1>2 DEF Precedes
    <3>4. ~ (p[2] < 1) /\ (p[1] < a + 1 <=> p[1] < a \/ p[1] = a)
      BY <1>2, <1>3
    <3>5. p[1] = a => p[2] < b \/ p[2] = b
      BY <1>2, <1>3, <2>1
    <3> QED
      BY <3>1, <3>2, <3>3, <3>4, <3>5
  <2> QED
    BY <2>1, <2>4, <2>5
<1>6. CASE AtLast /\ ~ (a < Len(program))
  <2>1. at' = <<1, 1>> /\ phase' = next /\ b = Len(program[a].dies)
    BY <1>6 DEF Advance, AtLast, a, b
  <2>2. at' \in Places
    BY <1>1, <2>1, FirstPlace
  <2>3. ASSUME NEW p \in Places
        PROVE  Precedes(p, at) \/ p = at
    <3>1. p = at <=> p[1] = a /\ p[2] = b
      BY <1>2, <1>3
    <3>2. Precedes(p, at) <=> p[1] < a \/ (p[1] = a /\ p[2] < b)
      BY <1>2 DEF Precedes
    <3>3. p[1] < a \/ p[1] = a
      BY <1>2, <1>3, <1>6
    <3>4. p[1] = a => p[2] < b \/ p[2] = b
      BY <1>2, <1>3, <2>1
    <3> QED
      BY <3>1, <3>2, <3>3, <3>4
  <2> QED
    BY <2>1, <2>2, <2>3
<1> QED
  BY <1>4, <1>5, <1>6

\* The collections in their order.
Follows == {<<"absvars", "absfuncs">>, <<"absfuncs", "globals">>, <<"globals", "funcs">>,
            <<"funcs", "custom">>, <<"link", "done">>}

LEMMA Progress ==
  ASSUME TypeOK, NEW next, <<phase, next>> \in Follows, Advance(next), program' = program, DOMAIN funcs' = DOMAIN funcs
  PROVE  /\ TypeOK' /\ phase' \in {phase, next}
         /\ \A p \in Places : /\ Read(p)' <=> Read(p) \/ (phase = "globals" /\ p = at)
                              /\ Analysed(p)' <=> Analysed(p) \/ (phase = "funcs" /\ p = at)
                              /\ Linked(p)' <=> Linked(p) \/ (phase = "link" /\ p = at)
<1>1. /\ at' \in Places
      /\ \/ phase' = phase /\ \A p \in Places : Precedes(p, at') <=> Precedes(p, at) \/ p = at
         \/ phase' = next /\ at' = <<1, 1>> /\ \A p \in Places : Precedes(p, at) \/ p = at
  BY AdvanceSees
<1>2. \A p \in Places : ~ Precedes(p, <<1, 1>>)
  BY FirstPlace DEF TypeOK
<1>3. TypeOK'
  <2>1. Places' = Places
    BY SamePlaces
  <2>2. next \in {"absfuncs", "globals", "funcs", "custom", "done"} /\ phase # "custom"
    BY DEF Follows
  <2> QED
    BY <1>1, <2>1, <2>2 DEF TypeOK
<1>4. phase' \in {phase, next}
  BY <1>1
<1>5. ASSUME NEW p \in Places
      PROVE  /\ Read(p)' <=> Read(p) \/ (phase = "globals" /\ p = at)
             /\ Analysed(p)' <=> Analysed(p) \/ (phase = "funcs" /\ p = at)
             /\ Linked(p)' <=> Linked(p) \/ (phase = "link" /\ p = at)
  <2>1. CASE phase' = phase /\ (Precedes(p, at') <=> Precedes(p, at) \/ p = at)
    BY <2>1 DEF Follows, Read, Analysed, Linked, Seen
  <2>2. CASE phase' = next /\ ~ Precedes(p, at') /\ (Precedes(p, at) \/ p = at)
    BY <2>2 DEF Follows, Read, Analysed, Linked, Seen
  <2> QED
    BY <1>1, <1>2, <2>1, <2>2
<1> QED
  BY <1>3, <1>4, <1>5

-----------------------------------------------------------------------------
(***************************************************************************)
(* Each part of the invariant through a step.                              *)
(***************************************************************************)
LEMMA KeepGlobals ==
  ASSUME GlobalsListed, program' = program, globals' = globals,
         \A p \in GlobalPlaces : Read(p)' <=> Read(p),
         absVars' = absVars \/ \A p \in GlobalPlaces : ~ Read(p)
  PROVE  GlobalsListed'
<1> DEFINE S == {p \in GlobalPlaces : Read(p)}
<1>1. GlobalPlaces' = GlobalPlaces /\ \A p : DieAt(p)' = DieAt(p)
  BY SamePlaces
<1>2. S' = S
  BY <1>1
<1>3. Lists(globals, S) /\ Lists(globals', S')
  BY <1>2 DEF GlobalsListed
<1>4. \A i \in DOMAIN globals : globals[i].die \in S
  BY <1>3 DEF Lists
<1>5. CASE absVars' = absVars
  <2>1. \A u, attrs : Described(u, attrs)' = Described(u, attrs) /\ (Undescribed(u, attrs)' <=> Undescribed(u, attrs))
    BY <1>5, SameDescribed
  <2> QED
    BY <1>1, <1>3, <2>1 DEF GlobalsListed
<1>6. CASE \A p \in GlobalPlaces : ~ Read(p)
  <2>1. S = {} /\ DOMAIN globals = {}
    BY <1>4, <1>6
  <2> QED
    BY <1>1, <1>2, <1>3, <1>6, <2>1 DEF GlobalsListed
<1> QED
  BY <1>5, <1>6

LEMMA KeepFuncs ==
  ASSUME FuncsListed, program' = program, funcs' = funcs,
         \A p \in FuncPlaces : Analysed(p)' <=> Analysed(p),
         (absVars' = absVars /\ absFuncs' = absFuncs) \/ \A p \in FuncPlaces : ~ Analysed(p)
  PROVE  FuncsListed'
<1>1. FuncPlaces' = FuncPlaces
  BY SamePlaces
<1>2. CASE absVars' = absVars /\ absFuncs' = absFuncs
  <2>1. \A u, d : Func(u, d)' = Func(u, d) /\ (BadFunc(u, d)' <=> BadFunc(u, d))
    BY <1>2, SameFunc
  <2> QED
    BY <1>1, <2>1 DEF FuncsListed
<1>3. CASE \A p \in FuncPlaces : ~ Analysed(p)
  <2>1. \A u \in DOMAIN funcs : \A a \in DOMAIN funcs[u] : FALSE
    BY <1>3 DEF FuncsListed
  <2> QED
    BY <1>1, <1>3, <2>1 DEF FuncsListed
<1> QED
  BY <1>2, <1>3

LEMMA KeepCells ==
  ASSUME CellsListed, program' = program, redundant' = redundant,
         functionCells' = functionCells, globalCells' = globalCells,
         \A p \in Places : Linked(p)' <=> Linked(p),
         absVars' = absVars \/ \A p \in Places : ~ Linked(p)
  PROVE  CellsListed'
<1> DEFINE S == {p \in TopFuncPlaces : Linked(p)}  G == {p \in GlobalPlaces : Linked(p)}
<1>1. /\ GlobalPlaces' = GlobalPlaces /\ TopFuncPlaces' = TopFuncPlaces /\ \A p : DieAt(p)' = DieAt(p)
      /\ GlobalPlaces \subseteq Places /\ TopFuncPlaces \subseteq Places
  BY SamePlaces DEF GlobalPlaces, TopFuncPlaces, FuncPlaces
<1>2. S' = S /\ G' = G
  BY <1>1
<1>3. Lists(functionCells', S') /\ Lists(globalCells', G') /\ Lists(functionCells, S) /\ Lists(globalCells, G)
  BY <1>2 DEF CellsListed
<1>4. CASE absVars' = absVars
  <2>1. \A u, attrs : Described(u, attrs)' = Described(u, attrs)
    BY <1>4, SameDescribed
  <2>2. \A u, d : FunctionCell(u, d)' = FunctionCell(u, d)
    BY <1>4, SameFunctionCell
  <2> QED
    BY <1>1, <1>3, <2>1, <2>2 DEF CellsListed
<1>5. CASE \A p \in Places : ~ Linked(p)
  <2>1. S = {} /\ G = {}
    BY <1>1, <1>5
  <2>2. DOMAIN functionCells = {} /\ DOMAIN globalCells = {}
    BY <1>3, <2>1 DEF Lists
  <2> QED
    BY <1>3, <2>2 DEF CellsListed
<1> QED
  BY <1>4, <1>5

\* The step of a collection that adds nothing of its own.
LEMMA IdleCollection ==
  ASSUME IInv, phase # "panic", NEW next, <<phase, next>> \in Follows, Advance(next), program' = program,
         redundant' = redundant,
         phase \in {"absvars", "absfuncs"} \/ (absVars' = absVars /\ absFuncs' = absFuncs),
         phase = "globals" => at \notin GlobalPlaces,
         phase = "funcs" => at \notin FuncPlaces,
         phase # "link",
         globals' = globals, funcs' = funcs, functionCells' = functionCells, globalCells' = globalCells
  PROVE  IInv'
<1>1. TypeOK /\ GlobalsListed /\ FuncsListed /\ CellsListed
  BY DEF IInv
<1>2. /\ TypeOK' /\ phase' \in {phase, next}
      /\ \A p \in Places : /\ Read(p)' <=> Read(p) \/ (phase = "globals" /\ p = at)
                           /\ Analysed(p)' <=> Analysed(p) \/ (phase = "funcs" /\ p = at)
                           /\ Linked(p)' <=> Linked(p) \/ (phase = "link" /\ p = at)
  BY <1>1, Progress
<1>3. GlobalPlaces \subseteq Places /\ FuncPlaces \subseteq Places
  BY DEF GlobalPlaces, FuncPlaces
<1>4. phase \in {"absvars", "absfuncs"} =>
        \A p \in Places : ~ Read(p) /\ ~ Analysed(p) /\ ~ Linked(p)
  BY DEF Read, Analysed, Linked, Seen
<1>5. GlobalsListed'
  <2>1. \A p \in GlobalPlaces : Read(p)' <=> Read(p)
    BY <1>2, <1>3
  <2>2. absVars' = absVars \/ \A p \in GlobalPlaces : ~ Read(p)
    BY <1>3, <1>4
  <2> QED
    BY <1>1, <2>1, <2>2, KeepGlobals
<1>6. FuncsListed'
  <2>1. \A p \in FuncPlaces : Analysed(p)' <=> Analysed(p)
    BY <1>2, <1>3
  <2>2. (absVars' = absVars /\ absFuncs' = absFuncs) \/ \A p \in FuncPlaces : ~ Analysed(p)
    BY <1>3, <1>4
  <2> QED
    BY <1>1, <2>1, <2>2, KeepFuncs
<1>7. CellsListed'
  <2>1. \A p \in Places : Linked(p)' <=> Linked(p)
    BY <1>2
  <2>2. absVars' = absVars \/ \A p \in Places : ~ Linked(p)
    BY <1>4
  <2> QED
    BY <1>1, <2>1, <2>2, KeepCells
<1>8. CustomFilled'
  <2>1. phase' \notin {"link", "done"}
    BY <1>2 DEF Follows
  <2> QED
    BY <2>1 DEF CustomFilled
<1> QED
  BY <1>2, <1>5, <1>6, <1>7, <1>8 DEF IInv

LEMMA PanicStep ==
  ASSUME IInv, Panic, program' = program, DOMAIN funcs' = DOMAIN funcs
  PROVE  IInv'
<1>1. Places' = Places
  BY SamePlaces
<1>2. TypeOK'
  BY <1>1 DEF IInv, TypeOK, Panic
<1> QED
  BY <1>2 DEF IInv, Panic

LEMMA AbsVarStep == ASSUME IInv, AbsVar PROVE IInv'
<1>1. /\ phase = "absvars" /\ program' = program /\ redundant' = redundant /\ globals' = globals /\ funcs' = funcs
      /\ functionCells' = functionCells /\ globalCells' = globalCells
      /\ Advance("absfuncs") \/ Panic
  BY DEF AbsVar
<1>2. CASE Advance("absfuncs")
  <2>1. <<phase, "absfuncs">> \in Follows
    BY <1>1 DEF Follows
  <2> QED
    BY <1>1, <1>2, <2>1, IdleCollection
<1> QED
  BY <1>1, <1>2, PanicStep

LEMMA AbsFuncStep == ASSUME IInv, AbsFunc PROVE IInv'
<1>1. /\ phase = "absfuncs" /\ program' = program /\ redundant' = redundant /\ globals' = globals /\ funcs' = funcs
      /\ functionCells' = functionCells /\ globalCells' = globalCells
      /\ Advance("globals") \/ Panic
  BY DEF AbsFunc
<1>2. CASE Advance("globals")
  <2>1. <<phase, "globals">> \in Follows
    BY <1>1 DEF Follows
  <2> QED
    BY <1>1, <1>2, <2>1, IdleCollection
<1> QED
  BY <1>1, <1>2, PanicStep

LEMMA GlobalVarStep == ASSUME IInv, GlobalVar PROVE IInv'
<1>1. /\ phase = "globals" /\ program' = program /\ redundant' = redundant /\ funcs' = funcs
      /\ absVars' = absVars /\ absFuncs' = absFuncs
      /\ functionCells' = functionCells /\ globalCells' = globalCells
  BY DEF GlobalVar
<1>2. TypeOK /\ GlobalsListed /\ FuncsListed /\ CellsListed /\ at \in Places /\ Die = DieAt(at)
  BY <1>1 DEF IInv, TypeOK, Die, DieAt
<1>3. <<phase, "funcs">> \in Follows
  BY <1>1 DEF Follows
<1>4. CASE ~ (FirstLevel(at[1], at[2]) /\ IsVariable(Die))
  <2>1. globals' = globals /\ Advance("funcs") /\ at \notin GlobalPlaces
    BY <1>2, <1>4 DEF GlobalVar, GlobalPlaces
  <2> QED
    BY <1>1, <1>3, <2>1, IdleCollection
<1>5. CASE Panic
  BY <1>1, <1>5, PanicStep
<1>6. CASE /\ FirstLevel(at[1], at[2]) /\ IsVariable(Die)
           /\ ~ Undescribed(at[1], UpToLocation(Die.attrs)) /\ Advance("funcs")
           /\ \E x : /\ globals' = Append(globals, x) /\ x.die = at
                     /\ x.type = Described(at[1], UpToLocation(Die.attrs)).type
  <2>1. PICK x : /\ globals' = Append(globals, x) /\ x.die = at
                 /\ x.type = Described(at[1], UpToLocation(Die.attrs)).type
    BY <1>6
  <2>2. /\ TypeOK' /\ phase' \in {phase, "funcs"}
        /\ \A p \in Places : /\ Read(p)' <=> Read(p) \/ p = at
                             /\ Analysed(p)' <=> Analysed(p)
                             /\ Linked(p)' <=> Linked(p)
    BY <1>1, <1>2, <1>3, <1>6, Progress
  <2>3. at \in GlobalPlaces /\ GlobalPlaces \subseteq Places /\ FuncPlaces \subseteq Places
    BY <1>2, <1>6 DEF GlobalPlaces, FuncPlaces
  <2>4. FuncsListed'
    BY <1>1, <1>2, <2>2, <2>3, KeepFuncs
  <2>5. CellsListed'
    BY <1>1, <1>2, <2>2, KeepCells
  <2>6. CustomFilled'
    BY <1>1, <2>2 DEF CustomFilled
  <2>7. GlobalsListed'
    <3> DEFINE S == {p \in GlobalPlaces : Read(p)}
    <3>1. GlobalPlaces' = GlobalPlaces /\ \A p : DieAt(p)' = DieAt(p)
      BY <1>1, SamePlaces
    <3>2. S' = S \union {at}
      BY <2>2, <2>3, <3>1
    <3>3. \A p \in S : Precedes(p, at)
      BY <1>1 DEF Read, Seen
    <3>4. Lists(globals, S)
      BY <1>2 DEF GlobalsListed
    <3>5. Lists(globals', S')
      <4> HIDE DEF S
      <4> QED
        BY <2>1, <3>2, <3>3, <3>4, AppendList
    <3>6. \A u, attrs : Described(u, attrs)' = Described(u, attrs) /\ (Undescribed(u, attrs)' <=> Undescribed(u, attrs))
      BY <1>1, SameDescribed
    <3>7. ASSUME NEW i \in DOMAIN globals'
          PROVE  globals'[i].type = Described(globals'[i].die[1], UpToLocation(DieAt(globals'[i].die).attrs)).type
      <4>1. IsSeq(globals)
        BY <3>4 DEF Lists
      <4>2. /\ Len(globals) \in Nat /\ DOMAIN globals = 1 .. Len(globals)
            /\ DOMAIN globals' = 1 .. Len(globals) + 1 /\ globals'[Len(globals) + 1] = x
            /\ \A j \in 1 .. Len(globals) : globals'[j] = globals[j]
        BY <2>1, <4>1, Appended
      <4>3. i \in 1 .. Len(globals) \/ i = Len(globals) + 1
        BY <4>2
      <4>4. CASE i \in 1 .. Len(globals)
        BY <1>2, <4>2, <4>4 DEF GlobalsListed
      <4>5. CASE i = Len(globals) + 1
        BY <1>2, <2>1, <4>2, <4>5
      <4> QED
        BY <4>3, <4>4, <4>5
    <3>8. \A p \in GlobalPlaces : Read(p)' => ~ Undescribed(p[1], UpToLocation(DieAt(p).attrs))
      BY <1>2, <1>6, <2>2, <2>3 DEF GlobalsListed
    <3> QED
      BY <3>1, <3>5, <3>6, <3>7, <3>8 DEF GlobalsListed
  <2> QED
    BY <2>2, <2>4, <2>5, <2>6, <2>7 DEF IInv
<1>7. ASSUME FirstLevel(at[1], at[2]), IsVariable(Die), ~ Panic
      PROVE  /\ ~ Undescribed(at[1], UpToLocation(Die.attrs)) /\ Advance("funcs")
             /\ \E x : /\ globals' = Append(globals, x) /\ x.die = at
                       /\ x.type = Described(at[1], UpToLocation(Die.attrs)).type
  <2> DEFINE x == [die |-> at, name |-> Described(at[1], UpToLocation(Die.attrs)).name,
                   type |-> Described(at[1], UpToLocation(Die.attrs)).type,
                   addr |-> Address(Value(UpToLocation(Die.attrs), {"location"}, 0))]
  <2>1. ~ Undescribed(at[1], UpToLocation(Die.attrs)) /\ Advance("funcs") /\ globals' = Append(globals, x)
    BY <1>7 DEF GlobalVar
  <2>2. x.die = at /\ x.type = Described(at[1], UpToLocation(Die.attrs)).type
    OBVIOUS
  <2> HIDE DEF x
  <2> QED
    BY <2>1, <2>2
<1> QED
  BY <1>4, <1>5, <1>6, <1>7

LEMMA FuncDescStep == ASSUME IInv, FuncDesc PROVE IInv'
<1>1. /\ phase = "funcs" /\ program' = program /\ redundant' = redundant /\ globals' = globals
      /\ absVars' = absVars /\ absFuncs' = absFuncs
      /\ functionCells' = functionCells /\ globalCells' = globalCells
  BY DEF FuncDesc
<1>2. TypeOK /\ GlobalsListed /\ FuncsListed /\ CellsListed /\ at \in Places /\ Die = DieAt(at)
  BY <1>1 DEF IInv, TypeOK, Die, DieAt
<1>3. <<phase, "custom">> \in Follows
  BY <1>1 DEF Follows
<1>4. CASE ~ IsFunc(Die)
  <2>1. funcs' = funcs /\ Advance("custom") /\ at \notin FuncPlaces
    BY <1>2, <1>4 DEF FuncDesc, FuncPlaces
  <2> QED
    BY <1>1, <1>3, <2>1, IdleCollection
<1>5. CASE IsFunc(Die) /\ BadFunc(at[1], at[2])
  <2>1. Panic /\ funcs' = funcs
    BY <1>5 DEF FuncDesc
  <2> QED
    BY <1>1, <2>1, PanicStep
<1>6. CASE IsFunc(Die) /\ ~ BadFunc(at[1], at[2])
  <2> DEFINE u == at[1]  d == at[2]
  <2>1. PICK f : f = Func(u, d)
    OBVIOUS
  <2>2. /\ funcs' = IF f.low = 0 THEN funcs ELSE [funcs EXCEPT ![u] = Inserted(@, f.low, f)]
        /\ Advance("custom")
    BY <1>6, <2>1 DEF FuncDesc
  <2>3. at = <<u, d>> /\ u \in DOMAIN program /\ DOMAIN funcs = DOMAIN program
    BY <1>2, PlaceFacts DEF TypeOK
  <2>4. at \in FuncPlaces /\ GlobalPlaces \subseteq Places /\ FuncPlaces \subseteq Places
    BY <1>2, <1>6 DEF GlobalPlaces, FuncPlaces
  <2> HIDE DEF u, d
  <2>5. DOMAIN funcs' = DOMAIN funcs
    BY <2>2
  <2>6. /\ TypeOK' /\ phase' \in {phase, "custom"}
        /\ \A p \in Places : /\ Read(p)' <=> Read(p)
                             /\ Analysed(p)' <=> Analysed(p) \/ p = at
                             /\ Linked(p)' <=> Linked(p)
    BY <1>1, <1>2, <1>3, <2>2, <2>5, Progress
  <2>7. GlobalsListed'
    BY <1>1, <1>2, <2>4, <2>6, KeepGlobals
  <2>8. CellsListed'
    BY <1>1, <1>2, <2>6, KeepCells
  <2>9. CustomFilled'
    BY <1>1, <2>6 DEF CustomFilled
  <2>10. FuncsListed'
    <3>1. FuncPlaces' = FuncPlaces
      BY <1>1, SamePlaces
    <3>2. \A w, e : Func(w, e)' = Func(w, e) /\ (BadFunc(w, e)' <=> BadFunc(w, e))
      BY <1>1, SameFunc
    <3>3. \A w \in DOMAIN funcs : w # u => funcs'[w] = funcs[w]
      BY <2>2
    <3>4. \/ f.low = 0 /\ funcs'[u] = funcs[u]
          \/ f.low # 0 /\ funcs'[u] = Inserted(funcs[u], f.low, f)
      BY <2>2, <2>3
    <3>5. \A a \in DOMAIN funcs[u] : a \in DOMAIN funcs'[u] /\ funcs'[u][a] = funcs[u][a]
      BY <3>4 DEF Inserted
    <3>6. \A a \in DOMAIN funcs'[u] : a \in DOMAIN funcs[u] \/ (a = f.low /\ funcs'[u][a] = f)
      BY <3>4 DEF Inserted
    <3>7. f.low = 0 \/ f.low \in DOMAIN funcs'[u]
      BY <3>4 DEF Inserted
    <3>8. ASSUME NEW w \in DOMAIN funcs, NEW a \in DOMAIN funcs'[w]
          PROVE  \E p \in FuncPlaces : /\ Analysed(p)' /\ p[1] = w /\ funcs'[w][a] = Func(p[1], p[2])
                                       /\ a = Func(p[1], p[2]).low
      <4>1. CASE a \in DOMAIN funcs[w] /\ funcs'[w][a] = funcs[w][a]
        <5>1. PICK p \in FuncPlaces : /\ Analysed(p) /\ p[1] = w /\ funcs[w][a] = Func(p[1], p[2])
                                      /\ a = Func(p[1], p[2]).low
          BY <1>2, <4>1 DEF FuncsListed
        <5>2. Analysed(p)'
          BY <2>4, <2>6, <5>1
        <5> QED
          BY <4>1, <5>1, <5>2
      <4>2. CASE w = u /\ a = f.low /\ funcs'[u][a] = f
        <5>1. PICK p \in FuncPlaces : p = at
          BY <2>4
        <5>2. p \in Places /\ p[1] = u /\ p[2] = d
          BY <2>4, <5>1 DEF u, d
        <5>3. Analysed(p)'
          BY <2>6, <5>1, <5>2
        <5> QED
          BY <2>1, <4>2, <5>1, <5>2, <5>3
      <4> QED
        BY <3>3, <3>5, <3>6, <4>1, <4>2
    <3>9. ASSUME NEW p \in FuncPlaces, Analysed(p)'
          PROVE  /\ ~ BadFunc(p[1], p[2])
                 /\ Func(p[1], p[2]).low = 0 \/ Func(p[1], p[2]).low \in DOMAIN funcs'[p[1]]
      <4>1. CASE Analysed(p)
        <5>1. /\ ~ BadFunc(p[1], p[2])
              /\ Func(p[1], p[2]).low = 0 \/ Func(p[1], p[2]).low \in DOMAIN funcs[p[1]]
          BY <1>2, <4>1 DEF FuncsListed
        <5>2. p[1] \in DOMAIN funcs
          <6>1. p \in Places /\ program \in Programs
            BY <1>2, <2>4 DEF TypeOK
          <6> QED
            BY <2>3, <6>1, PlaceFacts
        <5>3. CASE p[1] = u
          BY <3>5, <5>1, <5>3
        <5>4. CASE p[1] # u
          BY <3>3, <5>1, <5>2, <5>4
        <5> QED
          BY <5>3, <5>4
      <4>2. CASE p = at
        <5>1. p[1] = u /\ p[2] = d
          BY <2>3, <4>2
        <5> QED
          BY <1>6, <2>1, <3>7, <5>1 DEF u, d
      <4> QED
        BY <2>4, <2>6, <3>9, <4>1, <4>2
    <3> QED
      BY <2>5, <3>1, <3>2, <3>8, <3>9 DEF FuncsListed
  <2> QED
    BY <2>6, <2>7, <2>8, <2>9, <2>10 DEF IInv
<1> QED
  BY <1>4, <1>5, <1>6

LEMMA CustomFuncsStep == ASSUME IInv, CustomFuncs PROVE IInv'
<1>1. /\ phase = "custom" /\ phase' = "link" /\ program' = program /\ redundant' = redundant /\ at' = at
      /\ absVars' = absVars /\ absFuncs' = absFuncs /\ globals' = globals /\ funcs' = funcs
      /\ functionCells' = functionCells /\ globalCells' = globalCells
  BY DEF CustomFuncs
<1>2. TypeOK /\ GlobalsListed /\ FuncsListed /\ CellsListed /\ at = <<1, 1>>
  BY <1>1 DEF IInv, TypeOK
<1>3. /\ Places' = Places
      /\ GlobalPlaces \subseteq Places /\ FuncPlaces \subseteq Places
  BY <1>1, SamePlaces DEF GlobalPlaces, FuncPlaces
<1>4. TypeOK'
  BY <1>1, <1>2, <1>3 DEF TypeOK
<1>5. ASSUME NEW p \in Places
      PROVE  (Read(p)' <=> Read(p)) /\ (Analysed(p)' <=> Analysed(p)) /\ (Linked(p)' <=> Linked(p))
  <2>1. ~ Precedes(p, at')
    BY <1>1, <1>2, FirstPlace DEF TypeOK
  <2> QED
    BY <1>1, <2>1 DEF Read, Analysed, Linked, Seen
<1>6. GlobalsListed'
  BY <1>1, <1>2, <1>3, <1>5, KeepGlobals
<1>7. FuncsListed'
  BY <1>1, <1>2, <1>3, <1>5, KeepFuncs
<1>8. CellsListed'
  BY <1>1, <1>2, <1>5, KeepCells
<1>9. CustomFilled'
  BY <1>1 DEF CustomFuncs, CustomFilled, FirstOfUnits
<1> QED
  BY <1>4, <1>6, <1>7, <1>8, <1>9 DEF IInv

LEMMA AppendEach ==
  ASSUME NEW s, IsSeq(s), NEW x, NEW i \in DOMAIN Append(s, x)
  PROVE  (i \in DOMAIN s /\ Append(s, x)[i] = s[i]) \/ Append(s, x)[i] = x
<1>1. /\ Len(s) \in Nat /\ DOMAIN s = 1 .. Len(s) /\ DOMAIN Append(s, x) = 1 .. Len(s) + 1
      /\ Append(s, x)[Len(s) + 1] = x /\ \A j \in 1 .. Len(s) : Append(s, x)[j] = s[j]
  BY Appended
<1>2. i \in 1 .. Len(s) \/ i = Len(s) + 1
  BY <1>1
<1> QED
  BY <1>1, <1>2

LEMMA CollectStep == ASSUME IInv, Collect PROVE IInv'
<1> DEFINE u == at[1]  d == at[2]
           g == [die |-> at, type |-> Described(u, Die.attrs).type,
                 location |-> Value(Die.attrs, {"location"}, 0)]
           S == {p \in TopFuncPlaces : Linked(p)}  G == {p \in GlobalPlaces : Linked(p)}
<1>1. /\ phase = "link" /\ program' = program /\ redundant' = redundant /\ globals' = globals
      /\ absVars' = absVars /\ absFuncs' = absFuncs /\ funcs' = funcs /\ custom' = custom
  BY DEF Collect
<1>2. /\ TypeOK /\ GlobalsListed /\ FuncsListed /\ CellsListed /\ CustomFilled
      /\ at \in Places /\ at = <<u, d>> /\ Die = DieAt(at)
  BY <1>1, PlaceFacts DEF IInv, TypeOK, Die, DieAt
<1>3. /\ <<phase, "done">> \in Follows
      /\ GlobalPlaces \subseteq Places /\ FuncPlaces \subseteq Places /\ TopFuncPlaces \subseteq Places
  BY <1>1 DEF Follows, GlobalPlaces, FuncPlaces, TopFuncPlaces
<1>4. CASE Panic
  BY <1>1, <1>4, PanicStep
<1>5. IsSeq(functionCells) /\ Lists(functionCells, S) /\ IsSeq(globalCells) /\ Lists(globalCells, G)
  BY <1>2 DEF CellsListed, Lists
<1>6. /\ at \in TopFuncPlaces <=> Collected(u, d) /\ IsFunc(Die)
      /\ at \in GlobalPlaces <=> Collected(u, d) /\ IsVariable(Die)
  BY <1>2 DEF TopFuncPlaces, FuncPlaces, GlobalPlaces, Collected, FirstLevel
<1>7. ASSUME ~ Panic
      PROVE  /\ Advance("done")
             /\ functionCells' = IF at \in TopFuncPlaces THEN Append(functionCells, FunctionCell(u, d))
                                 ELSE functionCells
             /\ globalCells' = IF at \in GlobalPlaces THEN Append(globalCells, g) ELSE globalCells
  <2>1. CASE ~ Collected(u, d)
    BY <1>6, <2>1 DEF Collect
  <2>2. CASE Collected(u, d)
    <3>1. /\ Advance("done")
          /\ functionCells' = functionCells \o (IF IsFunc(Die) THEN <<FunctionCell(u, d)>> ELSE <<>>)
          /\ globalCells' = IF IsVariable(Die) THEN Append(globalCells, g) ELSE globalCells
      BY <1>7, <2>2 DEF Collect
    <3> HIDE DEF g, u, d
    <3>2. CASE IsFunc(Die)
      BY <1>5, <1>6, <2>2, <3>1, <3>2, Appended
    <3>3. CASE ~ IsFunc(Die)
      BY <1>5, <1>6, <2>2, <3>1, <3>3, NothingAppended
    <3> QED
      BY <3>2, <3>3
  <2> QED
    BY <2>1, <2>2
<1>8. CASE ~ Panic
  <2>1. /\ Advance("done")
        /\ functionCells' = IF at \in TopFuncPlaces THEN Append(functionCells, FunctionCell(u, d))
                            ELSE functionCells
        /\ globalCells' = IF at \in GlobalPlaces THEN Append(globalCells, g) ELSE globalCells
    BY <1>7, <1>8
  <2>2. /\ TypeOK' /\ phase' \in {phase, "done"}
        /\ \A p \in Places : /\ Read(p)' <=> Read(p)
                             /\ Analysed(p)' <=> Analysed(p)
                             /\ Linked(p)' <=> Linked(p) \/ p = at
    BY <1>1, <1>2, <1>3, <2>1, Progress
  <2>3. GlobalsListed'
    BY <1>1, <1>2, <1>3, <2>2, KeepGlobals
  <2>4. FuncsListed'
    BY <1>1, <1>2, <1>3, <2>2, KeepFuncs
  <2>5. CustomFilled'
    BY <1>1, <1>2 DEF CustomFilled, FirstOfUnits
  <2>6. /\ GlobalPlaces' = GlobalPlaces /\ TopFuncPlaces' = TopFuncPlaces
        /\ \A p : DieAt(p)' = DieAt(p)
    BY <1>1, SamePlaces
  <2>7. \A p \in S \union G : Precedes(p, at)
    BY <1>1 DEF Linked, Seen
  <2>8. /\ \A w, e : FunctionCell(w, e)' = FunctionCell(w, e)
        /\ \A w, attrs : Described(w, attrs)' = Described(w, attrs)
    BY <1>1, SameFunctionCell, SameDescribed
  <2>9. /\ Lists(functionCells', {p \in TopFuncPlaces : Linked(p)}')
        /\ \A i \in DOMAIN functionCells' :
             functionCells'[i] = FunctionCell(functionCells'[i].die[1], functionCells'[i].die[2])
    <3>1. CASE at \in TopFuncPlaces
      <4>1. S' = S \union {at}
        BY <1>3, <2>2, <2>6, <3>1
      <4>2. FunctionCell(u, d).die = at
        BY <1>2, FunctionCellIs
      <4>3. Lists(functionCells', S')
        <5> HIDE DEF S, u, d
        <5> QED
          BY <1>5, <2>1, <2>7, <3>1, <4>1, <4>2, AppendList
      <4>4. ASSUME NEW i \in DOMAIN functionCells'
            PROVE  functionCells'[i] = FunctionCell(functionCells'[i].die[1], functionCells'[i].die[2])
        <5>1. \/ i \in DOMAIN functionCells /\ functionCells'[i] = functionCells[i]
              \/ functionCells'[i] = FunctionCell(u, d)
          <6> HIDE DEF u, d
          <6> QED
            BY <1>5, <2>1, <3>1, AppendEach
        <5> QED
          BY <1>2, <4>2, <5>1 DEF CellsListed
      <4> QED
        BY <4>3, <4>4
    <3>2. CASE at \notin TopFuncPlaces
      <4>1. S' = S
        BY <1>3, <2>2, <2>6, <3>2
      <4> QED
        BY <1>2, <1>5, <2>1, <3>2, <4>1 DEF CellsListed
    <3> QED
      BY <3>1, <3>2
  <2>10. /\ Lists(globalCells', {p \in GlobalPlaces : Linked(p)}')
         /\ \A i \in DOMAIN globalCells' :
              globalCells'[i].type = Described(globalCells'[i].die[1], DieAt(globalCells'[i].die).attrs).type
    <3>1. CASE at \in GlobalPlaces
      <4>1. G' = G \union {at}
        BY <1>3, <2>2, <2>6, <3>1
      <4>2. g.die = at /\ g.type = Described(at[1], DieAt(at).attrs).type
        BY <1>2
      <4>3. Lists(globalCells', G')
        <5> HIDE DEF G, g
        <5> QED
          BY <1>5, <2>1, <2>7, <3>1, <4>1, <4>2, AppendList
      <4>4. ASSUME NEW i \in DOMAIN globalCells'
            PROVE  globalCells'[i].type = Described(globalCells'[i].die[1], DieAt(globalCells'[i].die).attrs).type
        <5> HIDE DEF g
        <5>1. (i \in DOMAIN globalCells /\ globalCells'[i] = globalCells[i]) \/ globalCells'[i] = g
          BY <1>5, <2>1, <3>1, AppendEach
        <5> QED
          BY <1>2, <4>2, <5>1 DEF CellsListed
      <4> QED
        BY <4>3, <4>4
    <3>2. CASE at \notin GlobalPlaces
      <4>1. G' = G
        BY <1>3, <2>2, <2>6, <3>2
      <4> QED
        BY <1>2, <1>5, <2>1, <3>2, <4>1 DEF CellsListed
    <3> QED
      BY <3>1, <3>2
  <2>11. CellsListed'
    BY <2>6, <2>8, <2>9, <2>10 DEF CellsListed
  <2> QED
    BY <2>2, <2>3, <2>4, <2>5, <2>11 DEF IInv
<1> QED
  BY <1>4, <1>8

LEMMA Stutters == ASSUME IInv, UNCHANGED vars PROVE IInv'
<1>1. /\ phase' = phase /\ program' = program /\ redundant' = redundant /\ at' = at /\ custom' = custom
      /\ absVars' = absVars /\ absFuncs' = absFuncs /\ globals' = globals /\ funcs' = funcs
      /\ functionCells' = functionCells /\ globalCells' = globalCells
  BY DEF vars
<1>2. Places' = Places
  BY <1>1, SamePlaces
<1>3. TypeOK'
  BY <1>1, <1>2 DEF IInv, TypeOK
<1>4. \A p : (Read(p)' <=> Read(p)) /\ (Analysed(p)' <=> Analysed(p)) /\ (Linked(p)' <=> Linked(p))
  BY <1>1 DEF Read, Analysed, Linked, Seen, Precedes
<1>5. ASSUME phase # "panic"
      PROVE  GlobalsListed' /\ FuncsListed' /\ CustomFilled' /\ CellsListed'
  <2>1. GlobalsListed /\ FuncsListed /\ CustomFilled /\ CellsListed
    BY <1>5 DEF IInv
  <2>2. GlobalsListed'
    BY <1>1, <1>4, <2>1, KeepGlobals
  <2>3. FuncsListed'
    BY <1>1, <1>4, <2>1, KeepFuncs
  <2>4. CellsListed'
    BY <1>1, <1>4, <2>1, KeepCells
  <2>5. CustomFilled'
    BY <1>1, <2>1 DEF CustomFilled, FirstOfUnits
  <2> QED
    BY <2>2, <2>3, <2>4, <2>5
<1> QED
  BY <1>1, <1>3, <1>5 DEF IInv

LEMMA Begins == ASSUME Init PROVE IInv
<1>1. /\ program \in Programs /\ phase = "absvars" /\ at = <<1, 1>> /\ globals = <<>>
      /\ funcs = [u \in DOMAIN program |-> <<>>] /\ functionCells = <<>> /\ globalCells = <<>>
  BY DEF Init
<1>2. TypeOK
  BY <1>1, FirstPlace DEF TypeOK
<1>3. \A p : ~ Read(p) /\ ~ Analysed(p) /\ ~ Linked(p)
  BY <1>1 DEF Read, Analysed, Linked, Seen
<1>4. DOMAIN <<>> = {}
  OBVIOUS
<1>5. GlobalsListed
  <2>1. {p \in GlobalPlaces : Read(p)} = {}
    BY <1>3
  <2> QED
    BY <1>1, <1>3, <1>4, <2>1, EmptyList DEF GlobalsListed
<1>6. FuncsListed
  BY <1>1, <1>3, <1>4 DEF FuncsListed
<1>7. CellsListed
  <2>1. {p \in TopFuncPlaces : Linked(p)} = {} /\ {p \in GlobalPlaces : Linked(p)} = {}
    BY <1>3
  <2> QED
    BY <1>1, <1>4, <2>1, EmptyList DEF CellsListed
<1>8. CustomFilled
  BY <1>1 DEF CustomFilled
<1> QED
  BY <1>2, <1>5, <1>6, <1>7, <1>8 DEF IInv

\* Each collection lists every DIE of its kind that it has passed, once and in
\* the order of the DIEs, and what it says of it is what the DIE says.
THEOREM Invariant == Spec => []IInv
<1>1. Init => IInv
  BY Begins
<1>2. IInv /\ [Next]_vars => IInv'
  BY AbsVarStep, AbsFuncStep, GlobalVarStep, FuncDescStep, CustomFuncsStep, CollectStep, Stutters
     DEF Next, Ended
<1> QED
  BY <1>1, <1>2, PTL DEF Spec

-----------------------------------------------------------------------------
(***************************************************************************)
(* What the inference and the linker agree about.                          *)
(***************************************************************************)
LEMMA PlaceAttributes ==
  ASSUME program \in Programs, NEW p \in Places
  PROVE  WellFormedAttributes(DieAt(p).attrs)
<1>1. p[1] \in DOMAIN program /\ p[2] \in DOMAIN program[p[1]].dies
  BY PlaceFacts
<1> QED
  BY <1>1, ProgramFacts DEF WellFormed, DieAt

LEMMA GlobalsAgree == ASSUME IInv PROVE SameGlobals
<1> SUFFICES ASSUME phase = "done"
             PROVE  /\ Len(globals) = Len(globalCells)
                    /\ \A i \in DOMAIN globals :
                         /\ globals[i].die = globalCells[i].die
                         /\ TypeBeforeLocation(program[globals[i].die[1]].dies[globals[i].die[2]].attrs) =>
                              globals[i].type = globalCells[i].type
  BY DEF SameGlobals, Done
<1>1. TypeOK /\ GlobalsListed /\ CellsListed
  BY DEF IInv
<1>2. \A p : Read(p) /\ Linked(p)
  BY DEF Read, Linked, Seen
<1>3. Lists(globals, GlobalPlaces) /\ Lists(globalCells, GlobalPlaces)
  <2>1. {p \in GlobalPlaces : Read(p)} = GlobalPlaces /\ {p \in GlobalPlaces : Linked(p)} = GlobalPlaces
    BY <1>2
  <2> QED
    BY <1>1, <2>1 DEF GlobalsListed, CellsListed
<1>4. GlobalPlaces \subseteq Places /\ GlobalPlaces \subseteq Nat \X Nat
  BY DEF GlobalPlaces, Places
<1>5. Len(globals) = Len(globalCells) /\ \A i \in DOMAIN globals : globals[i].die = globalCells[i].die
  BY <1>3, <1>4, SameLists
<1>6. DOMAIN globals = DOMAIN globalCells
  BY <1>3, <1>5, SeqFacts DEF Lists
<1>7. ASSUME NEW i \in DOMAIN globals, TypeBeforeLocation(DieAt(globals[i].die).attrs)
      PROVE  globals[i].type = globalCells[i].type
  <2>1. PICK p \in GlobalPlaces : p = globals[i].die /\ p = globalCells[i].die
    BY <1>3, <1>5 DEF Lists
  <2>2. WellFormedAttributes(DieAt(p).attrs)
    BY <1>1, <1>4, <2>1, PlaceAttributes DEF TypeOK
  <2>3. Indices(DieAt(p).attrs, {"location"}) # {}
    BY <2>1 DEF GlobalPlaces, IsVariable, IsObject, Has
  <2>4. Described(p[1], UpToLocation(DieAt(p).attrs)).type = Described(p[1], DieAt(p).attrs).type
    BY <1>7, <2>1, <2>2, <2>3, DescribedSame
  <2>5. globals[i].type = Described(p[1], UpToLocation(DieAt(p).attrs)).type
    BY <1>1, <2>1 DEF GlobalsListed
  <2>6. globalCells[i].type = Described(p[1], DieAt(p).attrs).type
    BY <1>1, <1>6, <2>1 DEF CellsListed
  <2> QED
    BY <2>4, <2>5, <2>6
<1> QED
  BY <1>5, <1>7 DEF DieAt

\* What the inference keeps of a function is the function of a DIE.
LEMMA AnalysedFunc ==
  ASSUME IInv, phase # "panic", NEW u \in DOMAIN funcs, NEW a \in DOMAIN funcs[u]
  PROVE  \E d \in Nat : /\ <<u, d>> \in FuncPlaces /\ u \in DOMAIN program /\ d \in DOMAIN program[u].dies
                        /\ funcs[u][a] = Func(u, d) /\ a = Func(u, d).low
<1>1. TypeOK /\ FuncsListed
  BY DEF IInv
<1>2. PICK p \in FuncPlaces : p[1] = u /\ funcs[u][a] = Func(p[1], p[2]) /\ a = Func(p[1], p[2]).low
  BY <1>1 DEF FuncsListed
<1>3. p \in Places
  BY DEF FuncPlaces
<1>4. p = <<p[1], p[2]>> /\ p[2] \in Nat /\ p[1] \in DOMAIN program /\ p[2] \in DOMAIN program[p[1]].dies
  BY <1>1, <1>3, PlaceFacts DEF TypeOK
<1> QED
  BY <1>2, <1>4

LEMMA FunctionAgrees ==
  ASSUME program \in Programs, NEW p \in Places
  PROVE  LET c == FunctionCell(p[1], p[2])
             f == Func(p[1], p[2])
         IN /\ f.low = c.address /\ f.high = c.address + c.size
            /\ SameVars(c.args, f.parameters) /\ SameVars(c.varCells, f.variables)
            /\ f.type = c.type \/ Has(DieAt(p), {"specification"})
<1> DEFINE u == p[1]  d == p[2]  c == FunctionCell(u, d)  f == Func(u, d)
<1>1. u \in DOMAIN program /\ d \in DOMAIN program[u].dies
  BY PlaceFacts
<1>2. /\ f.low = RangeOf(u, d).low /\ f.high = RangeOf(u, d).low + RangeOf(u, d).length
      /\ f.type = Declared(u, program[u].dies[d].attrs).type
      /\ f.parameters = VarsOf(u, d, Objects(u, d, IsParameter))
      /\ f.variables = VarsOf(u, d, Objects(u, d, IsVariable))
  BY FuncIs
<1>3. /\ c.address = RangeOf(u, d).low /\ c.size = RangeOf(u, d).length
      /\ c.type = Value(program[u].dies[d].attrs, {"type"}, NoType)
      /\ c.args = CellsOf(u, d, Kept(u, Objects(u, d, IsParameter)))
      /\ c.varCells = CellsOf(u, d, Kept(u, Objects(u, d, IsVariable)))
  BY FunctionCellIs
<1> HIDE DEF c, f
<1>4. SameVars(c.args, f.parameters) /\ SameVars(c.varCells, f.variables)
  <2>1. InScopeOf(u, d, Objects(u, d, IsParameter)) /\ InScopeOf(u, d, Objects(u, d, IsVariable))
    BY ObjectsInScope
  <2>2. \A S : InScopeOf(u, d, S) => SameVars(CellsOf(u, d, Kept(u, S)), VarsOf(u, d, S))
    BY <1>1, SameVarsHold
  <2> QED
    BY <1>2, <1>3, <2>1, <2>2
<1>5. f.type = c.type \/ Has(DieAt(p), {"specification"})
  BY <1>2, <1>3 DEF Declared, Has, DieAt
<1> QED
  BY <1>2, <1>3, <1>4, <1>5 DEF c, f

LEMMA FunctionsSame == ASSUME IInv PROVE SameFunctions
<1> SUFFICES ASSUME phase = "done"
             PROVE  SameFunctions
  BY DEF SameFunctions, Done
<1>1. TypeOK /\ FuncsListed /\ CellsListed
  BY DEF IInv
<1>2. \A p : Analysed(p) /\ Linked(p)
  BY DEF Analysed, Linked, Seen
<1>3. Lists(functionCells, TopFuncPlaces)
  <2>1. {p \in TopFuncPlaces : Linked(p)} = TopFuncPlaces
    BY <1>2
  <2> QED
    BY <1>1, <2>1 DEF CellsListed
<1>4. TopFuncPlaces \subseteq FuncPlaces /\ FuncPlaces \subseteq Places /\ TopFuncPlaces \subseteq Nat \X Nat
  BY DEF TopFuncPlaces, FuncPlaces, Places
<1>5. ASSUME NEW i \in DOMAIN functionCells
      PROVE  LET c == functionCells[i]
             IN /\ AnalysedAt(c.die) = {} => c.address = 0 \/ c.address \in DOMAIN funcs[c.die[1]]
                /\ \A f \in AnalysedAt(c.die) :
                     /\ f.low = c.address /\ f.high = c.address + c.size
                     /\ SameVars(c.args, f.parameters) /\ SameVars(c.varCells, f.variables)
                     /\ \/ f.type = c.type
                        \/ Has(program[c.die[1]].dies[c.die[2]], {"specification"})
  <2>1. PICK p \in TopFuncPlaces : p = functionCells[i].die
    BY <1>3 DEF Lists
  <2>2. functionCells[i] = FunctionCell(p[1], p[2])
    BY <1>1, <2>1 DEF CellsListed
  <2>3. p \in FuncPlaces /\ p \in Places /\ program \in Programs
    BY <1>1, <1>4 DEF TypeOK
  <2>4. p = <<p[1], p[2]>> /\ p[1] \in DOMAIN funcs
    BY <1>1, <2>3, PlaceFacts DEF TypeOK
  <2> DEFINE c == functionCells[i]  g == Func(p[1], p[2])
  <2>5. /\ g.low = c.address /\ g.high = c.address + c.size
        /\ SameVars(c.args, g.parameters) /\ SameVars(c.varCells, g.variables)
        /\ g.type = c.type \/ Has(DieAt(p), {"specification"})
    BY <2>2, <2>3, FunctionAgrees
  <2>6. c.address = 0 \/ c.address \in DOMAIN funcs[p[1]]
    <3>1. g.low = 0 \/ g.low \in DOMAIN funcs[p[1]]
      BY <1>1, <1>2, <2>3 DEF FuncsListed
    <3> QED
      BY <2>5, <3>1
  <2>7. ASSUME NEW f \in AnalysedAt(p)
        PROVE  f = g
    <3>1. PICK low \in DOMAIN funcs[p[1]] : f = funcs[p[1]][low] /\ f.die = p
      BY DEF AnalysedAt
    <3>2. PICK d \in Nat : f = Func(p[1], d)
      BY <2>4, <3>1, AnalysedFunc
    <3>3. f.die = <<p[1], d>>
      BY <3>2, FuncIs
    <3>4. d = p[2]
      BY <2>4, <3>1, <3>3
    <3> QED
      BY <3>2, <3>4
  <2> HIDE DEF c, g
  <2>8. c.die = p
    BY <2>1 DEF c
  <2>9. \A f \in AnalysedAt(c.die) :
           /\ f.low = c.address /\ f.high = c.address + c.size
           /\ SameVars(c.args, f.parameters) /\ SameVars(c.varCells, f.variables)
           /\ \/ f.type = c.type
              \/ Has(program[c.die[1]].dies[c.die[2]], {"specification"})
    BY <2>5, <2>7, <2>8 DEF DieAt
  <2> QED
    BY <2>6, <2>8, <2>9 DEF c
<1>6. ASSUME NEW u \in DOMAIN funcs, NEW low \in DOMAIN funcs[u], FirstLevel(u, funcs[u][low].die[2])
      PROVE  Cardinality({i \in DOMAIN functionCells : functionCells[i].die = funcs[u][low].die}) = 1
  <2>1. PICK d \in Nat : <<u, d>> \in FuncPlaces /\ funcs[u][low] = Func(u, d)
    BY AnalysedFunc
  <2>2. funcs[u][low].die = <<u, d>>
    BY <2>1, FuncIs
  <2>3. <<u, d>> \in TopFuncPlaces
    BY <1>6, <2>1, <2>2 DEF TopFuncPlaces
  <2> QED
    BY <1>3, <1>4, <2>2, <2>3, ListedOnce
<1> QED
  BY <1>5, <1>6 DEF SameFunctions

Ids(f) == {f.parameters[i].varId : i \in DOMAIN f.parameters}
            \union {f.variables[i].varId : i \in DOMAIN f.variables}

\* The variables of a function are in its scope.
LEMMA OfScope ==
  ASSUME program \in Programs, NEW u \in DOMAIN program, NEW d \in DOMAIN program[u].dies,
         NEW id \in Ids(Func(u, d))
  PROVE  \E v \in Nat : /\ id = GlobalOffset(u, v) /\ program[u].dies[v].parent \in DOMAIN program[u].dies
                        /\ Scope(program[u].dies, d)[program[u].dies[v].parent]
<1>1. ASSUME NEW S, InScopeOf(u, d, S), NEW i \in DOMAIN VarsOf(u, d, S), id = VarsOf(u, d, S)[i].varId
      PROVE  \E v \in Nat : /\ id = GlobalOffset(u, v) /\ program[u].dies[v].parent \in DOMAIN program[u].dies
                            /\ Scope(program[u].dies, d)[program[u].dies[v].parent]
  <2>1. /\ S \subseteq Nat /\ IsFiniteSet(S)
        /\ \A v \in S : /\ program[u].dies[v].parent \in DOMAIN program[u].dies
                        /\ Scope(program[u].dies, d)[program[u].dies[v].parent]
    BY <1>1, ScopeNumbers
  <2>2. Ordered(S) = [j \in 1 .. Cardinality(S) |-> Nth(S, j)]
    BY <2>1, OrderedFacts
  <2>3. \A j \in 1 .. Cardinality(S) : Nth(S, j) \in S
    BY <2>1, NthFacts
  <2>4. i \in DOMAIN Ordered(S) /\ VarsOf(u, d, S)[i].varId = GlobalOffset(u, Ordered(S)[i])
    BY <1>1 DEF VarsOf, Var
  <2>5. Ordered(S)[i] \in S
    BY <2>2, <2>3, <2>4
  <2> QED
    BY <1>1, <2>1, <2>4, <2>5
<1>2. /\ Func(u, d).parameters = VarsOf(u, d, Objects(u, d, IsParameter))
      /\ Func(u, d).variables = VarsOf(u, d, Objects(u, d, IsVariable))
  BY FuncIs
<1>3. InScopeOf(u, d, Objects(u, d, IsParameter)) /\ InScopeOf(u, d, Objects(u, d, IsVariable))
  BY ObjectsInScope
<1> DEFINE P == VarsOf(u, d, Objects(u, d, IsParameter))  V == VarsOf(u, d, Objects(u, d, IsVariable))
<1>4. (\E i \in DOMAIN P : id = P[i].varId) \/ (\E i \in DOMAIN V : id = V[i].varId)
  <2> HIDE DEF P, V
  <2> QED
    BY <1>2 DEF Ids, P, V
<1> QED
  BY <1>1, <1>3, <1>4

LEMMA VariablesOwned == ASSUME IInv PROVE OwnedOnce
<1> SUFFICES ASSUME phase = "done"
             PROVE  OwnedOnce
  BY DEF OwnedOnce, Done
<1>1. TypeOK /\ CustomFilled /\ program \in Programs /\ DOMAIN funcs = DOMAIN program
  BY DEF IInv, TypeOK
<1>2. ASSUME NEW u \in DOMAIN funcs, NEW a \in DOMAIN funcs[u], NEW b \in DOMAIN funcs[u], a # b,
             NEW id \in Ids(funcs[u][a]), id \in Ids(funcs[u][b])
      PROVE  FALSE
  <2> DEFINE dies == program[u].dies
  <2>1. PICK d \in Nat : /\ <<u, d>> \in FuncPlaces /\ d \in DOMAIN dies
                         /\ funcs[u][a] = Func(u, d) /\ a = Func(u, d).low
    BY AnalysedFunc
  <2>2. PICK e \in Nat : /\ <<u, e>> \in FuncPlaces /\ e \in DOMAIN dies
                         /\ funcs[u][b] = Func(u, e) /\ b = Func(u, e).low
    BY AnalysedFunc
  <2>3. PICK v \in Nat : /\ id = GlobalOffset(u, v) /\ dies[v].parent \in DOMAIN dies
                         /\ Scope(dies, d)[dies[v].parent]
    BY <1>1, <1>2, <2>1, OfScope
  <2>4. PICK w \in Nat : /\ id = GlobalOffset(u, w) /\ dies[w].parent \in DOMAIN dies
                         /\ Scope(dies, e)[dies[w].parent]
    BY <1>1, <1>2, <2>2, OfScope
  <2>5. v = w
    <3>1. program[u].offset \in Nat
      BY <1>1, ProgramFacts DEF WellFormed
    <3>2. program[u].offset + v = program[u].offset + w
      BY <2>3, <2>4 DEF GlobalOffset
    <3> QED
      BY <3>1, <3>2
  <2>6. dies[d].tag = "subprogram" /\ dies[e].tag = "subprogram"
    <3>1. \A p \in FuncPlaces : program[p[1]].dies[p[2]].tag = "subprogram"
      BY DEF FuncPlaces, IsFunc, DieAt
    <3>2. <<u, d>>[1] = u /\ <<u, d>>[2] = d /\ <<u, e>>[1] = u /\ <<u, e>>[2] = e
      OBVIOUS
    <3> QED
      BY <2>1, <2>2, <3>1, <3>2
  <2>7. Parented(dies)
    BY <1>1, UnitParented
  <2> HIDE DEF dies
  <2>8. d = e
    BY <2>1, <2>2, <2>3, <2>4, <2>5, <2>6, <2>7, ScopeOfOne
  <2> QED
    BY <1>2, <2>1, <2>2, <2>8
<1>3. ASSUME NEW u \in DOMAIN funcs, NEW a \in DOMAIN funcs[u]
      PROVE  custom[a] = funcs[u][a] \/ \E w \in 1 .. u - 1 : a \in DOMAIN funcs[w]
  <2> DEFINE T == {w \in DOMAIN funcs : a \in DOMAIN funcs[w]}  x == FirstOfUnits(a)
  <2>1. T \subseteq Nat /\ u \in T /\ \A w \in T : w \in Nat /\ w >= 1
    BY <1>1, ProgramFacts
  <2>2. \E w \in T : \A y \in T : w <= y
    <3> HIDE DEF T
    <3> QED
      BY <2>1, Least
  <2>3. x \in T /\ \A y \in T : x <= y
    BY <2>2 DEF FirstOfUnits
  <2>4. custom[a] = funcs[x][a]
    <3>1. a \in UNION {DOMAIN funcs[w] : w \in DOMAIN funcs}
      OBVIOUS
    <3>2. custom = [y \in UNION {DOMAIN funcs[w] : w \in DOMAIN funcs} |-> funcs[FirstOfUnits(y)][y]]
      BY <1>1 DEF CustomFilled
    <3> QED
      BY <3>1, <3>2
  <2> HIDE DEF x
  <2>5. x \in Nat /\ x >= 1 /\ u \in Nat /\ x <= u
    BY <2>1, <2>3
  <2>6. x = u \/ x \in 1 .. u - 1
    BY <2>5
  <2> QED
    BY <2>3, <2>4, <2>6
<1>4. \A u \in DOMAIN funcs : \A a, b \in DOMAIN funcs[u] :
         a # b => Ids(funcs[u][a]) \intersect Ids(funcs[u][b]) = {}
  BY <1>2
<1> QED
  BY <1>3, <1>4 DEF OwnedOnce, Ids

\* Where the linker gives up, it reads more than the inference did.
LEMMA LinkerPanics == ASSUME IInv, Collect, phase' = "panic" PROVE ReadsMore(at[1], at[2])
<1> DEFINE u == at[1]  d == at[2]  attrs == Die.attrs
<1>1. phase = "link" /\ Die = DieAt(at) /\ Die = program[u].dies[d]
  BY DEF Collect, Die, DieAt
<1>2. TypeOK /\ GlobalsListed /\ FuncsListed /\ at \in Places /\ program \in Programs
  BY <1>1 DEF IInv, TypeOK
<1>3. Read(at) /\ Analysed(at)
  BY <1>1 DEF Read, Analysed, Seen
<1>4. ~ Advance("done")
  BY <1>1 DEF Advance
<1>5. Collected(u, d) /\ ((IsFunc(Die) /\ BadCells(u, d)) \/ (IsVariable(Die) /\ Undescribed(u, attrs)))
  BY <1>4 DEF Collect
<1>6. WellFormedAttributes(attrs)
  BY <1>1, <1>2, PlaceAttributes
<1>7. CASE IsFunc(Die) /\ BadCells(u, d)
  <2> SUFFICES ASSUME ~ (Has(Die, {"specification"}) /\ Has(Die, {"type"}))
               PROVE  FALSE
    BY <1>1, <1>7 DEF ReadsMore
  <2>1. ~ BadFunc(u, d)
    <3>1. at \in FuncPlaces
      BY <1>1, <1>2, <1>7 DEF FuncPlaces
    <3> QED
      BY <1>2, <1>3, <3>1 DEF FuncsListed
  <2>2. /\ ~ Unreadable(attrs, {"low_pc", "high_pc", "type", "specification"} \union Names)
        /\ ~ (Declared(u, attrs).type # NoType /\ ~ TypeKnown(u, Declared(u, attrs).type))
        /\ ~ \E b \in Blocks(u, d) : Unreadable(program[u].dies[b].attrs, {"low_pc", "high_pc"})
        /\ ~ \E v \in Objects(u, d, IsEither) : BadVar(u, program[u].dies[v].attrs)
    BY <1>1, <2>1 DEF BadFunc
  <2>3. ~ Unreadable(attrs, {"low_pc", "high_pc", "type"})
    BY <2>2 DEF Unreadable, Indices
  <2>4. ASSUME NEW i \in Indices(attrs, {"type"}), ~ TypeKnown(u, attrs[i].value)
        PROVE  FALSE
    <3>1. Indices(attrs, {"specification"}) = {}
      BY <2>4 DEF Has
    <3>2. Declared(u, attrs).type = Value(attrs, {"type"}, NoType)
      BY <3>1 DEF Declared
    <3>3. Value(attrs, {"type"}, NoType) = attrs[i].value
      BY <1>6, OneAttribute, ZenonT(60)
    <3>4. attrs[i].value # NoType
      BY <1>6 DEF WellFormedAttributes, Indices, NoType
    <3> QED
      BY <2>2, <2>4, <3>2, <3>3, <3>4
  <2>5. ~ \E v \in Objects(u, d, IsEither) : Undescribed(u, program[u].dies[v].attrs)
    BY <2>2 DEF BadVar
  <2> QED
    BY <1>1, <1>7, <2>2, <2>3, <2>4, <2>5 DEF BadCells
<1>8. CASE IsVariable(Die) /\ Undescribed(u, attrs)
  <2>1. at \in GlobalPlaces
    BY <1>1, <1>2, <1>5, <1>8 DEF GlobalPlaces, Collected, FirstLevel
  <2>2. ~ Undescribed(u, UpToLocation(attrs))
    BY <1>1, <1>2, <1>3, <2>1 DEF GlobalsListed
  <2>3. Indices(attrs, {"location"}) # {}
    BY <1>8 DEF IsVariable, IsObject, Has
  <2>4. ~ TypeBeforeLocation(attrs)
    BY <1>6, <1>8, <2>2, <2>3, DescribedSame
  <2> QED
    BY <1>1, <1>8, <2>4 DEF ReadsMore
<1> QED
  BY <1>5, <1>7, <1>8

-----------------------------------------------------------------------------
\* initGlobalVarsInCompilationUnit and recursiveCollect find the same global
\* variables, in the same order and with the same types.
THEOREM GlobalsAgreement == Spec => []SameGlobals
  BY Invariant, GlobalsAgree, PTL

\* initFuncDescInInfoEntry and recursiveCollect agree about each function, its
\* addresses, its type and its variables; a variable belongs to one function.
THEOREM FunctionsAgreement == Spec => []FunctionsAgree
<1>1. IInv => FunctionsAgree
  BY FunctionsSame, VariablesOwned DEF FunctionsAgree
<1> QED
  BY <1>1, Invariant, PTL

\* The linker gives up on no DIE of which it reads what initSPA read.
THEOREM LinkerReads == Spec => LinkerReadsOn
<1>1. IInv /\ [Next]_vars => [phase = "link" /\ phase' = "panic" => ReadsMore(at[1], at[2])]_vars
  <2> SUFFICES ASSUME IInv, Next, phase = "link", phase' = "panic"
               PROVE  ReadsMore(at[1], at[2])
    OBVIOUS
  <2>1. Collect
    BY DEF Next, AbsVar, AbsFunc, GlobalVar, FuncDesc, CustomFuncs, Ended
  <2> QED
    BY <2>1, LinkerPanics
<1> QED
  BY <1>1, Invariant, PTL DEF Spec, LinkerReadsOn
=============================================================================
