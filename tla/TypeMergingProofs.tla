-------------------------- MODULE TypeMergingProofs --------------------------
(***************************************************************************)
(* What the resolution of types computes for every graph of types, of any  *)
(* size and with any cycles: proofs about TypeResolution.  Then what the   *)
(* linker takes for granted of the types that initVTypeInfo made, equal    *)
(* names mean equal types, and that the types come through both: proofs    *)
(* about TypeMerging, for every unit in which no alias is read while it is *)
(* in progress.                                                            *)
(***************************************************************************)
EXTENDS TypeMerging, TLAPS

(***************************************************************************)
(* Facts about sequences.                                                  *)
(***************************************************************************)
\* What a pop does to the stack.
LEMMA Pop ==
  ASSUME NEW S, NEW s \in Seq(S), s # <<>>
  PROVE  /\ Front(s) \in Seq(S) /\ Len(s) \in Nat \ {0} /\ Last(s) \in S
         /\ Len(s) \in DOMAIN s
         /\ DOMAIN Front(s) = DOMAIN s \ {Len(s)}
         /\ \A i \in DOMAIN Front(s) : Front(s)[i] = s[i]
  BY DEF Front, Last

(***************************************************************************)
(* Facts about the input.                                                  *)
(***************************************************************************)
\* The types that the recursion visits are numbers, one for each member or the
\* one reference.
LEMMA NestedTypes ==
  ASSUME WellFormed(dies), NEW id \in DOMAIN dies
  PROVE  /\ Nested(id) \in Seq(Nat)
         /\ dies[id].kind \in Aggregate =>
              /\ Len(Nested(id)) = Len(dies[id].members)
              /\ \A i \in 1 .. Len(dies[id].members) : Nested(id)[i] = dies[id].members[i].type
         /\ dies[id].kind \notin Aggregate /\ Nested(id) # <<>> =>
              Nested(id) = <<Reference(id)>> /\ dies[id].kind # "enumeration"
         /\ dies[id].kind \notin Aggregate /\ dies[id].kind # "enumeration" /\ Nested(id) = <<>> =>
              Reference(id) = NoType
<1> DEFINE d == dies[id]
<1>1. d \in TypeDie
  BY DEF WellFormed
<1>a. d.type \in Nat /\ d.members \in Seq(Member)
  BY <1>1 DEF TypeDie
<1>2. \A i \in 1 .. Len(d.members) : d.members[i].type \in Nat
  <2> HIDE DEF d
  <2>1. \A i \in 1 .. Len(d.members) : d.members[i] \in Member
    BY <1>a
  <2> QED BY <2>1 DEF Member
<1>3. CASE d.kind \in Aggregate
  <2> HIDE DEF d
  <2>1. Nested(id) = [i \in DOMAIN d.members |-> d.members[i].type]
    BY <1>3 DEF Nested, d
  <2>2. Nested(id) \in Seq(Nat) /\ Len(Nested(id)) = Len(d.members)
    BY <1>a, <1>2, <2>1
  <2> QED BY <1>a, <1>3, <2>1, <2>2 DEF d
<1>4. CASE d.kind \notin Aggregate
  <2>1. Nested(id) = IF d.kind = "enumeration" \/ Reference(id) = NoType THEN <<>> ELSE <<Reference(id)>>
    BY <1>4 DEF Nested
  <2>2. Reference(id) \in Nat
    BY <1>a DEF Reference
  <2> QED BY <1>4, <2>1, <2>2
<1> QED BY <1>3, <1>4

\* The initial VTypeInfo of a DIE is one.
LEMMA UnresolvedType ==
  ASSUME WellFormed(dies), NEW id \in DOMAIN dies
  PROVE  Unresolved(id) \in VTypeInfo
<1> DEFINE d == dies[id]
<1>1. d \in TypeDie /\ WellFormedDie(d) /\ id \in Nat
  BY DEF WellFormed
<1>2. OwnName(id) \in Name
  <2>1. \A text \in Text : Named(text) \in Name
    BY DEF Named, Name, NoType
  <2>2. \A i \in 1 .. Len(BaseName) : BaseName[i] \in Text
    BY TextAssumption
  <2>3. d.name # <<>> => d.name[1] \in Text
    BY <1>1 DEF TypeDie
  <2>4. d.base + 1 \in 1 .. Len(BaseName)
    <3>1. d.base \in 0 .. Len(BaseName) - 1
      BY <1>1 DEF TypeDie
    <3>2. Len(BaseName) \in Nat
      BY DEF BaseName
    <3> QED BY <3>1, <3>2
  <2>5. {"void", "null", "enumeration", "structure", "union"} \subseteq Text
    BY TextAssumption
  <2>6. ASSUME d.kind \in {"enumeration", "structure", "union"}
        PROVE  [Named(d.kind) EXCEPT !.id = id] \in Name
    BY <1>1, <2>1, <2>5, <2>6 DEF Name
  <2> HIDE DEF d
  <2>7. OwnName(id) =
          CASE d.kind = "base" -> Named(BaseName[d.base + 1])
            [] d.kind = "unspecified" -> Named("null")
            [] d.kind \in {"enumeration", "structure", "union"} /\ d.name = <<>> ->
                 [Named(d.kind) EXCEPT !.id = id]
            [] d.kind \in {"enumeration", "structure", "union", "typedef"} /\ d.name # <<>> ->
                 Named(d.name[1])
            [] OTHER -> Named("void")
    BY DEF OwnName, d
  <2> QED BY <2>1, <2>2, <2>3, <2>4, <2>5, <2>6, <2>7
<1>3. d.kind = "array" => ArrayBound(d) \in 0 .. MaxArrayBound
  <2> SUFFICES ASSUME d.kind = "array" PROVE ArrayBound(d) \in 0 .. MaxArrayBound
    OBVIOUS
  <2>1. d.subranges \in Seq(Seq(Nat)) /\ d.subranges # <<>>
    BY <1>1 DEF TypeDie, WellFormedDie
  <2>2. Last(d.subranges) \in Seq(Nat)
    BY <2>1, Pop
  <2>3. Last(d.subranges) # <<>> => Last(d.subranges)[1] \in Nat
    BY <2>2
  <2> DEFINE bound == Last(d.subranges)[1]
  <2>4. ArrayBound(d) = IF Last(d.subranges) = <<>> THEN 0
                        ELSE IF bound + 1 > 512 THEN 16 ELSE bound + 1
    BY DEF ArrayBound, MaxArrayBound, DefaultArrayBound
  <2>5. Last(d.subranges) # <<>> => bound \in Nat
    BY <2>3
  <2> HIDE DEF bound, d
  <2>6. CASE Last(d.subranges) = <<>>
    BY <2>4, <2>6 DEF MaxArrayBound
  <2>7. CASE Last(d.subranges) # <<>>
    <3>1. bound \in Nat
      BY <2>5, <2>7
    <3>2. ArrayBound(d) = IF bound + 1 > 512 THEN 16 ELSE bound + 1
      BY <2>4, <2>7
    <3>3. CASE bound + 1 > 512
      BY <3>2, <3>3 DEF MaxArrayBound
    <3>4. CASE ~(bound + 1 > 512)
      BY <3>1, <3>2, <3>4 DEF MaxArrayBound
    <3> QED BY <3>3, <3>4
  <2> QED BY <2>6, <2>7
<1>4. d.base \in 0 .. Len(BaseName) - 1 /\ d.members \in Seq(Member)
  BY <1>1 DEF TypeDie
<1>5. Len(BaseName) - 1 \in 0 .. Len(BaseName) - 1 /\ <<>> \in Seq(Member) /\ 0 \in 0 .. MaxArrayBound
  BY DEF BaseName, MaxArrayBound
<1> HIDE DEF d
<1>6. Unresolved(id) =
        [typeTag |-> "VOID", name |-> OwnName(id), refer |-> NoType,
         baseType |-> IF d.kind = "base" THEN d.base ELSE Len(BaseName) - 1,
         arrayBound |-> IF d.kind = "array" THEN ArrayBound(d) ELSE 0,
         memberIdents |-> IF d.kind \in Aggregate THEN d.members ELSE <<>>,
         members |-> <<>>]
  BY DEF Unresolved, d
<1> QED BY <1>2, <1>3, <1>4, <1>5, <1>6 DEF VTypeInfo

(***************************************************************************)
(* The invariant.                                                          *)
(***************************************************************************)
\* What Descend leaves of a type.
Opened(id) == [Unresolved(id) EXCEPT !.typeTag = TypeTag(dies[id].kind)]

\* No step writes to a type that the recursion has not entered.
Untouched == \A id \in DOMAIN dies \ snVisited : vTypeInfo[id] = Unresolved(id)

\* A type in progress is as Descend left it, but for the members appended since.
Waiting ==
  \A id \in InProgress :
    LET ms == vTypeInfo[id].members IN
    /\ Nested(id) # <<>>
    /\ dies[id].kind \notin Aggregate => vTypeInfo[id] = Opened(id)
    /\ dies[id].kind \in Aggregate =>
         /\ vTypeInfo[id] = [Opened(id) EXCEPT !.members = ms]
         /\ Len(ms) < Len(dies[id].members)
         /\ \A i \in 1 .. Len(ms) : ms[i] = dies[id].members[i]

\* The nested call that a type in progress waits for.
Active ==
  [id \in DOMAIN dies |->
     Nested(id)[IF dies[id].kind \in Aggregate THEN Len(vTypeInfo[id].members) + 1 ELSE 1]]

\* Each type of the stack waits for the next one, and the last one for the call
\* that is made or has returned.
Control ==
  /\ at = Idle => stack = <<>>
  /\ \A i \in DOMAIN stack : i + 1 \in DOMAIN stack => stack[i + 1] = Active[stack[i]]
  /\ stack # <<>> /\ at = Return => Active[Last(stack)] \in snVisited
  /\ stack # <<>> /\ at.op = "call" => at.arg = Active[Last(stack)]

Inv == WellFormed(dies) /\ TypeOK /\ Untouched /\ Waiting /\ Control

\* Nothing that is said of the input changes with a step.
LEMMA Constant ==
  ASSUME dies' = dies
  PROVE  /\ WellFormed(dies)' <=> WellFormed(dies)
         /\ \A id : /\ Nested(id)' = Nested(id) /\ Reference(id)' = Reference(id)
                    /\ OwnName(id)' = OwnName(id) /\ Unresolved(id)' = Unresolved(id)
                    /\ Opened(id)' = Opened(id)
         /\ VTypeInfo' = VTypeInfo
  BY DEF Nested, Reference, OwnName, Unresolved, Opened, VTypeInfo

\* When the recursion starts nothing is entered, and the stack is empty.
LEMMA Initial == Init => Inv
<1> SUFFICES ASSUME Init PROVE Inv
  OBVIOUS
<1>1. WellFormed(dies)
  BY InputsAssumption DEF Init
<1>2. vTypeInfo \in [DOMAIN dies -> VTypeInfo]
  BY <1>1, UnresolvedType DEF Init
<1>3. TypeOK
  BY <1>2 DEF Init, TypeOK, IsInjective
<1>4. Untouched
  BY DEF Init, Untouched
<1>5. Waiting
  BY DEF Init, Waiting, InProgress
<1>6. Control
  BY DEF Init, Control
<1> QED BY <1>1, <1>3, <1>4, <1>5, <1>6 DEF Inv

\* Steps that only move the control.
Quiet == UNCHANGED <<dies, vTypeInfo, snVisited, stack>>

\* A step that only moves the control preserves the invariant.
LEMMA QuietStep ==
  ASSUME Inv, \/ \E id \in todo : NextType(id)
              \/ TypeDone \/ Visited(at.arg) \/ GiveUp(at.arg) \/ UNCHANGED vars
  PROVE  Inv' /\ Quiet
<1>1. Quiet
  BY DEF NextType, TypeDone, Visited, GiveUp, vars, Quiet
<1>2. WellFormed(dies)' /\ Untouched' /\ Waiting'
  BY <1>1, Constant DEF Inv, Quiet, Untouched, Waiting, InProgress
<1>3. Active' = Active
  BY <1>1, Constant DEF Quiet, Active
<1>4. TypeOK'
  <2>1. todo' \subseteq DOMAIN dies
    BY DEF Inv, TypeOK, NextType, TypeDone, Visited, GiveUp, vars
  <2>2. at' \in {Idle, Return, Panic} \/ at' \in [op : {"call"}, arg : Nat]
    BY DEF Inv, TypeOK, WellFormed, NextType, TypeDone, Visited, GiveUp, vars, Call
  <2> QED BY <1>1, <2>1, <2>2, Constant DEF Inv, Quiet, TypeOK
<1>5. Control'
  BY <1>1, <1>3 DEF Inv, Control, Quiet, NextType, TypeDone, Visited, GiveUp, vars,
                    Call, Idle, Return, Panic
<1> QED BY <1>1, <1>2, <1>4, <1>5 DEF Inv

\* The types of the stack are entered types of the unit, and the last of them is
\* nowhere else on it.
LEMMA OnStack ==
  ASSUME Inv
  PROVE  /\ InProgress \subseteq snVisited /\ snVisited \subseteq DOMAIN dies
         /\ stack # <<>> => Last(stack) \in InProgress
         /\ \A i \in DOMAIN stack : stack[i] \in InProgress
         /\ stack # <<>> => \A i \in DOMAIN Front(stack) : stack[i] # Last(stack)
<1>1. stack \in Seq(snVisited) /\ IsInjective(stack) /\ snVisited \subseteq DOMAIN dies
  BY DEF Inv, TypeOK
<1>2. \A i \in DOMAIN stack : stack[i] \in snVisited
  BY <1>1
<1>3. stack # <<>> => Len(stack) \in DOMAIN stack /\ DOMAIN Front(stack) = DOMAIN stack \ {Len(stack)}
  BY <1>1, Pop
<1> QED BY <1>1, <1>2, <1>3 DEF InProgress, Last, IsInjective

\* Setting the tag of its kind makes a VTypeInfo of a VTypeInfo.
LEMMA TagType == \A kind \in Kind : \A info \in VTypeInfo :
                   [info EXCEPT !.typeTag = TypeTag(kind)] \in VTypeInfo
<1>1. \A kind \in Kind : TypeTag(kind) \in {"VOID", "BASE", "POINTER", "ARRAY", "ENUMERATION",
                                          "FUNCTION", "STRUCTURE", "UNION"}
  BY DEF TypeTag
<1> QED BY <1>1 DEF VTypeInfo

\* A decorated name is a name.
LEMMA DecorateType ==
  ASSUME NEW name \in Name, NEW op \in {"*", "[]", "()"}, NEW bound \in Nat
  PROVE  Decorate(name, op, bound) \in Name
<1> DEFINE Deco == [op : {"*", "[]", "()"}, bound : Nat]
<1>1. [op |-> op, bound |-> bound] \in Deco
  OBVIOUS
<1>2. name \in [text : Text, id : Nat, by : Seq(Deco)]
  BY DEF Name
<1> HIDE DEF Deco
<1>3. Append(name.by, [op |-> op, bound |-> bound]) \in Seq(Deco)
  BY <1>1, <1>2
<1>4. Decorate(name, op, bound) \in [text : Text, id : Nat, by : Seq(Deco)]
  BY <1>2, <1>3 DEF Decorate
<1> QED BY <1>4 DEF Name, Deco

\* The name that a void pointer and a function without result begin with is one.
LEMMA VoidName == Named("void") \in Name
<1>1. "void" \in Text
  BY TextAssumption
<1>2. <<>> \in Seq([op : {"*", "[]", "()"}, bound : Nat])
  OBVIOUS
<1> QED BY <1>1, <1>2 DEF Named, Name, NoType

\* A type without a nested call is entered and finished in one step; the stack stays.
LEMMA LeafStep ==
  ASSUME Inv, NEW id, Leaf(id)
  PROVE  /\ Inv' /\ id \in DOMAIN dies \ snVisited /\ id \notin InProgress
         /\ snVisited' = snVisited \union {id} /\ InProgress' = InProgress /\ dies' = dies
         /\ \A a \in DOMAIN dies \ {id} : vTypeInfo'[a] = vTypeInfo[a]
         /\ vTypeInfo'[id] = [Opened(id) EXCEPT !.name = LeafName(id)]
<1>1. id \in DOMAIN dies \ snVisited /\ at = Call(id) /\ Nested(id) = <<>>
  BY DEF Leaf, Fresh
<1>2. id \notin InProgress
  BY <1>1, OnStack
<1>3. /\ snVisited' = snVisited \union {id} /\ InProgress' = InProgress
      /\ dies' = dies /\ stack' = stack /\ todo' = todo /\ at' = Return
  BY DEF Leaf, InProgress
<1>4. DOMAIN vTypeInfo = DOMAIN dies /\ vTypeInfo[id] = Unresolved(id)
  BY <1>1 DEF Inv, TypeOK, Untouched
<1>5. /\ vTypeInfo' = [vTypeInfo EXCEPT ![id] = [Opened(id) EXCEPT !.name = LeafName(id)]]
      /\ \A a \in DOMAIN dies \ {id} : vTypeInfo'[a] = vTypeInfo[a]
      /\ vTypeInfo'[id] = [Opened(id) EXCEPT !.name = LeafName(id)]
  <2>1. Tagged(id) = Opened(id)
    BY <1>4 DEF Tagged, Opened
  <2>2. vTypeInfo' = [vTypeInfo EXCEPT ![id] = [Tagged(id) EXCEPT !.name = LeafName(id)]]
    BY DEF Leaf
  <2> QED BY <1>1, <1>4, <2>1, <2>2
<1>6. [Opened(id) EXCEPT !.name = LeafName(id)] \in VTypeInfo
  <2>1. Unresolved(id) \in VTypeInfo /\ dies[id].kind \in Kind
    BY <1>1, UnresolvedType DEF Inv, WellFormed, TypeDie
  <2>2. Opened(id) \in VTypeInfo
    BY <2>1, TagType DEF Opened
  <2>3. Unresolved(id).name = OwnName(id) /\ Unresolved(id).name \in Name
    BY <2>1 DEF Unresolved, VTypeInfo
  <2>4. \A op \in {"*", "[]", "()"} : Decorate(Named("void"), op, 0) \in Name
    BY VoidName, DecorateType
  <2>5. LeafName(id) \in Name
    BY <2>3, <2>4 DEF LeafName
  <2> QED BY <2>2, <2>5 DEF VTypeInfo
<1>7. TypeOK'
  <2>1. vTypeInfo' \in [DOMAIN dies -> VTypeInfo]
    BY <1>1, <1>5, <1>6 DEF Inv, TypeOK
  <2>2. stack \in Seq(snVisited \union {id})
    BY DEF Inv, TypeOK
  <2> QED BY <1>1, <1>3, <2>1, <2>2, Constant DEF Inv, TypeOK
<1>8. Untouched' /\ WellFormed(dies)'
  BY <1>3, <1>5, Constant DEF Inv, Untouched
<1>9. Waiting'
  BY <1>2, <1>3, <1>5, Constant, OnStack DEF Inv, Waiting
<1>10. Control'
  <2>1. \A a \in InProgress : Active'[a] = Active[a]
    BY <1>2, <1>3, <1>5, OnStack, Constant DEF Active
  <2>2. \A i \in DOMAIN stack : Active'[stack[i]] = Active[stack[i]]
    BY <2>1, OnStack
  <2>3. stack # <<>> => Active'[Last(stack)] = Active[Last(stack)]
    BY <2>1, OnStack
  <2> QED BY <1>1, <1>3, <2>2, <2>3 DEF Inv, Control, Call, Idle, Return
<1> QED BY <1>1, <1>2, <1>3, <1>5, <1>7, <1>8, <1>9, <1>10 DEF Inv

\* A type with a nested call is entered: it is put on the stack with its tag set, and
\* was not there before.
LEMMA DescendStep ==
  ASSUME Inv, NEW id, Descend(id)
  PROVE  /\ Inv' /\ id \in DOMAIN dies \ snVisited /\ id \notin InProgress
         /\ snVisited' = snVisited \union {id} /\ InProgress' = InProgress \union {id}
         /\ stack' = Append(stack, id) /\ dies' = dies
         /\ stack # <<>> => id = Active[Last(stack)]
         /\ \A a \in DOMAIN dies \ {id} : vTypeInfo'[a] = vTypeInfo[a]
         /\ vTypeInfo'[id] = Opened(id)
<1>1. id \in DOMAIN dies \ snVisited /\ at = Call(id) /\ Nested(id) # <<>>
  BY DEF Descend, Fresh
<1>2. id \notin InProgress
  BY <1>1, OnStack
<1>3. /\ snVisited' = snVisited \union {id} /\ dies' = dies /\ todo' = todo
      /\ stack' = Append(stack, id) /\ at' = Call(Nested(id)[1])
  BY DEF Descend
<1>4. DOMAIN vTypeInfo = DOMAIN dies /\ vTypeInfo[id] = Unresolved(id) /\ stack \in Seq(snVisited)
  BY <1>1 DEF Inv, TypeOK, Untouched
<1>5. /\ vTypeInfo' = [vTypeInfo EXCEPT ![id] = Opened(id)]
      /\ \A a \in DOMAIN dies \ {id} : vTypeInfo'[a] = vTypeInfo[a]
      /\ vTypeInfo'[id] = Opened(id)
  <2>1. Tagged(id) = Opened(id)
    BY <1>4 DEF Tagged, Opened
  <2>2. vTypeInfo' = [vTypeInfo EXCEPT ![id] = Tagged(id)]
    BY DEF Descend
  <2> QED BY <1>1, <1>4, <2>1, <2>2
<1>6. /\ stack' \in Seq(snVisited') /\ Last(stack') = id /\ stack' # <<>> /\ Len(stack) \in Nat
      /\ DOMAIN stack' = DOMAIN stack \union {Len(stack) + 1} /\ stack'[Len(stack) + 1] = id
      /\ \A i \in DOMAIN stack : stack'[i] = stack[i]
      /\ DOMAIN stack = 1 .. Len(stack)
  <2>1. Len(stack) \in Nat /\ DOMAIN stack = 1 .. Len(stack)
    BY <1>4
  <2>2. /\ Append(stack, id) \in Seq(snVisited \union {id}) /\ Last(Append(stack, id)) = id
        /\ Append(stack, id) # <<>>
        /\ DOMAIN Append(stack, id) = DOMAIN stack \union {Len(stack) + 1}
        /\ Append(stack, id)[Len(stack) + 1] = id
        /\ \A i \in DOMAIN stack : Append(stack, id)[i] = stack[i]
    BY <1>4 DEF Last
  <2> QED BY <1>3, <2>1, <2>2
<1>7. InProgress' = InProgress \union {id}
  BY <1>6 DEF InProgress
<1>8. Opened(id) \in VTypeInfo /\ Opened(id).members = <<>>
  <2>1. Unresolved(id) \in VTypeInfo /\ dies[id].kind \in Kind
    BY <1>1, UnresolvedType DEF Inv, WellFormed, TypeDie
  <2>2. Unresolved(id).members = <<>>
    BY DEF Unresolved
  <2> QED BY <2>1, <2>2, TagType DEF Opened, VTypeInfo
<1>9. TypeOK'
  <2>1. vTypeInfo' \in [DOMAIN dies -> VTypeInfo]
    BY <1>1, <1>5, <1>8 DEF Inv, TypeOK
  <2>2. IsInjective(stack')
    <3>1. \A i \in DOMAIN stack : stack[i] # id
      BY <1>2, OnStack
    <3> QED BY <1>6, <3>1 DEF Inv, TypeOK, IsInjective
  <2>3. Nested(id)[1] \in Nat
    BY <1>1, NestedTypes DEF Inv
  <2>4. at' \in [op : {"call"}, arg : Nat]
    BY <1>3, <2>3 DEF Call
  <2> QED BY <1>1, <1>3, <1>6, <2>1, <2>2, <2>4, Constant DEF Inv, TypeOK
<1>10. Untouched' /\ WellFormed(dies)'
  BY <1>3, <1>5, Constant DEF Inv, Untouched
<1>11. Waiting'
  <2>1. \A a \in InProgress : a # id /\ a \in DOMAIN dies
    BY <1>2, OnStack
  <2>2. dies[id].kind \in Aggregate =>
           /\ Opened(id) = [Opened(id) EXCEPT !.members = Opened(id).members]
           /\ Len(Opened(id).members) < Len(dies[id].members)
    <3> SUFFICES ASSUME dies[id].kind \in Aggregate
                 PROVE  /\ Opened(id) = [Opened(id) EXCEPT !.members = Opened(id).members]
                        /\ Len(Opened(id).members) < Len(dies[id].members)
      OBVIOUS
    <3>1. Nested(id) \in Seq(Nat) /\ Len(Nested(id)) = Len(dies[id].members)
      BY <1>1, NestedTypes DEF Inv
    <3> QED BY <1>1, <1>8, <3>1 DEF VTypeInfo
  <2> QED BY <1>1, <1>3, <1>5, <1>7, <1>8, <2>1, <2>2, Constant DEF Inv, Waiting
<1>12. Active'[id] = Nested(id)[1]
  BY <1>1, <1>3, <1>5, <1>8, Constant DEF Active
<1>13. \A i \in DOMAIN stack : Active'[stack[i]] = Active[stack[i]]
  <2>1. \A a \in InProgress : Active'[a] = Active[a]
    BY <1>2, <1>3, <1>5, OnStack, Constant DEF Active
  <2> QED BY <2>1, OnStack
<1>14. stack # <<>> => id = Active[Last(stack)]
  BY <1>1 DEF Inv, Control, Call
<1>15. Control'
  <2>1. \A i \in DOMAIN stack' : i + 1 \in DOMAIN stack' => stack'[i + 1] = Active'[stack'[i]]
    <3> TAKE i \in DOMAIN stack'
    <3> HAVE i + 1 \in DOMAIN stack'
    <3>1. i \in DOMAIN stack
      BY <1>6
    <3>2. CASE i + 1 \in DOMAIN stack
      <4>1. stack'[i + 1] = stack[i + 1] /\ stack'[i] = stack[i]
        BY <1>6, <3>1, <3>2
      <4>2. stack[i + 1] = Active[stack[i]]
        BY <3>1, <3>2 DEF Inv, Control
      <4> QED BY <1>13, <3>1, <4>1, <4>2
    <3>3. CASE i + 1 \notin DOMAIN stack
      <4>1. i = Len(stack) /\ stack # <<>>
        BY <1>4, <1>6, <3>1, <3>3
      <4>2. stack'[i + 1] = id /\ stack'[i] = stack[i] /\ stack[i] = Last(stack)
        BY <1>6, <3>1, <4>1 DEF Last
      <4> QED BY <1>13, <1>14, <3>1, <4>1, <4>2
    <3> QED BY <3>2, <3>3
  <2>2. Active'[Last(stack')] = Nested(id)[1]
    BY <1>6, <1>12
  <2>3. at' # Idle /\ at' # Return /\ at'.arg = Nested(id)[1]
    BY <1>3 DEF Call, Idle, Return
  <2> QED BY <2>1, <2>2, <2>3 DEF Control
<1> QED BY <1>1, <1>2, <1>3, <1>5, <1>7, <1>9, <1>10, <1>11, <1>14, <1>15 DEF Inv

\* The innermost type leaves the stack with the value info.
LEMMA FinishStep ==
  ASSUME Inv, at = Return, stack # <<>>, NEW info \in VTypeInfo, Finish(info)
  PROVE  /\ Inv' /\ InProgress' = InProgress \ {Last(stack)} /\ snVisited' = snVisited
         /\ \A a \in DOMAIN dies \ {Last(stack)} : vTypeInfo'[a] = vTypeInfo[a]
         /\ vTypeInfo'[Last(stack)] = info /\ dies' = dies /\ stack' = Front(stack)
<1> DEFINE id == Last(stack)
<1>1. id \in InProgress /\ id \in DOMAIN dies
  BY OnStack
<1>2. /\ snVisited' = snVisited /\ dies' = dies /\ todo' = todo /\ stack' = Front(stack)
      /\ at' = Return
      /\ vTypeInfo' = [vTypeInfo EXCEPT ![id] = info]
  BY DEF Finish
<1>3. vTypeInfo \in [DOMAIN dies -> VTypeInfo] /\ stack \in Seq(snVisited) /\ IsInjective(stack)
  BY DEF Inv, TypeOK
<1>4. /\ vTypeInfo'[id] = info
      /\ \A a \in DOMAIN dies \ {id} : vTypeInfo'[a] = vTypeInfo[a]
  BY <1>1, <1>2, <1>3
<1>5. /\ stack' \in Seq(snVisited) /\ Len(stack) \in Nat \ {0} /\ DOMAIN stack = 1 .. Len(stack)
      /\ Len(stack') = Len(stack) - 1 /\ DOMAIN stack' = 1 .. Len(stack')
      /\ DOMAIN stack' = DOMAIN stack \ {Len(stack)} /\ Len(stack) \in DOMAIN stack
      /\ \A i \in DOMAIN stack' : stack'[i] = stack[i]
      /\ stack[Len(stack)] = id
  <2>1. /\ Len(stack) \in Nat \ {0} /\ DOMAIN stack = 1 .. Len(stack) /\ Len(stack) \in DOMAIN stack
        /\ stack[Len(stack)] = id
    BY <1>3 DEF Last
  <2>2. /\ Front(stack) \in Seq(snVisited) /\ Len(Front(stack)) = Len(stack) - 1
        /\ \A i \in 1 .. Len(stack) - 1 : Front(stack)[i] = stack[i]
    <3>1. Front(stack) \in Seq(snVisited) /\ Len(Front(stack)) = Len(stack) - 1
      BY <1>3, <2>1 DEF Front
    <3>2. \A i \in 1 .. Len(stack) - 1 : Front(stack)[i] = stack[i]
      BY <1>3, <2>1 DEF Front
    <3> QED BY <3>1, <3>2
  <2>3. DOMAIN Front(stack) = 1 .. Len(Front(stack))
    BY <2>2
  <2>4. 1 .. Len(stack) - 1 = 1 .. Len(stack) \ {Len(stack)}
    BY <2>1
  <2> QED BY <1>2, <2>1, <2>2, <2>3, <2>4
<1>6. \A i \in DOMAIN stack' : stack'[i] \in InProgress \ {id}
  BY <1>3, <1>5 DEF InProgress, IsInjective
<1>7. InProgress' = InProgress \ {id}
  <2>1. InProgress' = {stack'[i] : i \in DOMAIN stack'}
    BY DEF InProgress
  <2>2. \A a \in InProgress \ {id} : \E i \in DOMAIN stack' : a = stack'[i]
    BY <1>5 DEF InProgress
  <2> QED BY <1>6, <2>1, <2>2
<1>8. TypeOK'
  <2>1. vTypeInfo' \in [DOMAIN dies -> VTypeInfo]
    BY <1>1, <1>2, <1>3
  <2>2. IsInjective(stack')
    BY <1>3, <1>5 DEF IsInjective
  <2>3. at' \in {Idle, Return, Panic}
    BY <1>2
  <2> QED BY <1>2, <1>5, <2>1, <2>2, <2>3, Constant DEF Inv, TypeOK
<1>9. Untouched' /\ WellFormed(dies)'
  <2>1. id \in snVisited
    BY <1>1, OnStack
  <2> QED BY <1>2, <1>4, <2>1, Constant DEF Inv, Untouched
<1>10. Waiting'
  <2>1. InProgress \subseteq DOMAIN dies
    BY OnStack
  <2> QED BY <1>2, <1>4, <1>7, <2>1, Constant DEF Inv, Waiting
<1>11. Control'
  <2>1. \A a \in InProgress \ {id} : Active'[a] = Active[a]
    BY <1>2, <1>4, OnStack, Constant DEF Active
  <2>2. \A i \in DOMAIN stack' : i + 1 \in DOMAIN stack' => stack'[i + 1] = Active'[stack'[i]]
    BY <1>5, <1>6, <2>1 DEF Inv, Control
  <2>3. ASSUME stack' # <<>> PROVE Active'[Last(stack')] \in snVisited
    <3> DEFINE n == Len(stack) - 1
    <3>1. n \in DOMAIN stack' /\ n \in DOMAIN stack /\ n + 1 \in DOMAIN stack
      <4>1. Len(stack') # 0
        BY <1>5, <2>3
      <4> QED BY <1>5, <4>1
    <3>2. Last(stack') = stack'[n]
      BY <1>5 DEF Last
    <3>3. stack[n + 1] = Active[stack[n]] /\ stack[n + 1] \in snVisited
      BY <1>3, <3>1 DEF Inv, Control
    <3>4. stack'[n] = stack[n] /\ stack[n] \in InProgress \ {id}
      BY <1>5, <1>6, <3>1
    <3> QED BY <2>1, <3>2, <3>3, <3>4
  <2>4. at' # Idle /\ at'.op # "call"
    BY <1>2 DEF Idle, Return
  <2> QED BY <1>2, <2>2, <2>3, <2>4 DEF Control
<1> QED BY <1>2, <1>4, <1>7, <1>8, <1>9, <1>10, <1>11 DEF Inv

\* When the call for a reference returns, its target has been entered.
LEMMA BackFacts ==
  ASSUME Inv, at = Return, stack # <<>>, dies[Last(stack)].kind \notin Aggregate
  PROVE  LET id == Last(stack) IN
         /\ id \in InProgress /\ id \in DOMAIN dies /\ vTypeInfo[id] = Opened(id)
         /\ Nested(id) = <<Reference(id)>> /\ dies[id].kind # "enumeration"
         /\ Reference(id) \in snVisited /\ Reference(id) \in DOMAIN dies
         /\ Opened(id) \in VTypeInfo /\ Target \in VTypeInfo
<1> DEFINE id == Last(stack)
<1>1. id \in InProgress /\ id \in DOMAIN dies
  BY OnStack
<1>2. vTypeInfo[id] = Opened(id) /\ Nested(id) # <<>>
  BY <1>1 DEF Inv, Waiting
<1>3. Nested(id) = <<Reference(id)>> /\ dies[id].kind # "enumeration"
  BY <1>1, <1>2, NestedTypes DEF Inv
<1>4. Active[id] = Nested(id)[1]
  BY <1>1 DEF Active
<1>5. Active[id] \in snVisited
  BY DEF Inv, Control
<1>6. Reference(id) \in snVisited /\ Reference(id) \in DOMAIN dies
  BY <1>3, <1>4, <1>5 DEF Inv, TypeOK
<1>7. Opened(id) \in VTypeInfo /\ Target \in VTypeInfo
  BY <1>1, <1>2, <1>6 DEF Inv, TypeOK, Target
<1> QED BY <1>1, <1>2, <1>3, <1>6, <1>7

\* What DerivedBack makes of the type on top of the stack.
Derived(id) == [Opened(id) EXCEPT !.refer = Reference(id),
                                  !.name = DerivedName(id, vTypeInfo[Reference(id)].name)]

\* A pointer, array or function finishes with its reference and its target's name
\* decorated.
LEMMA DerivedStep ==
  ASSUME Inv, DerivedBack
  PROVE  /\ at = Return /\ stack # <<>> /\ dies[Last(stack)].kind \in {"pointer", "array", "subroutine"}
         /\ Derived(Last(stack)) \in VTypeInfo /\ Finish(Derived(Last(stack)))
<1> DEFINE id == Last(stack)
<1>1. at = Return /\ stack # <<>> /\ dies[id].kind \in {"pointer", "array", "subroutine"}
  BY DEF DerivedBack, Back
<1>2. dies[id].kind \notin Aggregate
  BY <1>1 DEF Aggregate
<1>3. /\ vTypeInfo[id] = Opened(id) /\ Opened(id) \in VTypeInfo
      /\ Reference(id) \in DOMAIN dies /\ Target \in VTypeInfo
  BY <1>1, <1>2, BackFacts
<1>4. DerivedName(id, Target.name) \in Name
  <2>1. vTypeInfo[id].arrayBound \in Nat
    BY <1>3 DEF VTypeInfo
  <2>2. Target.name \in Name
    BY <1>3 DEF VTypeInfo
  <2> QED BY <2>1, <2>2, DecorateType DEF DerivedName
<1>5. Derived(id) \in VTypeInfo
  BY <1>3, <1>4 DEF Derived, VTypeInfo, Target
<1>6. Finish(Derived(id))
  BY <1>3 DEF DerivedBack, Derived, Target
<1> QED BY <1>1, <1>5, <1>6

\* What an alias copies of a VTypeInfo into another makes a VTypeInfo.
LEMMA CopiedType ==
  ASSUME NEW info \in VTypeInfo, NEW target \in VTypeInfo
  PROVE  Copied(info, target) \in VTypeInfo
<1> DEFINE named == [info EXCEPT !.name = target.name, !.typeTag = target.typeTag]
<1>1. named \in VTypeInfo
  BY DEF VTypeInfo
<1>2. /\ [named EXCEPT !.baseType = target.baseType] \in VTypeInfo
      /\ [named EXCEPT !.refer = target.refer] \in VTypeInfo
      /\ [named EXCEPT !.refer = target.refer, !.arrayBound = target.arrayBound] \in VTypeInfo
      /\ [named EXCEPT !.memberIdents = target.memberIdents, !.members = target.members] \in VTypeInfo
  <2> HIDE DEF named
  <2> QED BY <1>1 DEF VTypeInfo
<1>3. Copied(info, target) =
        CASE target.typeTag = "BASE" -> [named EXCEPT !.baseType = target.baseType]
          [] target.typeTag = "POINTER" -> [named EXCEPT !.refer = target.refer]
          [] target.typeTag = "ARRAY" ->
               [named EXCEPT !.refer = target.refer, !.arrayBound = target.arrayBound]
          [] target.typeTag \in {"STRUCTURE", "UNION"} ->
               [named EXCEPT !.memberIdents = target.memberIdents, !.members = target.members]
          [] OTHER -> named
  BY DEF Copied
<1> HIDE DEF named
<1> QED BY <1>1, <1>2, <1>3

\* A typedef or qualifier finishes with a copy of its target as that is now.
LEMMA AliasStep ==
  ASSUME Inv, AliasBack
  PROVE  LET id == Last(stack)  copy == Copied(Unresolved(id), vTypeInfo[Reference(id)]) IN
         /\ at = Return /\ stack # <<>> /\ dies[id].kind \in Alias
         /\ copy \in VTypeInfo /\ Finish(copy)
<1> DEFINE id == Last(stack)
<1>1. at = Return /\ stack # <<>> /\ dies[id].kind \in Alias
  BY DEF AliasBack, Back
<1>2. dies[id].kind \notin Aggregate
  BY <1>1 DEF Aggregate, Alias
<1>3. /\ vTypeInfo[id] = Opened(id) /\ Opened(id) \in VTypeInfo /\ id \in DOMAIN dies
      /\ Reference(id) \in DOMAIN dies /\ Target \in VTypeInfo
  BY <1>1, <1>2, BackFacts
<1>4. Opened(id) = Unresolved(id)
  <2>1. Unresolved(id) \in VTypeInfo
    BY <1>3, UnresolvedType DEF Inv
  <2>2. Unresolved(id).typeTag = "VOID"
    BY DEF Unresolved
  <2>3. TypeTag(dies[id].kind) = "VOID"
    BY <1>1 DEF TypeTag, Alias
  <2> QED BY <2>1, <2>2, <2>3 DEF Opened, VTypeInfo
<1>5. Copied(Unresolved(id), Target) \in VTypeInfo
  BY <1>3, <1>4, CopiedType
<1>6. Finish(Copied(Unresolved(id), Target))
  BY <1>3, <1>4 DEF AliasBack
<1> QED BY <1>1, <1>5, <1>6 DEF Target

\* What MemberBack makes of the structure or union on top of the stack.
Extended(id) ==
  LET ms == vTypeInfo[id].members IN
  [Opened(id) EXCEPT !.members = Append(ms, dies[id].members[Len(ms) + 1])]

\* When the call for a member returns, the structure has the members before it,
\* and gets this one.
LEMMA MemberFacts ==
  ASSUME Inv, MemberBack
  PROVE  LET id == Last(stack)  n == Len(vTypeInfo[id].members) + 1  info == Extended(id) IN
         /\ at = Return /\ stack # <<>> /\ dies[id].kind \in Aggregate
         /\ id \in InProgress /\ id \in DOMAIN dies
         /\ n \in Nat /\ Len(dies[id].members) \in Nat /\ n <= Len(dies[id].members)
         /\ dies[id].members \in Seq(Member)
         /\ info \in VTypeInfo /\ vTypeInfo' = [vTypeInfo EXCEPT ![id] = info]
         /\ Len(info.members) = n
         /\ \A j \in 1 .. n : info.members[j] = dies[id].members[j]
         /\ info = [Opened(id) EXCEPT !.members = info.members]
<1> DEFINE id == Last(stack)
           ms == vTypeInfo[id].members
           all == dies[id].members
           info == Extended(id)
<1>1. at = Return /\ stack # <<>> /\ dies[id].kind \in Aggregate
  BY DEF MemberBack, Back
<1>2. id \in InProgress /\ id \in DOMAIN dies
  BY <1>1, OnStack
<1>3. /\ vTypeInfo[id] \in VTypeInfo /\ DOMAIN vTypeInfo = DOMAIN dies /\ ms \in Seq(Member)
      /\ vTypeInfo[id] = [Opened(id) EXCEPT !.members = ms]
      /\ Len(ms) < Len(all) /\ \A j \in 1 .. Len(ms) : ms[j] = all[j]
  BY <1>1, <1>2 DEF Inv, TypeOK, Waiting, VTypeInfo
<1>4. all \in Seq(Member) /\ dies[id].kind \in Kind
  BY <1>2 DEF Inv, WellFormed, TypeDie
<1>5. Opened(id) \in VTypeInfo
  BY <1>2, <1>4, UnresolvedType, TagType DEF Inv, Opened
<1>6. vTypeInfo' = [vTypeInfo EXCEPT ![id].members = Append(ms, all[Len(ms) + 1])]
  BY DEF MemberBack
<1>7. vTypeInfo' = [vTypeInfo EXCEPT ![id] = [vTypeInfo[id] EXCEPT !.members = Append(ms, all[Len(ms) + 1])]]
  BY <1>2, <1>3, <1>6
<1>8. info = [Opened(id) EXCEPT !.members = Append(ms, all[Len(ms) + 1])]
  BY DEF Extended
<1> HIDE DEF id, ms, all, info
<1>9. [vTypeInfo[id] EXCEPT !.members = Append(ms, all[Len(ms) + 1])] = info
  BY <1>3, <1>5, <1>8 DEF VTypeInfo
<1>10. /\ Len(ms) \in Nat /\ Len(all) \in Nat /\ Len(ms) + 1 <= Len(all)
       /\ all[Len(ms) + 1] \in Member
  BY <1>3, <1>4
<1>11. /\ Append(ms, all[Len(ms) + 1]) \in Seq(Member)
       /\ Len(Append(ms, all[Len(ms) + 1])) = Len(ms) + 1
       /\ \A j \in 1 .. Len(ms) + 1 : Append(ms, all[Len(ms) + 1])[j] = all[j]
  BY <1>3, <1>4, <1>10
<1>12. /\ info \in VTypeInfo /\ info.members = Append(ms, all[Len(ms) + 1])
       /\ info = [Opened(id) EXCEPT !.members = info.members]
  BY <1>5, <1>8, <1>11 DEF VTypeInfo
<1>13. vTypeInfo' = [vTypeInfo EXCEPT ![id] = info]
  BY <1>7, <1>9
<1> QED BY <1>1, <1>2, <1>4, <1>10, <1>11, <1>12, <1>13 DEF id, ms, all, info

\* The structure is complete, and leaves the stack.
LEMMA LastMember ==
  ASSUME Inv, MemberBack,
         ~(Len(vTypeInfo[Last(stack)].members) + 1 < Len(dies[Last(stack)].members))
  PROVE  Finish(Extended(Last(stack)))
BY MemberFacts DEF MemberBack, Finish

\* Another member is visited; the stack stays.
LEMMA NextMember ==
  ASSUME Inv, MemberBack,
         Len(vTypeInfo[Last(stack)].members) + 1 < Len(dies[Last(stack)].members)
  PROVE  /\ Inv' /\ InProgress' = InProgress /\ snVisited' = snVisited
         /\ \A a \in DOMAIN dies \ {Last(stack)} : vTypeInfo'[a] = vTypeInfo[a]
         /\ vTypeInfo'[Last(stack)] = Extended(Last(stack)) /\ dies' = dies /\ stack' = stack
<1> DEFINE id == Last(stack)
           n == Len(vTypeInfo[id].members) + 1
<1>1. /\ stack' = stack /\ dies' = dies /\ todo' = todo /\ snVisited' = snVisited
      /\ at' = Call(Nested(id)[n + 1])
  BY DEF MemberBack
<1>2. InProgress' = InProgress
  BY <1>1 DEF InProgress
<1>3. /\ stack # <<>> /\ dies[id].kind \in Aggregate /\ id \in InProgress /\ id \in DOMAIN dies
      /\ n \in Nat /\ Len(dies[id].members) \in Nat /\ n < Len(dies[id].members)
      /\ Extended(id) \in VTypeInfo /\ vTypeInfo' = [vTypeInfo EXCEPT ![id] = Extended(id)]
      /\ Len(Extended(id).members) = n
      /\ \A j \in 1 .. n : Extended(id).members[j] = dies[id].members[j]
      /\ Extended(id) = [Opened(id) EXCEPT !.members = Extended(id).members]
  BY MemberFacts
<1> HIDE DEF n
<1>4. vTypeInfo \in [DOMAIN dies -> VTypeInfo] /\ stack \in Seq(snVisited) /\ IsInjective(stack)
  BY DEF Inv, TypeOK
<1>5. /\ vTypeInfo'[id] = Extended(id) /\ vTypeInfo' \in [DOMAIN dies -> VTypeInfo]
      /\ \A a \in DOMAIN dies \ {id} : vTypeInfo'[a] = vTypeInfo[a]
  BY <1>3, <1>4
<1>6. Nested(id)[n + 1] \in Nat
  <2>1. Nested(id) \in Seq(Nat) /\ Len(Nested(id)) = Len(dies[id].members)
    BY <1>3, NestedTypes DEF Inv
  <2>2. n + 1 \in 1 .. Len(Nested(id))
    BY <1>3, <2>1
  <2> QED BY <2>1, <2>2
<1>7. TypeOK'
  <2>1. at' \in [op : {"call"}, arg : Nat]
    BY <1>1, <1>6 DEF Call
  <2> QED BY <1>1, <1>4, <1>5, <2>1, Constant DEF Inv, TypeOK
<1>8. Untouched' /\ WellFormed(dies)'
  <2>1. id \in snVisited
    BY <1>3, OnStack
  <2> QED BY <1>1, <1>5, <2>1, Constant DEF Inv, Untouched
<1>9. Waiting'
  <2>1. InProgress \subseteq DOMAIN dies
    BY OnStack
  <2>2. Nested(id) # <<>>
    BY <1>3 DEF Inv, Waiting
  <2> QED BY <1>1, <1>2, <1>3, <1>5, <2>1, <2>2, Constant DEF Inv, Waiting
<1>10. Active'[id] = Nested(id)[n + 1]
  BY <1>1, <1>3, <1>5, Constant DEF Active
<1>11. \A a \in InProgress \ {id} : Active'[a] = Active[a]
  BY <1>1, <1>5, OnStack, Constant DEF Active
<1>12. Control'
  <2>1. \A i \in DOMAIN stack : i + 1 \in DOMAIN stack => stack[i] # id
    <3>1. Len(stack) \in Nat \ {0} /\ DOMAIN stack = 1 .. Len(stack) /\ stack[Len(stack)] = id
      BY <1>3, <1>4 DEF Last
    <3> QED BY <1>4, <3>1 DEF IsInjective
  <2>2. \A i \in DOMAIN stack : i + 1 \in DOMAIN stack => stack[i + 1] = Active'[stack[i]]
    BY <1>11, <2>1, OnStack DEF Inv, Control
  <2>3. at' # Idle /\ at' # Return /\ at'.arg = Active'[id]
    BY <1>1, <1>10 DEF Call, Idle, Return
  <2> QED BY <1>1, <2>2, <2>3 DEF Control
<1> QED BY <1>1, <1>2, <1>5, <1>7, <1>8, <1>9, <1>12 DEF Inv

(***************************************************************************)
(* What a step does.                                                       *)
(***************************************************************************)
\* The one type that a step writes to is not finished.
Writes(id, info) ==
  /\ dies' = dies /\ id \in DOMAIN dies \ Finished
  /\ vTypeInfo'[id] = info
  /\ \A a \in DOMAIN dies \ {id} : vTypeInfo'[a] = vTypeInfo[a]

\* What a type is when its call returns.
Result(id, info) ==
  \/ /\ Nested(id) = <<>> /\ dies[id].kind # "array"
     /\ info = [Opened(id) EXCEPT !.name = LeafName(id)]
  \/ /\ dies[id].kind \in {"pointer", "array", "subroutine"} /\ Nested(id) # <<>>
     /\ info = Derived(id)
  \/ /\ dies[id].kind \in Alias /\ Nested(id) # <<>>
     /\ info = Copied(Unresolved(id), vTypeInfo[Reference(id)])
  \/ /\ dies[id].kind \in Aggregate /\ Nested(id) # <<>>
     /\ info = [Opened(id) EXCEPT !.members = dies[id].members]

\* A type with a reference is on top of the stack, and as it was entered, when the
\* call for its target returns.
Awaited(id) ==
  dies[id].kind \notin Aggregate /\ Nested(id) # <<>> =>
    /\ stack # <<>> /\ id = Last(stack) /\ vTypeInfo[id] = Opened(id)
    /\ Reference(id) \in snVisited /\ Nested(id) = <<Reference(id)>>

\* The steps by what they write: nothing; a type entered; a member; the result
\* of a call.
Opens(id) ==
  /\ Writes(id, Opened(id)) /\ Finished' = Finished
  /\ stack' = Append(stack, id) /\ (stack # <<>> => id = Active[Last(stack)])
Extends(id) ==
  /\ Writes(id, Extended(id)) /\ Finished' = Finished /\ stack' = stack
  /\ dies[id].kind \in Aggregate /\ IsPrefix(Extended(id).members, dies[id].members)
Finishes(id) ==
  /\ Finished' = Finished \union {id} /\ Awaited(id)
  /\ stack' = stack \/ (stack # <<>> /\ stack' = Front(stack))
  /\ \E info : Writes(id, info) /\ Result(id, info)

\* Two sequences with the same elements are prefix and whole.
LEMMA Prefix ==
  ASSUME NEW S, NEW s \in Seq(S), NEW t \in Seq(S), Len(s) <= Len(t),
         \A i \in 1 .. Len(s) : s[i] = t[i]
  PROVE  IsPrefix(s, t) /\ (Len(s) = Len(t) => s = t)
BY DEF IsPrefix

\* Every step preserves the invariant, and writes to one type at most.
LEMMA Effect ==
  ASSUME Inv, [Next]_vars
  PROVE  /\ Inv'
         /\ \/ Quiet
            \/ \E id \in DOMAIN dies : Opens(id) \/ Extends(id) \/ Finishes(id)
<1>1. CASE \/ \E id \in todo : NextType(id)
           \/ TypeDone \/ Visited(at.arg) \/ GiveUp(at.arg) \/ UNCHANGED vars
  BY <1>1, QuietStep
<1>2. CASE Leaf(at.arg)
  <2> DEFINE id == at.arg
             info == [Opened(id) EXCEPT !.name = LeafName(id)]
  <2>1. Inv' /\ Writes(id, info) /\ Finished' = Finished \union {id} /\ id \in DOMAIN dies
    BY <1>2, LeafStep DEF Writes, Finished
  <2>2. Nested(id) = <<>> /\ dies[id].kind # "array" /\ stack' = stack
    BY <1>2 DEF Leaf
  <2>3. Finishes(id)
    BY <2>1, <2>2 DEF Finishes, Result, Awaited
  <2> QED BY <2>1, <2>3
<1>3. CASE Descend(at.arg)
  BY <1>3, DescendStep DEF Opens, Writes, Finished
<1>4. ASSUME at = Return, stack # <<>>, NEW info \in VTypeInfo, Finish(info), Result(Last(stack), info),
             Awaited(Last(stack))
      PROVE  Inv' /\ \E id \in DOMAIN dies : Finishes(id)
  <2> DEFINE id == Last(stack)
  <2>1. id \in InProgress /\ id \in snVisited /\ id \in DOMAIN dies
    BY <1>4, OnStack
  <2>2. /\ Inv' /\ Writes(id, info) /\ Finished' = Finished \union {id}
        /\ stack' = Front(stack)
    BY <1>4, <2>1, FinishStep DEF Writes, Finished
  <2> QED BY <1>4, <2>1, <2>2 DEF Finishes
<1>5. CASE DerivedBack
  <2> DEFINE id == Last(stack)
  <2>1. /\ at = Return /\ stack # <<>> /\ dies[id].kind \in {"pointer", "array", "subroutine"}
        /\ Derived(id) \in VTypeInfo /\ Finish(Derived(id))
    BY <1>5, DerivedStep
  <2>2. Awaited(id) /\ Nested(id) # <<>>
    <3>1. dies[id].kind \notin Aggregate
      BY <2>1 DEF Aggregate
    <3>2. Nested(id) # <<>>
      BY <2>1, OnStack DEF Inv, Waiting
    <3> QED BY <2>1, <3>1, <3>2, BackFacts DEF Awaited
  <2> QED BY <1>4, <2>1, <2>2 DEF Result
<1>6. CASE AliasBack
  <2> DEFINE id == Last(stack)
  <2>1. /\ at = Return /\ stack # <<>> /\ dies[id].kind \in Alias
        /\ Copied(Unresolved(id), vTypeInfo[Reference(id)]) \in VTypeInfo
        /\ Finish(Copied(Unresolved(id), vTypeInfo[Reference(id)]))
    BY <1>6, AliasStep
  <2>2. Awaited(id) /\ Nested(id) # <<>>
    <3>1. dies[id].kind \notin Aggregate
      BY <2>1 DEF Alias, Aggregate
    <3>2. Nested(id) # <<>>
      BY <2>1, OnStack DEF Inv, Waiting
    <3> QED BY <2>1, <3>1, <3>2, BackFacts DEF Awaited
  <2> QED BY <1>4, <2>1, <2>2 DEF Result
<1>7. CASE MemberBack
  <2> DEFINE id   == Last(stack)
             all  == dies[id].members
             n    == Len(vTypeInfo[id].members) + 1
             info == Extended(id)
  <2>1. /\ at = Return /\ stack # <<>> /\ dies[id].kind \in Aggregate
        /\ id \in InProgress /\ id \in DOMAIN dies
        /\ n \in Nat /\ Len(all) \in Nat /\ n <= Len(all) /\ all \in Seq(Member)
        /\ info \in VTypeInfo /\ Len(info.members) = n
        /\ \A j \in 1 .. n : info.members[j] = all[j]
        /\ info = [Opened(id) EXCEPT !.members = info.members]
    BY <1>7, MemberFacts
  <2>2. info.members \in Seq(Member)
    BY <2>1 DEF VTypeInfo
  <2> HIDE DEF info, n, all
  <2>3. IsPrefix(info.members, all) /\ (n = Len(all) => info.members = all)
    BY <2>1, <2>2, Prefix
  <2>4. CASE n < Len(all)
    <3>1. /\ Inv' /\ InProgress' = InProgress /\ snVisited' = snVisited
          /\ \A a \in DOMAIN dies \ {id} : vTypeInfo'[a] = vTypeInfo[a]
          /\ vTypeInfo'[id] = info /\ dies' = dies /\ stack' = stack
      BY <1>7, <2>4, NextMember DEF info, n, all
    <3>2. Writes(id, info) /\ Finished' = Finished
      BY <2>1, <3>1 DEF Writes, Finished
    <3>3. Extends(id)
      BY <2>1, <2>3, <3>1, <3>2 DEF Extends, info, all
    <3> QED BY <2>1, <3>1, <3>3
  <2>5. CASE ~(n < Len(all))
    <3>1. Finish(info)
      BY <1>7, <2>5, LastMember DEF info, n, all
    <3>2. info = [Opened(id) EXCEPT !.members = all]
      BY <2>1, <2>3, <2>5
    <3>3. Result(id, info)
      <4>1. Nested(id) # <<>>
        BY <2>1 DEF Inv, Waiting
      <4> QED BY <2>1, <3>2, <4>1 DEF Result, all
    <3>4. Awaited(id)
      BY <2>1 DEF Awaited
    <3> QED BY <1>4, <2>1, <3>1, <3>3, <3>4
  <2> QED BY <2>4, <2>5
<1> QED BY <1>1, <1>2, <1>3, <1>5, <1>6, <1>7 DEF Next, Enter, Stopped

\* The invariant holds in every behaviour.
LEMMA Invariant == Spec => []Inv
<1>1. Inv /\ [Next]_vars => Inv'
  BY Effect
<1> QED BY <1>1, Initial, PTL DEF Spec

(***************************************************************************)
(* The theorems.                                                           *)
(***************************************************************************)
\* The stack holds types of the unit that have been entered, none of them twice,
\* however the types refer to each other: the recursion never enters a type that
\* it is in, and what it computes of every type is a VTypeInfo.
THEOREM TypeCorrect == Spec => []TypeOK
<1>1. Inv => TypeOK
  BY DEF Inv
<1> QED BY <1>1, Invariant, PTL

\* Nothing writes to a type whose call is over.
THEOREM NoLateWrites == Spec => FinishedStays
<1>1. ASSUME Inv, [Next]_vars
      PROVE  \A id \in Finished : vTypeInfo'[id] = vTypeInfo[id]
  <2>1. Finished \subseteq DOMAIN dies
    BY <1>1, OnStack DEF Finished
  <2> QED BY <1>1, <2>1, Effect DEF Quiet, Opens, Extends, Finishes, Writes
<1>2. Inv /\ [Next]_vars => [\A id \in Finished : vTypeInfo'[id] = vTypeInfo[id]]_vars
  BY <1>1
<1> QED BY <1>2, Invariant, PTL DEF Spec, FinishedStays

\* A call returns with the tag, the reference and all the members of its type.
LEMMA ResultComplete ==
  ASSUME Inv, NEW id \in DOMAIN dies, NEW info, Result(id, info), Awaited(id)
  PROVE  dies[id].kind \notin Alias =>
           /\ info.typeTag = TypeTag(dies[id].kind)
           /\ info.refer = IF dies[id].kind = "enumeration" THEN NoType ELSE Reference(id)
           /\ info.members = dies[id].members
<1> SUFFICES ASSUME dies[id].kind \notin Alias
             PROVE  /\ info.typeTag = TypeTag(dies[id].kind)
                    /\ info.refer = IF dies[id].kind = "enumeration" THEN NoType ELSE Reference(id)
                    /\ info.members = dies[id].members
  OBVIOUS
<1>1. /\ WellFormedDie(dies[id]) /\ dies[id].members \in Seq(Member) /\ dies[id].kind \in Kind
  BY DEF Inv, WellFormed, TypeDie
<1>2. Opened(id) \in VTypeInfo
  BY <1>1, UnresolvedType, TagType DEF Inv, Opened
<1>3. /\ Opened(id).typeTag = TypeTag(dies[id].kind) /\ Opened(id).refer = NoType
      /\ Opened(id).members = <<>>
  BY DEF Opened, Unresolved
<1>4. CASE Nested(id) = <<>> /\ info = [Opened(id) EXCEPT !.name = LeafName(id)]
  <2>1. info.typeTag = Opened(id).typeTag /\ info.refer = NoType /\ info.members = <<>>
    BY <1>2, <1>3, <1>4 DEF VTypeInfo
  <2>2. dies[id].kind # "enumeration" => Reference(id) = NoType
    <3>1. CASE dies[id].kind \in Aggregate
      BY <1>1, <3>1 DEF WellFormedDie, Reference
    <3>2. CASE dies[id].kind \notin Aggregate
      BY <1>4, <3>2, NestedTypes DEF Inv
    <3> QED BY <3>1, <3>2
  <2>3. dies[id].members = <<>>
    <3>1. CASE dies[id].kind \in Aggregate
      <4>1. Len(Nested(id)) = Len(dies[id].members)
        BY <3>1, NestedTypes DEF Inv
      <4> QED BY <1>1, <1>4, <4>1
    <3>2. CASE dies[id].kind \notin Aggregate
      BY <1>1, <3>2 DEF WellFormedDie
    <3> QED BY <3>1, <3>2
  <2> QED BY <1>3, <2>1, <2>2, <2>3
<1>5. CASE dies[id].kind \in {"pointer", "array", "subroutine"} /\ info = Derived(id)
  <2>1. dies[id].kind \notin Aggregate /\ dies[id].kind # "enumeration"
    BY <1>5 DEF Aggregate
  <2>2. info.typeTag = Opened(id).typeTag /\ info.refer = Reference(id) /\ info.members = <<>>
    BY <1>2, <1>3, <1>5 DEF Derived, VTypeInfo
  <2>3. dies[id].members = <<>>
    BY <1>1, <2>1 DEF WellFormedDie
  <2> QED BY <1>3, <2>1, <2>2, <2>3
<1>6. CASE dies[id].kind \in Aggregate /\ info = [Opened(id) EXCEPT !.members = dies[id].members]
  <2>1. /\ info.typeTag = Opened(id).typeTag /\ info.refer = NoType
        /\ info.members = dies[id].members
    BY <1>2, <1>3, <1>6 DEF VTypeInfo
  <2>2. Reference(id) = NoType /\ dies[id].kind # "enumeration"
    BY <1>1, <1>6 DEF WellFormedDie, Reference, Aggregate
  <2> QED BY <1>3, <2>1, <2>2
<1> QED BY <1>4, <1>5, <1>6 DEF Result

\* A finished type has its tag, its reference and every member, whatever cycle
\* it is on and wherever initVTypeInfo entered the cycle.
THEOREM OwnTypesComplete == Spec => []OwnComplete
<1>1. Init => OwnComplete
  BY DEF Init, OwnComplete, Finished
<1>2. ASSUME Inv, OwnComplete, [Next]_vars PROVE OwnComplete'
  <2>1. Finished \subseteq DOMAIN dies
    BY <1>2, OnStack DEF Finished
  <2>2. CASE Quiet
    BY <1>2, <2>2, Constant DEF OwnComplete, Quiet, Finished, InProgress
  <2>3. ASSUME NEW id \in DOMAIN dies, Opens(id) \/ Extends(id) PROVE OwnComplete'
    BY <1>2, <2>1, <2>3, Constant DEF OwnComplete, Opens, Extends, Writes
  <2>4. ASSUME NEW id \in DOMAIN dies, Finishes(id) PROVE OwnComplete'
    <3>1. PICK info : Writes(id, info) /\ Result(id, info)
      BY <2>4 DEF Finishes
    <3>2. /\ Finished' = Finished \union {id} /\ dies' = dies /\ vTypeInfo'[id] = info
          /\ \A a \in Finished : vTypeInfo'[a] = vTypeInfo[a]
      BY <2>1, <2>4, <3>1 DEF Finishes, Writes
    <3>3. Awaited(id)
      BY <2>4 DEF Finishes
    <3>4. \A a \in Finished : dies[a].kind \notin Alias =>
            /\ vTypeInfo'[a].typeTag = TypeTag(dies[a].kind)
            /\ vTypeInfo'[a].refer = IF dies[a].kind = "enumeration" THEN NoType ELSE Reference(a)
            /\ vTypeInfo'[a].members = dies[a].members
      BY <1>2, <3>2 DEF OwnComplete
    <3>5. dies[id].kind \notin Alias =>
            /\ vTypeInfo'[id].typeTag = TypeTag(dies[id].kind)
            /\ vTypeInfo'[id].refer = IF dies[id].kind = "enumeration" THEN NoType ELSE Reference(id)
            /\ vTypeInfo'[id].members = dies[id].members
      BY <1>2, <3>1, <3>2, <3>3, ResultComplete
    <3> QED BY <3>2, <3>4, <3>5, Constant DEF OwnComplete
  <2> QED BY <1>2, <2>2, <2>3, <2>4, Effect
<1> QED BY <1>1, <1>2, Invariant, PTL DEF Spec

\* What a type has whether its call is over or not: an aggregate its own name and
\* idents, and any type a part of the members that its idents name.
Kept(id, info) ==
  /\ dies[id].kind \in Aggregate => info.name = OwnName(id)
  /\ IsPrefix(info.members, info.memberIdents)

\* Everything that a step writes has it.
LEMMA KeptWrites ==
  ASSUME Inv, \A a \in DOMAIN dies : Kept(a, vTypeInfo[a]), NEW id \in DOMAIN dies
  PROVE  /\ Kept(id, Unresolved(id)) /\ Kept(id, Opened(id))
         /\ Extends(id) => Kept(id, Extended(id))
         /\ \A info : Result(id, info) /\ Awaited(id) => Kept(id, info)
<1>1. dies[id].members \in Seq(Member) /\ dies[id].kind \in Kind
  BY DEF Inv, WellFormed, TypeDie
<1>2. Unresolved(id) \in VTypeInfo /\ Opened(id) \in VTypeInfo
  BY <1>1, UnresolvedType, TagType DEF Inv, Opened
<1>3. /\ Unresolved(id).name = OwnName(id) /\ Unresolved(id).members = <<>>
      /\ dies[id].kind \in Aggregate => Unresolved(id).memberIdents = dies[id].members
  BY DEF Unresolved
<1>4. /\ Opened(id).name = OwnName(id) /\ Opened(id).members = <<>>
      /\ Opened(id).memberIdents = Unresolved(id).memberIdents
      /\ Unresolved(id).memberIdents \in Seq(Member)
  BY <1>2, <1>3 DEF Opened, VTypeInfo
<1>5. IsPrefix(<<>>, Unresolved(id).memberIdents)
  <2>1. \A s \in Seq(Member) : IsPrefix(<<>>, s)
    BY DEF IsPrefix
  <2> QED BY <1>4, <2>1
<1>6. Kept(id, Unresolved(id)) /\ Kept(id, Opened(id))
  BY <1>3, <1>4, <1>5 DEF Kept
<1>7. ASSUME dies[id].kind \in Aggregate, NEW ms \in Seq(Member), IsPrefix(ms, dies[id].members)
      PROVE  Kept(id, [Opened(id) EXCEPT !.members = ms])
  <2> DEFINE info == [Opened(id) EXCEPT !.members = ms]
  <2>1. /\ info.name = Opened(id).name /\ info.members = ms
        /\ info.memberIdents = Opened(id).memberIdents
    BY <1>2 DEF VTypeInfo
  <2> HIDE DEF info
  <2>2. Kept(id, info)
    BY <1>3, <1>4, <1>7, <2>1 DEF Kept
  <2> QED BY <2>2 DEF info
<1>8. Extends(id) => Kept(id, Extended(id))
  <2> SUFFICES ASSUME Extends(id) PROVE Kept(id, Extended(id))
    OBVIOUS
  <2> DEFINE ms == Append(vTypeInfo[id].members, dies[id].members[Len(vTypeInfo[id].members) + 1])
  <2>1. Extended(id) = [Opened(id) EXCEPT !.members = ms]
    BY DEF Extended
  <2>2. Extended(id).members = ms
    BY <1>2, <2>1 DEF VTypeInfo
  <2> HIDE DEF ms
  <2>3. Extended(id).name = Opened(id).name /\ Extended(id).memberIdents = Opened(id).memberIdents
    BY <1>2, <2>1 DEF VTypeInfo
  <2>4. dies[id].kind \in Aggregate /\ IsPrefix(Extended(id).members, dies[id].members)
    BY DEF Extends
  <2> QED BY <1>3, <1>4, <2>3, <2>4 DEF Kept
<1>9. ASSUME NEW info, Result(id, info), Awaited(id) PROVE Kept(id, info)
  <2>1. CASE Nested(id) = <<>> /\ info = [Opened(id) EXCEPT !.name = LeafName(id)]
    <3>1. dies[id].kind \in Aggregate => LeafName(id) = OwnName(id)
      BY DEF Aggregate, LeafName, TypeTag
    <3>2. /\ info.name = LeafName(id) /\ info.members = Opened(id).members
          /\ info.memberIdents = Opened(id).memberIdents
      BY <1>2, <2>1 DEF VTypeInfo
    <3> QED BY <1>4, <1>5, <3>1, <3>2 DEF Kept
  <2>2. CASE dies[id].kind \in {"pointer", "array", "subroutine"} /\ info = Derived(id)
    <3>1. dies[id].kind \notin Aggregate
      BY <2>2 DEF Aggregate
    <3>2. info.members = Opened(id).members /\ info.memberIdents = Opened(id).memberIdents
      BY <1>2, <2>2 DEF VTypeInfo, Derived
    <3> QED BY <1>4, <1>5, <3>1, <3>2 DEF Kept
  <2>3. CASE dies[id].kind \in Alias /\ Nested(id) # <<>> /\ info = Copied(Unresolved(id), vTypeInfo[Reference(id)])
    <3>1. dies[id].kind \notin Aggregate
      BY <2>3 DEF Aggregate, Alias
    <3> DEFINE target == vTypeInfo[Reference(id)]
    <3>2. Reference(id) \in DOMAIN dies
      BY <1>9, <3>1, <2>3, OnStack DEF Awaited
    <3>3. IsPrefix(target.members, target.memberIdents) /\ target \in VTypeInfo
      BY <3>2 DEF Kept, Inv, TypeOK
    <3> HIDE DEF target
    <3>4. \/ /\ Copied(Unresolved(id), target).members = target.members
             /\ Copied(Unresolved(id), target).memberIdents = target.memberIdents
          \/ /\ Copied(Unresolved(id), target).members = Unresolved(id).members
             /\ Copied(Unresolved(id), target).memberIdents = Unresolved(id).memberIdents
      BY <1>2 DEF VTypeInfo, Copied
    <3> QED BY <1>3, <1>5, <2>3, <3>1, <3>3, <3>4 DEF Kept, target
  <2>4. CASE dies[id].kind \in Aggregate /\ info = [Opened(id) EXCEPT !.members = dies[id].members]
    <3>1. IsPrefix(dies[id].members, dies[id].members)
      BY <1>1, Prefix
    <3> QED BY <1>1, <1>7, <2>4, <3>1
  <2> QED BY <1>9, <2>1, <2>2, <2>3, <2>4 DEF Result
<1> QED BY <1>6, <1>8, <1>9

\* So it holds of every type at any time.
LEMMA KeptAlways == Spec => [](\A a \in DOMAIN dies : Kept(a, vTypeInfo[a]))
<1> DEFINE All == \A a \in DOMAIN dies : Kept(a, vTypeInfo[a])
<1>1. ASSUME Init PROVE All
  <2>1. Inv
    BY <1>1, Initial
  <2> TAKE a \in DOMAIN dies
  <2>2. dies[a].members \in Seq(Member) /\ Unresolved(a) \in VTypeInfo
    BY <2>1, UnresolvedType DEF Inv, WellFormed, TypeDie
  <2>3. Unresolved(a).memberIdents \in Seq(Member)
    BY <2>2 DEF VTypeInfo
  <2>4. \A s \in Seq(Member) : IsPrefix(<<>>, s)
    BY DEF IsPrefix
  <2>5. Unresolved(a).name = OwnName(a) /\ Unresolved(a).members = <<>>
    BY DEF Unresolved
  <2>6. vTypeInfo[a] = Unresolved(a)
    BY <1>1 DEF Init
  <2> QED BY <2>3, <2>4, <2>5, <2>6 DEF Kept
<1>2. ASSUME Inv, All, [Next]_vars PROVE All'
  <2>2. CASE Quiet
    BY <1>2, <2>2, Constant DEF Quiet, Kept
  <2>3. ASSUME NEW id \in DOMAIN dies, NEW info, Writes(id, info), Kept(id, info) PROVE All'
    <3>1. dies' = dies /\ vTypeInfo'[id] = info
      BY <2>3 DEF Writes
    <3>2. \A a \in DOMAIN dies \ {id} : vTypeInfo'[a] = vTypeInfo[a]
      BY <2>3 DEF Writes
    <3>3. \A a \in DOMAIN dies : Kept(a, vTypeInfo'[a])
      BY <1>2, <2>3, <3>1, <3>2
    <3> QED BY <3>1, <3>3, Constant DEF Kept
  <2>4. ASSUME NEW id \in DOMAIN dies, Opens(id) \/ Extends(id) \/ Finishes(id) PROVE All'
    <3>1. \E info : Writes(id, info) /\ Kept(id, info)
      BY <1>2, <2>4, KeptWrites DEF Opens, Extends, Finishes
    <3> QED BY <2>3, <3>1
  <2> HIDE DEF All
  <2> QED BY <1>2, <2>2, <2>4, Effect
<1> QED BY <1>1, <1>2, Invariant, PTL DEF Spec

\* The resolved members of any type, a copy of a structure in progress or not,
\* are the first of those it should have.
THEOREM MembersPrefix == Spec => []MembersArePrefix
<1>1. (\A a \in DOMAIN dies : Kept(a, vTypeInfo[a])) => MembersArePrefix
  BY DEF Kept, MembersArePrefix
<1> QED BY <1>1, KeptAlways, PTL

(***************************************************************************)
(* Which targets may have been in progress.                                *)
(***************************************************************************)
\* The recursion started at a type of the stack comes to those above it.
Path ==
  \A i, j \in DOMAIN stack : i <= j =>
     \A a, b \in DOMAIN dies : a = stack[i] /\ b = stack[j] => Reaches(a, b)

\* What is reached from a type is reached along its nested calls.
LEMMA Reach ==
  ASSUME NEW a, NEW b \in DOMAIN dies
  PROVE  Reaches(a, a) /\ (Reaches(a, b) => \A i \in DOMAIN Nested(b) : Reaches(a, Nested(b)[i]))
BY DEF Reaches, Closed

\* The call that a type in progress waits for is one of its nested calls.
LEMMA ActiveNested ==
  ASSUME Inv, NEW id \in InProgress
  PROVE  \E i \in DOMAIN Nested(id) : Active[id] = Nested(id)[i]
<1>1. id \in DOMAIN dies
  BY OnStack
<1>2. Nested(id) # <<>>
  BY DEF Inv, Waiting
<1>3. CASE dies[id].kind \in Aggregate
  <2>1. /\ Nested(id) \in Seq(Nat) /\ Len(Nested(id)) = Len(dies[id].members)
        /\ Len(vTypeInfo[id].members) < Len(dies[id].members)
        /\ vTypeInfo[id].members \in Seq(Member)
    BY <1>1, <1>3, NestedTypes DEF Inv, Waiting, TypeOK, VTypeInfo
  <2>2. Len(vTypeInfo[id].members) + 1 \in DOMAIN Nested(id)
    BY <2>1
  <2>3. Active[id] = Nested(id)[Len(vTypeInfo[id].members) + 1]
    BY <1>1, <1>3 DEF Active
  <2> QED BY <2>2, <2>3
<1>4. CASE dies[id].kind \notin Aggregate
  <2>1. Active[id] = Nested(id)[1]
    BY <1>1, <1>4 DEF Active
  <2>2. Nested(id) = <<Reference(id)>>
    BY <1>1, <1>2, <1>4, NestedTypes DEF Inv
  <2> QED BY <2>1, <2>2
<1> QED BY <1>3, <1>4

\* The stack is a path in the graph of types.
LEMMA PathAlways == Spec => []Path
<1>1. Init => Path
  BY DEF Init, Path
<1>2. ASSUME Inv, Path, [Next]_vars PROVE Path'
  <2>1. dies' = dies => \A a, b : Reaches(a, b)' <=> Reaches(a, b)
    BY Constant DEF Reaches, Closed
  <2>2. stack \in Seq(snVisited) /\ \A i \in DOMAIN stack : stack[i] \in DOMAIN dies
    BY <1>2, OnStack DEF Inv, TypeOK
  <2>3. CASE dies' = dies /\ stack' = stack
    BY <1>2, <2>1, <2>3 DEF Path
  <2>4. CASE dies' = dies /\ stack # <<>> /\ stack' = Front(stack)
    <3>1. DOMAIN stack' \subseteq DOMAIN stack /\ \A i \in DOMAIN stack' : stack'[i] = stack[i]
      BY <2>2, <2>4, Pop
    <3> QED BY <1>2, <2>1, <2>4, <3>1 DEF Path
  <2>5. ASSUME NEW id \in DOMAIN dies, dies' = dies, stack' = Append(stack, id),
               stack # <<>> => id = Active[Last(stack)]
        PROVE  Path'
    <3>1. /\ Len(stack) \in Nat /\ DOMAIN stack = 1 .. Len(stack)
          /\ DOMAIN stack' = DOMAIN stack \union {Len(stack) + 1} /\ stack'[Len(stack) + 1] = id
          /\ \A i \in DOMAIN stack : stack'[i] = stack[i]
      BY <2>2, <2>5
    <3>2. \A i \in DOMAIN stack : Reaches(stack[i], id)
      <4> TAKE i \in DOMAIN stack
      <4> DEFINE top == Last(stack)
      <4>1. stack # <<>> /\ Len(stack) \in DOMAIN stack /\ top = stack[Len(stack)] /\ i <= Len(stack)
        BY <3>1 DEF Last
      <4>2. top \in InProgress /\ top \in DOMAIN dies /\ stack[i] \in DOMAIN dies
        BY <1>2, <2>2, <4>1, OnStack
      <4> HIDE DEF top
      <4>3. Reaches(stack[i], top)
        BY <1>2, <4>1, <4>2 DEF Path
      <4>4. PICK k \in DOMAIN Nested(top) : Active[top] = Nested(top)[k]
        BY <1>2, <4>2, ActiveNested
      <4>5. id = Nested(top)[k]
        BY <2>5, <4>1, <4>4 DEF top
      <4> QED BY <4>2, <4>3, <4>5, Reach
    <3>3. Reaches(id, id)
      BY Reach
    <3>4. ASSUME NEW i \in DOMAIN stack', NEW j \in DOMAIN stack', i <= j
          PROVE  \A a, b \in DOMAIN dies : a = stack'[i] /\ b = stack'[j] => Reaches(a, b)
      <4>1. CASE j \in DOMAIN stack
        BY <1>2, <3>1, <3>4, <4>1 DEF Path
      <4>2. CASE j = Len(stack) + 1 /\ i \in DOMAIN stack
        BY <3>1, <3>2, <4>2
      <4>3. CASE j = Len(stack) + 1 /\ i = Len(stack) + 1
        BY <3>1, <3>3, <4>3
      <4> QED BY <3>1, <3>4, <4>1, <4>2, <4>3
    <3> QED BY <2>1, <2>5, <3>4 DEF Path
  <2> QED BY <1>2, <2>3, <2>4, <2>5, Effect DEF Quiet, Opens, Extends, Finishes, Writes
<1> QED BY <1>1, <1>2, Invariant, PTL DEF Spec

\* Why a finished type agrees with its target for good: the target is finished;
\* or only the name counts, and that of an aggregate never changes; or, for the
\* others, the target may have been in progress.
Agreement(id) ==
  dies[id].kind \notin Aggregate /\ Nested(id) # <<>> =>
    \/ Agrees(id) /\ Reference(id) \in Finished
    \/ /\ Agrees(id) /\ dies[id].kind \notin Alias
       /\ Reference(id) \in DOMAIN dies /\ dies[Reference(id)].kind \in Aggregate
    \/ /\ Reaches(Reference(id), id)
       /\ dies[id].kind \in Alias \/ dies[Reference(id)].kind \notin Aggregate

\* A type agrees with a target as long as neither is written to.
LEMMA AgreesStays ==
  ASSUME NEW id, dies' = dies, vTypeInfo'[id] = vTypeInfo[id],
         \/ vTypeInfo'[Reference(id)] = vTypeInfo[Reference(id)]
         \/ /\ dies[id].kind \notin Alias
            /\ vTypeInfo'[Reference(id)].name = vTypeInfo[Reference(id)].name
  PROVE  Agrees(id)' <=> Agrees(id)
<1>1. Reference(id)' = Reference(id) /\ Unresolved(id)' = Unresolved(id)
  BY Constant
<1>2. \A name : DerivedName(id, name)' = DerivedName(id, name)
  BY DEF DerivedName
<1> QED BY <1>1, <1>2 DEF Agrees

\* When the call for a type with a reference returns, the type agrees with its
\* target, unless that is the type itself.
LEMMA ResultAgrees ==
  ASSUME Inv, NEW id \in DOMAIN dies, NEW info, Writes(id, info), Result(id, info),
         dies[id].kind \notin Aggregate, Nested(id) # <<>>,
         vTypeInfo[id] = Opened(id), Reference(id) \in DOMAIN dies, Reference(id) # id
  PROVE  Agrees(id)'
<1> DEFINE target == vTypeInfo[Reference(id)]
<1>1. Reference(id)' = Reference(id) /\ Unresolved(id)' = Unresolved(id) /\ dies' = dies
  BY Constant DEF Writes
<1>2. vTypeInfo'[id] = info /\ vTypeInfo'[Reference(id)] = target
  BY DEF Writes
<1>3. CASE dies[id].kind \in Alias
  <2>1. info = Copied(Unresolved(id), target)
    BY <1>3 DEF Result, Alias
  <2> QED BY <1>1, <1>2, <1>3, <2>1 DEF Agrees
<1>4. CASE dies[id].kind \notin Alias
  <2>1. info = Derived(id)
    BY <1>4 DEF Result
  <2>2. Opened(id) \in VTypeInfo
    BY UnresolvedType, TagType DEF Inv, WellFormed, TypeDie, Opened
  <2>3. info.name = DerivedName(id, target.name) /\ info.arrayBound = Opened(id).arrayBound
    BY <2>1, <2>2 DEF Derived, VTypeInfo
  <2>4. vTypeInfo'[id].arrayBound = vTypeInfo[id].arrayBound
    BY <1>2, <2>3
  <2>5. \A name : DerivedName(id, name)' = DerivedName(id, name)
    BY <1>1, <2>4 DEF DerivedName
  <2> QED BY <1>1, <1>2, <1>4, <2>3, <2>5 DEF Agrees
<1> QED BY <1>3, <1>4

\* A type reads its target when that is complete, and agrees with it ever after,
\* unless the recursion from the target comes back to the type.  In this the name
\* of an aggregate can be relied on while it is in progress.
THEOREM TargetsAgreement == Spec => []TargetsAgree
<1> DEFINE All == \A a \in DOMAIN dies : Kept(a, vTypeInfo[a])
           Agreed == \A id \in Finished : Agreement(id)
<1>1. Init => Agreed
  BY DEF Init, Finished
<1>2. ASSUME Inv, All, All', Path, Agreed, [Next]_vars PROVE Agreed'
  <2>1. Finished \subseteq DOMAIN dies
    BY <1>2, OnStack DEF Finished
  <2>2. CASE Quiet
    <3>1. Finished' = Finished
      BY <2>2 DEF Quiet, Finished, InProgress
    <3>2. \A id : Agreement(id)' <=> Agreement(id)
      BY <2>2, Constant DEF Quiet, Agreement, Agrees, DerivedName, Reaches, Closed, Finished, InProgress
    <3> QED BY <1>2, <3>1, <3>2
  <2>3. ASSUME NEW id \in DOMAIN dies, Opens(id) \/ Extends(id) \/ Finishes(id), NEW a \in Finished
        PROVE  Agreement(a)'
    <3>1. PICK info : Writes(id, info)
      BY <2>3 DEF Opens, Extends, Finishes
    <3>2. /\ dies' = dies /\ a # id /\ vTypeInfo'[a] = vTypeInfo[a] /\ Finished \subseteq Finished'
          /\ \A b \in Finished : vTypeInfo'[b] = vTypeInfo[b]
      BY <2>1, <2>3, <3>1 DEF Writes, Opens, Extends, Finishes
    <3>3. Agreement(a)
      BY <1>2
    <3>4. Reference(a)' = Reference(a) /\ Nested(a)' = Nested(a)
      BY <3>2, Constant
    <3>5. CASE Agrees(a) /\ Reference(a) \in Finished
      <4>1. Agrees(a)'
        BY <3>2, <3>5, AgreesStays
      <4> QED BY <3>2, <3>4, <3>5, <4>1 DEF Agreement
    <3>6. CASE /\ Agrees(a) /\ dies[a].kind \notin Alias
               /\ Reference(a) \in DOMAIN dies /\ dies[Reference(a)].kind \in Aggregate
      <4>1. vTypeInfo'[Reference(a)].name = vTypeInfo[Reference(a)].name
        <5>1. vTypeInfo[Reference(a)].name = OwnName(Reference(a))
          BY <1>2, <3>6 DEF Kept
        <5>2. \A b \in DOMAIN dies : dies[b].kind \in Aggregate => vTypeInfo'[b].name = OwnName(b)
          BY <1>2, <3>2, Constant DEF Kept
        <5> QED BY <3>6, <5>1, <5>2
      <4>2. Agrees(a)'
        BY <3>2, <3>6, <4>1, AgreesStays
      <4> QED BY <3>2, <3>4, <3>6, <4>2 DEF Agreement
    <3>7. CASE /\ Reaches(Reference(a), a)
               /\ dies[a].kind \in Alias \/ dies[Reference(a)].kind \notin Aggregate
      <4>1. \A b, c : Reaches(b, c)' <=> Reaches(b, c)
        BY <3>2, Constant DEF Reaches, Closed
      <4>2. Reaches(Reference(a), a)'
        BY <3>4, <3>7, <4>1
      <4> QED BY <3>2, <3>4, <3>7, <4>2 DEF Agreement
    <3>8. CASE ~(dies[a].kind \notin Aggregate /\ Nested(a) # <<>>)
      BY <3>2, <3>4, <3>8 DEF Agreement
    <3> QED BY <3>3, <3>5, <3>6, <3>7, <3>8 DEF Agreement
  <2>4. ASSUME NEW id \in DOMAIN dies, Finishes(id) PROVE Agreement(id)'
    <3> DEFINE r == Reference(id)
    <3>1. PICK info : Writes(id, info) /\ Result(id, info)
      BY <2>4 DEF Finishes
    <3>2. dies' = dies /\ Finished' = Finished \union {id}
      BY <2>4, <3>1 DEF Finishes, Writes
    <3>3. Reference(id)' = r /\ Nested(id)' = Nested(id)
      BY <3>2, Constant
    <3>4. SUFFICES ASSUME dies[id].kind \notin Aggregate, Nested(id) # <<>> PROVE Agreement(id)'
      BY <3>2, <3>3 DEF Agreement
    <3>5. /\ stack # <<>> /\ id = Last(stack) /\ vTypeInfo[id] = Opened(id)
          /\ r \in snVisited /\ r \in DOMAIN dies
      BY <1>2, <2>4, <3>4, OnStack DEF Finishes, Awaited
    <3>6. ASSUME Reaches(r, id), dies[id].kind \in Alias \/ dies[r].kind \notin Aggregate
          PROVE  Agreement(id)'
      <4>1. \A b, c : Reaches(b, c)' <=> Reaches(b, c)
        BY <3>2, Constant DEF Reaches, Closed
      <4> HIDE DEF r
      <4>2. Reaches(Reference(id), id)'
        BY <3>3, <3>6, <4>1
      <4> QED BY <3>2, <3>3, <3>6, <4>2 DEF Agreement
    <3>7. CASE r = id
      BY <3>4, <3>5, <3>6, <3>7, Reach
    <3>8. CASE r # id
      <4>1. Agrees(id)'
        BY <1>2, <3>1, <3>4, <3>5, <3>8, ResultAgrees
      <4>2. CASE r \in Finished
        BY <3>2, <3>3, <4>1, <4>2 DEF Agreement
      <4>3. CASE r \in InProgress
        <5>1. PICK i \in DOMAIN stack : stack[i] = r
          BY <4>3 DEF InProgress
        <5>2. Len(stack) \in DOMAIN stack /\ stack[Len(stack)] = id /\ i <= Len(stack)
          BY <1>2, <3>5 DEF Inv, TypeOK, Last
        <5>3. Reaches(r, id)
          BY <1>2, <3>5, <5>1, <5>2 DEF Path
        <5>4. CASE dies[id].kind \in Alias \/ dies[r].kind \notin Aggregate
          BY <3>6, <5>3, <5>4
        <5>5. CASE dies[id].kind \notin Alias /\ dies[r].kind \in Aggregate
          BY <3>2, <3>3, <3>5, <4>1, <5>5 DEF Agreement
        <5> QED BY <5>4, <5>5
      <4> QED BY <3>5, <4>2, <4>3 DEF Finished
    <3> QED BY <3>7, <3>8
  <2>5. ASSUME NEW id \in DOMAIN dies, Opens(id) \/ Extends(id) \/ Finishes(id) PROVE Agreed'
    <3>1. Finished' = Finished \/ (Finishes(id) /\ Finished' = Finished \union {id})
      BY <2>5 DEF Opens, Extends, Finishes
    <3> QED BY <2>3, <2>4, <2>5, <3>1
  <2> HIDE DEF Agreed, All
  <2> QED BY <1>2, <2>2, <2>5, Effect
<1>3. Agreed => TargetsAgree
  BY DEF Agreement, TargetsAgree
<1> HIDE DEF Agreed
<1> QED BY <1>1, <1>2, <1>3, Invariant, KeptAlways, PathAlways, PTL DEF Spec

-----------------------------------------------------------------------------
(***************************************************************************)
(* The resolution and the linker together.                                 *)
(***************************************************************************)

(***************************************************************************)
(* The input.                                                              *)
(***************************************************************************)
\* The recursion visits the successors.
LEMMA SameSuccessors ==
  ASSUME WellFormed(dies), NEW id \in DOMAIN dies
  PROVE  Successors(dies, id) = {Nested(id)[i] : i \in DOMAIN Nested(id)}
<1> DEFINE d == dies[id]
<1>1. WellFormedDie(d) /\ d.type \in Nat /\ d.members \in Seq(Member)
  BY DEF WellFormed, TypeDie
<1> HIDE DEF d
<1>2. Successors(dies, id) = {d.members[i].type : i \in DOMAIN d.members}
        \union (IF d.kind = "enumeration" THEN {} ELSE {d.type} \ {NoType})
  BY DEF Successors, d
<1>3. Nested(id) = IF d.kind \in Aggregate THEN [i \in DOMAIN d.members |-> d.members[i].type]
                   ELSE IF d.kind = "enumeration" \/ d.type = NoType THEN <<>> ELSE <<d.type>>
  BY DEF Nested, Reference, d
<1>4. CASE d.kind \in Aggregate
  <2>1. d.type = NoType
    BY <1>1, <1>4 DEF WellFormedDie
  <2> QED
    BY <1>2, <1>3, <1>4, <2>1
<1>5. CASE d.kind \notin Aggregate
  <2>1. d.members = <<>>
    BY <1>1, <1>5 DEF WellFormedDie
  <2>2. {d.members[i].type : i \in DOMAIN d.members} = {}
    BY <2>1
  <2>3. CASE d.kind = "enumeration" \/ d.type = NoType
    <3>1. Nested(id) = <<>> /\ Successors(dies, id) = {}
      BY <1>2, <1>3, <1>5, <2>2, <2>3
    <3> QED
      BY <3>1
  <2>4. CASE d.kind # "enumeration" /\ d.type # NoType
    <3>1. Nested(id) = <<d.type>> /\ Successors(dies, id) = {d.type}
      BY <1>2, <1>3, <1>5, <2>2, <2>4
    <3>2. \A t : DOMAIN <<t>> = {1} /\ <<t>>[1] = t
      OBVIOUS
    <3>3. DOMAIN Nested(id) = {1} /\ Nested(id)[1] = d.type
      BY <3>1, <3>2
    <3> QED
      BY <3>1, <3>3
  <2> QED
    BY <2>3, <2>4
<1> QED
  BY <1>4, <1>5

\* An alias is not met again by the recursion from its target, and a derived
\* type only from a structure or union.
LEMMA Timeliness ==
  ASSUME dies \in Inputs, NEW id \in DOMAIN dies, dies[id].kind \notin Aggregate, Nested(id) # <<>>,
         Reaches(Reference(id), id)
  PROVE  dies[id].kind \notin Alias /\ dies[Reference(id)].kind \in Aggregate
<1>1. WellFormed(dies) /\ Timely(dies)
  BY InputsAssumption, UnitsAssumption
<1>2. \A a \in DOMAIN dies : Successors(dies, a) = {Nested(a)[i] : i \in DOMAIN Nested(a)}
  BY <1>1, SameSuccessors
<1>3. \A S \in SUBSET DOMAIN dies :
        (\A a \in S : Successors(dies, a) \subseteq S) => Closed(S)
  BY <1>2 DEF Closed
<1>4. Circular(dies, id)
  BY <1>3 DEF Reaches, Circular, Reference
<1>5. Successors(dies, id) # {}
  <2>1. Nested(id) = <<Reference(id)>>
    BY <1>1, NestedTypes
  <2>2. 1 \in DOMAIN Nested(id)
    BY <2>1
  <2> QED
    BY <1>2, <2>2
<1> QED
  BY <1>1, <1>4, <1>5 DEF Timely, Reference

\* Sequences that differ before an append differ after it.
LEMMA Appended ==
  ASSUME NEW S, NEW s \in Seq(S), NEW t \in Seq(S), NEW x, NEW y
  PROVE  Append(s, x) # <<>> /\ (Append(s, x) = Append(t, y) => s = t /\ x = y)
<1> DEFINE X == S \union {x, y}
<1>1. s \in Seq(X) /\ t \in Seq(X) /\ x \in X /\ y \in X
  OBVIOUS
<1> HIDE DEF X
<1>2. Len(Append(s, x)) = Len(s) + 1 /\ Append(s, x)[Len(s) + 1] = x
  BY <1>1
<1>3. Len(Append(t, y)) = Len(t) + 1 /\ Append(t, y)[Len(t) + 1] = y
  BY <1>1
<1>4. ASSUME Append(s, x) = Append(t, y) PROVE s = t /\ x = y
  <2>1. Len(s) = Len(t) /\ x = y
    BY <1>1, <1>2, <1>3, <1>4
  <2>2. \A i \in 1 .. Len(s) : s[i] = t[i]
    <3>1. \A i \in 1 .. Len(s) : Append(s, x)[i] = s[i] /\ Append(t, y)[i] = t[i]
      BY <1>1, <2>1
    <3> QED
      BY <1>4, <3>1
  <2> QED
    BY <1>1, <2>1, <2>2
<1>5. Append(s, x) # <<>>
  <2>1. Len(s) \in Nat /\ Len(<<>>) = 0
    BY <1>1
  <2> QED
    BY <1>2, <2>1
<1> QED
  BY <1>4, <1>5

\* A name that is decorated is not one that is not, and tells what it was made of.
LEMMA Decorated ==
  ASSUME NEW n \in Name, NEW o, NEW b
  PROVE  /\ Decorate(n, o, b).by # <<>>
         /\ \A m \in Name : \A p, c :
              Decorate(n, o, b) = Decorate(m, p, c) => n = m /\ o = p /\ b = c
<1> DEFINE D == [op : {"*", "[]", "()"}, bound : Nat]
<1>1. \A m \in Name : m.by \in Seq(D) /\ m = [text |-> m.text, id |-> m.id, by |-> m.by]
  BY DEF Name
<1>2. \A m \in Name : \A p, c :
        Decorate(m, p, c) = [text |-> m.text, id |-> m.id, by |-> Append(m.by, [op |-> p, bound |-> c])]
  <2> TAKE m \in Name
  <2> TAKE p, c
  <2>1. m = [text |-> m.text, id |-> m.id, by |-> m.by]
    BY <1>1
  <2>2. PICK t, i, s : m = [text |-> t, id |-> i, by |-> s]
    BY <2>1
  <2> QED
    BY <2>2, SMTT(60) DEF Decorate
<1> HIDE DEF D
<1>3. \A x : Append(n.by, x) # <<>>
  BY <1>1, Appended
<1>4. ASSUME NEW m \in Name, NEW p, NEW c, Decorate(n, o, b) = Decorate(m, p, c)
      PROVE  n = m /\ o = p /\ b = c
  <2>1. PICK x, y : x = [op |-> o, bound |-> b] /\ y = [op |-> p, bound |-> c]
    OBVIOUS
  <2>2. n.text = m.text /\ n.id = m.id /\ Append(n.by, x) = Append(m.by, y)
    BY <1>2, <1>4, <2>1
  <2>3. n.by = m.by /\ x = y
    BY <1>1, <2>2, Appended
  <2>4. n = m
    BY <1>1, <2>2, <2>3
  <2>5. o = p /\ b = c
    BY <2>1, <2>3
  <2> QED
    BY <2>4, <2>5
<1>5. Decorate(n, o, b).by # <<>>
  <2>1. PICK x : x = [op |-> o, bound |-> b]
    OBVIOUS
  <2>2. Decorate(n, o, b) = [text |-> n.text, id |-> n.id, by |-> Append(n.by, x)]
    BY <1>2, <2>1
  <2>3. Decorate(n, o, b).by = Append(n.by, x)
    BY <2>2
  <2> QED
    BY <1>3, <2>3
<1>6. ASSUME NEW m \in Name, NEW p, NEW c PROVE Decorate(n, o, b) = Decorate(m, p, c) => n = m /\ o = p /\ b = c
  BY <1>4
<1> QED
  BY <1>5, <1>6

\* The kinds whose name is not made of another.
Plain == {"base", "enumeration", "structure", "union", "typedef", "const"}

\* Such a name tells the kind, the base type and the members.
LEMMA OwnNames ==
  ASSUME dies \in Inputs, NEW a \in DOMAIN dies, NEW b \in DOMAIN dies,
         dies[a].kind \in Plain, dies[b].kind \in Plain,
         dies[a].kind \in Alias => Reference(a) = NoType, dies[b].kind \in Alias => Reference(b) = NoType,
         OwnName(a) = OwnName(b)
  PROVE  /\ TypeTag(dies[a].kind) = TypeTag(dies[b].kind) /\ dies[a].members = dies[b].members
         /\ dies[a].kind = "base" => dies[b].kind = "base" /\ dies[a].base = dies[b].base
<1> DEFINE Anonymous(id) == dies[id].kind \in {"enumeration", "structure", "union"} /\ dies[id].name = <<>>
           Void(id) == dies[id].kind \in Alias /\ ~Titled(dies, id)
<1>1. WellFormed(dies) /\ WellNamed(dies) /\ DOMAIN dies \subseteq Nat \ {NoType}
  BY InputsAssumption, UnitsAssumption DEF WellFormed
<1>2. ASSUME NEW id \in DOMAIN dies, dies[id].kind \in Plain, dies[id].kind \in Alias => Reference(id) = NoType
      PROVE  /\ dies[id].kind = "base" =>
                  OwnName(id) = Named(BaseName[dies[id].base + 1]) /\ dies[id].base \in 1 .. Len(BaseName) - 1
             /\ Titled(dies, id) => OwnName(id) = Named(dies[id].name[1])
             /\ Anonymous(id) => OwnName(id).id = id
             /\ Void(id) => OwnName(id) = Named("void")
             /\ dies[id].kind = "base" \/ Titled(dies, id) \/ Anonymous(id) \/ Void(id)
  <2>1. dies[id].base \in 0 .. Len(BaseName) - 1 /\ WellFormedDie(dies[id])
    BY <1>1 DEF WellFormed, TypeDie
  <2>2. dies[id].kind = "base" => dies[id].base \in 1 .. Len(BaseName) - 1
    BY <2>1 DEF WellFormedDie, BaseName
  <2>3. Anonymous(id) => OwnName(id).id = id
    BY DEF OwnName, Named
  <2>4. Void(id) => OwnName(id) = Named("void")
    BY <1>2 DEF OwnName, Titled, Alias, Reference
  <2>5. Titled(dies, id) => OwnName(id) = Named(dies[id].name[1])
    BY DEF OwnName, Titled
  <2>6. dies[id].kind = "base" => OwnName(id) = Named(BaseName[dies[id].base + 1])
    BY DEF OwnName
  <2>7. dies[id].kind = "base" \/ Titled(dies, id) \/ Anonymous(id) \/ Void(id)
    BY <1>2 DEF Plain, Titled, Alias, Reference
  <2> QED
    BY <2>2, <2>3, <2>4, <2>5, <2>6, <2>7
<1>3. \A s, t : Named(s) = Named(t) => s = t
  <2>1. \A s : Named(s).text = s
    BY DEF Named
  <2> QED
    BY <2>1
<1>4. \A s : Named(s).id = NoType
  BY DEF Named
<1>5. \A i \in 1 .. Len(BaseName) - 1 : BaseName[i + 1] # "void" /\ i + 1 \in 1 .. Len(BaseName)
  <2>1. Len(BaseName) = 15
    BY DEF BaseName
  <2>2. \A i \in 1 .. 14 : BaseName[i + 1] # "void"
    <3>1. \A j \in 2 .. 15 : BaseName[j] # "void"
      BY DEF BaseName
    <3> QED
      BY <3>1
  <2> QED
    BY <2>1, <2>2
<1>6. BaseName[1] = "void" /\ 1 \in 1 .. Len(BaseName)
  BY DEF BaseName
<1>7. \A id \in DOMAIN dies : dies[id].kind \notin Aggregate => dies[id].members = <<>>
  BY <1>1 DEF WellFormed, WellFormedDie
<1>8. ASSUME NEW x \in {a, b}, NEW y \in {a, b}, dies[x].kind = "base"
      PROVE  ~Titled(dies, y) /\ ~Anonymous(y) /\ ~Void(y)
  <2>1. PICK i \in 1 .. Len(BaseName) : OwnName(y) = Named(BaseName[i]) /\ BaseName[i] # "void"
    BY <1>2, <1>5, <1>8
  <2>2. ~Void(y)
    BY <1>2, <1>3, <2>1
  <2>3. ~Anonymous(y)
    BY <1>1, <1>2, <1>4, <2>1
  <2>4. ~Titled(dies, y)
    <3>1. Titled(dies, y) => dies[y].name[1] = BaseName[i]
      BY <1>2, <1>3, <2>1
    <3> QED
      BY <1>1, <3>1 DEF WellNamed
  <2> QED
    BY <2>2, <2>3, <2>4
<1>9. ASSUME NEW x \in {a, b}, NEW y \in {a, b}, Titled(dies, x) PROVE ~Anonymous(y) /\ ~Void(y)
  <2>1. OwnName(y) = Named(dies[x].name[1])
    BY <1>2, <1>9
  <2>2. ~Anonymous(y)
    BY <1>1, <1>2, <1>4, <2>1
  <2>3. ~Void(y)
    <3>1. Void(y) => dies[x].name[1] = BaseName[1]
      BY <1>2, <1>3, <1>6, <2>1
    <3> QED
      BY <1>1, <1>6, <1>9, <3>1 DEF WellNamed
  <2> QED
    BY <2>2, <2>3
<1>10. CASE dies[a].kind = "base" /\ dies[b].kind = "base"
  <2>1. dies[a].members = dies[b].members
    BY <1>7, <1>10 DEF Aggregate
  <2>2. BaseName[dies[a].base + 1] = BaseName[dies[b].base + 1]
    BY <1>2, <1>3, <1>10
  <2>3. \A i, j \in 1 .. 15 : BaseName[i] = BaseName[j] => i = j
    BY DEF BaseName
  <2>4. dies[a].base \in 1 .. 14 /\ dies[b].base \in 1 .. 14
    <3>1. dies[a].base \in 1 .. Len(BaseName) - 1 /\ dies[b].base \in 1 .. Len(BaseName) - 1
      BY <1>2, <1>10
    <3>2. Len(BaseName) - 1 = 14
      BY DEF BaseName
    <3> QED
      BY <3>1, <3>2
  <2>5. dies[a].base = dies[b].base
    BY <2>2, <2>3, <2>4
  <2> QED
    BY <1>10, <2>1, <2>5
<1>11. CASE Titled(dies, a) /\ Titled(dies, b)
  <2>1. dies[a].name[1] = dies[b].name[1]
    BY <1>2, <1>3, <1>11
  <2>2. dies[a].kind # "base"
    BY <1>11 DEF Titled
  <2> QED
    BY <1>1, <1>11, <2>1, <2>2 DEF WellNamed
<1>12. CASE Anonymous(a) /\ Anonymous(b)
  <2>1. a = b
    BY <1>2, <1>12
  <2> QED
    BY <2>1
<1>13. CASE Void(a) /\ Void(b)
  <2>1. TypeTag(dies[a].kind) = "VOID" /\ TypeTag(dies[b].kind) = "VOID"
    BY <1>13 DEF TypeTag, Alias
  <2> QED
    BY <1>7, <1>13, <2>1 DEF Aggregate, Alias
<1>14. Anonymous(a) => ~Void(b)
  BY <1>1, <1>2, <1>4
<1>15. Anonymous(b) => ~Void(a)
  BY <1>1, <1>2, <1>4
<1>16. ~(dies[a].kind = "base") /\ dies[b].kind = "base" => FALSE
  BY <1>2, <1>8
<1>17. ~(dies[b].kind = "base") /\ dies[a].kind = "base" => FALSE
  BY <1>2, <1>8
<1> QED
  BY <1>2, <1>9, <1>10, <1>11, <1>12, <1>13, <1>14, <1>15, <1>16, <1>17

(***************************************************************************)
(* What the recursion leaves of a type.                                    *)
(***************************************************************************)
\* Every type has been passed to the recursion, or will be, or the tool gives up.
Accounted ==
  \A id \in DOMAIN dies : id \in todo \/ id \in snVisited \/ at = Call(id) \/ at = Panic

LEMMA AccountedAlways == Spec => []Accounted
<1>1. Init => Accounted
  BY DEF Init, Accounted
<1>2. ASSUME Inv, Accounted, [Next]_vars PROVE Accounted'
  <2>1. ASSUME NEW id \in todo, NextType(id) PROVE Accounted'
    <3>1. at = Idle /\ \A a : Idle # Call(a)
      BY <2>1 DEF NextType, Idle, Call
    <3>2. Idle # Panic
      BY DEF Idle, Panic
    <3> QED
      BY <1>2, <2>1, <3>1, <3>2 DEF Accounted, NextType
  <2>2. CASE at = Return
    <3>1. Return # Panic /\ \A a : Return # Call(a)
      BY DEF Return, Panic, Call
    <3>2. \A id \in DOMAIN dies : id \in todo \/ id \in snVisited
      BY <1>2, <2>2, <3>1 DEF Accounted
    <3>3. CASE UNCHANGED <<dies, todo, snVisited>>
      BY <3>2, <3>3 DEF Accounted
    <3>4. TypeDone \/ DerivedBack \/ AliasBack \/ MemberBack \/ UNCHANGED vars
      <4>1. Return # Idle
        BY DEF Return, Idle
      <4> QED
        BY <1>2, <2>2, <3>1, <4>1 DEF Next, Stopped, Done, Enter, Visited, Leaf, Descend, Fresh, GiveUp, NextType
    <3> QED
      BY <3>3, <3>4 DEF TypeDone, DerivedBack, AliasBack, MemberBack, Finish, vars
  <2>3. CASE Visited(at.arg) \/ Leaf(at.arg) \/ Descend(at.arg)
    <3>1. /\ dies' = dies /\ todo' = todo /\ snVisited \subseteq snVisited'
          /\ at = Call(at.arg) /\ at.arg \in snVisited'
      BY <2>3 DEF Visited, Leaf, Descend, Fresh
    <3>2. \A a : Call(a).arg = a /\ Call(a) # Panic
      BY DEF Call, Panic
    <3>3. \A id \in DOMAIN dies : id \in todo \/ id \in snVisited'
      BY <1>2, <3>1, <3>2 DEF Accounted
    <3> QED
      BY <3>1, <3>3 DEF Accounted
  <2>4. CASE GiveUp(at.arg)
    BY <2>4 DEF GiveUp, Accounted
  <2>5. CASE UNCHANGED vars
    BY <1>2, <2>5 DEF vars, Accounted
  <2>6. TypeDone \/ DerivedBack \/ AliasBack \/ MemberBack => at = Return
    BY DEF TypeDone, DerivedBack, AliasBack, MemberBack, Back
  <2> QED
    BY <1>2, <2>1, <2>2, <2>3, <2>4, <2>5, <2>6 DEF Next, Enter
<1> QED
  BY <1>1, <1>2, Invariant, PTL DEF Spec

\* What does not belong to the tag of a type is empty.
Sealed(info) ==
  /\ info.typeTag # "ARRAY" => info.arrayBound = 0
  /\ info.typeTag \notin {"STRUCTURE", "UNION"} => info.members = <<>>

\* A type that is no copy of another, and what a copy has in common with it.
Root(id) == dies[id].kind \notin Alias \/ Nested(id) = <<>>
Same(a, b) ==
  /\ a.name = b.name /\ a.typeTag = b.typeTag /\ a.arrayBound = b.arrayBound /\ a.members = b.members
  /\ a.typeTag \in {"POINTER", "ARRAY"} => a.refer = b.refer
  /\ a.typeTag = "BASE" => a.baseType = b.baseType

\* o is what is left of id when aliases are followed: a set with id that they do
\* not lead out of has no type but o that is none.
StandsFor(id, o) ==
  \E S \in SUBSET DOMAIN dies :
    /\ id \in S
    /\ \A a \in S : IF dies[a].kind \in Alias THEN Reference(a) \in S \union {NoType} ELSE a = o

\* What a type is when its call returns, in so far as its name depends on it.
Exact(id, info) ==
  /\ Sealed(info)
  /\ Nested(id) = <<>> => dies[id].kind # "array" /\ info = [Opened(id) EXCEPT !.name = LeafName(id)]
  /\ dies[id].kind \notin Alias => info.arrayBound = Opened(id).arrayBound

\* Every type that is finished is one that is no copy, or a copy of such a type.
Telling ==
  /\ dies \in Inputs
  /\ \A id \in Finished :
       /\ Exact(id, vTypeInfo[id])
       /\ \E o \in Finished : Root(o) /\ StandsFor(id, o) /\ Same(vTypeInfo[id], vTypeInfo[o])

\* What Descend leaves of a type.
LEMMA OpenedFields ==
  ASSUME Inv, NEW id \in DOMAIN dies
  PROVE  /\ Opened(id) \in VTypeInfo
         /\ Opened(id).typeTag = TypeTag(dies[id].kind) /\ Opened(id).members = <<>>
         /\ Opened(id).name = OwnName(id) /\ Opened(id).refer = NoType
         /\ dies[id].kind # "array" => Opened(id).arrayBound = 0
         /\ dies[id].kind = "base" => Opened(id).baseType = dies[id].base
         /\ Unresolved(id) \in VTypeInfo /\ Unresolved(id).members = <<>>
         /\ Unresolved(id).arrayBound = Opened(id).arrayBound
<1>1. Unresolved(id) \in VTypeInfo /\ dies[id].kind \in Kind
  BY UnresolvedType DEF Inv, WellFormed, TypeDie
<1>2. Opened(id) \in VTypeInfo
  BY <1>1, TagType DEF Opened
<1>3. /\ Unresolved(id).members = <<>> /\ Unresolved(id).name = OwnName(id)
      /\ Unresolved(id).refer = NoType
      /\ dies[id].kind # "array" => Unresolved(id).arrayBound = 0
      /\ dies[id].kind = "base" => Unresolved(id).baseType = dies[id].base
  BY DEF Unresolved
<1>4. /\ Opened(id).typeTag = TypeTag(dies[id].kind) /\ Opened(id).members = Unresolved(id).members
      /\ Opened(id).name = Unresolved(id).name /\ Opened(id).refer = Unresolved(id).refer
      /\ Opened(id).arrayBound = Unresolved(id).arrayBound
      /\ Opened(id).baseType = Unresolved(id).baseType
  BY <1>1 DEF Opened, VTypeInfo
<1> QED
  BY <1>1, <1>2, <1>3, <1>4

\* A call returns with a type that is exact.
LEMMA ResultExact ==
  ASSUME Inv, NEW id \in DOMAIN dies, NEW info, Result(id, info), Root(id)
  PROVE  Exact(id, info)
<1> DEFINE k == dies[id].kind
<1>1. /\ Opened(id) \in VTypeInfo /\ Opened(id).typeTag = TypeTag(k) /\ Opened(id).members = <<>>
      /\ k # "array" => Opened(id).arrayBound = 0
  BY OpenedFields
<1>2. k = "array" => TypeTag(k) = "ARRAY"
  BY DEF TypeTag
<1>3. CASE Nested(id) = <<>> /\ k # "array" /\ info = [Opened(id) EXCEPT !.name = LeafName(id)]
  <2>1. /\ info.typeTag = Opened(id).typeTag /\ info.members = <<>>
        /\ info.arrayBound = Opened(id).arrayBound
    BY <1>1, <1>3 DEF VTypeInfo
  <2> QED
    BY <1>1, <1>3, <2>1 DEF Exact, Sealed
<1>4. CASE k \in {"pointer", "array", "subroutine"} /\ Nested(id) # <<>> /\ info = Derived(id)
  <2>1. /\ info.typeTag = Opened(id).typeTag /\ info.members = <<>>
        /\ info.arrayBound = Opened(id).arrayBound
    BY <1>1, <1>4 DEF Derived, VTypeInfo
  <2> HIDE DEF k
  <2>2. Sealed(info)
    BY <1>1, <1>2, <2>1 DEF Sealed
  <2> QED
    BY <1>4, <2>1, <2>2 DEF Exact
<1>5. CASE k \in Aggregate /\ Nested(id) # <<>> /\ info = [Opened(id) EXCEPT !.members = dies[id].members]
  <2>1. /\ info.typeTag = Opened(id).typeTag /\ info.members = dies[id].members
        /\ info.arrayBound = Opened(id).arrayBound
    BY <1>1, <1>5 DEF VTypeInfo
  <2>2. k # "array" /\ TypeTag(k) \in {"STRUCTURE", "UNION"}
    BY <1>5 DEF Aggregate, TypeTag
  <2> QED
    BY <1>1, <1>5, <2>1, <2>2 DEF Exact, Sealed
<1> QED
  BY <1>3, <1>4, <1>5 DEF Result, Root

\* A copy has all in common with its target that the names depend on.
LEMMA CopySame ==
  ASSUME Inv, NEW id \in DOMAIN dies, dies[id].kind \in Alias, NEW target \in VTypeInfo, Sealed(target)
  PROVE  Same(Copied(Unresolved(id), target), target) /\ Sealed(Copied(Unresolved(id), target))
<1> DEFINE own   == Unresolved(id)
           named == [own EXCEPT !.name = target.name, !.typeTag = target.typeTag]
           copy  == Copied(own, target)
<1>1. own \in VTypeInfo /\ own.members = <<>> /\ own.arrayBound = 0
  BY OpenedFields DEF Alias
<1> HIDE DEF own
<1>2. /\ named \in VTypeInfo /\ named.members = <<>> /\ named.arrayBound = 0
      /\ named.name = target.name /\ named.typeTag = target.typeTag
  BY <1>1 DEF VTypeInfo
<1>3. copy = CASE target.typeTag = "BASE" -> [named EXCEPT !.baseType = target.baseType]
               [] target.typeTag = "POINTER" -> [named EXCEPT !.refer = target.refer]
               [] target.typeTag = "ARRAY" ->
                    [named EXCEPT !.refer = target.refer, !.arrayBound = target.arrayBound]
               [] target.typeTag \in {"STRUCTURE", "UNION"} ->
                    [named EXCEPT !.memberIdents = target.memberIdents, !.members = target.members]
               [] OTHER -> named
  BY DEF Copied
<1> HIDE DEF named, copy
<1>4. /\ copy.name = target.name /\ copy.typeTag = target.typeTag
      /\ copy.arrayBound = (IF target.typeTag = "ARRAY" THEN target.arrayBound ELSE 0)
      /\ copy.members = (IF target.typeTag \in {"STRUCTURE", "UNION"} THEN target.members ELSE <<>>)
      /\ target.typeTag \in {"POINTER", "ARRAY"} => copy.refer = target.refer
      /\ target.typeTag = "BASE" => copy.baseType = target.baseType
  <2>1. CASE target.typeTag = "BASE"
    BY <1>2, <1>3, <2>1 DEF VTypeInfo
  <2>2. CASE target.typeTag = "POINTER"
    BY <1>2, <1>3, <2>2 DEF VTypeInfo
  <2>3. CASE target.typeTag = "ARRAY"
    BY <1>2, <1>3, <2>3 DEF VTypeInfo
  <2>4. CASE target.typeTag \in {"STRUCTURE", "UNION"}
    BY <1>2, <1>3, <2>4 DEF VTypeInfo
  <2>5. CASE target.typeTag \notin {"BASE", "POINTER", "ARRAY", "STRUCTURE", "UNION"}
    BY <1>2, <1>3, <2>5
  <2> QED
    BY <2>1, <2>2, <2>3, <2>4, <2>5
<1>5. Same(copy, target)
  BY <1>4 DEF Same, Sealed
<1>6. Sealed(copy)
  BY <1>4 DEF Sealed
<1> QED
  BY <1>5, <1>6 DEF copy, own

\* When an alias reads its target, the call for that is over.
LEMMA TargetFinished ==
  ASSUME Inv, Path, dies \in Inputs, NEW id \in DOMAIN dies, Awaited(id),
         dies[id].kind \in Alias, Nested(id) # <<>>
  PROVE  Reference(id) \in Finished
<1> DEFINE r == Reference(id)
<1>1. dies[id].kind \notin Aggregate
  BY DEF Alias, Aggregate
<1>2. stack # <<>> /\ id = Last(stack) /\ r \in snVisited
  BY <1>1 DEF Awaited
<1>3. r \in DOMAIN dies
  BY <1>2, OnStack
<1>4. ASSUME r \in InProgress PROVE FALSE
  <2>1. PICK i \in DOMAIN stack : stack[i] = r
    BY <1>4 DEF InProgress
  <2>2. Len(stack) \in DOMAIN stack /\ stack[Len(stack)] = id /\ i <= Len(stack)
    BY <1>2 DEF Inv, TypeOK, Last
  <2>3. Reaches(r, id)
    BY <1>3, <2>1, <2>2 DEF Path
  <2> QED
    BY <1>1, <2>3, Timeliness
<1> QED
  BY <1>2, <1>4 DEF Finished

\* A type that is no copy stands for itself.
LEMMA RootStands ==
  ASSUME Inv, NEW id \in DOMAIN dies, Root(id)
  PROVE  StandsFor(id, id)
<1>1. dies[id].kind \in Alias => Reference(id) = NoType
  <2>1. dies[id].kind \in Alias => dies[id].kind \notin Aggregate /\ dies[id].kind # "enumeration"
    BY DEF Alias, Aggregate
  <2> QED
    BY <2>1, NestedTypes DEF Root, Inv
<1>2. {id} \in SUBSET DOMAIN dies
  OBVIOUS
<1> QED
  BY <1>1, <1>2 DEF StandsFor

\* A call returns with a type that is exact, and no copy or one of such a type.
LEMMA ResultTells ==
  ASSUME Inv, Path, Telling, NEW id \in DOMAIN dies, NEW info, Result(id, info), Awaited(id)
  PROVE  /\ Exact(id, info)
         /\ \E o \in Finished \union {id} :
              Root(o) /\ StandsFor(id, o) /\ (o = id \/ Same(info, vTypeInfo[o]))
<1>1. CASE Root(id)
  BY <1>1, ResultExact, RootStands
<1>2. CASE ~Root(id)
  <2> DEFINE r == Reference(id)
  <2>1. dies[id].kind \in Alias /\ Nested(id) # <<>>
    BY <1>2 DEF Root
  <2>2. r \in Finished
    BY <2>1, TargetFinished DEF Telling
  <2>3. r \in DOMAIN dies
    BY <2>2, OnStack DEF Finished
  <2>4. vTypeInfo[r] \in VTypeInfo /\ Sealed(vTypeInfo[r])
    BY <2>2, <2>3 DEF Inv, TypeOK, Telling, Exact
  <2>5. info = Copied(Unresolved(id), vTypeInfo[r])
    BY <2>1 DEF Result, Alias, Aggregate
  <2>6. Same(info, vTypeInfo[r]) /\ Sealed(info)
    BY <2>1, <2>4, <2>5, CopySame
  <2>7. PICK o \in Finished : Root(o) /\ StandsFor(r, o) /\ Same(vTypeInfo[r], vTypeInfo[o])
    BY <2>2 DEF Telling
  <2>8. Same(info, vTypeInfo[o])
    BY <2>6, <2>7 DEF Same
  <2>9. Exact(id, info)
    BY <2>1, <2>6 DEF Exact
  <2>10. StandsFor(id, o)
    <3>1. PICK S \in SUBSET DOMAIN dies :
            /\ r \in S
            /\ \A a \in S : IF dies[a].kind \in Alias THEN Reference(a) \in S \union {NoType} ELSE a = o
      BY <2>7 DEF StandsFor
    <3> DEFINE T == S \union {id}
    <3>2. T \in SUBSET DOMAIN dies /\ id \in T
      OBVIOUS
    <3>3. \A a \in T : IF dies[a].kind \in Alias THEN Reference(a) \in T \union {NoType} ELSE a = o
      BY <2>1, <3>1
    <3> QED
      BY <3>2, <3>3 DEF StandsFor
  <2>11. Root(o) /\ StandsFor(id, o) /\ (o = id \/ Same(info, vTypeInfo[o]))
    BY <2>7, <2>8, <2>10
  <2>12. \E x \in Finished \union {id} : Root(x) /\ StandsFor(id, x) /\ (x = id \/ Same(info, vTypeInfo[x]))
    BY <2>11
  <2> QED
    BY <2>9, <2>12
<1> QED
  BY <1>1, <1>2

LEMMA TellingAlways == Spec => []Telling
<1>1. Init => Telling
  BY DEF Init, Telling, Finished
<1>2. ASSUME Inv, Path, Telling, [Next]_vars PROVE Telling'
  <2>1. Finished \subseteq DOMAIN dies
    BY <1>2, OnStack DEF Finished
  <2>2. ASSUME dies' = dies
        PROVE  \A id : /\ Root(id)' <=> Root(id)
                       /\ \A o : StandsFor(id, o)' <=> StandsFor(id, o)
                       /\ \A info : Exact(id, info)' <=> Exact(id, info)
    <3>1. \A id : LeafName(id)' = LeafName(id)
      BY <2>2, Constant DEF LeafName
    <3>2. \A id : Root(id)' <=> Root(id)
      BY <2>2, Constant DEF Root
    <3>3. \A id : \A info : Exact(id, info)' <=> Exact(id, info)
      BY <2>2, <3>1, Constant DEF Exact
    <3>4. \A id : \A o : StandsFor(id, o)' <=> StandsFor(id, o)
      BY <2>2, Constant DEF StandsFor
    <3> QED
      BY <3>2, <3>3, <3>4
  <2>3. ASSUME dies' = dies, Finished' = Finished, \A a \in Finished : vTypeInfo'[a] = vTypeInfo[a]
        PROVE  Telling'
    <3>1. PICK T : T = vTypeInfo'
      OBVIOUS
    <3>2. \A a \in Finished : T[a] = vTypeInfo[a]
      BY <2>3, <3>1
    <3>3. ASSUME NEW a \in Finished
          PROVE  Exact(a, T[a])' /\ \E o \in Finished : Root(o)' /\ StandsFor(a, o)' /\ Same(T[a], T[o])
      <4>1. Exact(a, T[a])
        BY <1>2, <3>2 DEF Telling
      <4>2. PICK o \in Finished : Root(o) /\ StandsFor(a, o) /\ Same(vTypeInfo[a], vTypeInfo[o])
        BY <1>2 DEF Telling
      <4>3. Same(T[a], T[o])
        BY <3>2, <4>2
      <4>4. Exact(a, T[a])' /\ Root(o)' /\ StandsFor(a, o)'
        BY <2>2, <2>3, <4>1, <4>2
      <4> QED
        BY <4>3, <4>4
    <3> QED
      BY <1>2, <2>3, <3>1, <3>3 DEF Telling
  <2>4. CASE Quiet
    <3>1. Finished' = Finished
      BY <2>4 DEF Quiet, Finished, InProgress
    <3> QED
      BY <2>3, <2>4, <3>1 DEF Quiet
  <2>5. ASSUME NEW id \in DOMAIN dies, Opens(id) \/ Extends(id) PROVE Telling'
    <3>1. PICK info : Writes(id, info)
      BY <2>5 DEF Opens, Extends
    <3> QED
      BY <2>1, <2>3, <2>5, <3>1 DEF Opens, Extends, Writes
  <2>6. ASSUME NEW id \in DOMAIN dies, Finishes(id) PROVE Telling'
    <3>1. PICK info : Writes(id, info) /\ Result(id, info)
      BY <2>6 DEF Finishes
    <3>2. /\ dies' = dies /\ Finished' = Finished \union {id} /\ vTypeInfo'[id] = info
          /\ \A a \in Finished : vTypeInfo'[a] = vTypeInfo[a]
      BY <2>1, <2>6, <3>1 DEF Finishes, Writes
    <3>3. /\ Exact(id, info)
          /\ \E o \in Finished \union {id} :
               Root(o) /\ StandsFor(id, o) /\ (o = id \/ Same(info, vTypeInfo[o]))
      BY <1>2, <2>6, <3>1, ResultTells DEF Finishes
    <3>4. Same(info, info)
      BY DEF Same
    <3>5. PICK T : T = vTypeInfo'
      OBVIOUS
    <3>6. Exact(id, T[id]) /\ \E o \in Finished' : Root(o) /\ StandsFor(id, o) /\ Same(T[id], T[o])
      BY <3>2, <3>3, <3>4, <3>5
    <3>7. \A a \in Finished :
            Exact(a, T[a]) /\ \E o \in Finished' : Root(o) /\ StandsFor(a, o) /\ Same(T[a], T[o])
      BY <1>2, <3>2, <3>5 DEF Telling
    <3>8. \A a \in Finished' :
            Exact(a, T[a])' /\ \E o \in Finished' : Root(o)' /\ StandsFor(a, o)' /\ Same(T[a], T[o])
      <4> TAKE a \in Finished'
      <4>1. Exact(a, T[a]) /\ \E o \in Finished' : Root(o) /\ StandsFor(a, o) /\ Same(T[a], T[o])
        BY <3>2, <3>6, <3>7
      <4>2. PICK o \in Finished' : Root(o) /\ StandsFor(a, o) /\ Same(T[a], T[o])
        BY <4>1
      <4>3. Exact(a, T[a])' /\ Root(o)' /\ StandsFor(a, o)'
        BY <2>2, <3>2, <4>1, <4>2
      <4> QED
        BY <4>2, <4>3
    <3> QED
      BY <1>2, <3>2, <3>5, <3>8 DEF Telling
  <2> QED
    BY <1>2, <2>4, <2>5, <2>6, Effect
<1> QED
  BY <1>1, <1>2, Invariant, PathAlways, PTL DEF Spec

(***************************************************************************)
(* What initTypeCells takes for granted of the references: the members of  *)
(* a type have been resolved, and no type consists of pointers and arrays  *)
(* alone.                                                                  *)
(***************************************************************************)
Listed(info) == \A i \in 1 .. Len(info.members) : info.members[i].type \in DOMAIN dies
MembersListed == \A id \in DOMAIN dies : Listed(vTypeInfo[id])

\* Every value a step writes but a new member.
LEMMA ListedWrites ==
  ASSUME Inv, MembersListed, NEW id \in DOMAIN dies
  PROVE  /\ Listed(Opened(id)) /\ Listed([Opened(id) EXCEPT !.name = LeafName(id)]) /\ Listed(Derived(id))
         /\ Reference(id) \in DOMAIN dies /\ dies[id].kind \in Alias =>
              Listed(Copied(Unresolved(id), vTypeInfo[Reference(id)]))
<1>1. Opened(id) \in VTypeInfo /\ Opened(id).members = <<>> /\ Unresolved(id) \in VTypeInfo
      /\ Unresolved(id).members = <<>>
  BY OpenedFields
<1>2. \A i \in 1 .. Len(<<>>) : FALSE
  OBVIOUS
<1>3. \A info : info.members = <<>> => Listed(info)
  BY <1>2 DEF Listed
<1>4. [Opened(id) EXCEPT !.name = LeafName(id)].members = <<>> /\ Derived(id).members = <<>>
  BY <1>1 DEF Derived, VTypeInfo
<1>5. ASSUME Reference(id) \in DOMAIN dies
      PROVE  Listed(Copied(Unresolved(id), vTypeInfo[Reference(id)]))
  <2>1. PICK own, target : own = Unresolved(id) /\ target = vTypeInfo[Reference(id)]
    OBVIOUS
  <2>2. Listed(target)
    BY <1>5, <2>1 DEF MembersListed
  <2>3. own \in VTypeInfo /\ own.members = <<>>
    BY <1>1, <2>1
  <2>4. Copied(own, target).members \in {<<>>, target.members}
    BY <2>3 DEF Copied, VTypeInfo
  <2> QED
    BY <1>3, <2>1, <2>2, <2>4 DEF Listed
<1> QED
  BY <1>1, <1>3, <1>4, <1>5

LEMMA ListedAlways == Spec => []MembersListed
<1>1. ASSUME Init PROVE MembersListed
  <2>1. Inv
    BY <1>1, Initial
  <2>2. \A id \in DOMAIN dies : vTypeInfo[id].members = <<>>
    BY <1>1, <2>1, OpenedFields DEF Init
  <2>3. \A i \in 1 .. Len(<<>>) : FALSE
    OBVIOUS
  <2> QED
    BY <2>2, <2>3 DEF MembersListed, Listed
<1>2. ASSUME Inv, MembersListed, [Next]_vars PROVE MembersListed'
  <2>1. ASSUME NEW id \in DOMAIN dies, NEW info, Listed(info), dies' = dies, vTypeInfo'[id] = info,
               \A a \in DOMAIN dies \ {id} : vTypeInfo'[a] = vTypeInfo[a]
        PROVE  MembersListed'
    <3>1. \A a \in DOMAIN dies : Listed(vTypeInfo'[a])
      BY <1>2, <2>1 DEF MembersListed
    <3> QED
      BY <2>1, <3>1 DEF MembersListed, Listed
  <2>2. CASE UNCHANGED <<dies, vTypeInfo>>
    BY <1>2, <2>2 DEF MembersListed, Listed
  <2>3. CASE Leaf(at.arg)
    <3>1. /\ at.arg \in DOMAIN dies /\ dies' = dies
          /\ \A a \in DOMAIN dies \ {at.arg} : vTypeInfo'[a] = vTypeInfo[a]
          /\ vTypeInfo'[at.arg] = [Opened(at.arg) EXCEPT !.name = LeafName(at.arg)]
      BY <1>2, <2>3, LeafStep
    <3> QED
      BY <1>2, <2>1, <3>1, ListedWrites
  <2>4. CASE Descend(at.arg)
    <3>1. /\ at.arg \in DOMAIN dies /\ dies' = dies
          /\ \A a \in DOMAIN dies \ {at.arg} : vTypeInfo'[a] = vTypeInfo[a]
          /\ vTypeInfo'[at.arg] = Opened(at.arg)
      BY <1>2, <2>4, DescendStep
    <3> QED
      BY <1>2, <2>1, <3>1, ListedWrites
  <2>5. ASSUME at = Return, stack # <<>>, NEW info \in VTypeInfo, Finish(info), Listed(info)
        PROVE  MembersListed'
    <3>1. /\ dies' = dies /\ vTypeInfo'[Last(stack)] = info
          /\ \A a \in DOMAIN dies \ {Last(stack)} : vTypeInfo'[a] = vTypeInfo[a]
      BY <1>2, <2>5, FinishStep
    <3>2. Last(stack) \in DOMAIN dies
      BY <1>2, <2>5, OnStack
    <3> QED
      BY <2>1, <2>5, <3>1, <3>2
  <2>6. CASE DerivedBack
    <3>1. /\ at = Return /\ stack # <<>> /\ Derived(Last(stack)) \in VTypeInfo
          /\ Finish(Derived(Last(stack)))
      BY <1>2, <2>6, DerivedStep
    <3>2. Last(stack) \in DOMAIN dies
      BY <1>2, <3>1, OnStack
    <3>3. Listed(Derived(Last(stack)))
      BY <1>2, <3>2, ListedWrites
    <3> QED
      BY <2>5, <3>1, <3>3
  <2>7. CASE AliasBack
    <3> DEFINE id == Last(stack)  copy == Copied(Unresolved(id), vTypeInfo[Reference(id)])
    <3>1. at = Return /\ stack # <<>> /\ copy \in VTypeInfo /\ Finish(copy) /\ dies[id].kind \in Alias
      BY <1>2, <2>7, AliasStep
    <3>2. id \in DOMAIN dies /\ Reference(id) \in DOMAIN dies
      BY <1>2, <3>1, BackFacts DEF Alias, Aggregate
    <3>3. Listed(copy)
      BY <1>2, <3>1, <3>2, ListedWrites
    <3> QED
      BY <2>5, <3>1, <3>3
  <2>8. CASE MemberBack
    <3> DEFINE id == Last(stack)  n == Len(vTypeInfo[id].members) + 1  info == Extended(id)
    <3>1. /\ at = Return /\ stack # <<>> /\ dies[id].kind \in Aggregate /\ id \in DOMAIN dies
          /\ n \in Nat /\ Len(dies[id].members) \in Nat /\ n <= Len(dies[id].members)
          /\ vTypeInfo' = [vTypeInfo EXCEPT ![id] = info] /\ Len(info.members) = n
          /\ \A j \in 1 .. n : info.members[j] = dies[id].members[j]
      BY <1>2, <2>8, MemberFacts
    <3>2. vTypeInfo \in [DOMAIN dies -> VTypeInfo] /\ id \in InProgress /\ snVisited \subseteq DOMAIN dies
      BY <1>2, <3>1, OnStack DEF Inv, TypeOK
    <3>3. n - 1 = Len(vTypeInfo[id].members)
      <4>1. vTypeInfo[id].members \in Seq(Member)
        BY <3>1, <3>2 DEF VTypeInfo
      <4> QED
        BY <4>1
    <3>4. \A j \in 1 .. n - 1 : vTypeInfo[id].members[j] = dies[id].members[j]
      <4>1. \A j \in 1 .. Len(vTypeInfo[id].members) : vTypeInfo[id].members[j] = dies[id].members[j]
        BY <1>2, <3>1, <3>2 DEF Inv, Waiting
      <4> QED
        BY <3>3, <4>1
    <3>5. \A j \in 1 .. n - 1 : dies[id].members[j].type \in DOMAIN dies
      BY <1>2, <3>1, <3>3, <3>4 DEF MembersListed, Listed
    <3>6. dies[id].members[n].type \in DOMAIN dies
      <4>1. Active[id] \in snVisited /\ Active[id] = Nested(id)[n]
        BY <1>2, <3>1 DEF Inv, Control, Active
      <4>2. Nested(id)[n] = dies[id].members[n].type
        <5>1. n \in 1 .. Len(dies[id].members)
          <6>1. vTypeInfo[id].members \in Seq(Member)
            BY <3>1, <3>2 DEF VTypeInfo
          <6> QED
            BY <3>1, <6>1
        <5> QED
          BY <1>2, <3>1, <5>1, NestedTypes DEF Inv
      <4> QED
        BY <3>2, <4>1, <4>2
    <3> HIDE DEF n, info
    <3>7. \A j \in 1 .. n : j = n \/ j \in 1 .. n - 1
      BY <3>1
    <3>8. Listed(info)
      BY <3>1, <3>5, <3>6, <3>7 DEF Listed
    <3>9. dies' = dies /\ vTypeInfo'[id] = info /\ \A a \in DOMAIN dies \ {id} : vTypeInfo'[a] = vTypeInfo[a]
      BY <2>8, <3>1, <3>2 DEF MemberBack
    <3> QED
      BY <2>1, <3>1, <3>8, <3>9
  <2> QED
    BY <1>2, <2>2, <2>3, <2>4, <2>6, <2>7, <2>8
    DEF Next, NextType, TypeDone, Enter, Visited, GiveUp, vars
<1> QED
  BY <1>1, <1>2, Invariant, PTL DEF Spec

\* What a finished pointer or array refers to is finished, or a structure or union.
Derives(info) == info.typeTag \in {"POINTER", "ARRAY"}
Backed(info) ==
  Derives(info) =>
    \/ info.refer = NoType \/ info.refer \in Finished
    \/ info.refer \in DOMAIN dies /\ dies[info.refer].kind \in Aggregate

\* No finished types consist of pointers and arrays alone.
Founded ==
  \A S \in (SUBSET Finished) \ {{}} : \E id \in S : ~Derives(vTypeInfo[id]) \/ vTypeInfo[id].refer \notin S

Grounded == (\A id \in Finished : Backed(vTypeInfo[id])) /\ Founded

\* The target of a type whose call returns is finished, or an aggregate.
LEMMA TargetKnown ==
  ASSUME Inv, Path, dies \in Inputs, NEW id \in DOMAIN dies, Awaited(id),
         dies[id].kind \notin Aggregate, Nested(id) # <<>>
  PROVE  LET r == Reference(id) IN
         /\ r \in DOMAIN dies /\ r # id
         /\ r \in Finished \/ (dies[id].kind \notin Alias /\ dies[r].kind \in Aggregate)
<1> DEFINE r == Reference(id)
<1>1. stack # <<>> /\ id = Last(stack) /\ r \in snVisited
  BY DEF Awaited
<1>2. r \in DOMAIN dies
  BY <1>1, OnStack
<1>3. ASSUME r \in InProgress PROVE dies[id].kind \notin Alias /\ dies[r].kind \in Aggregate
  <2>1. PICK i \in DOMAIN stack : stack[i] = r
    BY <1>3 DEF InProgress
  <2>2. Len(stack) \in DOMAIN stack /\ stack[Len(stack)] = id /\ i <= Len(stack)
    BY <1>1 DEF Inv, TypeOK, Last
  <2>3. Reaches(r, id)
    BY <1>2, <2>1, <2>2 DEF Path
  <2> QED
    BY <2>3, Timeliness
<1>4. r # id
  <2>1. id \in InProgress
    BY <1>1, OnStack
  <2> QED
    BY <1>3, <2>1
<1> QED
  BY <1>1, <1>2, <1>3, <1>4 DEF Finished

\* What a call returns with is a type of its own kind, or refers to what is known.
LEMMA ResultGrounded ==
  ASSUME Inv, Path, dies \in Inputs, Grounded, NEW id \in DOMAIN dies, NEW info, Result(id, info),
         Awaited(id)
  PROVE  /\ Backed(info)
         /\ dies[id].kind \in Aggregate => ~Derives(info)
         /\ Derives(info) => info.refer # id
<1> DEFINE r == Reference(id)
<1>1. /\ Opened(id) \in VTypeInfo /\ Opened(id).typeTag = TypeTag(dies[id].kind)
      /\ Opened(id).refer = NoType
  BY OpenedFields
<1>2. dies[id].kind \in Aggregate => TypeTag(dies[id].kind) \notin {"POINTER", "ARRAY"}
  BY DEF Aggregate, TypeTag
<1>3. NoType \notin DOMAIN dies
  BY DEF Inv, WellFormed
<1>4. CASE Nested(id) = <<>> /\ info = [Opened(id) EXCEPT !.name = LeafName(id)]
  <2>1. info.refer = NoType /\ info.typeTag = TypeTag(dies[id].kind)
    BY <1>1, <1>4 DEF VTypeInfo
  <2> QED
    BY <1>2, <1>3, <2>1 DEF Backed, Derives
<1>5. CASE dies[id].kind \in {"pointer", "array", "subroutine"} /\ Nested(id) # <<>> /\ info = Derived(id)
  <2>1. dies[id].kind \notin Aggregate
    BY <1>5 DEF Aggregate
  <2>2. info.refer = r
    BY <1>1, <1>5 DEF Derived, VTypeInfo
  <2>3. r \in DOMAIN dies /\ r # id /\ (r \in Finished \/ dies[r].kind \in Aggregate)
    BY <1>5, <2>1, TargetKnown
  <2> QED
    BY <2>1, <2>2, <2>3 DEF Backed
<1>6. CASE dies[id].kind \in Alias /\ Nested(id) # <<>> /\ info = Copied(Unresolved(id), vTypeInfo[r])
  <2>1. dies[id].kind \notin Aggregate
    BY <1>6 DEF Alias, Aggregate
  <2>2. r \in Finished /\ r \in DOMAIN dies
    BY <1>6, <2>1, TargetKnown
  <2>3. PICK own, target : own = Unresolved(id) /\ target = vTypeInfo[r]
    OBVIOUS
  <2>4. own \in VTypeInfo
    BY <2>3, OpenedFields
  <2>5. info.typeTag = target.typeTag /\ (Derives(target) => info.refer = target.refer)
    <3>1. info = Copied(own, target)
      BY <1>6, <2>3
    <3> QED
      BY <2>4, <3>1 DEF Copied, Derives, VTypeInfo
  <2>6. Backed(target)
    BY <2>2, <2>3 DEF Grounded
  <2>7. Backed(info) /\ (Derives(info) => info.refer = target.refer)
    BY <2>5, <2>6 DEF Backed, Derives
  <2>8. id \notin Finished
    BY <1>6, <2>1, OnStack DEF Awaited, Finished
  <2> QED
    BY <2>1, <2>6, <2>7, <2>8, <1>3 DEF Backed
<1>7. CASE dies[id].kind \in Aggregate /\ info = [Opened(id) EXCEPT !.members = dies[id].members]
  <2>1. info.typeTag = TypeTag(dies[id].kind)
    BY <1>1, <1>7 DEF VTypeInfo
  <2> QED
    BY <1>2, <1>7, <2>1 DEF Backed, Derives
<1> QED
  BY <1>4, <1>5, <1>6, <1>7 DEF Result

LEMMA GroundedAlways == Spec => []Grounded
<1>1. Init => Grounded
  BY DEF Init, Grounded, Founded, Finished
<1>2. ASSUME Inv, Path, Telling, Grounded, [Next]_vars PROVE Grounded'
  <2>1. Finished \subseteq DOMAIN dies
    BY <1>2, OnStack DEF Finished
  <2>2. ASSUME NEW T, T = vTypeInfo', dies' = dies, Finished \subseteq Finished',
               \A a \in Finished' : Backed(T[a]),
               \A S \in (SUBSET Finished') \ {{}} : \E id \in S : ~Derives(T[id]) \/ T[id].refer \notin S
        PROVE  Grounded'
    <3>1. \A info : Backed(info) => Backed(info)'
      BY <2>2 DEF Backed, Derives
    <3>2. \A info : Derives(info)' <=> Derives(info)
      BY DEF Derives
    <3>3. \A a \in Finished' : Backed(T[a])'
      BY <2>2, <3>1
    <3>4. \A a \in Finished' : Backed(vTypeInfo[a])'
      BY <2>2, <3>3
    <3>5. Founded'
      BY <2>2 DEF Founded, Derives
    <3> QED
      BY <3>4, <3>5 DEF Grounded
  <2>3. ASSUME dies' = dies, Finished' = Finished, \A a \in Finished : vTypeInfo'[a] = vTypeInfo[a]
        PROVE  Grounded'
    <3>1. PICK T : T = vTypeInfo'
      OBVIOUS
    <3>2. \A a \in Finished : T[a] = vTypeInfo[a]
      BY <2>3, <3>1
    <3>3. \A a \in Finished : Backed(T[a])
      BY <1>2, <3>2 DEF Grounded
    <3>4. \A S \in (SUBSET Finished) \ {{}} : \E id \in S : ~Derives(T[id]) \/ T[id].refer \notin S
      BY <1>2, <3>2 DEF Grounded, Founded
    <3> QED
      BY <2>2, <2>3, <3>1, <3>3, <3>4
  <2>4. CASE Quiet
    <3>1. Finished' = Finished
      BY <2>4 DEF Quiet, Finished, InProgress
    <3> QED
      BY <2>3, <2>4, <3>1 DEF Quiet
  <2>5. ASSUME NEW id \in DOMAIN dies, Opens(id) \/ Extends(id) PROVE Grounded'
    <3>1. PICK info : Writes(id, info)
      BY <2>5 DEF Opens, Extends
    <3> QED
      BY <2>1, <2>3, <2>5, <3>1 DEF Opens, Extends, Writes
  <2>6. ASSUME NEW id \in DOMAIN dies, Finishes(id) PROVE Grounded'
    <3>1. PICK info : Writes(id, info) /\ Result(id, info)
      BY <2>6 DEF Finishes
    <3>2. PICK T : T = vTypeInfo'
      OBVIOUS
    <3>3. /\ dies' = dies /\ Finished' = Finished \union {id} /\ T[id] = info
          /\ \A a \in Finished : T[a] = vTypeInfo[a]
          /\ id \notin Finished
      BY <2>1, <2>6, <3>1, <3>2 DEF Finishes, Writes
    <3>4. Backed(info)
      BY <1>2, <2>6, <3>1, ResultGrounded DEF Finishes, Telling
    <3>5. (dies[id].kind \in Aggregate => ~Derives(info)) /\ (Derives(info) => info.refer # id)
      BY <1>2, <2>6, <3>1, ResultGrounded DEF Finishes, Telling
    <3>6. \A a \in Finished' : Backed(T[a])
      BY <1>2, <3>3, <3>4 DEF Grounded
    <3>7. ASSUME NEW S \in (SUBSET Finished') \ {{}},
                 \A x \in S : Derives(T[x]) /\ T[x].refer \in S
          PROVE  FALSE
      <4>1. id \in S
        <5>1. SUFFICES ASSUME id \notin S PROVE FALSE
          OBVIOUS
        <5>2. S \in (SUBSET Finished) \ {{}}
          BY <3>3, <3>7, <5>1
        <5>3. PICK x \in S : ~Derives(vTypeInfo[x]) \/ vTypeInfo[x].refer \notin S
          BY <1>2, <5>2 DEF Grounded, Founded
        <5> QED
          BY <3>3, <3>7, <5>2, <5>3
      <4>2. Derives(info) /\ info.refer \in S \ {id}
        BY <3>3, <3>5, <3>7, <4>1
      <4>3. S \ {id} \in (SUBSET Finished) \ {{}}
        BY <3>3, <3>7, <4>2
      <4>4. PICK x \in S \ {id} : ~Derives(vTypeInfo[x]) \/ vTypeInfo[x].refer \notin S \ {id}
        BY <1>2, <4>3 DEF Grounded, Founded
      <4>5. x \in Finished /\ Derives(vTypeInfo[x]) /\ vTypeInfo[x].refer = id
        BY <3>3, <3>7, <4>3, <4>4
      <4>6. Backed(vTypeInfo[x])
        BY <1>2, <4>5 DEF Grounded
      <4>7. id # NoType
        BY <1>2 DEF Inv, WellFormed
      <4>8. dies[id].kind \in Aggregate
        BY <3>3, <4>5, <4>6, <4>7 DEF Backed
      <4> QED
        BY <3>5, <4>2, <4>8
    <3>8. \A S \in (SUBSET Finished') \ {{}} : \E x \in S : ~Derives(T[x]) \/ T[x].refer \notin S
      BY <3>7
    <3> QED
      BY <2>2, <3>2, <3>3, <3>6, <3>8
  <2> QED
    BY <1>2, <2>4, <2>5, <2>6, Effect
<1> QED
  BY <1>1, <1>2, Invariant, PathAlways, TellingAlways, PTL DEF Spec

(***************************************************************************)
(* What the names tell in the end.                                         *)
(***************************************************************************)
\* When the recursion is over.
Resolved ==
  /\ Inv /\ Telling /\ OwnComplete /\ TargetsAgree
  /\ \A a \in DOMAIN dies : Kept(a, vTypeInfo[a])
  /\ MembersListed /\ Grounded /\ Finished = DOMAIN dies

\* A type has a name of its own, or one made of the name of what it refers to.
OwnNamed(id) ==
  LET info == vTypeInfo[id] IN
  /\ dies[id].kind \in Plain /\ (dies[id].kind \in Alias => Reference(id) = NoType)
  /\ info.name = OwnName(id) /\ info.typeTag = TypeTag(dies[id].kind)
  /\ info.members = dies[id].members /\ info.arrayBound = 0
  /\ info.typeTag = "BASE" => dies[id].kind = "base" /\ info.baseType = dies[id].base

Op(tag) == CASE tag = "POINTER" -> "*" [] tag = "ARRAY" -> "[]" [] OTHER -> "()"
ReferNamed(id) ==
  LET info == vTypeInfo[id] IN
  /\ info.typeTag \in {"POINTER", "ARRAY", "FUNCTION"} /\ info.members = <<>>
  /\ ReferName(info) \in Name
  /\ info.name = Decorate(ReferName(info), Op(info.typeTag), info.arrayBound)

\* A type without a nested call is as Leaf left it.
LEMMA LeafFields ==
  ASSUME Resolved, NEW id \in DOMAIN dies, Nested(id) = <<>>
  PROVE  /\ vTypeInfo[id].name = LeafName(id) /\ vTypeInfo[id].typeTag = TypeTag(dies[id].kind)
         /\ vTypeInfo[id].members = <<>> /\ vTypeInfo[id].arrayBound = 0
         /\ vTypeInfo[id].refer = NoType /\ dies[id].kind # "array"
         /\ dies[id].kind = "base" => vTypeInfo[id].baseType = dies[id].base
<1>1. vTypeInfo[id] = [Opened(id) EXCEPT !.name = LeafName(id)] /\ dies[id].kind # "array"
  BY DEF Resolved, Telling, Exact
<1>2. /\ Opened(id) \in VTypeInfo /\ Opened(id).typeTag = TypeTag(dies[id].kind)
      /\ Opened(id).members = <<>> /\ Opened(id).refer = NoType /\ Opened(id).arrayBound = 0
      /\ dies[id].kind = "base" => Opened(id).baseType = dies[id].base
  BY <1>1, OpenedFields DEF Resolved
<1> QED
  BY <1>1, <1>2 DEF VTypeInfo

LEMMA OwnNames1 ==
  ASSUME Resolved, NEW id \in DOMAIN dies, Root(id), dies[id].kind \in Plain
  PROVE  OwnNamed(id)
<1>1. WellFormedDie(dies[id]) /\ WellFormed(dies)
  BY DEF Resolved, Inv, WellFormed
<1>2. CASE dies[id].kind \in Aggregate
  <2>1. /\ vTypeInfo[id].typeTag = TypeTag(dies[id].kind) /\ vTypeInfo[id].members = dies[id].members
        /\ vTypeInfo[id].name = OwnName(id)
    BY <1>2 DEF Resolved, OwnComplete, Kept, Alias, Aggregate
  <2>2. vTypeInfo[id].arrayBound = 0
    <3>1. TypeTag(dies[id].kind) # "ARRAY"
      BY <1>2 DEF TypeTag, Aggregate
    <3> QED
      BY <2>1, <3>1 DEF Resolved, Telling, Exact, Sealed
  <2>3. vTypeInfo[id].typeTag # "BASE"
    BY <1>2, <2>1 DEF TypeTag, Aggregate
  <2> QED
    BY <1>2, <2>1, <2>2, <2>3 DEF OwnNamed, Alias, Aggregate
<1>3. CASE dies[id].kind \notin Aggregate
  <2>1. Nested(id) = <<>>
    BY <1>1, <1>3 DEF Plain, Root, Nested, Reference, WellFormedDie, Aggregate, Alias
  <2>2. dies[id].kind \in Alias => Reference(id) = NoType
    BY <1>1, <1>3, <2>1, NestedTypes DEF Alias
  <2>3. LeafName(id) = OwnName(id)
    BY <1>3 DEF LeafName, TypeTag, Plain
  <2>4. dies[id].members = <<>>
    BY <1>1, <1>3 DEF WellFormedDie
  <2>5. TypeTag(dies[id].kind) = "BASE" => dies[id].kind = "base"
    BY DEF TypeTag
  <2> QED
    BY <2>1, <2>2, <2>3, <2>4, <2>5, LeafFields DEF OwnNamed
<1> QED
  BY <1>2, <1>3

LEMMA ReferNames1 ==
  ASSUME Resolved, NEW id \in DOMAIN dies, dies[id].kind \notin Plain
  PROVE  ReferNamed(id)
<1> DEFINE k    == dies[id].kind
           info == vTypeInfo[id]
           r    == Reference(id)
<1>1. k \in {"unspecified", "pointer", "array", "subroutine"} /\ WellFormed(dies)
  BY DEF Resolved, Inv, WellFormed, TypeDie, Kind, Plain
<1>2. k \notin Alias /\ k \notin Aggregate /\ k # "enumeration"
  BY <1>1 DEF Alias, Aggregate
<1>3. info.typeTag = TypeTag(k) /\ info.refer = r /\ info.members = <<>>
  <2>1. dies[id].members = <<>>
    BY <1>1, <1>2 DEF WellFormed, WellFormedDie
  <2> QED
    BY <1>2, <2>1 DEF Resolved, OwnComplete
<1>4. info \in VTypeInfo
  BY DEF Resolved, Inv, TypeOK
<1>5. info.typeTag # "ARRAY" => info.arrayBound = 0
  BY DEF Resolved, Telling, Exact, Sealed
<1>6. /\ k \in {"unspecified", "pointer"} => TypeTag(k) = "POINTER"
      /\ k = "array" => TypeTag(k) = "ARRAY"
      /\ k = "subroutine" => TypeTag(k) = "FUNCTION"
  BY DEF TypeTag
<1>7. CASE Nested(id) = <<>>
  <2>1. info.name = LeafName(id) /\ info.arrayBound = 0 /\ info.refer = NoType /\ k # "array"
    BY <1>7, LeafFields
  <2>2. ReferName(info) = Named("void") /\ Named("void") \in Name
    BY <2>1, VoidName DEF ReferName
  <2>3. LeafName(id) = Decorate(Named("void"), Op(TypeTag(k)), 0)
    BY <1>1, <1>6, <2>1 DEF LeafName, Op
  <2> HIDE DEF k, info
  <2> QED
    BY <1>1, <1>3, <1>6, <2>1, <2>2, <2>3 DEF ReferNamed, info
<1>8. CASE Nested(id) # <<>>
  <2>1. Nested(id) = <<r>> /\ r # NoType
    BY <1>1, <1>2, <1>8, NestedTypes DEF Nested
  <2>2. ReferName(info) = vTypeInfo[r].name
    BY <1>3, <2>1 DEF ReferName
  <2>3. r \in DOMAIN dies
    BY <1>3, <1>4, <2>1 DEF VTypeInfo
  <2>4. ReferName(info) \in Name
    BY <2>2, <2>3 DEF Resolved, Inv, TypeOK, VTypeInfo
  <2>5. Agrees(id)
    BY <1>2, <1>8, Timeliness DEF Resolved, Telling, TargetsAgree
  <2>6. info.name = DerivedName(id, vTypeInfo[r].name)
    BY <1>2, <2>5 DEF Agrees
  <2>7. k # "unspecified"
    BY <1>1, <2>1 DEF WellFormed, WellFormedDie, Reference
  <2>8. info.name = Decorate(ReferName(info), Op(info.typeTag), info.arrayBound)
    BY <1>1, <1>3, <1>5, <1>6, <2>2, <2>6, <2>7 DEF DerivedName, Op
  <2> HIDE DEF k, info
  <2> QED
    BY <1>1, <1>3, <1>6, <2>4, <2>8 DEF ReferNamed, info
<1> QED
  BY <1>7, <1>8

\* A name of its own is not decorated.
LEMMA Undecorated ==
  ASSUME NEW id \in DOMAIN dies
  PROVE  OwnName(id).by = <<>>
BY DEF OwnName, Named

\* What TypeMerging!NamesTell asks of two types, and equal base types.
Alike(a, b) ==
  /\ a.typeTag = b.typeTag /\ a.arrayBound = b.arrayBound /\ a.members = b.members
  /\ a.typeTag \in {"POINTER", "ARRAY"} => ReferName(a) = ReferName(b)
  /\ a.typeTag = "BASE" => a.baseType = b.baseType

\* Types that are no copies are alike when their names are equal.
LEMMA RootsAlike ==
  ASSUME Resolved, NEW o1 \in DOMAIN dies, NEW o2 \in DOMAIN dies, Root(o1), Root(o2),
         vTypeInfo[o1].name = vTypeInfo[o2].name
  PROVE  Alike(vTypeInfo[o1], vTypeInfo[o2])
<1> DEFINE a == vTypeInfo[o1]
           b == vTypeInfo[o2]
<1>1. a.arrayBound \in Nat /\ b.arrayBound \in Nat
  BY DEF Resolved, Inv, TypeOK, VTypeInfo
<1>2. CASE OwnNamed(o1) /\ OwnNamed(o2)
  <2>1. OwnName(o1) = OwnName(o2)
    BY <1>2 DEF OwnNamed
  <2>2. TypeTag(dies[o1].kind) = TypeTag(dies[o2].kind) /\ dies[o1].members = dies[o2].members
    BY <1>2, <2>1, OwnNames DEF OwnNamed, Resolved, Telling
  <2>3. TypeTag(dies[o1].kind) \notin {"POINTER", "ARRAY"}
    BY <1>2 DEF OwnNamed, Plain, TypeTag
  <2>4. a.typeTag = "BASE" => a.baseType = b.baseType
    <3>1. dies[o1].kind = "base" => dies[o1].base = dies[o2].base
      BY <1>2, <2>1, OwnNames DEF OwnNamed, Resolved, Telling
    <3> QED
      BY <1>2, <2>2, <3>1 DEF OwnNamed
  <2> QED
    BY <1>2, <2>2, <2>3, <2>4 DEF OwnNamed, Alike
<1>3. CASE ReferNamed(o1) /\ ReferNamed(o2)
  <2>1. /\ ReferName(a) = ReferName(b) /\ Op(a.typeTag) = Op(b.typeTag)
        /\ a.arrayBound = b.arrayBound
    <3>1. PICK m, n \in Name : m = ReferName(a) /\ n = ReferName(b)
      BY <1>3 DEF ReferNamed
    <3>2. PICK p, q : p = Op(a.typeTag) /\ q = Op(b.typeTag)
      OBVIOUS
    <3>3. Decorate(m, p, a.arrayBound) = Decorate(n, q, b.arrayBound)
      BY <1>3, <3>1, <3>2 DEF ReferNamed
    <3> HIDE DEF a, b
    <3>4. m = n /\ p = q /\ a.arrayBound = b.arrayBound
      BY <3>3, Decorated
    <3> QED
      BY <3>1, <3>2, <3>4
  <2>2. a.typeTag = b.typeTag /\ a.typeTag # "BASE"
    BY <1>3, <2>1 DEF ReferNamed, Op
  <2> QED
    BY <1>3, <2>1, <2>2 DEF ReferNamed, Alike
<1>4. ASSUME NEW x \in DOMAIN dies, NEW y \in DOMAIN dies, OwnNamed(x), ReferNamed(y),
             vTypeInfo[x].name = vTypeInfo[y].name
      PROVE  FALSE
  <2>1. vTypeInfo[x].name.by = <<>>
    BY <1>4, Undecorated DEF OwnNamed
  <2>2. vTypeInfo[y].name.by # <<>>
    BY <1>4, Decorated DEF ReferNamed
  <2> QED
    BY <1>4, <2>1, <2>2
<1>5. \A o \in {o1, o2} : OwnNamed(o) \/ ReferNamed(o)
  BY OwnNames1, ReferNames1
<1> QED
  BY <1>2, <1>3, <1>4, <1>5

\* ... and so are copies of them.
LEMMA AllAlike ==
  ASSUME Resolved, NEW id1 \in DOMAIN dies, NEW id2 \in DOMAIN dies,
         vTypeInfo[id1].name = vTypeInfo[id2].name
  PROVE  Alike(vTypeInfo[id1], vTypeInfo[id2])
<1>1. PICK o1 \in DOMAIN dies : Root(o1) /\ Same(vTypeInfo[id1], vTypeInfo[o1])
  BY DEF Resolved, Telling
<1>2. PICK o2 \in DOMAIN dies : Root(o2) /\ Same(vTypeInfo[id2], vTypeInfo[o2])
  BY DEF Resolved, Telling
<1>3. Alike(vTypeInfo[o1], vTypeInfo[o2])
  BY <1>1, <1>2, RootsAlike DEF Same
<1> QED
  BY <1>1, <1>2, <1>3 DEF Same, Alike, ReferName

\* The name of a pointer or an array is decorated.
LEMMA PointersDecorated ==
  ASSUME Resolved, NEW id \in DOMAIN dies, vTypeInfo[id].typeTag \in {"POINTER", "ARRAY"}
  PROVE  vTypeInfo[id].name # Named("void")
<1>1. PICK o \in DOMAIN dies : Root(o) /\ Same(vTypeInfo[id], vTypeInfo[o])
  BY DEF Resolved, Telling
<1>2. ReferNamed(o)
  <2>1. CASE OwnNamed(o)
    BY <1>1, <2>1 DEF OwnNamed, Plain, TypeTag, Same
  <2> QED
    BY <1>1, <2>1, OwnNames1, ReferNames1
<1>3. vTypeInfo[o].name.by # <<>>
  BY <1>2, Decorated DEF ReferNamed
<1>4. Named("void").by = <<>>
  BY DEF Named
<1> QED
  BY <1>1, <1>3, <1>4 DEF Same

\* The name of a type that is no alias is not that of void.
LEMMA NotVoid ==
  ASSUME Resolved, NEW o \in DOMAIN dies, dies[o].kind \notin Alias
  PROVE  vTypeInfo[o].name # Named("void")
<1>1. Named("void").by = <<>> /\ Named("void").id = NoType /\ Named("void").text = "void"
  BY DEF Named
<1>2. CASE ReferNamed(o)
  BY <1>1, <1>2, Decorated DEF ReferNamed
<1>3. CASE OwnNamed(o)
  <2>1. WellFormed(dies) /\ WellNamed(dies) /\ DOMAIN dies \subseteq Nat \ {NoType}
    BY InputsAssumption, UnitsAssumption DEF Resolved, Telling, WellFormed
  <2>2. vTypeInfo[o].name = OwnName(o) /\ dies[o].kind \in {"base", "enumeration", "structure", "union"}
    BY <1>3 DEF OwnNamed, Plain, Alias
  <2>3. CASE dies[o].kind = "base"
    <3>1. OwnName(o).text = BaseName[dies[o].base + 1]
      BY <2>3 DEF OwnName, Named
    <3>2. dies[o].base \in 1 .. 14
      <4>1. dies[o].base \in 0 .. Len(BaseName) - 1 /\ dies[o].base # 0
        BY <2>1, <2>3 DEF WellFormed, WellFormedDie, TypeDie
      <4>2. Len(BaseName) - 1 = 14
        BY DEF BaseName
      <4>3. dies[o].base \in 0 .. 14 /\ dies[o].base # 0
        BY <4>1, <4>2
      <4> QED
        BY <4>3
    <3>3. \A i \in 1 .. 14 : BaseName[i + 1] # "void"
      <4>1. \A j \in 2 .. 15 : BaseName[j] # "void"
        BY DEF BaseName
      <4> QED
        BY <4>1
    <3> QED
      BY <1>1, <2>2, <3>1, <3>2, <3>3
  <2>4. CASE dies[o].kind # "base" /\ dies[o].name = <<>>
    <3>1. OwnName(o) = [Named(dies[o].kind) EXCEPT !.id = o]
      BY <2>2, <2>4 DEF OwnName
    <3>2. OwnName(o).id = o
      BY <3>1 DEF Named
    <3> QED
      BY <1>1, <2>1, <2>2, <3>2
  <2>5. CASE dies[o].kind # "base" /\ dies[o].name # <<>>
    <3>1. Titled(dies, o)
      BY <2>2, <2>5 DEF Titled
    <3>2. OwnName(o).text = dies[o].name[1]
      BY <2>2, <2>5 DEF OwnName, Named
    <3>3. BaseName[1] = "void" /\ 1 \in 1 .. Len(BaseName)
      BY DEF BaseName
    <3>4. dies[o].name[1] # "void"
      BY <2>1, <3>1, <3>3 DEF WellNamed
    <3> QED
      BY <1>1, <2>2, <3>2, <3>4
  <2> QED
    BY <2>3, <2>4, <2>5
<1>4. Root(o)
  BY DEF Root
<1> QED
  BY <1>2, <1>3, <1>4, OwnNames1, ReferNames1

\* An array has an element type, also when it is the copy of one.
LEMMA ArraysRefer ==
  ASSUME Resolved, NEW id \in DOMAIN dies, vTypeInfo[id].typeTag = "ARRAY"
  PROVE  vTypeInfo[id].refer # NoType
<1>1. PICK o \in DOMAIN dies : Root(o) /\ Same(vTypeInfo[id], vTypeInfo[o])
  BY DEF Resolved, Telling
<1>2. vTypeInfo[o].typeTag = "ARRAY" /\ vTypeInfo[id].refer = vTypeInfo[o].refer
  BY <1>1 DEF Same
<1>3. dies[o].kind \notin Alias
  <2>1. dies[o].kind \in Alias => TypeTag(dies[o].kind) = "VOID"
    BY DEF Alias, TypeTag
  <2> QED
    BY <1>1, <1>2, <2>1, LeafFields DEF Root
<1>4. TypeTag(dies[o].kind) = "ARRAY" /\ dies[o].kind # "enumeration" /\ vTypeInfo[o].refer = Reference(o)
  <2>1. vTypeInfo[o].typeTag = TypeTag(dies[o].kind)
    BY <1>3 DEF Resolved, OwnComplete
  <2>2. dies[o].kind # "enumeration"
    BY <1>2, <2>1 DEF TypeTag
  <2> QED
    BY <1>2, <1>3, <2>1, <2>2 DEF Resolved, OwnComplete
<1>5. dies[o].kind = "array"
  BY <1>4 DEF TypeTag
<1>6. Nested(o) # <<>>
  BY <1>5, LeafFields
<1>7. Reference(o) # NoType
  BY <1>5, <1>6 DEF Nested, Aggregate
<1> QED
  BY <1>2, <1>4, <1>7

(***************************************************************************)
(* The database that the merging starts with.                              *)
(***************************************************************************)
\* Its types have the names, and refer to the names, of the resolved types.
LEMMA DatabaseTells ==
  ASSUME Resolved
  PROVE  Cells!NamesTell(Database)
<1> DEFINE map == [id \in DOMAIN vTypeInfo |-> Entry(vTypeInfo[id])]
<1>1. DOMAIN vTypeInfo = DOMAIN dies /\ \A id \in DOMAIN dies : vTypeInfo[id] \in VTypeInfo
  BY DEF Resolved, Inv, TypeOK
<1>2. Len(Database) = 1 /\ Database[1] = map
  BY DEF Database
<1>3. \A id \in DOMAIN dies :
        /\ map[id].name = vTypeInfo[id].name /\ map[id].tag = vTypeInfo[id].typeTag
        /\ map[id].ref = vTypeInfo[id].refer
  BY <1>1 DEF Entry
<1> HIDE DEF map
<1>4. ASSUME NEW id \in DOMAIN dies
      PROVE  Cells!ReferName(map, id) = ReferName(vTypeInfo[id])
  <2>1. vTypeInfo[id].refer \in DOMAIN dies \union {NoType}
    BY <1>1 DEF VTypeInfo
  <2> QED
    BY <1>3, <2>1 DEF Cells!ReferName, ReferName, NoType
<1>5. ASSUME NEW i \in DOMAIN dies, NEW j \in DOMAIN dies, map[i].name = map[j].name
      PROVE  /\ map[i].tag = map[j].tag
             /\ map[i].tag \in Cells!Derived =>
                  map[i].name # Named("void") /\ Cells!ReferName(map, i) = Cells!ReferName(map, j)
  <2>1. Alike(vTypeInfo[i], vTypeInfo[j])
    BY <1>3, <1>5, AllAlike
  <2>2. vTypeInfo[i].typeTag \in {"POINTER", "ARRAY"} => vTypeInfo[i].name # Named("void")
    BY PointersDecorated
  <2> QED
    BY <1>3, <1>4, <2>1, <2>2 DEF Alike, Cells!Derived
<1>6. DOMAIN map = DOMAIN dies
  BY <1>1 DEF map
<1> QED
  BY <1>2, <1>5, <1>6 DEF Cells!NamesTell

\* The databases that initTypeCells takes, of one unit, and what TypeCellsProofs
\* proves of the merging of those.
Entries == [name : Name, tag : Cells!Tag, base : 0 .. 14, ref : Nat, upper : Seq(Nat),
            members : Seq(Member), attrs : {1}]
UnitDatabases == {<<map>> : map \in UNION {[S -> Entries] : S \in SUBSET (Nat \ {0})}}
Mergeable == {d \in UnitDatabases : Cells!WellFormed(d) /\ Cells!NamesTell(d)}

Merging == INSTANCE TypeCellsProofs WITH
  Databases <- Mergeable, VoidName <- Named("void"), db <- Database,
  module <- cellModule, todo <- cellTodo, at <- cellAt, stack <- cellStack

\* What TypeCells assumes of its constants.
LEMMA MergeableFormed == \A d \in Mergeable : Merging!WellFormed(d)
BY DEF Mergeable, Merging!WellFormed, Cells!WellFormed, Merging!WellFormedEntry, Cells!WellFormedEntry,
       Merging!WellFounded, Cells!WellFounded, Merging!Derived, Cells!Derived, Merging!Tag, Cells!Tag,
       Merging!BaseType, Cells!BaseType, Merging!Member, Cells!Member
LEMMA MergeableTells == Merging!NamesTellAll
BY DEF Mergeable, Merging!NamesTellAll, Merging!NamesTell, Cells!NamesTell, Merging!ReferName,
       Cells!ReferName, Merging!Derived, Cells!Derived

\* The entry of a type, as initTypeCells reads it.
LEMMA EntryFields ==
  ASSUME NEW info
  PROVE  /\ Entry(info).name = info.name /\ Entry(info).tag = info.typeTag
         /\ Entry(info).base = info.baseType /\ Entry(info).ref = info.refer
         /\ Entry(info).members = info.members /\ Entry(info).attrs = 1
         /\ Entry(info).upper = IF info.arrayBound = 0 THEN <<>> ELSE <<info.arrayBound - 1>>
BY DEF Entry

LEMMA EntryTypes ==
  ASSUME Inv, NEW id \in DOMAIN dies
  PROVE  Entry(vTypeInfo[id]) \in Entries
<1>1. PICK info \in VTypeInfo : info = vTypeInfo[id]
  BY DEF Inv, TypeOK
<1>2. DOMAIN dies \subseteq Nat \ {NoType}
  BY DEF Inv, WellFormed
<1>3. /\ info.name \in Name /\ info.typeTag \in Cells!Tag /\ info.baseType \in 0 .. Len(BaseName) - 1
      /\ info.refer \in DOMAIN dies \union {NoType} /\ info.members \in Seq(Member)
      /\ info.arrayBound \in 0 .. MaxArrayBound
  BY <1>1 DEF VTypeInfo, Cells!Tag
<1>4. info.refer \in Nat
  BY <1>2, <1>3 DEF NoType
<1>5. Len(BaseName) - 1 = 14
  BY DEF BaseName
<1>6. (IF info.arrayBound = 0 THEN <<>> ELSE <<info.arrayBound - 1>>) \in Seq(Nat)
  <2>1. info.arrayBound \in 0 .. 512
    BY <1>3 DEF MaxArrayBound
  <2>2. info.arrayBound # 0 => info.arrayBound - 1 \in Nat
    BY <2>1
  <2>3. \A x \in Nat : <<x>> \in Seq(Nat)
    OBVIOUS
  <2>4. <<>> \in Seq(Nat)
    OBVIOUS
  <2> QED
    BY <2>2, <2>3, <2>4
<1>7. PICK upper \in Seq(Nat) : upper = IF info.arrayBound = 0 THEN <<>> ELSE <<info.arrayBound - 1>>
  BY <1>6
<1>8. info.baseType \in 0 .. 14
  BY <1>3, <1>5
<1>9. Entry(info) = [name |-> info.name, tag |-> info.typeTag, base |-> info.baseType, ref |-> info.refer,
                     upper |-> upper, members |-> info.members, attrs |-> 1]
  BY <1>7 DEF Entry
<1> QED
  BY <1>1, <1>3, <1>4, <1>7, <1>8, <1>9 DEF Entries

LEMMA DatabaseUnit ==
  ASSUME Inv
  PROVE  /\ Database \in UnitDatabases /\ Len(Database) = 1 /\ DOMAIN Database[1] = DOMAIN dies
         /\ \A id \in DOMAIN dies : Database[1][id] = Entry(vTypeInfo[id])
<1> DEFINE map == [id \in DOMAIN dies |-> Entry(vTypeInfo[id])]
<1>1. DOMAIN vTypeInfo = DOMAIN dies /\ DOMAIN dies \subseteq Nat \ {0}
  BY DEF Inv, TypeOK, WellFormed, NoType
<1>2. Database = <<map>>
  BY <1>1 DEF Database
<1>3. map \in [DOMAIN dies -> Entries]
  BY EntryTypes
<1> QED
  BY <1>1, <1>2, <1>3 DEF UnitDatabases

\* The entries of a resolved unit, and a resolved unit, are as the linker takes them.
LEMMA EntriesFormed ==
  ASSUME Resolved, NEW id \in DOMAIN dies
  PROVE  Cells!WellFormedEntry(Database[1], Database[1][id])
<1>1. /\ Database[1][id] = Entry(vTypeInfo[id]) /\ Entry(vTypeInfo[id]) \in Entries
      /\ DOMAIN Database[1] = DOMAIN dies
  BY DatabaseUnit, EntryTypes DEF Resolved
<1>2. PICK e : e = Database[1][id]
  OBVIOUS
<1>3. /\ e \in Entries /\ e.tag = vTypeInfo[id].typeTag /\ e.ref = vTypeInfo[id].refer
      /\ e.members = vTypeInfo[id].members
  BY <1>1, <1>2, EntryFields
<1>4. vTypeInfo[id].refer \in DOMAIN dies \union {NoType}
  BY DEF Resolved, Inv, TypeOK, VTypeInfo
<1>5. e.tag = "ARRAY" => e.ref # 0
  BY <1>3, ArraysRefer DEF NoType
<1>6. \A i \in DOMAIN e.members : e.members[i].type \in DOMAIN dies
  <2>1. e.members \in Seq(Member)
    BY <1>3 DEF Entries
  <2>2. DOMAIN e.members = 1 .. Len(e.members)
    BY <2>1
  <2> QED
    BY <1>3, <2>2 DEF Resolved, MembersListed, Listed
<1>7. Len(Cells!BaseType) - 1 = 14
  BY DEF Cells!BaseType
<1>8. /\ e.tag \in Cells!Tag /\ e.base \in 0 .. 14 /\ e.attrs \in Nat
      /\ e.upper \in Seq(Nat) /\ e.members \in Seq(Cells!Member)
  BY <1>3 DEF Entries, Member, Cells!Member
<1>9. e.ref \in DOMAIN Database[1] \union {0}
  BY <1>1, <1>3, <1>4 DEF NoType
<1> QED
  BY <1>1, <1>2, <1>5, <1>6, <1>7, <1>8, <1>9 DEF Cells!WellFormedEntry

LEMMA DatabaseFormed ==
  ASSUME Resolved
  PROVE  Database \in Mergeable
<1>1. /\ Database \in UnitDatabases /\ Len(Database) = 1 /\ DOMAIN Database[1] = DOMAIN dies
      /\ \A id \in DOMAIN dies : Database[1][id] = Entry(vTypeInfo[id])
  BY DatabaseUnit DEF Resolved
<1>2. DOMAIN dies \subseteq Nat \ {0}
  BY DEF Resolved, Inv, WellFormed, NoType
<1>3. ASSUME NEW S \in (SUBSET DOMAIN dies) \ {{}}
      PROVE  \E id \in S : Database[1][id].tag \notin Cells!Derived \/ Database[1][id].ref \notin S
  <2>1. PICK id \in S : ~Derives(vTypeInfo[id]) \/ vTypeInfo[id].refer \notin S
    BY <1>3 DEF Resolved, Grounded, Founded
  <2>2. Database[1][id].tag = vTypeInfo[id].typeTag /\ Database[1][id].ref = vTypeInfo[id].refer
    BY <1>1, <1>3, EntryFields
  <2> QED
    BY <2>1, <2>2 DEF Derives, Cells!Derived
<1>4. PICK map : map = Database[1]
  OBVIOUS
<1>5. Cells!WellFounded(map)
  BY <1>1, <1>3, <1>4 DEF Cells!WellFounded
<1>6. \A id \in DOMAIN map : Cells!WellFormedEntry(map, map[id])
  BY <1>1, <1>4, EntriesFormed
<1>7. \A m \in 1 .. Len(Database) : Database[m] = map
  BY <1>1, <1>4
<1>8. Cells!WellFormed(Database)
  BY <1>1, <1>2, <1>4, <1>5, <1>6, <1>7 DEF Cells!WellFormed
<1> QED
  BY <1>1, <1>8, DatabaseTells DEF Mergeable

\* The merging of the cells is the one of TypeCellsProofs.
LEMMA SameMerging ==
  /\ Cells!Next => Merging!Next
  /\ Cells!InitCells => Merging!InitCells
  /\ Cells!Done <=> Merging!Done
<1>1. Cells!InitCells => Merging!InitCells
  BY DEF Cells!InitCells, Merging!InitCells, Cells!BaseType, Merging!BaseType, Cells!BaseCell,
      Merging!BaseCell, Cells!VoidSn, Merging!VoidSn, Cells!Idle, Merging!Idle
<1>2. Cells!Done <=> Merging!Done
  BY DEF Cells!Done, Merging!Done, Cells!Idle, Merging!Idle
<1>3. \A id : Cells!NextType(id) => Merging!NextType(id)
  BY DEF Cells!NextType, Merging!NextType, Cells!Idle, Merging!Idle, Cells!Call, Merging!Call
<1>4. Cells!NextModule \/ Cells!TypeDone => Merging!NextModule \/ Merging!TypeDone
  BY DEF Cells!NextModule, Merging!NextModule, Cells!TypeDone, Merging!TypeDone, Cells!Idle,
      Merging!Idle, Cells!input, Merging!input
<1>5. \A id : Cells!Known(id) => Merging!Known(id)
  BY DEF Cells!Known, Merging!Known, Cells!CountRedundant, Merging!CountRedundant, Cells!MapIdent,
      Merging!MapIdent, Cells!Insert, Merging!Insert, Cells!E, Merging!E, Cells!Call,
      Merging!Call, Cells!Return, Merging!Return, Cells!input, Merging!input
<1>6. \A id : Cells!Preset(id) => Merging!Preset(id)
  BY DEF Cells!Preset, Merging!Preset, Cells!New, Merging!New, Cells!Replaced, Merging!Replaced,
      Cells!PresetSn, Merging!PresetSn, Cells!Aggregate, Merging!Aggregate, Cells!Int32Sn,
      Merging!Int32Sn, Cells!VoidSn, Merging!VoidSn, Cells!CountRedundant,
      Merging!CountRedundant, Cells!MapIdent, Merging!MapIdent, Cells!Insert, Merging!Insert,
      Cells!E, Merging!E, Cells!Call, Merging!Call, Cells!Return, Merging!Return, Cells!input,
      Merging!input
<1>7. \A id : Cells!VoidOrFunction(id) => Merging!VoidOrFunction(id)
  BY DEF Cells!VoidOrFunction, Merging!VoidOrFunction, Cells!New, Merging!New, Cells!PresetSn,
      Merging!PresetSn, Cells!Int32Sn, Merging!Int32Sn, Cells!VoidSn, Merging!VoidSn,
      Cells!MapIdent, Merging!MapIdent, Cells!Insert, Merging!Insert, Cells!E, Merging!E,
      Cells!Call, Merging!Call, Cells!Return, Merging!Return, Cells!input, Merging!input
<1>8. \A id : Cells!VoidPointer(id) => Merging!VoidPointer(id)
  BY DEF Cells!VoidPointer, Merging!VoidPointer, Cells!New, Merging!New, Cells!VoidSn,
      Merging!VoidSn, Cells!Create, Merging!Create, Cells!NewCell, Merging!NewCell,
      Cells!ArrayBound, Merging!ArrayBound, Cells!MaxArrayBound, Merging!MaxArrayBound,
      Cells!DefaultArrayBound, Merging!DefaultArrayBound, Cells!MapIdent, Merging!MapIdent,
      Cells!Insert, Merging!Insert, Cells!NextSn, Merging!NextSn, Cells!E, Merging!E,
      Cells!Call, Merging!Call, Cells!Return, Merging!Return, Cells!input, Merging!input
<1>9. \A id : Cells!DerivedCall(id) => Merging!DerivedCall(id)
  BY DEF Cells!DerivedCall, Merging!DerivedCall, Cells!New, Merging!New, Cells!Derived,
      Merging!Derived, Cells!E, Merging!E, Cells!Call, Merging!Call, Cells!input, Merging!input
<1>10. \A id : Cells!AggregateCall(id) => Merging!AggregateCall(id)
  BY DEF Cells!AggregateCall, Merging!AggregateCall, Cells!New, Merging!New, Cells!Aggregate,
      Merging!Aggregate, Cells!VoidSn, Merging!VoidSn, Cells!Create, Merging!Create,
      Cells!NewCell, Merging!NewCell, Cells!ArrayBound, Merging!ArrayBound, Cells!MaxArrayBound,
      Merging!MaxArrayBound, Cells!DefaultArrayBound, Merging!DefaultArrayBound, Cells!MapIdent,
      Merging!MapIdent, Cells!Insert, Merging!Insert, Cells!NextSn, Merging!NextSn, Cells!E,
      Merging!E, Cells!Call, Merging!Call, Cells!Return, Merging!Return, Cells!input,
      Merging!input
<1>11. Cells!DerivedReturn => Merging!DerivedReturn
  BY DEF Cells!DerivedReturn, Merging!DerivedReturn, Cells!Last, Merging!Last, Cells!Front,
      Merging!Front, Cells!Create, Merging!Create, Cells!NewCell, Merging!NewCell,
      Cells!ArrayBound, Merging!ArrayBound, Cells!MaxArrayBound, Merging!MaxArrayBound,
      Cells!DefaultArrayBound, Merging!DefaultArrayBound, Cells!MapIdent, Merging!MapIdent,
      Cells!Insert, Merging!Insert, Cells!NextSn, Merging!NextSn, Cells!E, Merging!E,
      Cells!Call, Merging!Call, Cells!Return, Merging!Return, Cells!input, Merging!input
<1>12. Cells!MemberReturn => Merging!MemberReturn
  BY DEF Cells!MemberReturn, Merging!MemberReturn, Cells!Last, Merging!Last, Cells!Front,
      Merging!Front, Cells!CellMember, Merging!CellMember, Cells!E, Merging!E, Cells!Cell,
      Merging!Cell, Cells!Call, Merging!Call, Cells!Return, Merging!Return, Cells!NextSn,
      Merging!NextSn, Cells!input, Merging!input
<1>13. UNCHANGED Cells!vars => UNCHANGED Merging!vars
  BY DEF Cells!vars, Merging!vars, Cells!input, Merging!input
<1>14. \A id : Cells!Enter(id) => Merging!Enter(id)
  BY <1>5, <1>6, <1>7, <1>8, <1>9, <1>10 DEF Cells!Enter, Merging!Enter
<1>15. Cells!Next => Merging!Next
  BY <1>2, <1>3, <1>4, <1>11, <1>12, <1>13, <1>14 DEF Cells!Next, Merging!Next
<1> QED
  BY <1>1, <1>2, <1>15

\* What TypeCellsProofs proves, while the cells are merged.
CellsInv == Merging!Inv /\ Merging!Meaning /\ Merging!Presets /\ Merging!Filled

LEMMA CellsStart ==
  ASSUME Resolved, Cells!InitCells
  PROVE  CellsInv
<1>1. Merging!Init
  BY DatabaseFormed, SameMerging DEF Merging!Init
<1> QED
  BY <1>1, MergeableFormed, Merging!Initial, Merging!MeaningStarts, Merging!FilledStarts DEF CellsInv

LEMMA CellsStep ==
  ASSUME CellsInv, [Cells!Next]_<<vars, cellVars>>
  PROVE  CellsInv'
<1>1. [Merging!Next]_Merging!vars
  <2>1. CASE UNCHANGED <<vars, cellVars>>
    <3>1. Database' = Database
      BY <2>1 DEF Database, vars, Entry
    <3> QED
      BY <2>1, <3>1 DEF Merging!vars, Merging!input, cellVars
  <2> QED
    BY <2>1, SameMerging
<1>2. Merging!Inv'
  BY <1>1, MergeableFormed, Merging!Step DEF CellsInv
<1>3. Merging!Meaning'
  BY <1>1, MergeableFormed, MergeableTells, Merging!MeaningStep DEF CellsInv
<1>4. Merging!Presets' /\ Merging!Filled'
  <2>1. Merging!Kinds
    BY DEF CellsInv, Merging!Meaning
  <2> QED
    BY <1>1, <2>1, MergeableFormed, Merging!FilledStep DEF CellsInv
<1> QED
  BY <1>2, <1>3, <1>4 DEF CellsInv

\* What is known of the cells when the merging is over, in terms of the resolved types.
Stands(n, info) == Merging!Suits(n, Merging!Cell(n), Entry(info))
LEMMA CellFacts ==
  ASSUME Resolved, CellsInv, Cells!Done
  PROVE  LET Cell(n) == Merging!Cell(n)  Sn == Merging!Sn IN
         /\ \A id \in DOMAIN dies : typeVecMap[1][id] \in Sn /\ Stands(typeVecMap[1][id], vTypeInfo[id])
         /\ \A n \in Sn : Cell(n).ref \in Sn
         /\ \A n \in Sn : Cell(n).tag \in {"STRUCTURE", "UNION"} =>
              /\ \E z \in DOMAIN dies : vTypeInfo[z].name = Cell(n).name /\ vTypeInfo[z].members # <<>>
              /\ \E z \in DOMAIN dies : /\ vTypeInfo[z].name = Cell(n).name
                                        /\ Len(Cell(n).members) = Len(vTypeInfo[z].members)
         /\ \A n \in Sn : Cell(n).tag \in {"POINTER", "ARRAY"} =>
              \E x \in DOMAIN dies :
                LET info == vTypeInfo[x] IN
                /\ info.name = Cell(n).name /\ info.typeTag = Cell(n).tag
                /\ \/ info.refer # NoType /\ vTypeInfo[info.refer].typeTag = "UNION"
                   \/ info.refer = NoType
                   \/ info.refer # NoType /\ Stands(Cell(n).ref, vTypeInfo[info.refer])
<1> DEFINE Cell(n) == Merging!Cell(n)
           Sn == Merging!Sn
<1>1. /\ Len(Database) = 1 /\ DOMAIN Database[1] = DOMAIN dies
      /\ \A id \in DOMAIN dies : Database[1][id] = Entry(vTypeInfo[id])
  BY DatabaseUnit DEF Resolved
<1>2. Merging!Inv /\ Merging!Meaning /\ Merging!Presets /\ Merging!Filled /\ Merging!Done
  BY SameMerging DEF CellsInv
<1>3. /\ Merging!Module = {1} /\ Merging!Made = 15 .. Merging!NextSn - 1
      /\ Sn = 0 .. Merging!NextSn - 1 /\ Merging!NextSn \in Nat
  <2>1. /\ Merging!Module = 1 .. Len(Database) /\ Merging!Made = 15 .. Merging!NextSn - 1
        /\ Sn = 0 .. Merging!NextSn - 1 /\ Merging!NextSn \in Nat
    BY <1>2, MergeableFormed, Merging!Basics
  <2> QED
    BY <1>1, <2>1
<1>4. \A n \in Sn : Cell(n).tag \notin {"VOID", "BASE"} => n \in Merging!Made
  <2>1. \A n \in 0 .. 14 : Cell(n).tag \in {"VOID", "BASE"}
    BY <1>2 DEF Merging!Presets
  <2> HIDE DEF Cell
  <2>2. \A n \in Sn : n \in 0 .. 14 \/ n \in Merging!Made
    BY <1>3
  <2> QED
    BY <2>1, <2>2
<1>5. \A id \in DOMAIN dies : typeVecMap[1][id] \in Sn /\ Stands(typeVecMap[1][id], vTypeInfo[id])
  <2>1. DOMAIN typeVecMap[1] = DOMAIN dies
    BY <1>1, <1>2, <1>3, MergeableFormed, Merging!MappedInTheEnd
  <2>2. \A id \in DOMAIN dies : typeVecMap[1][id] \in Sn
    BY <1>2, <1>3, <2>1 DEF Merging!Inv, Merging!Maps
  <2>3. Merging!MapFaithful
    BY <1>2 DEF Merging!Meaning
  <2>4. \A id \in DOMAIN dies : Merging!Represents(typeVecMap[1][id], Database[1][id])
    BY <1>3, <2>1, <2>3 DEF Merging!MapFaithful
  <2>5. \A id \in DOMAIN dies : Stands(typeVecMap[1][id], vTypeInfo[id])
    <3> TAKE id \in DOMAIN dies
    <3>1. PICK n, e : n = typeVecMap[1][id] /\ e = Entry(vTypeInfo[id])
      OBVIOUS
    <3>2. Merging!Represents(n, e)
      BY <1>1, <2>4, <3>1
    <3>3. Merging!Suits(n, Merging!Cell(n), e)
      BY <3>2, MergeableFormed, Merging!Suited
    <3> QED
      BY <3>1, <3>3 DEF Stands
  <2> QED
    BY <2>2, <2>5
<1>6. \A n \in Sn : Cell(n).ref \in Sn
  BY <1>2 DEF Merging!Inv, Merging!Cells
<1>7. cellStack = <<>>
  <2>1. cellAt = Merging!Idle
    BY <1>2 DEF Merging!Done
  <2>2. (\A x : Merging!Call(x) # Merging!Idle) /\ (\A x : Merging!Return(x) # Merging!Idle)
    BY DEF Merging!Call, Merging!Return, Merging!Idle
  <2>3. Merging!Control
    BY <1>2 DEF Merging!Inv
  <2> QED
    BY <2>1, <2>2, <2>3 DEF Merging!Control
<1>8. ASSUME NEW n \in Sn, Cell(n).tag \in {"STRUCTURE", "UNION"}
      PROVE  /\ \E z \in DOMAIN dies : vTypeInfo[z].name = Cell(n).name /\ vTypeInfo[z].members # <<>>
             /\ \E z \in DOMAIN dies : /\ vTypeInfo[z].name = Cell(n).name
                                       /\ Len(Cell(n).members) = Len(vTypeInfo[z].members)
  <2>1. n \in Merging!Made /\ Cell(n).tag \in Merging!Aggregate
    BY <1>4, <1>8 DEF Merging!Aggregate
  <2>2. PICK z \in DOMAIN dies : Database[1][z].name = Cell(n).name /\ Database[1][z].members # <<>>
    BY <1>1, <1>2, <1>3, <2>1 DEF Merging!Filled
  <2>3. vTypeInfo[z].name = Cell(n).name /\ vTypeInfo[z].members # <<>>
    BY <1>1, <2>2, EntryFields, ZenonT(60)
  <2>4. Merging!Grown
    BY <1>2 DEF Merging!Meaning
  <2>5. Merging!Finished(n)
    <3>1. \A k \in 1 .. Len(cellStack) : FALSE
      BY <1>7
    <3> QED
      BY <2>1, <2>4, <3>1 DEF Merging!Grown
  <2>6. PICK y \in DOMAIN dies :
          Database[1][y].name = Cell(n).name /\ Len(Cell(n).members) = Len(Database[1][y].members)
    BY <1>1, <1>3, <2>5 DEF Merging!Finished
  <2>7. vTypeInfo[y].name = Cell(n).name /\ Len(Cell(n).members) = Len(vTypeInfo[y].members)
    BY <1>1, <2>6, EntryFields, ZenonT(60)
  <2> QED
    BY <2>3, <2>7
<1>9. ASSUME NEW n \in Sn, Cell(n).tag \in {"POINTER", "ARRAY"}
      PROVE  \E x \in DOMAIN dies :
               LET info == vTypeInfo[x] IN
               /\ info.name = Cell(n).name /\ info.typeTag = Cell(n).tag
               /\ \/ info.refer # NoType /\ vTypeInfo[info.refer].typeTag = "UNION"
                  \/ info.refer = NoType
                  \/ info.refer # NoType /\ Stands(Cell(n).ref, vTypeInfo[info.refer])
  <2>1. n \in Merging!Made /\ Cell(n).tag \in Merging!Derived /\ Merging!References
    BY <1>2, <1>4, <1>9 DEF Merging!Derived, Merging!Meaning
  <2>2. PICK x \in DOMAIN dies :
          /\ Database[1][x].name = Cell(n).name /\ Database[1][x].tag = Cell(n).tag
          /\ Merging!Leads(Cell(n), 1, Database[1][x])
    BY <1>1, <1>3, <2>1 DEF Merging!References
  <2>3. PICK info : info = vTypeInfo[x]
    OBVIOUS
  <2>4. info.refer \in DOMAIN dies \union {NoType}
    BY <2>3 DEF Resolved, Inv, TypeOK, VTypeInfo
  <2>5. /\ info.name = Cell(n).name /\ info.typeTag = Cell(n).tag
        /\ Database[1][x].ref = info.refer
    BY <1>1, <2>2, <2>3, EntryFields, ZenonT(60)
  <2>6. info.refer # NoType =>
          /\ Database[1][info.refer] = Entry(vTypeInfo[info.refer])
          /\ Database[1][info.refer].tag = vTypeInfo[info.refer].typeTag
    BY <1>1, <2>4, EntryFields
  <2>7. \/ info.refer # NoType /\ vTypeInfo[info.refer].typeTag = "UNION"
        \/ info.refer = NoType
        \/ info.refer # NoType /\ Stands(Cell(n).ref, vTypeInfo[info.refer])
    BY <2>2, <2>5, <2>6 DEF Merging!Leads, Stands, NoType
  <2> QED
    BY <2>3, <2>5, <2>7
<1> QED
  BY <1>5, <1>6, <1>8, <1>9

\* A cell for a type stands for every DIE of that name that is no alias.
LEMMA Emits ==
  ASSUME Resolved, CellsInv, Cells!Done, NEW o \in DOMAIN dies, dies[o].kind \notin Alias,
         NEW y \in DOMAIN dies, vTypeInfo[y].name = vTypeInfo[o].name,
         NEW n \in Merging!Sn, Stands(n, vTypeInfo[y])
  PROVE  Emitted(n, dies[o])
<1> DEFINE d == dies[o]
<1>1. PICK e, c : e = Entry(vTypeInfo[y]) /\ c = Merging!Cell(n)
  OBVIOUS
<1>2. Alike(vTypeInfo[y], vTypeInfo[o])
  BY AllAlike
<1>3. vTypeInfo[o].typeTag = TypeTag(d.kind) /\ vTypeInfo[o].members = d.members
  BY DEF Resolved, OwnComplete
<1>4. d.kind = "base" => vTypeInfo[o].baseType = d.base
  <2>1. d.kind = "base" => d.kind \in Plain /\ TypeTag(d.kind) = "BASE"
    BY DEF Plain, TypeTag
  <2>2. Root(o)
    BY DEF Root
  <2> QED
    BY <1>3, <2>1, <2>2, OwnNames1 DEF OwnNamed
<1>5. /\ e.name = vTypeInfo[y].name /\ e.tag = TypeTag(d.kind) /\ e.members = d.members
      /\ d.kind = "base" => e.base = d.base
  <2>1. /\ e.name = vTypeInfo[y].name /\ e.tag = vTypeInfo[y].typeTag
        /\ e.members = vTypeInfo[y].members /\ e.base = vTypeInfo[y].baseType
    BY <1>1, EntryFields
  <2>2. e.tag = TypeTag(d.kind) /\ e.members = d.members
    BY <1>2, <1>3, <2>1 DEF Alike
  <2>3. d.kind = "base" => TypeTag(d.kind) = "BASE"
    BY DEF TypeTag
  <2>4. d.kind = "base" => e.base = d.base
    BY <1>2, <1>3, <1>4, <2>1, <2>2, <2>3 DEF Alike
  <2> QED
    BY <2>1, <2>2, <2>4
<1>6. Merging!Suits(n, c, e)
  BY <1>1 DEF Stands
<1>7. ASSUME c.tag \in {"STRUCTURE", "UNION"}, c.name = e.name
      PROVE  d.members # <<>> /\ Len(c.members) = Len(d.members)
  <2>1. PICK z \in DOMAIN dies : vTypeInfo[z].name = c.name /\ vTypeInfo[z].members # <<>>
    BY <1>1, <1>7, CellFacts
  <2>2. PICK x \in DOMAIN dies : vTypeInfo[x].name = c.name /\ Len(c.members) = Len(vTypeInfo[x].members)
    BY <1>1, <1>7, CellFacts
  <2>3. vTypeInfo[z].members = vTypeInfo[o].members /\ vTypeInfo[x].members = vTypeInfo[o].members
    BY <1>5, <1>7, <2>1, <2>2, AllAlike DEF Alike
  <2> QED
    BY <1>3, <2>1, <2>2, <2>3
<1>8. Cells!Cell(n) = c /\ Cells!VoidSn = Merging!VoidSn /\ Cells!Int32Sn = Merging!Int32Sn
  BY <1>1 DEF Cells!Cell, Merging!Cell, Cells!VoidSn, Merging!VoidSn, Cells!Int32Sn, Merging!Int32Sn
<1>9. d.kind \in {"base", "enumeration", "subroutine", "structure", "union", "pointer", "array", "unspecified"}
  BY DEF Resolved, Inv, WellFormed, TypeDie, Kind, Alias
<1> HIDE DEF d
<1>10. CASE d.kind = "base"
  <2>1. n = d.base
    BY <1>5, <1>6, <1>10 DEF TypeTag, Merging!Suits, Merging!Aggregate
  <2> QED
    BY <1>10, <2>1 DEF Emitted, Aggregate, d
<1>11. CASE d.kind = "enumeration"
  <2>1. n = Merging!Int32Sn
    BY <1>5, <1>6, <1>11 DEF TypeTag, Merging!Suits, Merging!Aggregate
  <2> QED
    BY <1>8, <1>11, <2>1 DEF Emitted, Aggregate, d
<1>12. CASE d.kind = "subroutine"
  <2>1. n = Merging!VoidSn
    BY <1>5, <1>6, <1>12 DEF TypeTag, Merging!Suits, Merging!Aggregate
  <2> QED
    BY <1>8, <1>12, <2>1 DEF Emitted, Aggregate, d
<1>13. CASE d.kind \in Aggregate
  <2>1. TypeTag(d.kind) \in {"STRUCTURE", "UNION"}
    BY <1>13 DEF TypeTag, Aggregate
  <2>2. IF d.members = <<>> THEN n = Merging!VoidSn \/ (c.name = e.name /\ c.tag = e.tag)
        ELSE c.name = e.name /\ c.tag = e.tag
    BY <1>5, <1>6, <2>1 DEF Merging!Suits, Merging!Aggregate
  <2>3. IF d.members = <<>> THEN n = Merging!VoidSn
        ELSE c.tag = TypeTag(d.kind) /\ Len(c.members) = Len(d.members)
    BY <1>5, <1>7, <2>1, <2>2
  <2> QED
    BY <1>8, <1>13, <2>3 DEF Emitted, Aggregate, d
<1>14. CASE d.kind \in {"pointer", "array", "unspecified"}
  <2>1. TypeTag(d.kind) \in {"POINTER", "ARRAY"}
    BY <1>14 DEF TypeTag
  <2>2. c.tag = TypeTag(d.kind)
    BY <1>5, <1>6, <2>1 DEF Merging!Suits, Merging!Aggregate
  <2> QED
    BY <1>8, <1>14, <2>2 DEF Emitted, Aggregate, d
<1> QED
  BY <1>9, <1>10, <1>11, <1>12, <1>13, <1>14 DEF Aggregate

\* What an alias is resolved to has its name.
LEMMA AliasNamed ==
  ASSUME Resolved, NEW id \in DOMAIN dies, NEW target \in DOMAIN dies, AliasOf(id, target)
  PROVE  vTypeInfo[id].name = vTypeInfo[target].name
<1>1. PICK o \in DOMAIN dies : StandsFor(id, o) /\ Same(vTypeInfo[id], vTypeInfo[o])
  BY DEF Resolved, Telling
<1>2. PICK S \in SUBSET DOMAIN dies :
        /\ id \in S
        /\ \A a \in S : IF dies[a].kind \in Alias THEN Reference(a) \in S \union {NoType} ELSE a = o
  BY <1>1 DEF StandsFor
<1>3. target \in S /\ dies[target].kind \notin Alias
  BY <1>2 DEF AliasOf
<1> QED
  BY <1>1, <1>2, <1>3 DEF Same

LEMMA AliasesInTheEnd ==
  ASSUME Resolved, CellsInv, Cells!Done, NEW id \in DOMAIN dies, NEW target \in DOMAIN dies,
         AliasOf(id, target)
  PROVE  Emitted(typeVecMap[1][id], dies[target])
<1>1. typeVecMap[1][id] \in Merging!Sn /\ Stands(typeVecMap[1][id], vTypeInfo[id])
  BY CellFacts
<1>2. vTypeInfo[id].name = vTypeInfo[target].name /\ dies[target].kind \notin Alias
  BY AliasNamed DEF AliasOf
<1> QED
  BY <1>1, <1>2, Emits

\* The source of the cell of a pointer or an array has its name, and so refers to a
\* type of the name of what the DIE refers to.
LEMMA ReferencesInTheEnd ==
  ASSUME Resolved, CellsInv, Cells!Done, NEW id \in DOMAIN dies, NEW target \in DOMAIN dies,
         dies[id].kind \in {"pointer", "array"}, Reference(id) # NoType,
         AliasOf(Reference(id), target), dies[target].kind # "union"
  PROVE  Emitted(Cells!Cell(typeVecMap[1][id]).ref, dies[target])
<1> DEFINE r == Reference(id)
<1>1. PICK n : n = typeVecMap[1][id]
  OBVIOUS
<1>2. PICK c : c = Merging!Cell(n)
  OBVIOUS
<1>3. dies[id].kind \notin Alias /\ dies[id].kind # "enumeration" /\ dies[target].kind \notin Alias
  BY DEF Alias, AliasOf
<1>4. vTypeInfo[id].typeTag \in {"POINTER", "ARRAY"} /\ vTypeInfo[id].refer = r /\ r \in DOMAIN dies
  <2>1. vTypeInfo[id].typeTag = TypeTag(dies[id].kind) /\ vTypeInfo[id].refer = r
    BY <1>3 DEF Resolved, OwnComplete
  <2>2. TypeTag(dies[id].kind) \in {"POINTER", "ARRAY"}
    BY DEF TypeTag
  <2>3. vTypeInfo[id].refer \in DOMAIN dies \union {NoType}
    BY DEF Resolved, Inv, TypeOK, VTypeInfo
  <2> QED
    BY <2>1, <2>2, <2>3
<1>5. n \in Merging!Sn /\ Stands(n, vTypeInfo[id])
  BY <1>1, CellFacts
<1>6. c.name = vTypeInfo[id].name /\ c.tag = vTypeInfo[id].typeTag
  <2>1. PICK e : e = Entry(vTypeInfo[id])
    OBVIOUS
  <2>2. Merging!Suits(n, c, e) /\ e.name = vTypeInfo[id].name /\ e.tag = vTypeInfo[id].typeTag
    BY <1>2, <1>5, <2>1, EntryFields DEF Stands
  <2> QED
    BY <1>4, <2>2 DEF Merging!Suits, Merging!Aggregate
<1>7. c.ref \in Merging!Sn
  BY <1>2, <1>5, CellFacts
<1>8. PICK x \in DOMAIN dies :
        LET info == vTypeInfo[x] IN
        /\ info.name = c.name /\ info.typeTag = c.tag
        /\ \/ info.refer # NoType /\ vTypeInfo[info.refer].typeTag = "UNION"
           \/ info.refer = NoType
           \/ info.refer # NoType /\ Stands(c.ref, vTypeInfo[info.refer])
  BY <1>2, <1>4, <1>5, <1>6, CellFacts
<1>9. PICK y : y = vTypeInfo[x].refer
  OBVIOUS
<1>10. y \in DOMAIN dies \union {NoType}
  BY <1>8, <1>9 DEF Resolved, Inv, TypeOK, VTypeInfo
<1>11. ReferName(vTypeInfo[x]) = ReferName(vTypeInfo[id])
  <2>1. Alike(vTypeInfo[x], vTypeInfo[id])
    BY <1>6, <1>8, AllAlike
  <2> QED
    BY <1>4, <1>6, <1>8, <2>1 DEF Alike
<1>12. ReferName(vTypeInfo[id]) = vTypeInfo[target].name
  BY <1>4, AliasNamed DEF ReferName
<1>13. y # NoType
  <2>1. vTypeInfo[target].name # Named("void")
    BY <1>3, NotVoid
  <2> QED
    BY <1>9, <1>11, <1>12, <2>1 DEF ReferName
<1>14. y \in DOMAIN dies /\ vTypeInfo[y].name = vTypeInfo[target].name
  BY <1>9, <1>10, <1>11, <1>12, <1>13 DEF ReferName
<1>15. vTypeInfo[y].typeTag # "UNION"
  <2>1. vTypeInfo[y].typeTag = vTypeInfo[target].typeTag
    BY <1>14, AllAlike DEF Alike
  <2>2. vTypeInfo[target].typeTag = TypeTag(dies[target].kind)
    BY <1>3 DEF Resolved, OwnComplete
  <2>3. TypeTag(dies[target].kind) # "UNION"
    BY DEF TypeTag
  <2> QED
    BY <2>1, <2>2, <2>3
<1>16. Stands(c.ref, vTypeInfo[y])
  BY <1>8, <1>9, <1>13, <1>15
<1>17. Emitted(c.ref, dies[target])
  BY <1>3, <1>7, <1>14, <1>16, Emits
<1>18. Cells!Cell(n) = c
  BY <1>2 DEF Cells!Cell, Merging!Cell
<1> QED
  BY <1>1, <1>17, <1>18

(***************************************************************************)
(* The theorems.                                                           *)
(***************************************************************************)
\* When initVTypeInfo is done, every type has been finished.
LEMMA ResolvedAlways == Spec => [](Done => Resolved)
<1>1. ASSUME Inv, Accounted, Telling, OwnComplete, TargetsAgree,
             \A a \in DOMAIN dies : Kept(a, vTypeInfo[a]), MembersListed, Grounded, Done
      PROVE  Resolved
  <2>1. at = Idle /\ at # Panic /\ \A id : at # Call(id)
    BY <1>1 DEF Done, Idle, Panic, Call
  <2>2. DOMAIN dies \subseteq snVisited
    BY <1>1, <2>1 DEF Accounted, Done
  <2>3. InProgress = {}
    BY <1>1, <2>1 DEF Inv, Control, InProgress
  <2>4. Finished = DOMAIN dies
    BY <1>1, <2>2, <2>3, OnStack DEF Finished
  <2> QED
    BY <1>1, <2>4 DEF Resolved
<1> QED
  BY <1>1, Invariant, AccountedAlways, TellingAlways, OwnTypesComplete, TargetsAgreement, KeptAlways,
     ListedAlways, GroundedAlways, PTL

\* The merging of the cells leaves the resolved types alone.
LEMMA ResolvedFirst == SpecMerging => Spec
<1>1. InitMerging => Init
  BY DEF InitMerging
<1>2. [NextMerging]_<<vars, cellVars>> => [Next]_vars
  BY DEF NextMerging, Resolve, Merge, GaveUp
<1> QED
  BY <1>1, <1>2, PTL DEF SpecMerging, Spec

\* The merging starts when the types are resolved, and then does what TypeCellsProofs says.
LEMMA MergingAlways == SpecMerging => [](Cells!InitCells \/ (Done /\ CellsInv))
<1> DEFINE K == Cells!InitCells \/ (Done /\ CellsInv)
<1>1. InitMerging => K
  BY DEF InitMerging
<1>2. ASSUME Inv, Inv', Done => Resolved, K, [NextMerging]_<<vars, cellVars>> PROVE K'
  <2>1. DOMAIN vTypeInfo = DOMAIN dies /\ DOMAIN vTypeInfo' = DOMAIN dies'
    BY <1>2 DEF Inv, TypeOK
  <2>2. CASE Resolve
    <3>1. Cells!InitCells /\ UNCHANGED cellVars /\ Next
      BY <1>2, <2>2 DEF Resolve, Stopped
    <3>2. dies' = dies
      BY <1>2, <3>1, Effect DEF Quiet, Opens, Extends, Finishes, Writes
    <3>3. DOMAIN Database[1] = DOMAIN dies /\ Len(Database) = 1
      BY <1>2, DatabaseUnit
    <3>4. DOMAIN Database'[1] = DOMAIN dies /\ Len(Database') = 1
      <4>1. PICK T : T = vTypeInfo'
        OBVIOUS
      <4>2. Database' = <<[id \in DOMAIN T |-> Entry(T[id])]>>
        BY <4>1 DEF Database, Entry
      <4>3. DOMAIN T = DOMAIN dies
        BY <2>1, <3>2, <4>1
      <4> QED
        BY <4>2, <4>3
    <3>5. Cells!InitCells'
      BY <3>1, <3>3, <3>4 DEF Cells!InitCells, cellVars
    <3> QED
      BY <3>5
  <2>3. ASSUME UNCHANGED vars, [Cells!Next]_<<vars, cellVars>>, Done PROVE K'
    <3>1. CellsInv
      BY <1>2, <2>3, CellsStart
    <3>2. CellsInv'
      BY <2>3, <3>1, CellsStep
    <3>3. Done'
      BY <2>3 DEF Done, vars
    <3> QED
      BY <3>2, <3>3
  <2>4. CASE Merge
    BY <2>3, <2>4 DEF Merge
  <2>5. CASE UNCHANGED <<vars, cellVars>>
    <3>1. CASE Done
      BY <2>3, <2>5, <3>1
    <3>2. CASE Cells!InitCells
      <4>1. Database' = Database
        BY <2>5 DEF Database, Entry, vars
      <4>2. Cells!InitCells'
        BY <2>5, <3>2, <4>1 DEF Cells!InitCells, cellVars
      <4> QED
        BY <4>2
    <3> QED
      BY <1>2, <3>1, <3>2
  <2> QED
    BY <1>2, <2>2, <2>4, <2>5 DEF NextMerging, GaveUp
<1>3. SpecMerging => []Inv /\ [](Done => Resolved)
  BY Invariant, ResolvedAlways, ResolvedFirst, PTL
<1> QED
  BY <1>1, <1>2, <1>3, PTL DEF SpecMerging

\* Types of equal names are of equal kind, bound and members, and refer to types
\* of equal names: however the types of the unit refer to each other, and in
\* whatever order initVTypeInfo meets them.
THEOREM NamesTold == SpecMerging => []NamesTell
<1>1. ASSUME Done => Resolved PROVE NamesTell
  <2> SUFFICES ASSUME Done, NEW id1 \in DOMAIN dies, NEW id2 \in DOMAIN dies,
                      vTypeInfo[id1].name = vTypeInfo[id2].name
               PROVE  Alike(vTypeInfo[id1], vTypeInfo[id2])
    BY DEF NamesTell, Alike
  <2> QED
    BY <1>1, AllAlike
<1> QED
  BY <1>1, ResolvedAlways, ResolvedFirst, PTL

\* So the linker is given types that it can tell apart by their names.
THEOREM MergingTold == SpecMerging => []MergeTold
<1>1. ASSUME Done => Resolved PROVE MergeTold
  BY <1>1, DatabaseTells DEF MergeTold
<1> QED
  BY <1>1, ResolvedAlways, ResolvedFirst, PTL

\* A variable of a type of the unit is given a cell for that type, and so is what a
\* pointer or an array refers to, whatever typedefs there are in between: through
\* both recursions, in whatever order each of them goes through its hash map.
THEOREM TypesKept == SpecMerging => []TypesEmitted
<1>1. ASSUME Done => Resolved, Cells!InitCells \/ (Done /\ CellsInv) PROVE TypesEmitted
  <2> SUFFICES ASSUME Resolved, CellsInv, Cells!Done PROVE TypesEmitted
    BY <1>1, CellsStart DEF TypesEmitted, AliasesEmitted, ReferencesEmitted, Merged
  <2>1. AliasesEmitted
    BY AliasesInTheEnd DEF AliasesEmitted
  <2>2. ReferencesEmitted
    <3> SUFFICES ASSUME NEW id \in DOMAIN dies, NEW target \in DOMAIN dies,
                        dies[id].kind \in {"pointer", "array"}, Reference(id) # NoType,
                        AliasOf(Reference(id), target), dies[target].kind # "union"
                 PROVE  Emitted(Cells!Cell(typeVecMap[1][id]).ref, dies[target])
      BY DEF ReferencesEmitted
    <3> QED
      BY ReferencesInTheEnd
  <2> QED
    BY <2>1, <2>2 DEF TypesEmitted
<1> QED
  BY <1>1, ResolvedAlways, ResolvedFirst, MergingAlways, PTL

=============================================================================
