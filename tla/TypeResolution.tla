---------------------------- MODULE TypeResolution ----------------------------
(***************************************************************************)
(* DIReducerContext::initVTypeInfo (tools/DIReducer/Context.cpp): the type *)
(* DIEs of a compilation unit are turned into VTypeInfo, in which typedefs *)
(* and qualifiers are replaced by copies of what they stand for.           *)
(*                                                                         *)
(* initVTypeInfoRecursion visits every type once, depth first, and reads   *)
(* the target of a reference when the call for it returns.  A target that  *)
(* is on the stack is still incomplete then, and what was read of it stays *)
(* as it was.  The stack is explicit here.  Units are independent of each  *)
(* other: there is one.                                                    *)
(***************************************************************************)
EXTENDS Naturals, Sequences, SequencesExt

CONSTANTS
  Text,    \* the strings that names begin with
  Inputs   \* the type DIEs of the units to consider, see WellFormed

\* One kind stands for the tags that the code treats alike: pointer for the four
\* of pointers and references, const for the three qualifiers, structure for
\* classes.
Kind == {"base", "unspecified", "pointer", "array", "enumeration", "subroutine",
         "structure", "union", "typedef", "const"}
Alias     == {"typedef", "const"}
Aggregate == {"structure", "union"}
BaseName  == <<"void", "uint8", "uint16", "uint32", "uint64", "uint128", "int8",
               "int16", "int32", "int64", "int128", "float32", "float64",
               "float128", "bool">>

ASSUME TextAssumption ==
  {"void", "null", "enumeration", "structure", "union"}
    \union {BaseName[i] : i \in 1 .. Len(BaseName)} \subseteq Text

MaxArrayBound     == 512
DefaultArrayBound == 16
NoType == 0                          \* no DW_AT_type, and nullptr

\* A type DIE: DW_AT_name, <<>> when it has none; DW_AT_type; the BASETYPE of its
\* encoding and size; of an array, the DW_AT_upper_bound of each subrange, <<>>
\* when it has none; of a structure or union its members.  An array has a subrange:
\* GTypeInfo does not initialise the bound.
Member == [type : Nat, loc : Nat, bits : Nat]
TypeDie == [kind : Kind, name : Seq(Text), type : Nat, base : 0 .. Len(BaseName) - 1,
            subranges : Seq(Seq(Nat)), members : Seq(Member)]

WellFormedDie(d) ==
  /\ d.kind \in Aggregate \union {"base", "unspecified"} => d.type = NoType
  /\ d.kind \notin Aggregate => d.members = <<>>
  /\ d.kind = "array" => d.subranges # <<>>
  /\ d.kind = "base" => d.base # 0   \* getBaseTypeofGType never answers void

WellFormed(input) ==
  /\ DOMAIN input \subseteq Nat \ {NoType}
  /\ input \in [DOMAIN input -> TypeDie]
  /\ \A id \in DOMAIN input : WellFormedDie(input[id])

ASSUME InputsAssumption == \A input \in Inputs : WellFormed(input)

VARIABLES
  dies,      \* the input, ident -> DIE
  vTypeInfo, \* ident -> VTypeInfo
  todo,      \* idents that initVTypeInfo has not passed to the recursion
  snVisited, \* idents that the recursion has entered
  at,        \* control: the next step, a call and its argument, a return
  stack      \* idents of the calls in progress, the innermost last

vars == <<dies, vTypeInfo, todo, snVisited, at, stack>>

Idle     == [op |-> "next",   arg |-> NoType]
Return   == [op |-> "return", arg |-> NoType]
Panic    == [op |-> "panic",  arg |-> NoType]
Call(id) == [op |-> "call",   arg |-> id]

(***************************************************************************)
(* getSingleType, getMultiType and the first loop of initVTypeInfo.  A name *)
(* is what it starts with and the decorations added to that, each with the *)
(* bound of its array; an anonymous aggregate is named after its ident,    *)
(* which stands for the number that getUniqueID gives it.                  *)
(***************************************************************************)
Named(text)         == [text |-> text, id |-> NoType, by |-> <<>>]
Decorate(name, op, bound) == [name EXCEPT !.by = Append(@, [op |-> op, bound |-> bound])]

TypeTag(kind) ==
  CASE kind \in {"pointer", "unspecified"} -> "POINTER"
    [] kind = "base" -> "BASE"
    [] kind = "array" -> "ARRAY"
    [] kind = "enumeration" -> "ENUMERATION"
    [] kind = "subroutine" -> "FUNCTION"
    [] kind = "structure" -> "STRUCTURE"
    [] kind = "union" -> "UNION"
    [] OTHER -> "VOID"

OwnName(id) ==
  LET d == dies[id] IN
  CASE d.kind = "base" -> Named(BaseName[d.base + 1])
    [] d.kind = "unspecified" -> Named("null")
    [] d.kind \in {"enumeration", "structure", "union"} /\ d.name = <<>> ->
         [Named(d.kind) EXCEPT !.id = id]
    [] d.kind \in {"enumeration", "structure", "union", "typedef"} /\ d.name # <<>> ->
         Named(d.name[1])
    [] OTHER -> Named("void")

\* Each subrange overwrites the bound of the one before.
ArrayBound(d) ==
  IF Last(d.subranges) = <<>> THEN 0
  ELSE LET bound == Last(d.subranges)[1] + 1 IN
       IF bound > MaxArrayBound THEN DefaultArrayBound ELSE bound

Unresolved(id) ==
  [typeTag |-> "VOID", name |-> OwnName(id), refer |-> NoType,
   baseType |-> IF dies[id].kind = "base" THEN dies[id].base ELSE Len(BaseName) - 1,
   arrayBound |-> IF dies[id].kind = "array" THEN ArrayBound(dies[id]) ELSE 0,
   memberIdents |-> IF dies[id].kind \in Aggregate THEN dies[id].members ELSE <<>>,
   members |-> <<>>]

\* The target of a reference; unspecified_type becomes a pointer without one.
Reference(id) == dies[id].type
\* The types that the recursion visits from id; that of an enumeration is not.
Nested(id) ==
  IF dies[id].kind \in Aggregate
    THEN [i \in DOMAIN dies[id].members |-> dies[id].members[i].type]
  ELSE IF dies[id].kind = "enumeration" \/ Reference(id) = NoType THEN <<>>
  ELSE <<Reference(id)>>

Init ==
  /\ dies \in Inputs
  /\ vTypeInfo = [id \in DOMAIN dies |-> Unresolved(id)]
  /\ todo = DOMAIN dies
  /\ snVisited = {}
  /\ at = IF \A id \in DOMAIN dies : Reference(id) \in DOMAIN dies \union {NoType}
            THEN Idle ELSE Panic
  /\ stack = <<>>

(***************************************************************************)
(* The last loop of initVTypeInfo, over an unordered_map.                  *)
(***************************************************************************)
\* Mutant: an iterator that is not advanced.
NextTypeAgain(id) ==
  /\ at = Idle
  /\ at' = Call(id)
  /\ UNCHANGED <<dies, vTypeInfo, todo, snVisited, stack>>

NextType(id) ==
  /\ at = Idle
  /\ todo' = todo \ {id}
  /\ at' = Call(id)
  /\ UNCHANGED <<dies, vTypeInfo, snVisited, stack>>

TypeDone ==
  /\ at = Return /\ stack = <<>>
  /\ at' = Idle
  /\ UNCHANGED <<dies, vTypeInfo, todo, snVisited, stack>>

(***************************************************************************)
(* initVTypeInfoRecursion.                                                 *)
(***************************************************************************)
Visited(id) ==
  /\ at = Call(id) /\ id \in snVisited
  /\ at' = Return
  /\ UNCHANGED <<dies, vTypeInfo, todo, snVisited, stack>>

\* A type without a nested call; a void pointer and a function without a result
\* are named here.
LeafName(id) ==
  CASE TypeTag(dies[id].kind) = "POINTER" -> Decorate(Named("void"), "*", 0)
    [] dies[id].kind = "subroutine" -> Decorate(Named("void"), "()", 0)
    [] OTHER -> OwnName(id)

Fresh(id) == at = Call(id) /\ id \in DOMAIN dies \ snVisited
Tagged(id) == [vTypeInfo[id] EXCEPT !.typeTag = TypeTag(dies[id].kind)]

\* An alias without a target stays VOID and keeps its name.
Leaf(id) ==
  /\ Fresh(id) /\ Nested(id) = <<>> /\ dies[id].kind # "array"
  /\ snVisited' = snVisited \union {id}
  /\ vTypeInfo' = [vTypeInfo EXCEPT ![id] = [Tagged(id) EXCEPT !.name = LeafName(id)]]
  /\ at' = Return
  /\ UNCHANGED <<dies, todo, stack>>

\* The tag is set before the call; that of an alias is still VOID.
Descend(id) ==
  /\ Fresh(id) /\ Nested(id) # <<>>
  /\ snVisited' = snVisited \union {id}
  /\ vTypeInfo' = [vTypeInfo EXCEPT ![id] = Tagged(id)]
  /\ stack' = Append(stack, id)
  /\ at' = Call(Nested(id)[1])
  /\ UNCHANGED <<dies, todo>>

\* An array without an element type, a type that has no DIE.
GiveUp(id) ==
  /\ at = Call(id)
  /\ \/ id \notin DOMAIN dies
     \/ Fresh(id) /\ dies[id].kind = "array" /\ Reference(id) = NoType
  /\ at' = Panic
  /\ UNCHANGED <<dies, vTypeInfo, todo, snVisited, stack>>

\* A nested call of the innermost type returns.
Back(kinds) == at = Return /\ stack # <<>> /\ dies[Last(stack)].kind \in kinds
Target == vTypeInfo[Reference(Last(stack))]
Finish(info) ==
  /\ vTypeInfo' = [vTypeInfo EXCEPT ![Last(stack)] = info]
  /\ stack' = Front(stack)
  /\ UNCHANGED <<dies, todo, snVisited, at>>

\* Mutant: the name of an array leaves its bound out.
DerivedNameBoundless(id, name) ==
  CASE dies[id].kind = "array" -> Decorate(name, "[]", 0)
    [] dies[id].kind = "subroutine" -> Decorate(name, "()", 0)
    [] OTHER -> Decorate(name, "*", 0)

\* The name that a pointer, an array or a function gets from its target's.
DerivedName(id, name) ==
  CASE dies[id].kind = "array" -> Decorate(name, "[]", vTypeInfo[id].arrayBound)
    [] dies[id].kind = "subroutine" -> Decorate(name, "()", 0)
    [] OTHER -> Decorate(name, "*", 0)

\* Mutant: the target's name is decorated in place.
DerivedBackInPlace ==
  /\ Back({"pointer", "array", "subroutine"})
  /\ LET id == Last(stack)  name == DerivedName(id, Target.name) IN
     vTypeInfo' = [vTypeInfo EXCEPT ![id].refer = Reference(id), ![id].name = name,
                                    ![Reference(id)].name = name]
  /\ stack' = Front(stack)
  /\ UNCHANGED <<dies, todo, snVisited, at>>

DerivedBack ==
  /\ Back({"pointer", "array", "subroutine"})
  /\ LET id == Last(stack) IN
     Finish([vTypeInfo[id] EXCEPT !.refer = Reference(id),
                                  !.name = DerivedName(id, Target.name)])

\* Mutant: the idents of the members are not copied.
CopiedIdentless(info, target) ==
  LET named == [info EXCEPT !.name = target.name, !.typeTag = target.typeTag] IN
  IF target.typeTag \in {"STRUCTURE", "UNION"} THEN [named EXCEPT !.members = target.members]
  ELSE named

\* What an alias takes from its target; of a function only name and tag.
Copied(info, target) ==
  LET named == [info EXCEPT !.name = target.name, !.typeTag = target.typeTag] IN
  CASE target.typeTag = "BASE" -> [named EXCEPT !.baseType = target.baseType]
    [] target.typeTag = "POINTER" -> [named EXCEPT !.refer = target.refer]
    [] target.typeTag = "ARRAY" ->
         [named EXCEPT !.refer = target.refer, !.arrayBound = target.arrayBound]
    [] target.typeTag \in {"STRUCTURE", "UNION"} ->
         [named EXCEPT !.memberIdents = target.memberIdents, !.members = target.members]
    [] OTHER -> named

\* Mutant: only name and tag are copied.
AliasBackSwitchless ==
  /\ Back(Alias)
  /\ Finish([vTypeInfo[Last(stack)] EXCEPT !.name = Target.name, !.typeTag = Target.typeTag])

AliasBack == Back(Alias) /\ Finish(Copied(vTypeInfo[Last(stack)], Target))

\* Mutant: the last member is lost.
MemberBackShort ==
  /\ Back(Aggregate)
  /\ LET id == Last(stack)
         i  == Len(vTypeInfo[id].members) + 1
     IN
     /\ vTypeInfo' = [vTypeInfo EXCEPT ![id].members = Append(@, dies[id].members[i])]
     /\ IF i + 1 < Len(dies[id].members)
          THEN at' = Call(Nested(id)[i + 1]) /\ UNCHANGED stack
          ELSE stack' = Front(stack) /\ UNCHANGED at
  /\ UNCHANGED <<dies, todo, snVisited>>

\* The member is appended, and the next one visited.
MemberBack ==
  /\ Back(Aggregate)
  /\ LET id == Last(stack)
         i  == Len(vTypeInfo[id].members) + 1
     IN
     /\ vTypeInfo' = [vTypeInfo EXCEPT ![id].members = Append(@, dies[id].members[i])]
     /\ IF i < Len(dies[id].members)
          THEN at' = Call(Nested(id)[i + 1]) /\ UNCHANGED stack
          ELSE stack' = Front(stack) /\ UNCHANGED at
  /\ UNCHANGED <<dies, todo, snVisited>>

Enter(id) == Visited(id) \/ Leaf(id) \/ Descend(id) \/ GiveUp(id)

Done == at = Idle /\ todo = {}
Stopped == Done \/ at = Panic

Next ==
  \/ \E id \in todo : NextType(id)
  \/ TypeDone
  \/ Enter(at.arg)
  \/ DerivedBack
  \/ AliasBack
  \/ MemberBack
  \/ Stopped /\ UNCHANGED vars

Spec == Init /\ [][Next]_vars
\* A sequential program: it runs on as long as it can.
FairSpec == Spec /\ WF_vars(Next)

(***************************************************************************)
(* Properties.                                                             *)
(***************************************************************************)
Name == [text : Text, id : Nat, by : Seq([op : {"*", "[]", "()"}, bound : Nat])]
VTypeInfo ==
  [typeTag : {"VOID", "BASE", "POINTER", "ARRAY", "ENUMERATION", "FUNCTION", "STRUCTURE", "UNION"},
   name : Name, refer : DOMAIN dies \union {NoType}, baseType : 0 .. Len(BaseName) - 1,
   arrayBound : 0 .. MaxArrayBound, memberIdents : Seq(Member), members : Seq(Member)]

\* The stack holds types that have been entered, each of them once.
TypeOK ==
  /\ todo \subseteq DOMAIN dies /\ snVisited \subseteq DOMAIN dies
  /\ vTypeInfo \in [DOMAIN dies -> VTypeInfo]
  /\ at \in {Idle, Return, Panic} \/ at \in [op : {"call"}, arg : Nat]
  /\ stack \in Seq(snVisited) /\ IsInjective(stack)

InProgress == {stack[i] : i \in DOMAIN stack}
Finished   == snVisited \ InProgress

\* The recursion started at the one type comes to the other.
Closed(S) == \A a \in S : \A i \in DOMAIN Nested(a) : Nested(a)[i] \in S
Reaches(a, b) == \A S \in SUBSET DOMAIN dies : a \in S /\ Closed(S) => b \in S

\* What initVTypeInfo computed of a type itself, whatever cycle it is on and
\* wherever the cycle was entered: its tag, its reference and every member.
OwnComplete ==
  \A id \in Finished : dies[id].kind \notin Alias =>
     LET info == vTypeInfo[id] IN
     /\ info.typeTag = TypeTag(dies[id].kind)
     /\ info.refer = IF dies[id].kind = "enumeration" THEN NoType ELSE Reference(id)
     /\ info.members = dies[id].members

\* The name of a derived type, and all of an alias, agree with the target.
Agrees(id) ==
  IF dies[id].kind \in Alias
    THEN vTypeInfo[id] = Copied(Unresolved(id), vTypeInfo[Reference(id)])
    ELSE vTypeInfo[id].name = DerivedName(id, vTypeInfo[Reference(id)].name)

\* A type read its target when the target was complete, and agrees with it for
\* ever after, but for a target whose recursion comes back to the type: that
\* one may have been in progress.  A pointer to a structure is right even so,
\* which is what makes lists work.
TargetsAgree ==
  \A id \in Finished : dies[id].kind \notin Aggregate /\ Nested(id) # <<>> =>
     \/ Agrees(id)
     \/ /\ Reaches(Reference(id), id)
        /\ dies[id].kind \in Alias \/ dies[Reference(id)].kind \notin Aggregate

\* What an alias copied of a structure in progress is at least not wrong: the
\* resolved members are the first of those it should have.
MembersArePrefix ==
  \A id \in DOMAIN dies : IsPrefix(vTypeInfo[id].members, vTypeInfo[id].memberIdents)

\* Copies of a type are made from what it is when its call returns, so no type
\* changes after that: nothing writes to a type whose call is over.
FinishedStays == [][\A id \in Finished : vTypeInfo'[id] = vTypeInfo[id]]_vars

\* The recursion ends although the graph has cycles, or the tool gives up.
Termination == <>Stopped
=============================================================================
