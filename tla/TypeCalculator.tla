--------------------------- MODULE TypeCalculator ---------------------------
(***************************************************************************)
(* The type pool of the type inference: lib/Core/TypeCalculator.cpp.       *)
(*                                                                         *)
(* Every analysis owns a TypeCalculator, but the VType objects it works on *)
(* are shared: VTypeFactory keeps one process-wide set of types, and each  *)
(* VType caches "the pointer type to me" in an std::optional, ptrType.     *)
(* getPointerVType checks, fills and publishes that cache without a lock,  *)
(* from as many threads as the analysis pool has.  This module gives one   *)
(* action to each access of shared memory, in the order of the code as the *)
(* documented build (plain "cmake ..", no optimisation) executes it.       *)
(***************************************************************************)
EXTENDS Naturals, FiniteSets

CONSTANTS
  NFunc,        \* analyses are numbered 1..NFunc, their order in `analyses`
  Scalar,       \* BASE types of VTypeFactory
  Aggregate,    \* structures, unions and arrays of VTypeFactory
  FactoryPtr,   \* POINTER types of VTypeFactory, read from the debug info
  FactoryRef,   \* the object type of each of them
  FactoryCache, \* ptrType as VTypeFactory leaves it, NoType when empty
  Heap,         \* addresses `new VType` can return
  NoType,       \* no VType at all (nullptr, or an empty optional)
  MaxOps        \* bound: types one analysis asks its calculator for

Analysis == 1 .. NFunc
Factory  == Scalar \union Aggregate \union FactoryPtr
VType    == Factory \union Heap

ASSUME SizeAssumption == NFunc \in Nat \ {0} /\ MaxOps \in Nat
ASSUME TypeAssumption ==
  /\ Heap \intersect Factory = {}
  /\ NoType \notin VType
  /\ FactoryPtr \intersect (Scalar \union Aggregate) = {}
\* TypeFactory.cpp:168-172: a factory pointer is cached by its object type.
ASSUME FactoryAssumption ==
  /\ FactoryRef \in [FactoryPtr -> Factory]
  /\ FactoryCache \in [Factory -> FactoryPtr \union {NoType}]
  /\ \A t \in Factory : FactoryCache[t] # NoType => FactoryRef[FactoryCache[t]] = t

VARIABLES
  engaged,  \* engaged[t]: the flag of the optional t->ptrType
  cached,   \* cached[t]: its payload
  refType,  \* refType[h]: detail of a pointer type made here, else NoType
  members,  \* members[h]: memoryModel of a union type made here, else {}
  live,     \* addresses of the VTypes made here and not yet deleted
  typeSet,  \* typeSet[f]: the types analysis f owns and will delete
  held,     \* held[f]: types in f's contexts, beyond those of the factory
  pc,       \* where the thread that runs f stands
  obj,      \* obj[f]: parameter vType of the getPointerVType f executes
  ptr,      \* ptr[f]: its newPointerVType
  ops,      \* ops[f]: types f has asked for
  uid,      \* libCFGUniqueID, the static counter of CFG::getUniqueID
  uidReg,   \* uidReg[f]: the value f loaded from it
  name,     \* name[h]: the number in the name of a union type
  aborted   \* an exception left a worker thread: std::terminate

calcVars == <<engaged, cached, refType, members, live, typeSet, held, pc, obj,
              ptr, ops, uid, uidReg, name, aborted>>
heapVars == <<refType, members, live, typeSet, name>>

PC == {"queued", "run", "has", "value", "load", "reset", "store", "engage", "fill",
       "uid", "lock", "print", "done"}

RefOf(p)    == IF p \in FactoryPtr THEN FactoryRef[p] ELSE refType[p]
Known(f)    == Factory \union held[f]
IsUnion(t)  == t \in Heap /\ refType[t] = NoType
\* Contexts hold scalars, pointers and unions made here, never an aggregate.
Operands(f) == (Known(f) \ Aggregate)
\* Mutant: a union merged into a union stays a member of its own.
MembersOfNested(t) == {t}
MembersOf(t) == IF IsUnion(t) THEN members[t] ELSE {t}

CalcInit ==
  /\ engaged = [t \in VType |-> t \in Factory /\ FactoryCache[t] # NoType]
  /\ cached  = [t \in VType |-> IF t \in Factory THEN FactoryCache[t] ELSE NoType]
  /\ refType = [h \in Heap |-> NoType]
  /\ members = [h \in Heap |-> {}]
  /\ live    = {}
  /\ typeSet = [f \in Analysis |-> {}]
  /\ held    = [f \in Analysis |-> {}]
  /\ pc      = [f \in Analysis |-> "queued"]
  /\ obj     = [f \in Analysis |-> NoType]
  /\ ptr     = [f \in Analysis |-> NoType]
  /\ ops     = [f \in Analysis |-> 0]
  /\ uid     = 1
  /\ uidReg  = [f \in Analysis |-> 0]
  /\ name    = [h \in Heap |-> 0]
  /\ aborted = FALSE

Goto(f, l) == pc' = [pc EXCEPT ![f] = l]

(***************************************************************************)
(* getPointerVType(vType)                                                  *)
(***************************************************************************)
\* A transfer function asks for the pointer to a known variable's type, to a
\* returned structure, or to a type found in the context (LEA).
CallPointer(f, t) ==
  /\ pc[f] = "run" /\ ops[f] < MaxOps
  /\ ops' = [ops EXCEPT ![f] = @ + 1]
  /\ obj' = [obj EXCEPT ![f] = t]
  /\ Goto(f, "has")
  /\ UNCHANGED <<engaged, cached, heapVars, held, ptr, uid, uidReg, aborted>>

\* if(vType->ptrType.has_value()) return vType->ptrType.value(): the flag is
\* tested twice.
CacheHit(f) ==
  /\ pc[f] = "has" /\ engaged[obj[f]]
  /\ Goto(f, "value")
  /\ UNCHANGED <<engaged, cached, heapVars, held, obj, ptr, ops, uid, uidReg, aborted>>

\* value() throws std::bad_optional_access when another thread has reset the
\* flag in the meantime; nothing catches it in the worker thread.
CacheValue(f) ==
  /\ pc[f] = "value"
  /\ IF engaged[obj[f]]
       THEN Goto(f, "load") /\ UNCHANGED aborted
       ELSE aborted' = TRUE /\ UNCHANGED pc
  /\ UNCHANGED <<engaged, cached, heapVars, held, obj, ptr, ops, uid, uidReg>>

\* The payload is loaded after the test: meanwhile another thread may have reset
\* the flag again, or stored the pointer type it has made.
CacheLoad(f) ==
  /\ pc[f] = "load"
  /\ held' = [held EXCEPT ![f] = @ \union ({cached[obj[f]]} \ Factory)]
  /\ Goto(f, "run")
  /\ UNCHANGED <<engaged, cached, heapVars, obj, ptr, ops, uid, uidReg, aborted>>

\* Mutant: a new pointer type without a look at the cache.
CacheMissUnchecked(f, h) ==
  /\ pc[f] = "has"
  /\ h \in Heap \ live
  /\ live'    = live \union {h}
  /\ refType' = [refType EXCEPT ![h] = obj[f]]
  /\ typeSet' = [typeSet EXCEPT ![f] = @ \union {h}]
  /\ ptr'     = [ptr EXCEPT ![f] = h]
  /\ Goto(f, "reset")
  /\ UNCHANGED <<engaged, cached, members, held, obj, ops, uid, uidReg, name, aborted>>

\* The new pointer type is private to the thread until the cache is written.
CacheMiss(f, h) ==
  /\ pc[f] = "has" /\ ~engaged[obj[f]]
  /\ h \in Heap \ live
  /\ live'    = live \union {h}
  /\ refType' = [refType EXCEPT ![h] = obj[f]]
  /\ typeSet' = [typeSet EXCEPT ![f] = @ \union {h}]
  /\ ptr'     = [ptr EXCEPT ![f] = h]
  /\ Goto(f, "reset")
  /\ UNCHANGED <<engaged, cached, members, held, obj, ops, uid, uidReg, name, aborted>>

\* vType->ptrType.emplace(newPointerVType) is three stores: reset the flag,
\* construct the payload, set the flag.
CacheReset(f) ==
  /\ pc[f] = "reset"
  /\ engaged' = [engaged EXCEPT ![obj[f]] = FALSE]
  /\ Goto(f, "store")
  /\ UNCHANGED <<cached, heapVars, held, obj, ptr, ops, uid, uidReg, aborted>>

CacheStore(f) ==
  /\ pc[f] = "store"
  /\ cached'  = [cached EXCEPT ![obj[f]] = ptr[f]]
  /\ Goto(f, "engage")
  /\ UNCHANGED <<engaged, heapVars, held, obj, ptr, ops, uid, uidReg, aborted>>

CacheEngage(f) ==
  /\ pc[f] = "engage"
  /\ engaged' = [engaged EXCEPT ![obj[f]] = TRUE]
  /\ Goto(f, "fill")
  /\ UNCHANGED <<cached, heapVars, held, obj, ptr, ops, uid, uidReg, aborted>>

\* newPointerVType->memoryModel.push_back: after the publication, so that for
\* one step other threads can see the type without its memory model.
PointerFill(f) ==
  /\ pc[f] = "fill"
  /\ held' = [held EXCEPT ![f] = @ \union {ptr[f]}]
  /\ Goto(f, "run")
  /\ UNCHANGED <<engaged, cached, heapVars, obj, ptr, ops, uid, uidReg, aborted>>

(***************************************************************************)
(* getUnionVType(vType1, vType2)                                           *)
(***************************************************************************)
\* A new union is made unless the operands are equal or one of them is a union
\* that already lists the other.  Its name needs a unique number: the load.
NeedsUnion(t1, t2) ==
  /\ t1 # t2
  /\ IsUnion(t1) /\ ~IsUnion(t2) => t2 \notin members[t1]
  /\ IsUnion(t2) /\ ~IsUnion(t1) => t1 \notin members[t2]

CallUnion(f) ==
  /\ pc[f] = "run" /\ ops[f] < MaxOps
  /\ \E t1, t2 \in Operands(f) : NeedsUnion(t1, t2)
  /\ ops'    = [ops EXCEPT ![f] = @ + 1]
  /\ uidReg' = [uidReg EXCEPT ![f] = uid]
  /\ Goto(f, "uid")
  /\ UNCHANGED <<engaged, cached, heapVars, held, obj, ptr, uid, aborted>>

\* The store of the counter, and the construction, which is private.  An
\* instruction puts the union in the context; unionTIContext computes it and
\* then drops it, because it inserts under a key that is already there.
MakeUnion(f, h, t1, t2, keep) ==
  /\ pc[f] = "uid"
  /\ h \in Heap \ live
  /\ NeedsUnion(t1, t2)
  /\ uid'     = uidReg[f] + 1
  /\ name'    = [name EXCEPT ![h] = uidReg[f]]
  /\ live'    = live \union {h}
  /\ refType' = [refType EXCEPT ![h] = NoType]
  /\ members' = [members EXCEPT ![h] = MembersOf(t1) \union MembersOf(t2)]
  /\ typeSet' = [typeSet EXCEPT ![f] = @ \union {h}]
  /\ held'    = IF keep THEN [held EXCEPT ![f] = @ \union {h}] ELSE held
  /\ Goto(f, "run")
  /\ UNCHANGED <<engaged, cached, obj, ptr, ops, uidReg, aborted>>

CalcStep(f) ==
  \/ \E t \in Known(f) : CallPointer(f, t)
  \/ CacheHit(f)
  \/ CacheValue(f)
  \/ CacheLoad(f)
  \/ \E h \in Heap : CacheMiss(f, h)
  \/ CacheReset(f)
  \/ CacheStore(f)
  \/ CacheEngage(f)
  \/ PointerFill(f)
  \/ CallUnion(f)
  \/ \E h \in Heap, t1, t2 \in Operands(f), keep \in BOOLEAN :
        MakeUnion(f, h, t1, t2, keep)

(***************************************************************************)
(* ~TypeCalculator, one turn of its loop over typeSet, in any order.       *)
(***************************************************************************)
\* Mutant: the type is deleted and the cache that names it left alone.
DestroyTypeOnly(f, h) ==
  /\ h \in typeSet[f] \intersect live
  /\ live' = live \ {h}
  /\ UNCHANGED <<engaged, cached, refType, members, typeSet, held, pc, obj, ptr,
                 ops, uid, uidReg, name, aborted>>

\* Resetting the cache of the object type is a write to freed memory when the
\* object type was itself made by a calculator and deleted earlier.
DestroyType(f, h) ==
  /\ h \in typeSet[f] \intersect live
  /\ engaged' = IF refType[h] # NoType
                  THEN [engaged EXCEPT ![refType[h]] = FALSE]
                  ELSE engaged
  /\ live' = live \ {h}
  /\ UNCHANGED <<cached, refType, members, typeSet, held, pc, obj, ptr, ops, uid,
                 uidReg, name, aborted>>

CalcTypeOK ==
  /\ engaged \in [VType -> BOOLEAN]
  /\ cached  \in [VType -> VType \union {NoType}]
  /\ refType \in [Heap -> VType \union {NoType}]
  /\ members \in [Heap -> SUBSET VType]
  /\ live    \in SUBSET Heap
  /\ typeSet \in [Analysis -> SUBSET Heap]
  /\ held    \in [Analysis -> SUBSET Heap]
  /\ pc      \in [Analysis -> PC]
  /\ obj     \in [Analysis -> VType \union {NoType}]
  /\ ptr     \in [Analysis -> Heap \union {NoType}]
  /\ ops     \in [Analysis -> Nat]
  /\ uid     \in Nat
  /\ uidReg  \in [Analysis -> Nat]
  /\ name    \in [Heap -> Nat]
  /\ aborted \in BOOLEAN
=============================================================================
