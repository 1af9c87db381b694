------------------------- MODULE TypeInferenceProofs -------------------------
(***************************************************************************)
(* The shared caches stay sound for any number of analyses and threads and *)
(* any types: proofs about TypeInference.                                  *)
(***************************************************************************)
EXTENDS TypeInference, FiniteSetTheorems, TLAPS

\* A pointer type that really is the pointer type to t.
PointsTo(p, t) == p \in FactoryPtr \union live /\ RefOf(p) = t

\* A thread inside getPointerVType has a type to work on, and from the moment
\* it has made the new pointer type, that type is alive and points there.
CallsSound ==
  \A f \in Analysis :
    /\ pc[f] \in {"has", "value", "load", "reset", "store", "engage", "fill"} => obj[f] \in VType
    /\ pc[f] \in {"reset", "store", "engage", "fill"} =>
         ptr[f] \in live /\ refType[ptr[f]] = obj[f]

\* Between the second and the third store of an emplace, and between the test and
\* the load of a value(), the payload is right, whichever thread has written it
\* last.
StoresSound ==
  \A f \in Analysis : pc[f] \in {"engage", "load"} => PointsTo(cached[obj[f]], obj[f])

\* After the join no thread works.
AllDone == phase \in {"match", "destroy", "end"} => \A f \in Analysis : pc[f] = "done"

\* The pool takes its tasks in the order of their numbers.
InOrder == \A f \in Analysis : pc[f] = "queued" <=> f > started

IInv == TypeOK /\ CallsSound /\ StoresSound /\ CacheSound /\ HeldLive /\ AllDone /\ InOrder

LEMMA Constants ==
  /\ Factory \subseteq VType /\ Heap \subseteq VType /\ FactoryPtr \subseteq Factory
  /\ Heap \intersect Factory = {} /\ NoType \notin VType
  /\ FactoryRef \in [FactoryPtr -> Factory]
  /\ FactoryCache \in [Factory -> FactoryPtr \union {NoType}]
  /\ NFunc \in Nat \ {0}
BY SizeAssumption, TypeAssumption, FactoryAssumption DEF VType, Factory

LEMMA Initial == Init => IInv
<1> SUFFICES ASSUME Init PROVE IInv
  OBVIOUS
<1> USE Constants
<1>1. TypeOK
  <2>1. CalcTypeOK
    BY DEF Init, CalcInit, CalcTypeOK, PC
  <2> QED
    BY <2>1 DEF Init, TypeOK, Analysis, Phase
<1>2. CacheSound
  BY FactoryAssumption DEF Init, CalcInit, CacheSound, RefOf
<1>3. CallsSound /\ StoresSound /\ HeldLive /\ AllDone /\ InOrder
  BY DEF Init, CalcInit, CallsSound, StoresSound, HeldLive, AllDone, InOrder, Analysis
<1> QED
  BY <1>1, <1>2, <1>3 DEF IInv

\* Steps that leave the calculators' state alone but for moving a thread
\* between states outside getPointerVType.
LEMMA Outside ==
  ASSUME IInv, UNCHANGED <<engaged, cached, heapVars, held, obj, ptr, ops, uid, uidReg, aborted>>,
         pc' \in [Analysis -> PC],
         \A f \in Analysis : pc'[f] # pc[f] => pc'[f] \in {"run", "lock", "print", "done"},
         phase' \in {"destroy", "end"} \/ phase \notin {"destroy", "end"}
  PROVE  CalcTypeOK' /\ CallsSound' /\ StoresSound' /\ CacheSound' /\ HeldLive'
<1> USE DEF heapVars
<1>1. CalcTypeOK'
  BY DEF IInv, TypeOK, CalcTypeOK
<1>2. CallsSound'
  BY DEF IInv, CallsSound
<1>3. StoresSound'
  BY DEF IInv, StoresSound, PointsTo, RefOf
<1>4. CacheSound'
  BY DEF IInv, CacheSound, RefOf
<1>5. HeldLive'
  BY DEF IInv, HeldLive
<1> QED
  BY <1>1, <1>2, <1>3, <1>4, <1>5

\* One step of a calculator.  CacheMiss and MakeUnion allocate an address that
\* is not live, so no sound pointer can be changed by them.
LEMMA Calculator ==
  ASSUME IInv, NEW f \in Analysis, CalcStep(f), UNCHANGED phase
  PROVE  CalcTypeOK' /\ CallsSound' /\ StoresSound' /\ CacheSound' /\ HeldLive'
<1> USE Constants
<1> DEFINE Sound == CalcTypeOK /\ CallsSound /\ StoresSound /\ CacheSound /\ HeldLive
<1> SUFFICES Sound'
  OBVIOUS
<1>0. Sound /\ AllDone
  BY DEF IInv, TypeOK
<1>1. ASSUME NEW t \in Known(f), CallPointer(f, t) PROVE Sound'
  <2> USE <1>1 DEF CallPointer, Goto, heapVars
  <2>0. t \in VType
    BY <1>0 DEF Known, CalcTypeOK
  <2>1. CalcTypeOK'
    BY <1>0, <2>0 DEF CalcTypeOK, PC
  <2>2. CallsSound'
    BY <1>0, <2>0 DEF CallsSound, CalcTypeOK
  <2>3. StoresSound'
    BY <1>0 DEF StoresSound, PointsTo, RefOf, CalcTypeOK
  <2>4. CacheSound' /\ HeldLive'
    BY <1>0 DEF CacheSound, HeldLive, RefOf
  <2> QED
    BY <2>1, <2>2, <2>3, <2>4
<1>2. CASE CacheHit(f)
  <2> USE <1>2 DEF CacheHit, Goto, heapVars
  <2>1. CalcTypeOK'
    BY <1>0 DEF CalcTypeOK, PC
  <2>2. CallsSound'
    BY <1>0 DEF CallsSound, CalcTypeOK
  <2>3. StoresSound'
    BY <1>0 DEF StoresSound, PointsTo, RefOf, CalcTypeOK
  <2>4. CacheSound' /\ HeldLive'
    BY <1>0 DEF CacheSound, HeldLive, RefOf
  <2> QED
    BY <2>1, <2>2, <2>3, <2>4
<1>3. CASE CacheValue(f)
  <2> USE <1>3 DEF CacheValue, Goto, heapVars
  <2>0. engaged[obj[f]] => PointsTo(cached[obj[f]], obj[f])
    BY <1>0 DEF CacheSound, CallsSound, PointsTo
  <2>1. CalcTypeOK'
    BY <1>0 DEF CalcTypeOK, PC
  <2>2. CallsSound'
    BY <1>0 DEF CallsSound, CalcTypeOK
  <2>3. StoresSound'
    BY <1>0, <2>0 DEF StoresSound, PointsTo, RefOf, CalcTypeOK
  <2>4. CacheSound' /\ HeldLive'
    BY <1>0 DEF CacheSound, HeldLive, RefOf
  <2> QED
    BY <2>1, <2>2, <2>3, <2>4
<1>11. CASE CacheLoad(f)
  <2> USE <1>11 DEF CacheLoad, Goto, heapVars
  <2>0. {cached[obj[f]]} \ Factory \subseteq live
    BY <1>0 DEF StoresSound, PointsTo
  <2>1. CalcTypeOK'
    BY <1>0, <2>0 DEF CalcTypeOK, PC
  <2>2. CallsSound'
    BY <1>0 DEF CallsSound, CalcTypeOK
  <2>3. StoresSound'
    BY <1>0 DEF StoresSound, PointsTo, RefOf, CalcTypeOK
  <2>4. CacheSound'
    BY <1>0 DEF CacheSound, RefOf
  <2>5. HeldLive'
    BY <1>0, <2>0 DEF HeldLive, CalcTypeOK
  <2> QED
    BY <2>1, <2>2, <2>3, <2>4, <2>5
<1>4. ASSUME NEW h \in Heap, CacheMiss(f, h) PROVE Sound'
  <2> USE <1>4 DEF CacheMiss, Goto
  <2>0. obj[f] \in VType
    BY <1>0 DEF CallsSound
  <2>1. CalcTypeOK'
    BY <1>0, <2>0 DEF CalcTypeOK, PC
  <2>2. CallsSound'
    BY <1>0, <2>0 DEF CallsSound, CalcTypeOK
  <2>3. StoresSound'
    BY <1>0 DEF StoresSound, PointsTo, RefOf, CalcTypeOK
  <2>4. CacheSound'
    BY <1>0 DEF CacheSound, RefOf, CalcTypeOK
  <2>5. HeldLive'
    BY <1>0 DEF HeldLive
  <2> QED
    BY <2>1, <2>2, <2>3, <2>4, <2>5
<1>5. CASE CacheReset(f)
  <2> USE <1>5 DEF CacheReset, Goto, heapVars
  <2>1. CalcTypeOK'
    BY <1>0 DEF CalcTypeOK, PC
  <2>2. CallsSound'
    BY <1>0 DEF CallsSound, CalcTypeOK
  <2>3. StoresSound'
    BY <1>0 DEF StoresSound, PointsTo, RefOf, CalcTypeOK
  <2>4. CacheSound'
    BY <1>0 DEF CacheSound, RefOf, CalcTypeOK
  <2>5. HeldLive'
    BY <1>0 DEF HeldLive
  <2> QED
    BY <2>1, <2>2, <2>3, <2>4, <2>5
<1>6. CASE CacheStore(f)
  <2> USE <1>6 DEF CacheStore, Goto, heapVars
  <2>0. obj[f] \in VType /\ PointsTo(ptr[f], obj[f])
    BY <1>0 DEF CallsSound, PointsTo, RefOf, CalcTypeOK
  <2>1. CalcTypeOK'
    BY <1>0 DEF CalcTypeOK, PC
  <2>2. CallsSound'
    BY <1>0 DEF CallsSound, CalcTypeOK
  <2>3. StoresSound'
    BY <1>0, <2>0 DEF StoresSound, PointsTo, RefOf, CalcTypeOK
  <2>4. CacheSound'
    BY <1>0, <2>0 DEF CacheSound, PointsTo, RefOf, CalcTypeOK
  <2>5. HeldLive'
    BY <1>0 DEF HeldLive
  <2> QED
    BY <2>1, <2>2, <2>3, <2>4, <2>5
<1>7. CASE CacheEngage(f)
  <2> USE <1>7 DEF CacheEngage, Goto, heapVars
  <2>1. CalcTypeOK'
    BY <1>0 DEF CalcTypeOK, PC
  <2>2. CallsSound'
    BY <1>0 DEF CallsSound, CalcTypeOK
  <2>3. StoresSound'
    BY <1>0 DEF StoresSound, PointsTo, RefOf, CalcTypeOK
  <2>4. CacheSound'
    BY <1>0 DEF CacheSound, StoresSound, PointsTo, RefOf, CalcTypeOK
  <2>5. HeldLive'
    BY <1>0 DEF HeldLive
  <2> QED
    BY <2>1, <2>2, <2>3, <2>4, <2>5
<1>8. CASE PointerFill(f)
  <2> USE <1>8 DEF PointerFill, Goto, heapVars
  <2>0. ptr[f] \in live
    BY <1>0 DEF CallsSound
  <2>1. CalcTypeOK'
    BY <1>0, <2>0 DEF CalcTypeOK, PC
  <2>2. CallsSound'
    BY <1>0 DEF CallsSound, CalcTypeOK
  <2>3. StoresSound'
    BY <1>0 DEF StoresSound, PointsTo, RefOf, CalcTypeOK
  <2>4. CacheSound'
    BY <1>0 DEF CacheSound, RefOf
  <2>5. HeldLive'
    BY <1>0, <2>0 DEF HeldLive, CalcTypeOK
  <2> QED
    BY <2>1, <2>2, <2>3, <2>4, <2>5
<1>9. CASE CallUnion(f)
  <2> USE <1>9 DEF CallUnion, Goto, heapVars
  <2>1. CalcTypeOK'
    BY <1>0 DEF CalcTypeOK, PC
  <2>2. CallsSound'
    BY <1>0 DEF CallsSound, CalcTypeOK
  <2>3. StoresSound'
    BY <1>0 DEF StoresSound, PointsTo, RefOf, CalcTypeOK
  <2>4. CacheSound' /\ HeldLive'
    BY <1>0 DEF CacheSound, HeldLive, RefOf
  <2> QED
    BY <2>1, <2>2, <2>3, <2>4
<1>10. ASSUME NEW h \in Heap, NEW t1 \in Operands(f), NEW t2 \in Operands(f),
              NEW keep \in BOOLEAN, MakeUnion(f, h, t1, t2, keep)
       PROVE  Sound'
  <2> USE <1>10 DEF MakeUnion, Goto
  <2>0. MembersOf(t1) \subseteq VType /\ MembersOf(t2) \subseteq VType
    BY <1>0 DEF MembersOf, IsUnion, Operands, Known, CalcTypeOK
  <2>1. CalcTypeOK'
    BY <1>0, <2>0 DEF CalcTypeOK, PC
  <2>2. CallsSound'
    BY <1>0 DEF CallsSound, CalcTypeOK
  <2>3. StoresSound'
    BY <1>0 DEF StoresSound, PointsTo, RefOf, CalcTypeOK
  <2>4. CacheSound'
    BY <1>0 DEF CacheSound, RefOf
  <2>5. HeldLive'
    BY <1>0 DEF HeldLive, CalcTypeOK
  <2> QED
    BY <2>1, <2>2, <2>3, <2>4, <2>5
<1> QED
  BY <1>1, <1>2, <1>3, <1>4, <1>5, <1>6, <1>7, <1>8, <1>9, <1>10, <1>11 DEF CalcStep

\* One deletion by a destructor.  No thread works any more, and a cache that
\* names the deleted type belongs to the object type, which is reset with it.
LEMMA Destruction ==
  ASSUME IInv, NEW h \in Heap, Destroy(h)
  PROVE  CalcTypeOK' /\ CallsSound' /\ StoresSound' /\ CacheSound' /\ HeldLive'
<1> USE Constants DEF Destroy, DestroyType, poolVars
<1>0. TypeOK /\ CalcTypeOK /\ CacheSound /\ \A f \in Analysis : pc[f] = "done"
  BY DEF IInv, TypeOK, AllDone
<1>1. CalcTypeOK'
  BY <1>0 DEF CalcTypeOK
<1>2. CallsSound' /\ StoresSound' /\ HeldLive'
  BY <1>0 DEF CallsSound, StoresSound, HeldLive
<1>3. CacheSound'
  <2> SUFFICES ASSUME NEW t \in VType, engaged'[t]
               PROVE  cached[t] \in FactoryPtr \union live' /\ RefOf(cached[t])' = t
    BY DEF CacheSound
  <2>1. engaged[t] /\ refType[h] # t
    BY <1>0 DEF CalcTypeOK
  <2>2. cached[t] \in FactoryPtr \union live /\ RefOf(cached[t]) = t
    BY <1>0, <2>1 DEF CacheSound
  <2>3. cached[t] # h
    BY <2>1, <2>2 DEF RefOf
  <2> QED
    BY <2>2, <2>3 DEF RefOf
<1> QED
  BY <1>1, <1>2, <1>3

\* After the join the pool is idle for good.
LEMMA Idle ==
  ASSUME IInv, phase \in {"match", "destroy", "end"}
  PROVE  ~Start /\ \A f \in Analysis : ~Worker(f)
<1> USE DEF IInv, TypeOK, AllDone
<1>1. ~Start
  <2> SUFFICES ASSUME Start PROVE FALSE
    OBVIOUS
  <2>1. started + 1 \in Analysis /\ started + 1 > started
    BY Constants DEF Start, Analysis
  <2> QED
    BY <2>1 DEF InOrder
<1>2. ASSUME NEW f \in Analysis, Worker(f) PROVE FALSE
  BY <1>2 DEF Worker, Run, RunReturns, Lock, Unlock, CalcStep, CallPointer, CacheHit,
     CacheValue, CacheLoad, CacheMiss, CacheReset, CacheStore, CacheEngage, PointerFill, CallUnion,
     MakeUnion
<1> QED
  BY <1>1, <1>2

\* A step of a calculator moves its own thread only, and not out of `run`.
LEMMA Moves ==
  ASSUME IInv, NEW f \in Analysis, CalcStep(f)
  PROVE  /\ pc[f] \notin {"queued", "done", "lock", "print"}
         /\ pc'[f] \notin {"queued", "done", "lock", "print"}
         /\ \A g \in Analysis \ {f} : pc'[g] = pc[g]
<1>0. pc \in [Analysis -> PC]
  BY DEF IInv, TypeOK, CalcTypeOK
<1> USE <1>0 DEF Goto
<1>1. CASE \E t \in Known(f) : CallPointer(f, t)
  BY <1>1 DEF CallPointer
<1>2. CASE CacheHit(f) \/ CacheValue(f) \/ CacheLoad(f)
  BY <1>2 DEF CacheHit, CacheValue, CacheLoad
<1>3. CASE \E h \in Heap : CacheMiss(f, h)
  BY <1>3 DEF CacheMiss
<1>4. CASE CacheReset(f) \/ CacheStore(f) \/ CacheEngage(f) \/ PointerFill(f)
  BY <1>4 DEF CacheReset, CacheStore, CacheEngage, PointerFill
<1>5. CASE CallUnion(f)
  BY <1>5 DEF CallUnion
<1>6. CASE \E h \in Heap, t1, t2 \in Operands(f), keep \in BOOLEAN :
              MakeUnion(f, h, t1, t2, keep)
  BY <1>6 DEF MakeUnion
<1> QED
  BY <1>1, <1>2, <1>3, <1>4, <1>5, <1>6 DEF CalcStep

\* Every action of the pool preserves the invariant.
LEMMA Step ==
  ASSUME IInv, [Next]_vars
  PROVE  IInv'
<1> USE Constants
<1>0. TypeOK /\ CalcTypeOK /\ pc \in [Analysis -> PC]
  BY DEF IInv, TypeOK, CalcTypeOK
<1>1. ASSUME NEW f \in Analysis, Run(f) PROVE IInv'
  <2>1. CalcTypeOK' /\ CallsSound' /\ StoresSound' /\ CacheSound' /\ HeldLive'
    BY <1>1, Calculator DEF Run, poolVars
  <2>2. TypeOK'
    BY <1>0, <1>1, <2>1 DEF Run, poolVars, TypeOK
  <2>3. AllDone'
    BY <1>1, Idle DEF AllDone, Run, Worker, poolVars
  <2>4. InOrder'
    BY <1>1, Moves DEF IInv, InOrder, Run, poolVars
  <2> QED
    BY <2>1, <2>2, <2>3, <2>4 DEF IInv
<1>2. ASSUME NEW f \in Analysis, RunReturns(f) \/ Lock(f) \/ Unlock(f) PROVE IInv'
  <2> USE DEF RunReturns, Lock, Unlock, Goto, poolVars
  <2>1. CalcTypeOK' /\ CallsSound' /\ StoresSound' /\ CacheSound' /\ HeldLive'
    <3>1. /\ UNCHANGED <<engaged, cached, heapVars, held, obj, ptr, ops, uid, uidReg, aborted>>
          /\ UNCHANGED phase
          /\ pc' \in [Analysis -> PC]
          /\ \A g \in Analysis : pc'[g] # pc[g] => pc'[g] \in {"run", "lock", "print", "done"}
      BY <1>0, <1>2 DEF PC
    <3> QED
      BY <3>1, Outside
  <2>2. TypeOK'
    <3>1. UNCHANGED <<phase, posted, started, current>>
      BY <1>2
    <3>2. mutex' \in 0 .. NFunc /\ curIndex' \in Nat /\ printed' \in Seq(Nat)
      <4>0. curIndex \in Nat /\ printed \in Seq(Nat) /\ mutex \in 0 .. NFunc /\ f \in 0 .. NFunc
        BY <1>0 DEF TypeOK, Analysis
      <4>1. CASE RunReturns(f)
        BY <4>0, <4>1
      <4>2. CASE Lock(f)
        BY <4>0, <4>2
      <4>3. CASE Unlock(f)
        BY <4>0, <4>3
      <4> QED
        BY <1>2, <4>1, <4>2, <4>3
    <3> QED
      BY <1>0, <2>1, <3>1, <3>2 DEF TypeOK
  <2>3. AllDone'
    BY <1>2, Idle DEF AllDone, Worker
  <2>4. InOrder'
    BY <1>0, <1>2 DEF IInv, InOrder
  <2> QED
    BY <2>1, <2>2, <2>3, <2>4 DEF IInv
<1>3. CASE Start
  <2> USE <1>3 DEF Start, Goto
  <2>0. started + 1 \in Analysis /\ started \in Nat /\ posted \in Nat
    BY <1>0 DEF TypeOK, Analysis
  <2>1. CalcTypeOK' /\ CallsSound' /\ StoresSound' /\ CacheSound' /\ HeldLive'
    <3>1. /\ UNCHANGED <<engaged, cached, heapVars, held, obj, ptr, ops, uid, uidReg, aborted>>
          /\ UNCHANGED phase
          /\ pc' \in [Analysis -> PC]
          /\ \A g \in Analysis : pc'[g] # pc[g] => pc'[g] \in {"run", "lock", "print", "done"}
      BY <1>0, <2>0 DEF PC
    <3> QED
      BY <3>1, Outside
  <2>2. TypeOK'
    BY <1>0, <2>0, <2>1 DEF TypeOK
  <2>3. AllDone'
    BY Idle DEF AllDone
  <2>4. InOrder'
    BY <1>0, <2>0 DEF IInv, InOrder, Analysis
  <2> QED
    BY <2>1, <2>2, <2>3, <2>4 DEF IInv
<1>4. ASSUME NEW h \in Heap, Destroy(h) PROVE IInv'
  <2>1. CalcTypeOK' /\ CallsSound' /\ StoresSound' /\ CacheSound' /\ HeldLive'
    BY <1>4, Destruction
  <2>2. UNCHANGED <<poolVars, pc>>
    BY <1>4 DEF Destroy, DestroyType
  <2> QED
    BY <1>0, <2>1, <2>2 DEF IInv, TypeOK, AllDone, InOrder, poolVars
<1>5. CASE Post \/ CallJoin \/ Joined \/ Match \/ Destroyed \/ UNCHANGED vars
  <2> USE DEF Post, CallJoin, Joined, Match, Destroyed, vars, poolVars, calcVars, heapVars
  <2>0. UNCHANGED <<calcVars, started>>
    BY <1>5
  <2>1. CalcTypeOK' /\ CallsSound' /\ StoresSound' /\ CacheSound' /\ HeldLive'
    <3>1. phase' \in {"destroy", "end"} \/ phase \notin {"destroy", "end"}
      BY <1>5
    <3> QED
      BY <1>0, <2>0, <3>1, Outside
  <2>2. TypeOK'
    BY <1>0, <1>5, <2>1 DEF TypeOK, Phase, Analysis
  <2>3. AllDone'
    BY <1>5, <2>0 DEF IInv, AllDone
  <2>4. InOrder'
    BY <2>0 DEF IInv, InOrder
  <2> QED
    BY <2>1, <2>2, <2>3, <2>4 DEF IInv
<1> QED
  BY <1>1, <1>2, <1>3, <1>4, <1>5 DEF Next, Main, Worker, Stopped

LEMMA Invariant == Spec => []IInv
BY Initial, Step, PTL DEF Spec

\* The types are right in every reachable state.
THEOREM TypeCorrect == Spec => []TypeOK
<1>1. IInv => TypeOK
  BY DEF IInv
<1> QED
  BY <1>1, Invariant, PTL

\* No reader of a shared ptrType cache gets a wrong or a deleted type, for any
\* number of functions and threads (Linker and parameterInference rely on it).
THEOREM CachesSound == Spec => []CacheSound
<1>1. IInv => CacheSound
  BY DEF IInv
<1> QED
  BY <1>1, Invariant, PTL

\* No type that an analysis has in its contexts is deleted before the vector
\* of analyses is destroyed.
THEOREM HeldTypesLive == Spec => []HeldLive
<1>1. IInv => HeldLive
  BY DEF IInv
<1> QED
  BY <1>1, Invariant, PTL

\* The join is a barrier: once it has returned, the contexts and the types that
\* the main thread compares stay as the workers left them.
THEOREM ResultsAreFrozen == Spec => ResultsFrozen
<1>1. ASSUME IInv, [Next]_vars, phase \notin {"post", "join"}
      PROVE  UNCHANGED <<held, pc, refType, members, printed>>
  <2>1. phase \in {"match", "destroy", "end"}
    BY <1>1 DEF IInv, TypeOK, Phase
  <2>2. Main \/ UNCHANGED vars
    BY <1>1, <2>1, Idle DEF Next, Stopped
  <2> QED
    BY <2>2 DEF Main, Post, CallJoin, Joined, Match, Destroy, DestroyType, Destroyed,
       poolVars, calcVars, heapVars, vars
<1>2. IInv /\ [Next]_vars =>
        [phase \notin {"post", "join"} => UNCHANGED <<held, pc, refType, members, printed>>]_vars
  BY <1>1
<1> QED
  BY <1>2, Invariant, PTL DEF Spec, ResultsFrozen

\* No thread is between the test and the stores of getPointerVType for a type
\* that the factory has given a pointer type.
Kept ==
  /\ FactoryCacheKept
  /\ \A f \in Analysis :
       pc[f] \in {"reset", "store", "engage"} =>
         ~(obj[f] \in Factory /\ FactoryCache[obj[f]] # NoType)

LEMMA KeptStep ==
  ASSUME IInv, Kept, [Next]_vars
  PROVE  Kept'
<1> USE Constants DEF Kept, FactoryCacheKept
<1>0. TypeOK /\ CalcTypeOK /\ CallsSound
  BY DEF IInv, TypeOK
<1>1. ASSUME NEW f \in Analysis, CalcStep(f) PROVE Kept'
  <2>1. CASE (\E t \in Known(f) : CallPointer(f, t)) \/ CallUnion(f)
    BY <1>0, <2>1 DEF CallPointer, CallUnion, Goto, heapVars, CalcTypeOK
  <2>2. CASE CacheHit(f)
    BY <1>0, <2>2 DEF CacheHit, Goto, heapVars, CalcTypeOK
  <2>3. CASE CacheValue(f) \/ CacheLoad(f)
    BY <1>0, <2>3 DEF CacheValue, CacheLoad, Goto, heapVars, CalcTypeOK
  <2>4. ASSUME NEW h \in Heap, CacheMiss(f, h) PROVE Kept'
    BY <1>0, <2>4 DEF CacheMiss, Goto, CalcTypeOK, CallsSound
  <2>5. CASE CacheReset(f) \/ CacheStore(f) \/ CacheEngage(f)
    BY <1>0, <2>5 DEF CacheReset, CacheStore, CacheEngage, Goto, heapVars, CalcTypeOK
  <2>6. CASE PointerFill(f)
    BY <1>0, <2>6 DEF PointerFill, Goto, heapVars, CalcTypeOK
  <2>7. ASSUME NEW h \in Heap, NEW t1 \in Operands(f), NEW t2 \in Operands(f),
               NEW keep \in BOOLEAN, MakeUnion(f, h, t1, t2, keep)
        PROVE  Kept'
    BY <1>0, <2>7 DEF MakeUnion, Goto, CalcTypeOK
  <2> QED
    BY <1>1, <2>1, <2>2, <2>3, <2>4, <2>5, <2>6, <2>7 DEF CalcStep
<1>2. ASSUME NEW h \in Heap, Destroy(h) PROVE Kept'
  BY <1>0, <1>2 DEF Destroy, DestroyType, CalcTypeOK
<1>3. CASE Start \/ \E f \in Analysis : RunReturns(f) \/ Lock(f) \/ Unlock(f)
  BY <1>0, <1>3 DEF Start, RunReturns, Lock, Unlock, Goto, heapVars, CalcTypeOK
<1>4. CASE Post \/ CallJoin \/ Joined \/ Match \/ Destroyed \/ UNCHANGED vars
  BY <1>4 DEF Post, CallJoin, Joined, Match, Destroyed, vars, calcVars, heapVars
<1> QED
  BY <1>1, <1>2, <1>3, <1>4 DEF Next, Main, Worker, Run, Stopped

LEMMA KeptInit == Init => Kept
<1> SUFFICES ASSUME Init PROVE Kept
  OBVIOUS
<1>1. FactoryCacheKept
  BY Constants DEF Init, CalcInit, FactoryCacheKept
<1>2. \A f \in Analysis : pc[f] = "queued"
  BY DEF Init, CalcInit
<1> QED
  BY <1>1, <1>2 DEF Kept

\* A type that has a pointer type in the factory keeps it, and never gets a
\* second one: comparison by address is right for those types.
THEOREM FactoryPointersKept == Spec => []FactoryCacheKept
<1>1. Kept => FactoryCacheKept
  BY DEF Kept
<1> QED
  BY <1>1, KeptInit, KeptStep, Invariant, PTL DEF Spec

\* The thread that prints is the one that holds the mutex, and only between
\* the line and the increment has the counter's own value been printed.
Turns ==
  /\ mutex # 0 => mutex \in Analysis /\ pc[mutex] = "print"
  /\ \A f \in Analysis : pc[f] = "print" => mutex = f
  /\ Len(printed) = IF mutex = 0 THEN curIndex - 1 ELSE curIndex
  /\ ProgressInOrder

LEMMA TurnsStep ==
  ASSUME IInv, Turns, [Next]_vars
  PROVE  Turns'
<1> USE Constants
<1>0. /\ TypeOK /\ pc \in [Analysis -> PC]
      /\ curIndex \in Nat /\ printed \in Seq(Nat) /\ 0 \notin Analysis
  BY DEF IInv, TypeOK, CalcTypeOK, Analysis
<1>1. ASSUME NEW f \in Analysis, Run(f) \/ RunReturns(f) PROVE Turns'
  <2>1. /\ pc[f] # "print" /\ pc'[f] # "print"
        /\ \A g \in Analysis \ {f} : pc'[g] = pc[g]
    BY <1>0, <1>1, Moves DEF Run, RunReturns, Goto
  <2>2. UNCHANGED <<mutex, curIndex, printed>>
    BY <1>1 DEF Run, RunReturns, poolVars
  <2> QED
    BY <2>1, <2>2 DEF Turns, ProgressInOrder
<1>2. ASSUME NEW f \in Analysis, Lock(f) PROVE Turns'
  <2> USE <1>2 DEF Lock, Goto
  <2>1. Len(printed) = curIndex - 1
    BY DEF Turns
  <2>2. Len(printed') = curIndex
    BY <1>0, <2>1
  <2>3. ProgressInOrder'
    BY <1>0, <2>1 DEF Turns, ProgressInOrder
  <2> QED
    BY <1>0, <2>2, <2>3 DEF Turns
<1>3. ASSUME NEW f \in Analysis, Unlock(f) PROVE Turns'
  <2> USE <1>3 DEF Unlock, Goto
  <2>1. mutex = f /\ mutex' = 0 /\ curIndex' = curIndex + 1 /\ printed' = printed
    BY DEF Turns
  <2>2. \A g \in Analysis : pc'[g] # "print"
    BY <1>0, <2>1 DEF Turns
  <2> QED
    BY <1>0, <2>1, <2>2 DEF Turns, ProgressInOrder
<1>4. CASE Start
  <2>1. started + 1 \in Analysis /\ pc[started + 1] # "print"
    BY <1>0, <1>4 DEF Start, TypeOK, Analysis, IInv, InOrder
  <2> QED
    BY <1>0, <1>4, <2>1 DEF Start, Goto, Turns, ProgressInOrder
<1>5. CASE Main \/ UNCHANGED vars
  <2>1. UNCHANGED <<pc, mutex, curIndex, printed>>
    BY <1>5 DEF Main, Post, CallJoin, Joined, Match, Destroy, DestroyType, Destroyed,
       calcVars, poolVars, vars
  <2> QED
    BY <2>1 DEF Turns, ProgressInOrder
<1> QED
  BY <1>1, <1>2, <1>3, <1>4, <1>5 DEF Next, Worker, Stopped

\* The progress lines count 1, 2, 3, ... for any number of threads: the line
\* and the increment are one critical section.
THEOREM ProgressCounts == Spec => []ProgressInOrder
<1>1. Init => Turns
  BY DEF Init, CalcInit, Turns, ProgressInOrder
<1>2. Turns => ProgressInOrder
  BY DEF Turns
<1> QED
  BY <1>1, <1>2, TurnsStep, Invariant, PTL DEF Spec

\* Every living type is in the set of the calculator that made it, which the
\* destruction empties one after the other; a cache the factory left empty
\* names such a type or none.
Ends ==
  /\ live \subseteq UNION {typeSet[f] : f \in Analysis}
  /\ phase = "destroy" => \A f \in 1 .. current - 1 : typeSet[f] \intersect live = {}
  /\ phase = "end" => live = {}
  /\ \A t \in Factory : FactoryCache[t] = NoType => cached[t] \in Heap \union {NoType}

LEMMA EndsStep ==
  ASSUME IInv, Ends, [Next]_vars
  PROVE  Ends'
<1> USE Constants DEF Ends
<1>0. TypeOK /\ CalcTypeOK /\ CallsSound
  BY DEF IInv, TypeOK
<1>1. ASSUME NEW f \in Analysis, Run(f) PROVE Ends'
  <2> USE DEF heapVars
  <2>0. CalcStep(f) /\ phase \notin {"destroy", "end"} /\ phase' = phase
    BY <1>1, Idle DEF Worker, Run, poolVars
  <2>1. CASE (\E t \in Known(f) : CallPointer(f, t)) \/ CacheHit(f) \/ CacheValue(f)
             \/ CacheLoad(f) \/ CacheReset(f) \/ CacheEngage(f) \/ PointerFill(f) \/ CallUnion(f)
    <3>1. UNCHANGED <<live, typeSet, cached>>
      BY <2>1 DEF CallPointer, CacheHit, CacheValue, CacheLoad, CacheReset, CacheEngage, PointerFill,
         CallUnion
    <3> QED
      BY <2>0, <3>1
  <2>2. CASE CacheStore(f)
    <3>1. UNCHANGED <<live, typeSet>> /\ ptr[f] \in Heap
      BY <1>0, <2>2 DEF CacheStore, CallsSound, CalcTypeOK
    <3>2. \A t \in Factory : cached'[t] \in {cached[t], ptr[f]}
      BY <1>0, <2>2 DEF CacheStore, CalcTypeOK
    <3> QED
      BY <2>0, <3>1, <3>2
  <2>3. ASSUME NEW h \in Heap, live' = live \union {h}, cached' = cached,
               typeSet' = [typeSet EXCEPT ![f] = @ \union {h}]
        PROVE  Ends'
    <3>1. \A g \in Analysis : typeSet[g] \subseteq typeSet'[g]
      BY <1>0, <2>3 DEF CalcTypeOK
    <3>2. h \in typeSet'[f]
      BY <1>0, <2>3 DEF CalcTypeOK
    <3> QED
      BY <2>0, <2>3, <3>1, <3>2
  <2>4. CASE \E h \in Heap : CacheMiss(f, h)
    BY <2>3, <2>4 DEF CacheMiss
  <2>5. CASE \E h \in Heap, t1, t2 \in Operands(f), keep \in BOOLEAN : MakeUnion(f, h, t1, t2, keep)
    BY <2>3, <2>5 DEF MakeUnion
  <2> QED
    BY <2>0, <2>1, <2>2, <2>4, <2>5 DEF CalcStep
<1>2. ASSUME NEW h \in Heap, Destroy(h) PROVE Ends'
  BY <1>0, <1>2 DEF Destroy, DestroyType, poolVars
<1>3. CASE Start \/ \E f \in Analysis : RunReturns(f) \/ Lock(f) \/ Unlock(f)
  BY <1>3 DEF Start, RunReturns, Lock, Unlock, heapVars, poolVars
<1>4. CASE Post \/ CallJoin \/ Joined \/ Match \/ UNCHANGED vars
  BY <1>4 DEF Post, CallJoin, Joined, Match, vars, poolVars, calcVars, heapVars
<1>5. CASE Destroyed
  <2>0. /\ current \in 1 .. NFunc /\ NFunc \in Nat
        /\ UNCHANGED <<live, typeSet, cached>>
    BY <1>0, <1>5 DEF Destroyed, TypeOK, Analysis, calcVars, heapVars
  <2>1. \A f \in 1 .. current : typeSet[f] \intersect live = {}
    BY <1>5, <2>0 DEF Destroyed
  <2>2. CASE current < NFunc
    BY <1>5, <2>0, <2>1, <2>2 DEF Destroyed
  <2>3. CASE current = NFunc
    <3>1. live = {}
      BY <2>0, <2>1, <2>3 DEF Analysis
    <3> QED
      BY <1>5, <2>0, <2>3, <3>1 DEF Destroyed
  <2> QED
    BY <2>0, <2>2, <2>3
<1> QED
  BY <1>1, <1>2, <1>3, <1>4, <1>5 DEF Next, Main, Worker, Run, Stopped, poolVars

\* The destruction frees every type that was made, and leaves the shared types
\* as the factory made them.
THEOREM EndsClean == Spec => []CleanEnd
<1>1. Init => Ends
  BY Constants DEF Init, CalcInit, Ends
<1>2. ASSUME IInv, Kept, Ends PROVE CleanEnd
  <2> SUFFICES ASSUME phase = "end" PROVE CleanEnd
    BY DEF CleanEnd
  <2>1. live = {}
    BY <1>2 DEF Ends
  <2> SUFFICES ASSUME NEW t \in Factory PROVE engaged[t] <=> FactoryCache[t] # NoType
    BY <2>1 DEF CleanEnd
  <2>2. CASE FactoryCache[t] # NoType
    BY <1>2, <2>1, <2>2 DEF Kept, FactoryCacheKept
  <2>3. CASE FactoryCache[t] = NoType
    <3>1. engaged[t] => cached[t] \in FactoryPtr
      BY <1>2, <2>1, Constants DEF IInv, CacheSound
    <3>2. cached[t] \notin FactoryPtr
      BY <1>2, <2>3, Constants DEF Ends
    <3> QED
      BY <2>3, <3>1, <3>2
  <2> QED
    BY <2>2, <2>3
<1> QED
  BY <1>1, <1>2, EndsStep, KeptInit, KeptStep, Invariant, PTL DEF Spec

-----------------------------------------------------------------------------
(***************************************************************************)
(* executeTypeInference implements AnalysisPhases for any number of        *)
(* functions and threads: each step of the pool is a step of one analysis  *)
(* there, or none.                                                         *)
(***************************************************************************)

\* The counter of the main thread's loops starts at the first analysis.
AtFirst == phase \in {"post", "join"} => current = 1

\* The abstract state of the pool.
Stages == [f \in Analysis |-> StageOf(f)]

LEMMA AtFirstStep ==
  ASSUME AtFirst, [Next]_vars
  PROVE  AtFirst'
<1> USE DEF AtFirst
<1>1. CASE Main
  BY <1>1 DEF Main, Post, CallJoin, Joined, Match, Destroy, Destroyed, poolVars
<1>2. CASE Start \/ \E f \in Analysis : Worker(f)
  BY <1>2 DEF Start, Worker, Run, RunReturns, Lock, Unlock, poolVars
<1>3. CASE UNCHANGED vars
  BY <1>3 DEF vars, poolVars
<1> QED
  BY <1>1, <1>2, <1>3 DEF Next, Stopped

\* A step of a calculator adds types to what its own analysis holds.
LEMMA Holds ==
  ASSUME IInv, NEW f \in Analysis, CalcStep(f)
  PROVE  \E r \in SUBSET Heap : held' = [held EXCEPT ![f] = @ \union r]
<1> USE Constants
<1>0. /\ held \in [Analysis -> SUBSET Heap] /\ live \subseteq Heap
      /\ CallsSound /\ StoresSound
  BY DEF IInv, TypeOK, CalcTypeOK
<1>1. SUFFICES ASSUME held' # held
               PROVE  \E r \in SUBSET Heap : held' = [held EXCEPT ![f] = @ \union r]
  <2>1. held = [held EXCEPT ![f] = @ \union {}]
    BY <1>0
  <2> QED
    BY <2>1
<1>2. CASE CacheLoad(f)
  <2>1. {cached[obj[f]]} \ Factory \in SUBSET Heap
    BY <1>0, <1>1, <1>2 DEF CacheLoad, StoresSound, PointsTo
  <2> QED
    BY <1>1, <1>2, <2>1 DEF CacheLoad
<1>3. CASE PointerFill(f)
  <2>1. {ptr[f]} \in SUBSET Heap
    BY <1>0, <1>3 DEF PointerFill, CallsSound
  <2> QED
    BY <1>3, <2>1 DEF PointerFill
<1>4. ASSUME NEW h \in Heap, NEW t1 \in Operands(f), NEW t2 \in Operands(f),
             NEW keep \in BOOLEAN, MakeUnion(f, h, t1, t2, keep)
      PROVE  \E r \in SUBSET Heap : held' = [held EXCEPT ![f] = @ \union r]
  <2>1. held' = [held EXCEPT ![f] = @ \union {h}]
    BY <1>1, <1>4 DEF MakeUnion
  <2> QED
    BY <2>1
<1> QED
  BY SMTT(60), <1>1, <1>2, <1>3, <1>4
     DEF CalcStep, CallPointer, CacheHit, CacheValue, CacheMiss, CacheReset, CacheStore, CacheEngage, CallUnion

LEMMA PoolInit == Init => Phases!Init
<1> SUFFICES ASSUME Init PROVE Phases!Init
  OBVIOUS
<1>1. \A f \in Analysis : StageOf(f) = "new"
  BY DEF Init, CalcInit, StageOf
<1> QED
  BY <1>1 DEF Phases!Init, Phases!Analysis, Analysis, Init, CalcInit

\* The workers: an analysis begins, adds to its result and finishes.
LEMMA WorkerStep ==
  ASSUME IInv, AtFirst, Start \/ \E f \in Analysis : Worker(f)
  PROVE  [Phases!Next]_(Phases!vars)
<1> USE DEF Phases!Analysis, Analysis, Phases!vars
<1>0. /\ phase \in {"post", "join"} /\ phase' = phase
      /\ pc \in [Analysis -> PC] /\ held \in [Analysis -> SUBSET Heap]
  <2>1. phase \in {"post", "join"}
    BY Idle DEF IInv, TypeOK, Phase
  <2> QED
    BY <2>1 DEF IInv, TypeOK, CalcTypeOK, Start, Worker, Run, RunReturns, Lock, Unlock, poolVars
<1>1. ASSUME NEW f \in Analysis, Run(f) PROVE Phases!Work(f) /\ Stages' = Stages
  <2>1. pc[f] \notin {"queued", "done"} /\ pc'[f] \notin {"queued", "done"}
        /\ \A g \in Analysis \ {f} : pc'[g] = pc[g]
    BY <1>1, Moves DEF Run
  <2>2. \A g \in Analysis : StageOf(g)' = StageOf(g)
    BY <1>0, <2>1 DEF StageOf
  <2>3. StageOf(f) = "running"
    BY <1>0, <2>1 DEF StageOf
  <2>4. Stages' = Stages
    BY <2>2 DEF Stages
  <2>5. \E r \in SUBSET Heap : held' = [held EXCEPT ![f] = @ \union r]
    BY <1>1, Holds DEF Run
  <2> QED
    BY <2>3, <2>4, <2>5 DEF Phases!Work, Stages
<1>2. ASSUME NEW f \in Analysis, RunReturns(f) \/ Lock(f) PROVE UNCHANGED Phases!vars
  <2>1. \A g \in Analysis : StageOf(g)' = StageOf(g)
    BY <1>0, <1>2 DEF RunReturns, Lock, Goto, StageOf
  <2>2. Stages' = Stages /\ held' = held
    BY <1>2, <2>1 DEF Stages, RunReturns, Lock
  <2> QED
    BY <2>2 DEF Stages
<1>3. ASSUME NEW f \in Analysis, Unlock(f) PROVE Phases!Finish(f)
  <2>1. StageOf(f) = "running" /\ Stages' = [Stages EXCEPT ![f] = "finished"]
    BY <1>0, <1>3 DEF Unlock, Goto, StageOf, Stages
  <2> QED
    BY <1>3, <2>1 DEF Phases!Finish, Phases!Move, Stages, Unlock
<1>4. CASE Start
  <2>1. started + 1 \in Analysis /\ pc[started + 1] = "queued"
    <3>1. started \in 0 .. posted /\ posted \in 0 .. NFunc /\ started < posted /\ InOrder
      BY <1>4 DEF Start, IInv, TypeOK
    <3>2. started + 1 \in Analysis /\ started + 1 > started
      BY <3>1, Constants
    <3> QED
      BY <3>1, <3>2 DEF InOrder
  <2>2. StageOf(started + 1) = "new" /\ Stages' = [Stages EXCEPT ![started + 1] = "running"]
    BY <1>0, <1>4, <2>1 DEF Start, Goto, StageOf, Stages
  <2>3. Phases!Begin(started + 1)
    BY <1>4, <2>1, <2>2 DEF Phases!Begin, Phases!Move, Stages, Start
  <2> QED
    BY <2>1, <2>3 DEF Phases!Next
<1> QED
  BY <1>1, <1>2, <1>3, <1>4 DEF Worker, Phases!Next

\* The main thread: when all have finished, one is matched after the other,
\* and when all are matched, one is deleted after the other.
LEMMA MainStep ==
  ASSUME IInv, AtFirst, Main \/ UNCHANGED vars
  PROVE  [Phases!Next]_(Phases!vars)
<1> USE Constants DEF Phases!Analysis, Analysis, Phases!vars
<1>0. /\ current \in Analysis /\ phase \in Phase /\ AllDone
      /\ pc' = pc /\ held' = held
  BY DEF IInv, TypeOK, Main, Post, CallJoin, Joined, Match, Destroy, DestroyType, Destroyed,
         vars, calcVars
<1>1. CASE Post \/ CallJoin \/ Joined \/ UNCHANGED vars \/ \E h \in Heap : Destroy(h)
  <2>1. \A g \in Analysis : StageOf(g)' = StageOf(g)
    BY <1>0, <1>1 DEF AtFirst, Post, CallJoin, Joined, Destroy, poolVars, vars, StageOf
  <2>2. Stages' = Stages
    BY <2>1 DEF Stages
  <2> QED
    BY <1>0, <2>2 DEF Stages
<1>2. CASE Match
  <2>1. \A g \in Analysis : StageOf(g) = IF g < current THEN "matched" ELSE "finished"
    BY <1>0, <1>2 DEF Match, AllDone, StageOf
  <2>2. \A g \in Analysis : StageOf(g)' = IF g <= current THEN "matched" ELSE "finished"
    BY <1>0, <1>2 DEF Match, AllDone, StageOf
  <2>3. Stages' = [Stages EXCEPT ![current] = "matched"]
    <3>1. \A g \in Analysis : StageOf(g)' = IF g = current THEN "matched" ELSE StageOf(g)
      BY <1>0, <2>1, <2>2
    <3> QED
      BY <3>1 DEF Stages
  <2>4. Phases!Match(current)
    BY <1>0, <2>1, <2>3 DEF Phases!Match, Phases!Move, Stages
  <2> QED
    BY <1>0, <2>4 DEF Phases!Next
<1>3. CASE Destroyed
  <2>1. \A g \in Analysis : StageOf(g) = IF g < current THEN "deleted" ELSE "matched"
    BY <1>0, <1>3 DEF Destroyed, StageOf
  <2>2. \A g \in Analysis : StageOf(g)' = IF g <= current THEN "deleted" ELSE "matched"
    BY <1>0, <1>3 DEF Destroyed, StageOf
  <2>3. Stages' = [Stages EXCEPT ![current] = "deleted"]
    <3>1. \A g \in Analysis : StageOf(g)' = IF g = current THEN "deleted" ELSE StageOf(g)
      BY <1>0, <2>1, <2>2
    <3> QED
      BY <3>1 DEF Stages
  <2>4. Phases!Delete(current)
    BY <1>0, <2>1, <2>3 DEF Phases!Delete, Phases!Move, Stages
  <2> QED
    BY <1>0, <2>4 DEF Phases!Next
<1> QED
  BY <1>1, <1>2, <1>3 DEF Main

\* What the caller of executeTypeInference relies on: every analysis runs once,
\* none is matched before all are in, none is deleted before all are matched,
\* and only a running analysis changes its result.
THEOREM PhasesImplemented == Spec => ImplementsPhases
<1>1. Init => AtFirst
  BY DEF Init, AtFirst
<1>2. IInv /\ AtFirst /\ [Next]_vars => AtFirst' /\ [Phases!Next]_(Phases!vars)
  BY AtFirstStep, WorkerStep, MainStep DEF Next, Stopped
<1> QED
  BY <1>1, <1>2, PoolInit, Invariant, PTL DEF Spec, ImplementsPhases, Phases!Spec

-----------------------------------------------------------------------------
(***************************************************************************)
(* With --single-thread the type pool of TypeInference gives each object   *)
(* type one pointer type and each union a name of its own, and no reader   *)
(* finds an optional empty that it has seen engaged, for any number of     *)
(* functions and any types.                                                *)
(***************************************************************************)

\* One analysis runs at a time.
Alone == \A f, g \in Busy : f = g

\* What has been seen engaged stays so until it is read.
Steady == /\ ~aborted
          /\ \A f \in Analysis : pc[f] = "value" => engaged[obj[f]]

Working == phase \notin {"destroy", "end"}
Making(f) == pc[f] \in {"reset", "store", "engage"}

\* A pointer type made here is in the cache of its object type or about to be
\* put there, and then it is the only one.
Pointers ==
  /\ OnePointerPerObject
  /\ \A f \in Analysis : Making(f) =>
       /\ \A h \in live : refType[h] = obj[f] => h = ptr[f]
       /\ pc[f] = "engage" => cached[obj[f]] = ptr[f]
  /\ Working => \A h \in live : refType[h] # NoType =>
       \/ engaged[refType[h]] /\ cached[refType[h]] = h
       \/ \E f \in Analysis : Making(f) /\ obj[f] = refType[h]

\* The counter is ahead of the names given, also in the register of an
\* analysis that has loaded it.
Names ==
  /\ UnionNamesUnique
  /\ \A h \in live : refType[h] = NoType => name[h] < uid
  /\ \A f \in Analysis : pc[f] = "uid" => uidReg[f] = uid

\* A union lists types that live, so that no address in it gets another type.
Unions ==
  /\ UnionsFlat
  /\ Working => /\ \A h \in live : members[h] \subseteq Factory \union live
                /\ \A h \in Heap \ live : members[h] = {}

Solo == Alone /\ Steady /\ Pointers /\ Names /\ Unions

\* Steps that leave the types and the calculators alone, but for moving a
\* thread into or out of `run`.
LEMMA SoloOutside ==
  ASSUME Solo, pc \in [Analysis -> PC], pc' \in [Analysis -> PC], Alone',
         UNCHANGED <<engaged, cached, heapVars, held, obj, ptr, ops, uid, uidReg, aborted>>,
         \A f \in Analysis : pc'[f] # pc[f] =>
            /\ pc[f] \in {"queued", "run", "lock", "print"}
            /\ pc'[f] \in {"run", "lock", "print", "done"},
         Working' => Working
  PROVE  Solo'
<1> USE DEF heapVars, Solo
<1>1. Steady'
  BY DEF Steady
<1>2. Pointers'
  BY DEF Pointers, OnePointerPerObject, Making
<1>3. Names'
  BY DEF Names, UnionNamesUnique
<1>4. Unions'
  BY DEF Unions, UnionsFlat, IsUnion
<1> QED
  BY <1>1, <1>2, <1>3, <1>4

\* One step of the calculator that runs.
LEMMA SoloCalculator ==
  ASSUME IInv, Solo, NEW f \in Analysis, Run(f)
  PROVE  Solo'
<1> USE Constants
<1>0. /\ CalcTypeOK /\ CallsSound /\ CacheSound /\ HeldLive
      /\ Alone /\ Steady /\ Pointers /\ Names /\ Unions
      /\ Working /\ Working' /\ CalcStep(f)
  <2>1. phase \notin {"destroy", "end"}
    BY Idle DEF Worker
  <2> QED
    BY <2>1 DEF IInv, TypeOK, Solo, Run, poolVars, Working
<1>. /\ pc \in [Analysis -> PC] /\ f \in Analysis
     /\ live \subseteq Heap /\ refType \in [Heap -> VType \union {NoType}]
     /\ held[f] \subseteq live /\ NoType \notin VType
  BY <1>0 DEF CalcTypeOK, HeldLive, Working
<1>a. /\ \A g \in Analysis \ {f} : pc[g] \in {"queued", "done"} /\ pc'[g] = pc[g]
      /\ Alone'
  BY <1>0, Moves DEF Alone, Busy
<1>1. CASE (\E t \in Known(f) : CallPointer(f, t)) \/ CallUnion(f)
  <2> USE <1>1 DEF CallPointer, CallUnion, Goto, heapVars
  <2>1. Steady'
    BY <1>0, <1>a DEF Steady
  <2>2. Pointers'
    BY <1>0, <1>a DEF Pointers, OnePointerPerObject, Making
  <2>3. Names'
    BY <1>0, <1>a DEF Names, UnionNamesUnique, CalcTypeOK
  <2>4. Unions'
    BY <1>0 DEF Unions, UnionsFlat, IsUnion
  <2> QED
    BY <1>a, <2>1, <2>2, <2>3, <2>4 DEF Solo
<1>2. CASE CacheHit(f) \/ CacheValue(f) \/ CacheLoad(f) \/ PointerFill(f)
  <2> USE <1>2 DEF CacheHit, CacheValue, CacheLoad, PointerFill, Goto, heapVars
  <2>1. Steady'
    BY <1>0, <1>a DEF Steady
  <2>2. Pointers'
    BY <1>0, <1>a DEF Pointers, OnePointerPerObject, Making
  <2>3. Names'
    BY <1>0, <1>a DEF Names, UnionNamesUnique
  <2>4. Unions'
    BY <1>0 DEF Unions, UnionsFlat, IsUnion
  <2> QED
    BY <1>a, <2>1, <2>2, <2>3, <2>4 DEF Solo
<1>3. CASE CacheReset(f) \/ CacheStore(f) \/ CacheEngage(f)
  <2> USE <1>3 DEF CacheReset, CacheStore, CacheEngage, Goto, heapVars
  <2>1. Steady'
    BY <1>0, <1>a DEF Steady
  <2>2. Pointers'
    <3>0. Making(f) /\ obj[f] \in VType /\ ptr[f] \in live /\ refType[ptr[f]] = obj[f]
      BY <1>0 DEF Making, CallsSound
    <3>1. OnePointerPerObject'
      BY <1>0 DEF Pointers, OnePointerPerObject
    <3>2. ASSUME NEW g \in Analysis, Making(g)'
          PROVE  /\ \A h \in live : refType[h] = obj[g] => h = ptr[g]
                 /\ pc'[g] = "engage" => cached'[obj[g]] = ptr[g]
      <4>1. g = f
        BY <1>a, <3>2 DEF Making
      <4> QED
        BY <1>0, <3>0, <4>1 DEF Pointers, CalcTypeOK
    <3>3. ASSUME NEW h \in live, refType[h] # NoType
          PROVE  \/ engaged'[refType[h]] /\ cached'[refType[h]] = h
                 \/ \E g \in Analysis : Making(g)' /\ obj[g] = refType[h]
      <4>1. CASE refType[h] = obj[f]
        <5>1. h = ptr[f]
          BY <1>0, <3>0, <4>1 DEF Pointers
        <5>2. CASE CacheEngage(f)
          BY <1>0, <3>0, <4>1, <5>1, <5>2 DEF Pointers, CalcTypeOK
        <5>3. CASE CacheReset(f) \/ CacheStore(f)
          BY <4>1, <5>3 DEF Making
        <5> QED
          BY <1>3, <5>2, <5>3
      <4>2. CASE refType[h] # obj[f]
        <5>1. engaged[refType[h]] /\ cached[refType[h]] = h
          BY <1>0, <1>a, <3>3, <4>2 DEF Pointers, Making
        <5> QED
          <6>1. refType[h] \in VType /\ engaged \in [VType -> BOOLEAN]
                /\ cached \in [VType -> VType \union {NoType}]
            BY <1>0, <3>3 DEF CalcTypeOK
          <6>2. engaged'[refType[h]] = engaged[refType[h]] /\ cached'[refType[h]] = cached[refType[h]]
            BY <4>2, <6>1
          <6> QED
            BY <5>1, <6>2
      <4> QED
        BY <4>1, <4>2
    <3> QED
      BY <3>1, <3>2, <3>3 DEF Pointers, Making
  <2>3. Names'
    BY <1>0, <1>a DEF Names, UnionNamesUnique
  <2>4. Unions'
    BY <1>0 DEF Unions, UnionsFlat, IsUnion
  <2> QED
    BY <1>a, <2>1, <2>2, <2>3, <2>4 DEF Solo
<1>4. ASSUME NEW n \in Heap, CacheMiss(f, n) PROVE Solo'
  <2> USE <1>4 DEF CacheMiss, Goto
  <2>0. obj[f] \in VType /\ ~Making(f) /\ n \notin live
        /\ refType'[n] = obj[f] /\ \A h \in live : refType'[h] = refType[h]
    BY <1>0 DEF CallsSound, Making
  <2>a. \A h \in live : refType[h] # obj[f]
    BY <1>0, <1>a, <2>0 DEF Pointers, Making
  <2>1. Steady'
    BY <1>0, <1>a DEF Steady
  <2>2. Pointers'
    <3>1. OnePointerPerObject'
      BY <1>0, <2>0, <2>a DEF Pointers, OnePointerPerObject
    <3>2. ASSUME NEW g \in Analysis, Making(g)'
          PROVE  /\ \A h \in live' : refType'[h] = obj[g] => h = ptr'[g]
                 /\ pc'[g] = "engage" => cached[obj[g]] = ptr'[g]
      <4>1. g = f
        BY <1>a, <3>2 DEF Making
      <4>2. pc'[f] = "reset" /\ ptr'[f] = n
        BY <1>0 DEF CalcTypeOK
      <4> QED
        BY <2>0, <2>a, <4>1, <4>2
    <3>3. ASSUME NEW h \in live', refType'[h] # NoType
          PROVE  \/ engaged[refType'[h]] /\ cached[refType'[h]] = h
                 \/ \E g \in Analysis : Making(g)' /\ obj[g] = refType'[h]
      <4>1. CASE h = n
        BY <2>0, <4>1 DEF Making
      <4>2. CASE h # n
        BY <1>0, <1>a, <2>0, <3>3, <4>2 DEF Pointers, Making
      <4> QED
        BY <4>1, <4>2
    <3> QED
      BY <3>1, <3>2, <3>3 DEF Pointers, Making
  <2>3. Names'
    BY <1>0, <1>a, <2>0 DEF Names, UnionNamesUnique
  <2>4. Unions'
    <3>1. members' = members /\ live' = live \union {n} /\ members[n] = {}
      BY <1>0, <2>0 DEF Unions
    <3>2. \A t \in Factory \union live : IsUnion(t)' <=> IsUnion(t)
      BY <2>0 DEF IsUnion
    <3> QED
      BY <1>0, <3>1, <3>2 DEF Unions, UnionsFlat
  <2> QED
    BY <1>a, <2>1, <2>2, <2>3, <2>4 DEF Solo
<1>5. ASSUME NEW n \in Heap, NEW t1 \in Operands(f), NEW t2 \in Operands(f),
             NEW keep \in BOOLEAN, MakeUnion(f, n, t1, t2, keep)
      PROVE  Solo'
  <2> USE <1>5 DEF MakeUnion, Goto
  <2>0. /\ n \notin live /\ refType'[n] = NoType /\ \A h \in live : refType'[h] = refType[h]
        /\ members'[n] = MembersOf(t1) \union MembersOf(t2)
        /\ \A h \in Heap \ {n} : members'[h] = members[h]
        /\ name'[n] = uidReg[f] /\ \A h \in live : name'[h] = name[h]
    BY <1>0 DEF CalcTypeOK
  <2>1. Steady'
    BY <1>0, <1>a DEF Steady
  <2>2. Pointers'
    BY <1>0, <1>a, <2>0 DEF Pointers, OnePointerPerObject, Making
  <2>3. Names'
    <3>1. uidReg[f] = uid /\ uid \in Nat /\ uid' = uid + 1 /\ name \in [Heap -> Nat]
      BY <1>0 DEF Names, CalcTypeOK
    <3> QED
      BY <1>0, <1>a, <2>0, <3>1 DEF Names, UnionNamesUnique
  <2>4. Unions'
    <3>1. ASSUME NEW t \in Operands(f)
          PROVE  MembersOf(t) \subseteq Factory \union live
                 /\ \A u \in MembersOf(t) : ~IsUnion(u) /\ u \notin Aggregate
      <4>1. t \in Factory \union live /\ t \notin Aggregate
        BY DEF Operands, Known
      <4>2. CASE IsUnion(t)
        BY <1>0, <4>1, <4>2 DEF MembersOf, Unions, UnionsFlat, IsUnion
      <4>3. CASE ~IsUnion(t)
        BY <4>1, <4>3 DEF MembersOf
      <4> QED
        BY <4>2, <4>3
    <3>2. \A t \in Factory \union live : IsUnion(t)' <=> IsUnion(t)
      BY <2>0 DEF IsUnion
    <3>3. \A h \in live : members[h] \subseteq Factory \union live
          /\ \A t \in members[h] : ~IsUnion(t) /\ t \notin Aggregate
      BY <1>0 DEF Unions, UnionsFlat
    <3>4. \A h \in live' : members'[h] \subseteq Factory \union live
          /\ \A t \in members'[h] : ~IsUnion(t) /\ t \notin Aggregate
      BY <2>0, <3>1, <3>3
    <3>5. UnionsFlat'
      BY <3>2, <3>4 DEF UnionsFlat
    <3> QED
      BY <1>0, <2>0, <3>4, <3>5 DEF Unions
  <2> QED
    BY <1>a, <2>1, <2>2, <2>3, <2>4 DEF Solo
<1> QED
  BY <1>0, <1>1, <1>2, <1>3, <1>4, <1>5 DEF CalcStep

\* With one thread a task is taken only when no other is being run.
LEMMA SoloStart ==
  ASSUME IInv, Solo, Start, NThread = 1
  PROVE  Solo'
<1>1. Busy = {}
  <2>1. IsFiniteSet(Analysis) /\ Busy \in SUBSET Analysis
    BY FS_Interval, Constants DEF Analysis, Busy
  <2>2. IsFiniteSet(Busy)
    BY <2>1, FS_Subset
  <2>3. Cardinality(Busy) \in Nat /\ Cardinality(Busy) < 1
    BY <2>2, FS_CardinalityType DEF Start
  <2> QED
    BY <2>2, <2>3, FS_EmptySet
<1>2. started + 1 \in Analysis /\ pc[started + 1] = "queued"
  <2>1. started \in 0 .. posted /\ posted \in 0 .. NFunc /\ started < posted /\ InOrder
    BY DEF Start, IInv, TypeOK
  <2>2. started + 1 \in Analysis /\ started + 1 > started
    BY <2>1, Constants DEF Analysis
  <2> QED
    BY <2>1, <2>2 DEF InOrder
<1>3. pc \in [Analysis -> PC] /\ pc' = [pc EXCEPT ![started + 1] = "run"]
  BY DEF IInv, TypeOK, CalcTypeOK, Start, Goto
<1>4. pc' \in [Analysis -> PC]
  BY <1>3 DEF PC
<1>5. Alone'
  BY <1>1, <1>2, <1>3 DEF Alone, Busy
<1> QED
  BY <1>2, <1>3, <1>4, <1>5, SoloOutside DEF Start, Working

LEMMA SoloStep ==
  ASSUME IInv, Solo, [Next]_vars, NThread = 1
  PROVE  Solo'
<1>0. pc \in [Analysis -> PC]
  BY DEF IInv, TypeOK, CalcTypeOK
<1>1. ASSUME NEW f \in Analysis, Run(f) PROVE Solo'
  BY <1>1, SoloCalculator
<1>2. ASSUME NEW f \in Analysis, RunReturns(f) \/ Lock(f) \/ Unlock(f) PROVE Solo'
  <2> USE DEF RunReturns, Lock, Unlock, Goto
  <2>1. pc' \in [Analysis -> PC]
    BY <1>0, <1>2 DEF PC
  <2>2. Alone'
    BY <1>0, <1>2 DEF Solo, Alone, Busy
  <2>3. /\ UNCHANGED <<engaged, cached, heapVars, held, obj, ptr, ops, uid, uidReg, aborted>>
        /\ phase' = phase
        /\ \A g \in Analysis : pc'[g] # pc[g] => /\ pc[g] \in {"queued", "run", "lock", "print"}
                                                 /\ pc'[g] \in {"run", "lock", "print", "done"}
    BY <1>0, <1>2 DEF poolVars
  <2> QED
    BY <1>0, <2>1, <2>2, <2>3, SoloOutside DEF Working
<1>3. ASSUME NEW h \in Heap, Destroy(h) PROVE Solo'
  <2> USE <1>3 DEF Destroy, DestroyType, poolVars
  <2>0. \A f \in Analysis : pc[f] = "done"
    BY DEF IInv, AllDone
  <2>1. Alone' /\ Steady'
    BY <2>0 DEF Solo, Alone, Busy, Steady
  <2>2. Pointers'
    BY <2>0 DEF Solo, Pointers, OnePointerPerObject, Making, Working
  <2>3. Names'
    BY <2>0 DEF Solo, Names, UnionNamesUnique
  <2>4. Unions'
    BY DEF Solo, Unions, UnionsFlat, IsUnion, Working
  <2> QED
    BY <2>1, <2>2, <2>3, <2>4 DEF Solo
<1>4. CASE Post \/ CallJoin \/ Joined \/ Match \/ Destroyed \/ UNCHANGED vars
  <2>1. UNCHANGED calcVars /\ (Working' => Working)
    BY <1>4 DEF Post, CallJoin, Joined, Match, Destroyed, vars, poolVars, Working
  <2>2. Alone'
    BY <2>1 DEF Solo, Alone, Busy, calcVars
  <2> QED
    BY <1>0, <2>1, <2>2, SoloOutside DEF calcVars, heapVars
<1>5. CASE Start
  BY <1>5, SoloStart
<1> QED
  BY <1>1, <1>2, <1>3, <1>4, <1>5 DEF Next, Main, Worker, Stopped

\* What may go wrong with several threads cannot with one: types can be
\* compared by address, unions by name, and value() does not throw.
THEOREM SingleThreadSafe ==
  ASSUME NThread = 1
  PROVE  Spec => []SingleThreaded
<1>1. Init => Solo
  <2> SUFFICES ASSUME Init PROVE Solo
    OBVIOUS
  <2>1. live = {} /\ ~aborted /\ \A f \in Analysis : pc[f] = "queued"
    BY DEF Init, CalcInit
  <2>2. \A h \in Heap : members[h] = {}
    BY DEF Init, CalcInit
  <2> QED
    BY <2>1, <2>2 DEF Solo, Alone, Busy, Steady, Pointers, OnePointerPerObject, Making, Names,
       UnionNamesUnique, Unions, UnionsFlat
<1>2. Solo => SingleThreaded
  BY DEF Solo, Pointers, Names, Steady, Unions, SingleThreaded, NoBadAccess
<1>3. IInv /\ Solo /\ [Next]_vars => Solo'
  BY SoloStep
<1> QED
  BY <1>1, <1>2, <1>3, Invariant, PTL DEF Spec
==============================================================================
