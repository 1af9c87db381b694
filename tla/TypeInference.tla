---------------------------- MODULE TypeInference ----------------------------
(***************************************************************************)
(* DIReducerContext::executeTypeInference (tools/DIReducer/Context.cpp):   *)
(* one analysis per function, run by a thread pool, then matched against   *)
(* the parameters of its callees by the main thread, then destroyed with   *)
(* the vector that holds it.  The analyses interact only through the       *)
(* shared VTypes of TypeCalculator and the progress counter.               *)
(***************************************************************************)
EXTENDS TypeCalculator, Sequences

CONSTANT NThread   \* 1 with --single-thread, else hardware_concurrency()

ASSUME ThreadAssumption == NThread \in Nat \ {0}

VARIABLES
  phase,    \* what the main thread does
  posted,   \* tasks posted to the pool
  started,  \* tasks taken from its queue, in the order they were posted
  current,  \* the analysis the main thread works on after the join
  mutex,    \* holder of analysisMutex, 0 when free
  curIndex, \* shared progress counter, incremented under the mutex
  printed   \* the progress numbers written to the terminal

poolVars == <<phase, posted, started, current, mutex, curIndex, printed>>
vars == <<calcVars, poolVars>>

Phase == {"post", "join", "match", "destroy", "end"}

\* Analyses that a thread of the pool is busy with.
Busy == {f \in Analysis : pc[f] \notin {"queued", "done"}}

Init ==
  /\ CalcInit
  /\ phase = "post" /\ posted = 0 /\ started = 0 /\ current = 1
  /\ mutex = 0 /\ curIndex = 1 /\ printed = <<>>

(***************************************************************************)
(* The main thread.                                                        *)
(***************************************************************************)
\* boost::asio::post of the next analysis; workers may already be running.
Post ==
  /\ phase = "post" /\ posted < NFunc
  /\ posted' = posted + 1
  /\ UNCHANGED <<calcVars, phase, started, current, mutex, curIndex, printed>>

CallJoin ==
  /\ phase = "post" /\ posted = NFunc
  /\ phase' = "join"
  /\ UNCHANGED <<calcVars, posted, started, current, mutex, curIndex, printed>>

\* Mutant: the main thread goes on when the queue is empty, with tasks running.
JoinedEarly ==
  /\ phase = "join"
  /\ \A f \in Analysis : pc[f] # "queued"
  /\ phase' = "match"
  /\ UNCHANGED <<calcVars, posted, started, current, mutex, curIndex, printed>>

\* pool.join() returns when no task is queued or running.
Joined ==
  /\ phase = "join"
  /\ \A f \in Analysis : pc[f] = "done"
  /\ phase' = "match"
  /\ UNCHANGED <<calcVars, posted, started, current, mutex, curIndex, printed>>

\* Mutants: each analysis is deleted once it is matched, and a loop that does
\* not advance.
MatchOne ==
  /\ phase = "match"
  /\ current' = 1 /\ phase' = "destroy"
  /\ UNCHANGED <<calcVars, posted, started, mutex, curIndex, printed>>

MatchForever ==
  /\ phase = "match"
  /\ UNCHANGED vars

\* parameterInference of the analyses in turn: it reads their contexts and
\* marks parameters of the callees, which no other part of this module reads.
Match ==
  /\ phase = "match"
  /\ IF current < NFunc
       THEN current' = current + 1 /\ UNCHANGED phase
       ELSE current' = 1 /\ phase' = "destroy"
  /\ UNCHANGED <<calcVars, posted, started, mutex, curIndex, printed>>

\* The vector `analyses` goes out of scope: its elements in order, and for
\* each the types its calculator owns.
Destroy(h) ==
  /\ phase = "destroy"
  /\ DestroyType(current, h)
  /\ UNCHANGED poolVars

\* Mutant: the analysis is left after any number of its types.
DestroyedEarly ==
  /\ phase = "destroy"
  /\ IF current < NFunc
       THEN current' = current + 1 /\ UNCHANGED phase
       ELSE phase' = "end" /\ UNCHANGED current
  /\ UNCHANGED <<calcVars, posted, started, mutex, curIndex, printed>>

Destroyed ==
  /\ phase = "destroy"
  /\ typeSet[current] \intersect live = {}
  /\ IF current < NFunc
       THEN current' = current + 1 /\ UNCHANGED phase
       ELSE phase' = "end" /\ UNCHANGED current
  /\ UNCHANGED <<calcVars, posted, started, mutex, curIndex, printed>>

Main == Post \/ CallJoin \/ Joined \/ Match \/ (\E h \in Heap : Destroy(h)) \/ Destroyed

(***************************************************************************)
(* The worker threads: `work`.                                             *)
(***************************************************************************)
\* A free thread takes the oldest queued task.
Start ==
  /\ started < posted /\ Cardinality(Busy) < NThread
  /\ started' = started + 1
  /\ Goto(started + 1, "run")
  /\ UNCHANGED <<engaged, cached, heapVars, held, obj, ptr, ops, uid, uidReg, aborted>>
  /\ UNCHANGED <<phase, posted, current, mutex, curIndex, printed>>

\* analysis->run(), without a lock.
Run(f) == CalcStep(f) /\ UNCHANGED poolVars

RunReturns(f) ==
  /\ pc[f] = "run"
  /\ Goto(f, "lock")
  /\ UNCHANGED <<engaged, cached, heapVars, held, obj, ptr, ops, uid, uidReg, aborted>>
  /\ UNCHANGED poolVars

\* scoped_lock lock(analysisMutex), then the progress line reads curIndex ...
Lock(f) ==
  /\ pc[f] = "lock" /\ mutex = 0
  /\ mutex' = f
  /\ printed' = Append(printed, curIndex)
  /\ Goto(f, "print")
  /\ UNCHANGED <<engaged, cached, heapVars, held, obj, ptr, ops, uid, uidReg, aborted>>
  /\ UNCHANGED <<phase, posted, started, current, curIndex>>

\* Mutant: the analysis is destroyed at the end of its task.
UnlockAndDestroy(f) ==
  /\ pc[f] = "print"
  /\ curIndex' = curIndex + 1
  /\ mutex' = 0
  /\ Goto(f, "done")
  /\ live' = live \ typeSet[f]
  /\ engaged' = [t \in VType |-> engaged[t] /\ \A h \in typeSet[f] : refType[h] # t]
  /\ UNCHANGED <<cached, refType, members, typeSet, name, held, obj, ptr, ops, uid, uidReg, aborted>>
  /\ UNCHANGED <<phase, posted, started, current, printed>>

\* ... curIndex++, and the end of the scope releases the lock.
Unlock(f) ==
  /\ pc[f] = "print"
  /\ curIndex' = curIndex + 1
  /\ mutex' = 0
  /\ Goto(f, "done")
  /\ UNCHANGED <<engaged, cached, heapVars, held, obj, ptr, ops, uid, uidReg, aborted>>
  /\ UNCHANGED <<phase, posted, started, current, printed>>

Worker(f) == Run(f) \/ RunReturns(f) \/ Lock(f) \/ Unlock(f)

\* The end of the function, and the end of the process after std::terminate.
Stopped == (phase = "end" \/ aborted) /\ UNCHANGED vars

Next ==
  \/ ~aborted /\ Main
  \/ ~aborted /\ Start
  \/ ~aborted /\ \E f \in Analysis : Worker(f)
  \/ Stopped

\* The kernel schedules every runnable thread; a thread that waits for the
\* mutex gets it in the end, because every holder releases it.
Fairness ==
  /\ WF_vars(~aborted /\ Main)
  /\ WF_vars(~aborted /\ Start)
  /\ \A f \in Analysis : WF_vars(~aborted /\ Worker(f))

Spec == Init /\ [][Next]_vars
FairSpec == Spec /\ Fairness

(***************************************************************************)
(* Properties.                                                             *)
(***************************************************************************)
TypeOK ==
  /\ CalcTypeOK
  /\ phase \in Phase
  /\ posted \in 0 .. NFunc /\ started \in 0 .. posted
  /\ current \in Analysis
  /\ mutex \in 0 .. NFunc
  /\ curIndex \in Nat /\ printed \in Seq(Nat)

\* Whatever the interleaving of the three stores of an emplace, an engaged
\* cache holds a type that exists and that really points to its owner; the
\* destructors, which run one analysis after the other, never leave a type of
\* the factory with a pointer to a deleted one.
CacheSound ==
  \A t \in VType : engaged[t] =>
    /\ cached[t] \in FactoryPtr \union live
    /\ RefOf(cached[t]) = t

\* Until the vector of analyses is destroyed, every type an analysis met in
\* its contexts still exists, including those another analysis made and
\* published through a cache: a finished analysis must not be deleted early.
HeldLive ==
  phase \notin {"destroy", "end"} => \A f \in Analysis : held[f] \subseteq live

\* The comparison of types by address in parameterInference finds the pointer
\* type of the debug info: a type that has one in the factory never gets a
\* second one from a calculator, and loses it in no destructor.
FactoryCacheKept ==
  \A t \in Factory : FactoryCache[t] # NoType =>
    /\ cached[t] = FactoryCache[t]
    /\ engaged[t]
    /\ \A h \in live : refType[h] # t

\* After the last destructor no type made by a calculator is left, and none
\* is left in a cache of the factory, which outlives the analyses.
CleanEnd ==
  phase = "end" =>
    /\ live = {}
    /\ \A t \in Factory : engaged[t] <=> FactoryCache[t] # NoType

\* The progress lines number the functions 1, 2, 3, ... without gap or
\* repetition, whichever threads print them.
ProgressInOrder == \A i \in 1 .. Len(printed) : printed[i] = i

\* With one worker thread: a type has at most one pointer type made here, so
\* equal pointer types have equal addresses.
OnePointerPerObject ==
  \A h1, h2 \in live : refType[h1] # NoType /\ refType[h1] = refType[h2] => h1 = h2

\* With one worker thread: the number in the name of a union is its own.
UnionNamesUnique ==
  \A h1, h2 \in live : refType[h1] = NoType /\ refType[h2] = NoType /\ name[h1] = name[h2] => h1 = h2

\* With one worker thread: no reader finds the optional empty that it has just
\* seen engaged.
NoBadAccess == ~aborted

\* Whatever calls nest, a union lists scalars and pointers and never a union:
\* the merge of two unions flattens them.
UnionsFlat == \A h \in live : \A t \in members[h] : ~IsUnion(t) /\ t \notin Aggregate

\* What the calculator promises to the one thread of --single-thread: types
\* that can be compared by address and named, in whatever order its analyses
\* make pointers and unions of them.
SingleThreaded == OnePointerPerObject /\ UnionNamesUnique /\ NoBadAccess /\ UnionsFlat

\* The join is a barrier: what the main thread reads after it, no worker
\* changes any more.
ResultsFrozen ==
  [][phase \notin {"post", "join"} => UNCHANGED <<held, pc, refType, members, printed>>]_vars

\* The function returns, unless the process was terminated.
Termination == <>(phase = "end" \/ aborted)

(***************************************************************************)
(* The pool implements AnalysisPhases.                                     *)
(***************************************************************************)
StageOf(f) ==
  IF phase = "end" \/ (phase = "destroy" /\ f < current) THEN "deleted"
  ELSE IF phase = "destroy" \/ (phase = "match" /\ f < current) THEN "matched"
  ELSE IF pc[f] = "done" THEN "finished"
  ELSE IF pc[f] = "queued" THEN "new"
  ELSE "running"

Phases == INSTANCE AnalysisPhases
  WITH Result <- Heap, stage <- [f \in Analysis |-> StageOf(f)], result <- held

\* Every behaviour of the threads is one of the phases.
ImplementsPhases == Phases!Spec
=============================================================================
