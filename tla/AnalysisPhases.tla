--------------------------- MODULE AnalysisPhases ---------------------------
(***************************************************************************)
(* What executeTypeInference promises, without threads, tasks or types:    *)
(* every analysis runs once and only a running one changes its result;     *)
(* no result is matched with the callees' parameters before all are in;    *)
(* no analysis is deleted while the result of another is still to be used. *)
(***************************************************************************)
EXTENDS Naturals

CONSTANTS NFunc, Result

Analysis == 1 .. NFunc
Stage == {"new", "running", "finished", "matched", "deleted"}

VARIABLES stage, result
vars == <<stage, result>>

Init ==
  /\ stage  = [f \in Analysis |-> "new"]
  /\ result = [f \in Analysis |-> {}]

Move(f, s) == stage' = [stage EXCEPT ![f] = s]

Begin(f)  == stage[f] = "new" /\ Move(f, "running") /\ UNCHANGED result

Work(f) ==
  /\ stage[f] = "running"
  /\ \E r \in SUBSET Result : result' = [result EXCEPT ![f] = @ \union r]
  /\ UNCHANGED stage

Finish(f) == stage[f] = "running" /\ Move(f, "finished") /\ UNCHANGED result

\* In order, and only when every analysis has finished.
Match(f) ==
  /\ stage[f] = "finished"
  /\ \A g \in Analysis : stage[g] \notin {"new", "running"}
  /\ \A g \in 1 .. f - 1 : stage[g] = "matched"
  /\ Move(f, "matched")
  /\ UNCHANGED result

\* In order, and only when every analysis has been matched.
Delete(f) ==
  /\ stage[f] = "matched"
  /\ \A g \in Analysis : stage[g] \in {"matched", "deleted"}
  /\ \A g \in 1 .. f - 1 : stage[g] = "deleted"
  /\ Move(f, "deleted")
  /\ UNCHANGED result

Next == \E f \in Analysis : Begin(f) \/ Work(f) \/ Finish(f) \/ Match(f) \/ Delete(f)

Spec == Init /\ [][Next]_vars
=============================================================================
