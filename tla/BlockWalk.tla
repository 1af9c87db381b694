----------------------------- MODULE BlockWalk -----------------------------
(***************************************************************************)
(* The recursive walk of a control flow graph that every pass of an        *)
(* analysis makes: initializeCFARecursion, forwardIterativeExecution,      *)
(* backwardIterativeExecution, collectResultRecursion and                  *)
(* parameterIterativeExecution.  All five have the shape                   *)
(*                                                                         *)
(*     if(snVisited.contains(block->sn)) return;                           *)
(*     snVisited.insert(block->sn);                                        *)
(*     ... work on the block ...                                           *)
(*     for(auto &it : block->getSuccsExceptCall()) walk(snVisited, it);    *)
(*                                                                         *)
(* The call stack is the sequence `todo`: the blocks the calls still       *)
(* pending will ask for, the next one first.                               *)
(***************************************************************************)
EXTENDS Naturals, Sequences

CONSTANTS
  Node,    \* blocks of the graph, by serial number
  NoNode   \* no block is being worked on

ASSUME NodeAssumption == NoNode \notin Node

VARIABLES
  edges,   \* edges[b]: the blocks the pass goes to after b, in order
  root,    \* the block the pass starts from
  todo,    \* arguments of the calls that are still to be made
  visited, \* snVisited
  cur      \* the block being worked on

walkVars == <<edges, root, todo, visited, cur>>

Elements(s) == {s[i] : i \in 1 .. Len(s)}

\* A new pass: an empty snVisited, one call, on the root.
Start(g, r) ==
  /\ todo = <<>> /\ cur = NoNode
  /\ edges' = g /\ root' = r
  /\ todo' = <<r>> /\ visited' = {} /\ cur' = NoNode

\* The early return of a call on a block that was visited before.
Return ==
  /\ cur = NoNode /\ todo # <<>> /\ Head(todo) \in visited
  /\ todo' = Tail(todo)
  /\ UNCHANGED <<edges, root, visited, cur>>

\* Mutant: the block is not marked.
EnterUnmarked ==
  /\ cur = NoNode /\ todo # <<>> /\ Head(todo) \notin visited
  /\ cur' = Head(todo)
  /\ todo' = Tail(todo)
  /\ UNCHANGED <<edges, root, visited>>

\* The block is marked before it is worked on.
Enter ==
  /\ cur = NoNode /\ todo # <<>> /\ Head(todo) \notin visited
  /\ visited' = visited \union {Head(todo)}
  /\ cur' = Head(todo)
  /\ todo' = Tail(todo)
  /\ UNCHANGED <<edges, root>>

\* Mutant: the walk follows one of the edges of a block only.
LeaveOneEdge ==
  /\ cur # NoNode
  /\ todo' = (IF edges[cur] = <<>> THEN <<>> ELSE <<edges[cur][1]>>) \o todo
  /\ cur' = NoNode
  /\ UNCHANGED <<edges, root, visited>>

\* The block is done; the calls on its successors come first.
Leave ==
  /\ cur # NoNode
  /\ todo' = edges[cur] \o todo
  /\ cur' = NoNode
  /\ UNCHANGED <<edges, root, visited>>

Graph == [Node -> Seq(Node)]

WalkInit ==
  /\ edges \in Graph /\ root \in Node
  /\ todo = <<root>> /\ visited = {} /\ cur = NoNode

\* What a new pass may be: any graph, any root, nothing visited.
Restart ==
  /\ todo = <<>> /\ cur = NoNode
  /\ edges' \in Graph /\ root' \in Node
  /\ todo' = <<root'>> /\ visited' = {} /\ cur' = NoNode

WalkNext == Restart \/ Return \/ Enter \/ Leave

WalkSpec == WalkInit /\ [][WalkNext]_walkVars

-----------------------------------------------------------------------------

Finished == todo = <<>> /\ cur = NoNode

\* A set of blocks is closed when it has the successors of its blocks.
Closed(C) == \A b \in C : Elements(edges[b]) \subseteq C

WalkTypeOK ==
  /\ edges \in Graph /\ root \in Node
  /\ todo \in Seq(Node) /\ visited \subseteq Node
  /\ cur \in Node \union {NoNode}

\* A pass that has ended has worked on every block a path leads to, so no
\* block of the function keeps the contexts of an earlier pass.
Complete == Finished => root \in visited /\ Closed(visited)

\* A pass works only on blocks a path from its root leads to: every closed set
\* of blocks with the root in it has all of them.
Reachable == \A C \in SUBSET Node : root \in C /\ Closed(C) => visited \subseteq C

\* A pass works on the blocks of its graph that can be reached, and on no other.
WalkExact == Complete /\ Reachable
=============================================================================
