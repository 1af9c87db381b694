----------------------------- MODULE StackFrame -----------------------------
(***************************************************************************)
(* The stack frame of a function as an analysis sees it: initializeCFA and *)
(* initializeCFARecursion of lib/Core/Analysis.cpp walk the control flow   *)
(* graph and note, before each instruction, how far rsp and rbp are from   *)
(* the CFA.  A variable of the debug info is found by that distance.       *)
(*                                                                         *)
(* The walk visits a block once, on the first path that reaches it.  Next  *)
(* to it the module has the machine: a run of the function, instruction by *)
(* instruction, over any path of the same graph.                           *)
(***************************************************************************)
EXTENDS BlockWalk, Operands

CONSTANTS
  Program   \* the functions: records [entry, exit, succs, code, ...]

VARIABLES
  prog,  \* the function that is analysed
  phase, \* the pass the analysis is at
  carry, \* carry[i]: the CFA handed to the call with argument todo[i]
  cfa,   \* cfa[b][i]: blockInsnCFA, the frame before instruction i of b
  mach   \* the machine: block, instruction, CFA - rsp, what rbp holds

frameVars == <<prog, phase, carry, cfa, mach>>

\* rbp holds CFA - rbp, or a value that is no frame address.
Other == "other"

CFAs == [rsp : Int, rbp : Int, frame : BOOLEAN]

CodeOf(b) == prog.code[b]

\* Instructions of the functions that write their first operand.
Writes(insn, r) == insn.id \in {"mov", "lea", "add", "sub"} /\ Uses(insn, 1, r)
SetsFrame(insn) == insn.id = "mov" /\ Uses(insn, 1, "rbp") /\ Uses(insn, 2, "rsp")

\* What a compiler's output satisfies: all paths to an instruction agree on the
\* frame there (p.depth), LEAVE is used where rbp holds the frame pointer, and
\* no other value is written to rbp while it does.
Balanced(p) ==
  /\ p.depth \in [Node -> Seq(CFAs)]
  /\ p.depth[p.entry][1] = InitCFA
  /\ \A b \in Node :
       /\ Len(p.depth[b]) = Len(p.code[b]) + 1
       /\ \A i \in 1 .. Len(p.code[b]) :
            /\ p.depth[b][i + 1] = InsnCFA(p.depth[b][i], p.code[b][i])
            /\ p.code[b][i].id = "leave" => p.depth[b][i].frame
            /\ Writes(p.code[b][i], "rbp") /\ ~SetsFrame(p.code[b][i]) => ~p.depth[b][i].frame
       /\ \A s \in Elements(p.succs[b]) : p.depth[s][1] = p.depth[b][Len(p.depth[b])]

\* A function has a graph over Node; blocks it does not use have no edges.
ASSUME ProgramAssumption ==
  \A p \in Program : /\ p.entry \in Node /\ p.succs \in Graph
                     /\ DOMAIN p.code = Node /\ Balanced(p)
                     /\ \A b \in Node : /\ Len(p.code[b]) \in Nat
                                        /\ DOMAIN p.code[b] = 1 .. Len(p.code[b])
                     /\ \A b \in Node : \A i \in 1 .. Len(p.code[b]) :
                          p.code[b][i].id \in {"add", "sub"} /\ Uses(p.code[b][i], 1, "rsp")
                            => IsImm(p.code[b][i].op[2]) /\ p.code[b][i].op[2].val \in Int

FrameInit ==
  /\ prog \in Program
  /\ edges = prog.succs /\ root = prog.entry
  /\ todo = <<root>> /\ visited = {} /\ cur = NoNode
  /\ phase = "cfa"
  /\ carry = <<InitCFA>>
  /\ cfa = [b \in Node |-> <<>>]
  /\ mach = [at |-> NoNode]

\* initializeCFARecursion on a block it has not seen ...
CFABlock ==
  /\ phase = "cfa"
  /\ Enter
  /\ cfa' = [cfa EXCEPT ![Head(todo)] = <<Head(carry)>>]
  /\ carry' = Tail(carry)
  /\ UNCHANGED <<prog, phase, mach>>

\* ... the loop over its statements: `cfa`, a reference, is noted and moved on ...
CFAInsn ==
  /\ phase = "cfa" /\ cur # NoNode
  /\ LET i == Len(cfa[cur])
     IN /\ i <= Len(CodeOf(cur))
        /\ cfa' = [cfa EXCEPT ![cur] = Append(@, InsnCFA(@[i], CodeOf(cur)[i]))]
  /\ UNCHANGED <<walkVars, prog, phase, carry, mach>>

\* Mutant: the successors start from the frame the block started from.
CFALeaveIn ==
  /\ phase = "cfa" /\ cur # NoNode /\ Len(cfa[cur]) > Len(CodeOf(cur))
  /\ Leave
  /\ carry' = [i \in DOMAIN edges[cur] |-> cfa[cur][1]] \o carry
  /\ UNCHANGED <<prog, phase, cfa, mach>>

\* ... and each successor gets a copy of the frame behind the block.
CFALeave ==
  /\ phase = "cfa" /\ cur # NoNode /\ Len(cfa[cur]) > Len(CodeOf(cur))
  /\ Leave
  /\ carry' = [i \in DOMAIN edges[cur] |-> cfa[cur][Len(CodeOf(cur)) + 1]] \o carry
  /\ UNCHANGED <<prog, phase, cfa, mach>>

CFAReturn ==
  /\ phase = "cfa"
  /\ Return
  /\ carry' = Tail(carry)
  /\ UNCHANGED <<prog, phase, cfa, mach>>

-----------------------------------------------------------------------------
\* The machine.  An instruction does to rsp and rbp what the x86 does.

MachStep(m, insn) ==
  CASE insn.id = "push" -> [m EXCEPT !.rsp = @ + 8]
    [] insn.id = "pop" -> [m EXCEPT !.rsp = @ - 8,
                                    !.rbp = IF Uses(insn, 1, "rbp") THEN Other ELSE @]
    [] insn.id = "leave" -> [m EXCEPT !.rsp = m.rbp - 8, !.rbp = Other]
    [] insn.id = "ret" -> [m EXCEPT !.rsp = @ - 8]
    [] insn.id \in {"add", "sub"} /\ Uses(insn, 1, "rsp") ->
         [m EXCEPT !.rsp = IF insn.id = "sub" THEN @ + insn.op[2].val ELSE @ - insn.op[2].val]
    [] Writes(insn, "rbp") -> [m EXCEPT !.rbp = IF SetsFrame(insn) THEN m.rsp ELSE Other]
    [] OTHER -> m

\* At the entry the return address is on the stack: rsp = CFA - 8.
Run ==
  /\ phase = "cfa" /\ Finished
  /\ phase' = "run"
  /\ mach' = [at |-> prog.entry, i |-> 1, rsp |-> 8, rbp |-> Other]
  /\ UNCHANGED <<walkVars, prog, carry, cfa>>

Execute ==
  /\ phase = "run" /\ mach.i <= Len(CodeOf(mach.at))
  /\ mach' = [MachStep(mach, CodeOf(mach.at)[mach.i]) EXCEPT !.i = @ + 1]
  /\ UNCHANGED <<walkVars, prog, phase, carry, cfa>>

Jump ==
  /\ phase = "run" /\ mach.i > Len(CodeOf(mach.at))
  /\ \E b \in Elements(prog.succs[mach.at]) : mach' = [mach EXCEPT !.at = b, !.i = 1]
  /\ UNCHANGED <<walkVars, prog, phase, carry, cfa>>

FrameNext == CFABlock \/ CFAInsn \/ CFALeave \/ CFAReturn \/ Run \/ Execute \/ Jump

-----------------------------------------------------------------------------
\* Wherever a run of the function stands, the analysis knows where the CFA is:
\* the noted distance of rsp is its distance, and so is that of rbp where rbp
\* is taken for the frame pointer.  The block may have been reached on another
\* path than the one the walk took first.
FrameExact ==
  phase = "run" =>
    /\ mach.at \in visited
    /\ LET c == cfa[mach.at][mach.i]
       IN c.rsp = mach.rsp /\ (c.frame => mach.rbp = c.rbp)
=============================================================================
