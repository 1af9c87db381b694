----------------------------- MODULE Inference -----------------------------
(***************************************************************************)
(* The analysis of one function: TIAnalysis::run of lib/Core/Analysis.cpp, *)
(* then parameterInference.  After the frames (StackFrame) come a forward  *)
(* pass that uses no variable of the debug info it has not used before, a  *)
(* backward pass, and a forward pass that may use them all.  Each pass is  *)
(* one walk (BlockWalk); none is repeated until nothing changes.           *)
(*                                                                         *)
(* At the end the analysis may be made again on the same function, from    *)
(* nothing: without the variables getRedundantVarIdSet names, or with the  *)
(* last pass only.                                                         *)
(***************************************************************************)
EXTENDS StackFrame, Transfer

CONSTANTS
  RegName,   \* the registers the functions use
  MaxParams, \* the most parameters a function has
  Type       \* the types of the debug info

VARIABLES
  pos,      \* the instructions of the block that are done
  inC,      \* inBlockContexts
  outC,     \* outBlockContexts
  insnC,    \* blockInsnContexts
  facts,    \* the running context, knownVars, the register sizes of OPFactory
  inferred, \* parameters marked isInfered: <<function, position>>
  hidden,   \* variables the debug info has lost
  again,    \* what the analysis is made for: "first", "reduced", "last pass"
  trail,    \* the blocks of this pass in the order they were done
  saved     \* what the first analysis found

passVars  == <<pos, inC, outC, insnC, facts, inferred, hidden, again, trail, saved>>
inferVars == <<walkVars, frameVars, passVars>>

\* What the debug info still says of the function.
Debug == [vars |-> prog.params \o prog.vars, hidden |-> hidden,
          globals |-> prog.globals, callee |-> prog.callee]

PredsOf(p, b) == {a \in Node : b \in Elements(p.succs[a])}

\* backward_edges (p.preds) are forward_edges turned round, in an order that
\* initEdges takes from a hash table: any order.  A block with two edges to the
\* next one (a conditional jump to where it ends) is its predecessor twice.
ASSUME BackwardAssumption ==
  \A p \in Program :
    /\ p.preds \in Graph /\ p.exit \in Node
    /\ \A b \in Node : Elements(p.preds[b]) = PredsOf(p, b)

\* The memory model of a type has scalars only, of types that are in Type too.
ASSUME TypeAssumption ==
  \A t \in Type :
    /\ t.tag = "base" => t = Base(t.kind, t.size)
    /\ t.tag = "pointer" => t.obj \in Type
    /\ HasMembers(t) => t.mem \in Seq(Int \X {m \in Type : m.tag \in {"base", "pointer"}})

VarInfo    == [id : Nat, stack : BOOLEAN, off : Int, type : Type]
GlobalInfo == [addr : Int, type : Type]

\* The debug info of a function has types of Type.  Where a library function
\* has a parameter that is no scalar the code panics.
ASSUME DebugAssumption ==
  \A p \in Program :
    /\ p.vars \in Seq(VarInfo) /\ p.params \in Seq(VarInfo) /\ p.globals \in Seq(GlobalInfo)
    /\ \A t \in DOMAIN p.callee :
         /\ p.callee[t].ret \in Type /\ p.callee[t].params \in Seq(Type)
         /\ p.callee[t].dyn => \A i \in DOMAIN p.callee[t].params :
              IsIntegerClass(p.callee[t].params[i]) \/ IsSSEClass(p.callee[t].params[i])

\* For more parameters of a library function than the ABI has registers the code
\* reads behind its tables of registers: what it finds there is undefined.
ASSUME LibraryAssumption ==
  \A p \in Program : \A t \in DOMAIN p.callee : p.callee[t].dyn =>
    LET ts == p.callee[t].params
    IN /\ Cardinality({i \in DOMAIN ts : IsIntegerClass(ts[i])}) <= Len(IntegerClassRegisters)
       /\ Cardinality({i \in DOMAIN ts : IsSSEClass(ts[i])}) <= Len(SSEClassRegisters)

\* Instructions have the operands their families have (the code panics otherwise)
\* and registers of RegName; the blocks entry and exit have no instructions.
Arity(id) ==
  CASE id \in {"mov", "lea", "movzx", "movsx", "movsxd", "cmp", "logic", "add", "sub"} -> 2
    [] id \in {"call", "setcc", "clobber", "fld", "fist"} -> 1
    [] OTHER -> 0

ASSUME OperandAssumption ==
  \A p \in Program : \A b \in Node : \A i \in 1 .. Len(p.code[b]) :
    LET insn == p.code[b][i]
    IN /\ Len(insn.op) \in Nat /\ DOMAIN insn.op = 1 .. Len(insn.op)
       /\ Len(insn.op) >= Arity(insn.id)
       /\ \A k \in DOMAIN insn.op : IsReg(insn.op[k]) => insn.op[k].reg \in RegName
       /\ b \notin {p.entry, p.exit}

NoContexts(p) == [b \in Node |-> [i \in DOMAIN p.code[b] |-> Empty]]
NoFacts == [ctx |-> Empty, known |-> <<>>, size |-> [r \in RegName |-> 0]]

InferInit ==
  /\ FrameInit
  /\ pos = 0
  /\ inC = [b \in Node |-> Empty] /\ outC = inC
  /\ insnC = NoContexts(prog)
  /\ facts = NoFacts
  /\ inferred = {} /\ hidden = {} /\ again = "first" /\ trail = <<>>
  /\ saved = [insnC |-> insnC, facts |-> facts]

-----------------------------------------------------------------------------
\* The passes: run(), and parameterInference once the pool has been joined.

Pass(from, to, g, r) ==
  /\ phase = from
  /\ Start(g, r)
  /\ phase' = to /\ trail' = <<>>
  /\ UNCHANGED <<prog, carry, cfa, mach, pos, inC, outC, insnC, facts, inferred,
                 hidden, again, saved>>

StartPass ==
  \/ Pass("cfa", "fwd1", prog.succs, prog.entry)
  \/ Pass("fwd1", "bwd", prog.preds, prog.exit)
  \/ Pass("bwd", "fwd2", prog.succs, prog.entry)
  \/ Pass("fwd2", "params", prog.succs, prog.entry)

Passing == phase \in {"fwd1", "bwd", "fwd2", "params"}

\* The instructions of a block are done one by one; the blocks entry and exit
\* have none.
More == cur # NoNode /\ pos < Len(CodeOf(cur))

LeaveBlock ==
  /\ Leave /\ pos = Len(CodeOf(cur))
  /\ pos' = 0
  /\ trail' = Append(trail, cur)

\* Mutant: the join starts from the context of the pass before.
JoinOld(blocks, ctx) == UnionContext(<<inC[Head(todo)]>> \o [i \in DOMAIN blocks |-> ctx[blocks[i]]])

\* The predecessors' contexts, joined from an empty one.
Join(blocks, ctx) == UnionContext([i \in DOMAIN blocks |-> ctx[blocks[i]]])

Inner(b) == b \notin {prog.entry, prog.exit}

SkipBlock ==
  /\ Passing /\ Return
  /\ UNCHANGED <<frameVars, passVars>>

\* forwardInferenceInBlock ...
EnterForward ==
  /\ phase \in {"fwd1", "fwd2"} /\ Enter
  /\ LET b    == Head(todo)
         base == Join(prog.preds[b], outC)
     IN IF Inner(b)
        THEN /\ inC' = [inC EXCEPT ![b] = base]
             /\ facts' = [facts EXCEPT !.ctx = base]
             /\ UNCHANGED outC
        ELSE outC' = [outC EXCEPT ![b] = inC[b]] /\ UNCHANGED <<inC, facts>>
  /\ UNCHANGED <<frameVars, pos, insnC, inferred, hidden, again, trail, saved>>

\* ... its loop over the statements ...
ForwardInsn ==
  /\ phase \in {"fwd1", "fwd2"} /\ More
  /\ \E insn \in {CodeOf(cur)[pos + 1]}, p \in {Debug} : \E a \in {Prepare(facts, insn)} :
       facts' = Forward(p, a, cfa[cur][pos + 1], insn, phase = "fwd2")
  /\ insnC' = [insnC EXCEPT ![cur][pos + 1] = facts'.ctx]
  /\ pos' = pos + 1
  /\ UNCHANGED <<walkVars, frameVars, inC, outC, inferred, hidden, again, trail, saved>>

\* ... and its end.
LeaveForward ==
  /\ phase \in {"fwd1", "fwd2"} /\ LeaveBlock
  /\ outC' = IF Inner(cur) THEN [outC EXCEPT ![cur] = facts.ctx] ELSE outC
  /\ UNCHANGED <<frameVars, inC, insnC, facts, inferred, hidden, again, saved>>

\* backwardInferenceInBlock.  The contexts move one instruction down: behind
\* the last one is what the successors want.
EnterBackward ==
  /\ phase = "bwd" /\ Enter
  /\ LET b    == Head(todo)
         base == Join(prog.succs[b], inC)
     IN IF Inner(b)
        THEN /\ outC'  = [outC EXCEPT ![b] = base]
             /\ insnC' = [insnC EXCEPT ![b][Len(CodeOf(b))] = base]
             /\ facts' = [facts EXCEPT !.ctx = base]
             /\ UNCHANGED inC
        ELSE inC' = [inC EXCEPT ![b] = outC[b]] /\ UNCHANGED <<outC, insnC, facts>>
  /\ UNCHANGED <<frameVars, pos, inferred, hidden, again, trail, saved>>

BackwardInsn ==
  /\ phase = "bwd" /\ More
  /\ LET i == Len(CodeOf(cur)) - pos
     IN /\ \E insn \in {CodeOf(cur)[i]}, p \in {Debug} : \E a \in {Prepare(facts, insn)} :
             facts' = Backward(p, a, insn)
        /\ insnC' = IF i = 1 THEN insnC ELSE [insnC EXCEPT ![cur][i - 1] = facts'.ctx]
  /\ pos' = pos + 1
  /\ UNCHANGED <<walkVars, frameVars, inC, outC, inferred, hidden, again, trail, saved>>

LeaveBackward ==
  /\ phase = "bwd" /\ LeaveBlock
  /\ inC' = IF Inner(cur) THEN [inC EXCEPT ![cur] = facts.ctx] ELSE inC
  /\ UNCHANGED <<frameVars, outC, insnC, facts, inferred, hidden, again, saved>>

\* parameterInferenceInBlock
EnterParameters ==
  /\ phase = "params" /\ Enter
  /\ UNCHANGED <<frameVars, passVars>>

\* The parameters of t whose registers have their types in a context.
Given(t, before) ==
  LET regs == ParameterRegs(prog.callee[t].params)
  IN {k \in DOMAIN regs : Reg(regs[k][1]) \in DOMAIN before /\ before[Reg(regs[k][1])] = regs[k][2]}

Before(b, i) == IF i = 1 THEN inC[b] ELSE insnC[b][i - 1]

OwnTargets(insn) == IF insn.id = "call" THEN {t \in Targets(prog, insn) : ~prog.callee[t].dyn} ELSE {}

\* Mutant: the context of the block is looked at, not that of the call.
ParameterInsnOfBlock ==
  /\ phase = "params" /\ More
  /\ inferred' = inferred \union
       {x \in OwnTargets(CodeOf(cur)[pos + 1]) \X (1 .. MaxParams) : x[2] \in Given(x[1], inC[cur])}
  /\ pos' = pos + 1
  /\ UNCHANGED <<walkVars, frameVars, inC, outC, insnC, facts, hidden, again, trail, saved>>

\* parameterInferenceInStatement: a parameter of a function of the program is
\* inferred when a caller has a value of its type in its register.
ParameterInsn ==
  /\ phase = "params" /\ More
  /\ inferred' = inferred \union
       {x \in OwnTargets(CodeOf(cur)[pos + 1]) \X (1 .. MaxParams) :
          x[2] \in Given(x[1], Before(cur, pos + 1))}
  /\ pos' = pos + 1
  /\ UNCHANGED <<walkVars, frameVars, inC, outC, insnC, facts, hidden, again, trail, saved>>

LeaveParameters ==
  /\ phase = "params" /\ LeaveBlock
  /\ UNCHANGED <<frameVars, inC, outC, insnC, facts, inferred, hidden, again, saved>>

-----------------------------------------------------------------------------
\* The analysis made again.

Ids(vars) == {vars[i].id : i \in DOMAIN vars}

\* getRedundantVarIdSet: the variables no operand needed.  Its other test,
\* isInfered, is never true for them: only parameters get the mark.
Redundant == Ids(prog.vars) \ Ids(facts.known)

MakeAgain(what, hide, from) ==
  /\ phase = "params" /\ again = "first"
  /\ Start(prog.succs, prog.entry)
  /\ phase' = from
  /\ again' = what /\ hidden' = hide /\ trail' = <<>>
  /\ saved' = [insnC |-> insnC, facts |-> facts]
  /\ inC' = [b \in Node |-> Empty] /\ outC' = inC'
  /\ insnC' = NoContexts(prog)
  /\ facts' = NoFacts
  /\ UNCHANGED <<prog, carry, cfa, mach, pos, inferred>>

Again == \/ MakeAgain("reduced", Redundant, "fwd1")
         \/ MakeAgain("last pass", {}, "fwd2")

FrameStep == (CFABlock \/ CFAInsn \/ CFALeave \/ CFAReturn \/ Run \/ Execute \/ Jump)
             /\ UNCHANGED passVars

Work == \/ StartPass \/ SkipBlock
        \/ EnterForward \/ ForwardInsn \/ LeaveForward
        \/ EnterBackward \/ BackwardInsn \/ LeaveBackward
        \/ EnterParameters \/ ParameterInsn \/ LeaveParameters

InferNext == FrameStep \/ Work \/ Again

\* The thread that has the task goes on with it.  The machine and the second
\* analysis are observations, not the tool's.
ToolStep == \/ (CFABlock \/ CFAInsn \/ CFALeave \/ CFAReturn) /\ UNCHANGED passVars
            \/ Work

Spec == InferInit /\ [][InferNext]_inferVars /\ WF_inferVars(ToolStep)

-----------------------------------------------------------------------------

Analysed == phase = "params" /\ trail = <<>>
End      == phase = "params" /\ Finished

\* A type a context may have: getUnionVType takes no other.
ContextType(t) == t.tag \in {"base", "pointer", "newUnion"}

InferTypeOK ==
  /\ WalkTypeOK
  /\ phase \in {"cfa", "run", "fwd1", "bwd", "fwd2", "params"}
  /\ \A b \in Node : DOMAIN insnC[b] = DOMAIN prog.code[b]
  /\ facts.size \in [RegName -> 0 .. 16]
  /\ inferred \subseteq (DOMAIN prog.callee) \X (1 .. MaxParams)

\* No context ever has a structure, union or array of the program in it, so a
\* join never ends in the FIG_UNREACH of getUnionVType: an aggregate is always
\* taken apart to the scalars of its memory model first.
NoAggregate ==
  \A b \in Node :
    \A c \in {inC[b], outC[b]} \union {insnC[b][i] : i \in DOMAIN insnC[b]} :
      \A o \in DOMAIN c : ContextType(c[o])

\* A RIP-relative operand means another address in every instruction: behind an
\* instruction the context of a forward pass has only that instruction's.
RipIsOwn ==
  phase = "params" =>
    \A b \in Elements(trail) : \A i \in DOMAIN insnC[b] : \A o \in DOMAIN insnC[b][i] :
      IsGlobalMem(o) => \E k \in DOMAIN CodeOf(b)[i].op : CodeOf(b)[i].op[k] = o

\* An operand stands for one storage location with a type the joins can take.
OperandsSound == InferTypeOK /\ NoAggregate /\ RipIsOwn

\* A variable becomes known once, in the last pass, through an operand of a
\* block of the function that is where the frame says the variable is.
KnownAccessed ==
  /\ \A i, j \in DOMAIN facts.known : facts.known[i].id = facts.known[j].id => i = j
  /\ facts.known # <<>> => phase \in {"fwd2", "params"}
  /\ \A k \in DOMAIN facts.known :
       LET v == facts.known[k]
       IN /\ v.id \notin hidden
          /\ phase = "params" => \E b \in Node : \E i \in DOMAIN CodeOf(b) :
               LET insn == CodeOf(b)[i]
               IN /\ cfa[b] # <<>>
                  /\ \E o \in {insn.op[n] : n \in DOMAIN insn.op} :
                       IsMem(o) /\ o.base = "rbp" /\ StackHit(cfa[b][i], o, insn.id = "lea", v) # NoType

\* The variables that getRedundantVarIdSet names are redundant: the analysis of
\* the function without them finds the same types and knows the same variables.
RedundantIsRedundant ==
  again = "reduced" /\ phase = "params" =>
    /\ saved.insnC = insnC
    /\ saved.facts.known = facts.known /\ saved.facts.size = facts.size

\* The variables of the report are neither too many nor too few: each is
\* really accessed where it is, and none is needed that was called redundant.
KnownExact == KnownAccessed /\ RedundantIsRedundant

\* The pass does no block before one of its predecessors.
InOrder ==
  \A i \in DOMAIN trail : \A a \in PredsOf(prog, trail[i]) : \E j \in 1 .. i - 1 : trail[j] = a

\* Where the walk meets no block before one of its predecessors, the first two
\* passes leave no trace in the blocks of the walk but the sizes of registers
\* they noted: the last pass alone finds the same types.  (In blocks no path
\* comes to, what the backward pass found stays.)
LastPassDecides ==
  again = "last pass" /\ End /\ InOrder =>
    /\ \A b \in Elements(trail) : \A i \in DOMAIN CodeOf(b) : saved.insnC[b][i] = insnC[b][i]
    /\ saved.facts.known = facts.known

\* A parameter is inferred only if a call of its function, in a block control
\* comes to, has a value of its type in its register when control gets there.
InferredByCaller ==
  phase = "params" /\ again = "first" =>
    \A x \in inferred : \E b \in Elements(trail) \union ({cur} \ {NoNode}) : \E i \in DOMAIN CodeOf(b) :
      x[1] \in OwnTargets(CodeOf(b)[i]) /\ x[2] \in Given(x[1], Before(b, i))

\* Every pass is one walk of the graph.
EveryPassWalks == WalkInit /\ [][WalkNext]_walkVars

\* The passes of an analysis end, or the machine runs instead.
Termination == <>(End \/ phase = "run")

\* The five passes of an analysis, each of them a walk, come to an end.
PassesEnd == EveryPassWalks /\ Termination
=============================================================================
