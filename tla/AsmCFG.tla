------------------------------- MODULE AsmCFG -------------------------------
(***************************************************************************)
(* How the control flow graphs are built: AsmCFG's constructor for every   *)
(* function (the heads of the blocks, their statements, the edges between  *)
(* them), and initProgramCFG, which joins the graphs by calls.             *)
(*                                                                         *)
(* An instruction is a record: id names what the builder distinguishes     *)
(* ("jmp", "jcc", "jmprax", "ret", "call", "lea", "add", "other"), addr    *)
(* and size its place, target the address a direct jump or call names, for *)
(* a switch its table (0: another operand), and disp the displacement of a *)
(* lea off rip (0: another lea).  A jump table is words[t], the addresses  *)
(* its entries stand for, of which the first size[t] belong to the switch. *)
(***************************************************************************)
EXTENDS Integers, SequencesExt

CONSTANTS
  Program,  \* the programs: records [code, words, size], code[f] for a function f
  MaxAddr,  \* UINT64_MAX
  NoBlock   \* an empty optional

Instruction ==
  [id : {"jmp", "jcc", "jmprax", "ret", "call", "lea", "add", "other"},
   addr : 1 .. MaxAddr - 1, size : Nat \ {0}, target : Nat, disp : Int]

\* The instructions of a function, as disasm() finds them: one behind the other.
Behind(code, i) == code[i].addr + code[i].size
WellFormed(code) ==
  /\ code \in Seq(Instruction)
  /\ code # <<>>   \* FIG_ASSERT of the constructor
  /\ \A i \in 1 .. Len(code) - 1 : code[i + 1].addr = Behind(code, i)

\* The address of the table of a `jmp rax` at i: add and lea are looked for
\* right before it.
lookBackForJumpTableAddr(insns, i) ==
  IF i >= 3 /\ insns[i - 1].id = "add" /\ insns[i - 2].id = "lea" /\ insns[i - 2].disp # 0
  THEN insns[i - 1].addr + insns[i - 2].disp ELSE 0

\* There are words wherever a table is looked for.
WordsAt(p, t) == t \in DOMAIN p.words /\ p.words[t] \in Seq(Nat) /\ p.size[t] \in 0 .. Len(p.words[t])
TablesInMemory(p, code) ==
  \A i \in 1 .. Len(code) : code[i].id = "jmprax" =>
    \A t \in {code[i].target, lookBackForJumpTableAddr(code, i)} \ {0} : WordsAt(p, t)

ASSUME AddressAssumption == MaxAddr \in Nat
ASSUME ProgramAssumption ==
  \A p \in Program : \A f \in DOMAIN p.code :
    WellFormed(p.code[f]) /\ TablesInMemory(p, p.code[f])
ASSUME NoBlockAssumption ==
  \A p \in Program : \A f \in DOMAIN p.code : \A a \in 0 .. MaxAddr : NoBlock # <<f, a>>

VARIABLES
  prog,    \* the program
  phase,   \* "heads", "fill", "edges", "link", "done", "undefined"
  fun,     \* the function whose graph is being built
  left,    \* the functions that have no graph yet
  pos,     \* the next instruction
  heads,   \* bb_head_addr_set
  blocks,  \* the blocks of all functions
  cur,     \* cur_block
  pending  \* the blocks initEdgesOfBasicBlock or initProgramCFG have not met

vars == <<prog, phase, fun, left, pos, heads, blocks, cur, pending>>

Code == prog.code[fun]
\* A block is known by its function and its startAddr.
Entry(f) == <<f, 0>>
Exit(f)  == <<f, MaxAddr>>
Common(b) == b[2] \notin {0, MaxAddr}
Block(a) == <<fun, a>>
Insns(b) == blocks[b].statements
Empty == [statements |-> <<>>, end |-> 0, next |-> NoBlock,
          previous |-> NoBlock, forward |-> <<>>, backward |-> <<>>]

Direct  == {"jmp", "jcc"}
Jumps   == {"jmp", "jcc", "jmprax"}
EndsBlock == Jumps \union {"ret", "call"}

low_pc  == Code[1].addr
\* Mutant: the end of the last instruction.
high_pcEnd == Behind(Code, Len(Code))
high_pc == Last(Code).addr
allInsnAddr == {Code[i].addr : i \in 1 .. Len(Code)}

\* The entries of a table are read up to the first that is no instruction
\* strictly between low_pc and high_pc.
getJumpAddr(t) ==
  LET inside(a) == low_pc < a /\ a < high_pc /\ a \in allInsnAddr
      w == prog.words[t]
  IN {w[i] : i \in {j \in 1 .. Len(w) : \A k \in 1 .. j : inside(w[k])}}

TableTargets(insns, i) ==
  LET t == lookBackForJumpTableAddr(insns, i) IN IF t = 0 THEN {} ELSE getJumpAddr(t)

-----------------------------------------------------------------------------

\* The heads that the instruction at i makes; a direct target need not be the
\* address of an instruction.
HeadsAt(i) ==
  LET insn == Code[i]
      target == IF insn.id \in Direct
                THEN {insn.target} \intersect (low_pc .. high_pc)
                ELSE IF insn.id = "jmprax" THEN TableTargets(Code, i) ELSE {}
      behind == IF insn.id \in EndsBlock /\ i < Len(Code) THEN {Code[i + 1].addr} ELSE {}
  IN target \union behind

BasicBlockHead ==
  /\ phase = "heads" /\ pos <= Len(Code)
  /\ heads' = heads \union HeadsAt(pos)
  /\ pos' = pos + 1
  /\ UNCHANGED <<prog, phase, fun, left, blocks, cur, pending>>

\* addrSnMap and blocks: a block for every head, an entry and an exit.
MakeBlocks ==
  /\ phase = "heads" /\ pos > Len(Code)
  /\ LET made == {Block(a) : a \in heads} \union {Entry(fun), Exit(fun)}
     IN blocks' = [b \in made \union DOMAIN blocks |-> IF b \in made THEN Empty ELSE blocks[b]]
  /\ cur' = Entry(fun)
  /\ pos' = 1 /\ phase' = "fill"
  /\ UNCHANGED <<prog, fun, left, heads, pending>>

-----------------------------------------------------------------------------

\* Mutant: the statement is pushed before the block changes.
StatementOfOld ==
  /\ phase = "fill" /\ pos <= Len(Code)
  /\ LET insn == Code[pos]
         begins == insn.addr \in heads
         b == IF begins THEN Block(insn.addr) ELSE cur
         closed == IF begins
                   THEN [blocks EXCEPT ![cur].next = b, ![b].previous = cur,
                                       ![cur].end = IF Common(cur) THEN insn.addr ELSE @]
                   ELSE blocks
     IN /\ blocks' = [closed EXCEPT ![cur].statements = Append(@, insn)]
        /\ cur' = b
  /\ pos' = pos + 1
  /\ UNCHANGED <<prog, phase, fun, left, heads, pending>>

\* An instruction at a head closes the block before it and opens its own.
Statement ==
  /\ phase = "fill" /\ pos <= Len(Code)
  /\ LET insn == Code[pos]
         begins == insn.addr \in heads
         b == IF begins THEN Block(insn.addr) ELSE cur
         closed == IF begins
                   THEN [blocks EXCEPT ![cur].next = b, ![b].previous = cur,
                                       ![cur].end = IF Common(cur) THEN insn.addr ELSE @]
                   ELSE blocks
     IN /\ blocks' = [closed EXCEPT ![b].statements = Append(@, insn)]
        /\ cur' = b
  /\ pos' = pos + 1
  /\ UNCHANGED <<prog, phase, fun, left, heads, pending>>

LastStatement ==
  /\ phase = "fill" /\ pos > Len(Code)
  /\ blocks' = [blocks EXCEPT ![cur].end = IF Common(cur) THEN Behind(Code, Len(Code)) ELSE @]
  /\ pending' = {b \in DOMAIN blocks : b[1] = fun}
  /\ phase' = "edges"
  /\ UNCHANGED <<prog, fun, left, pos, heads, cur>>

-----------------------------------------------------------------------------

EdgeTo(b, to, type) == <<[from |-> b, to |-> to, type |-> type]>>
EdgeToNext(b, type) == IF blocks[b].next = NoBlock THEN <<>> ELSE EdgeTo(b, blocks[b].next, type)
EdgeToAddr(b, a, type) == IF a \in heads THEN EdgeTo(b, Block(a), type) ELSE <<>>
\* The entries of the table are met in the order of a std::set.
EdgesToTable(b) ==
  LET targets == TableTargets(Insns(b), Len(Insns(b))) \intersect heads
  IN FlattenSeq([i \in 1 .. Len(Code) |->
       IF Code[i].addr \in targets THEN EdgeTo(b, Block(Code[i].addr), "default") ELSE <<>>])

\* Mutant: an unconditional jump is treated as a conditional one.
EdgesFromJoint(b) ==
  IF b = Entry(fun) THEN EdgeToNext(b, "default")
  ELSE IF b = Exit(fun) THEN <<>>
  ELSE LET insn == Last(Insns(b))
       IN CASE insn.id = "jmprax" -> EdgesToTable(b)
            [] insn.id \in Direct -> EdgeToNext(b, "false") \o EdgeToAddr(b, insn.target, "true")
            [] insn.id = "ret"    -> EdgeTo(b, Exit(fun), "default")
            [] OTHER              -> EdgeToNext(b, "call_return")

\* The edges of a block, by its last instruction.
EdgesFrom(b) ==
  IF b = Entry(fun) THEN EdgeToNext(b, "default")
  ELSE IF b = Exit(fun) THEN <<>>
  ELSE LET insn == Last(Insns(b))
       IN CASE insn.id = "jmp"    -> EdgeToAddr(b, insn.target, "default")
            [] insn.id = "jmprax" -> EdgesToTable(b)
            [] insn.id = "jcc"    -> EdgeToNext(b, "false") \o EdgeToAddr(b, insn.target, "true")
            [] insn.id = "ret"    -> EdgeTo(b, Exit(fun), "default")
            [] OTHER              -> EdgeToNext(b, "call_return")

\* The edges of es that leave x, and those that reach it, in their order.
Leaving(es, x)  == FlattenSeq([i \in 1 .. Len(es) |-> IF es[i].from = x THEN <<es[i]>> ELSE <<>>])
Reaching(es, x) == FlattenSeq([i \in 1 .. Len(es) |-> IF es[i].to = x THEN <<es[i]>> ELSE <<>>])

\* Every edge is pushed to the forward_edges of the one block and the
\* backward_edges of the other.
WithEdges(es) ==
  [x \in DOMAIN blocks |->
     [blocks[x] EXCEPT !.forward = @ \o Leaving(es, x), !.backward = @ \o Reaching(es, x)]]

\* statements.back() of a block with no statement is undefined.
Unusable(b) == Common(b) /\ Insns(b) = <<>>

\* The blocks are met in the order of a hash table.
EdgesOfBasicBlock(b) ==
  /\ phase = "edges" /\ b \in pending
  /\ IF Unusable(b)
     THEN phase' = "undefined" /\ UNCHANGED <<blocks, pending>>
     ELSE /\ \E es \in {EdgesFrom(b)} : blocks' = WithEdges(es)
          /\ pending' = pending \ {b}
          /\ UNCHANGED phase
  /\ UNCHANGED <<prog, fun, left, pos, heads, cur>>

\* The next function, in the order of a hash table as well.
NextFunction(f) ==
  /\ phase = "edges" /\ pending = {} /\ f \in left
  /\ fun' = f /\ left' = left \ {f}
  /\ heads' = {prog.code[f][1].addr}
  /\ phase' = "heads" /\ pos' = 1
  /\ UNCHANGED <<prog, blocks, cur, pending>>

AllBuilt ==
  /\ phase = "edges" /\ pending = {} /\ left = {}
  /\ phase' = "link"
  /\ pending' = {b \in DOMAIN blocks : Common(b)}
  /\ UNCHANGED <<prog, fun, left, pos, heads, blocks, cur>>

\* Mutant: the edge back is an edge of the caller's graph.
CallEdgesPlain(b) ==
  LET insn == Last(Insns(b))
      callees == {f \in DOMAIN prog.code : prog.code[f][1].addr = insn.target}
      f == CHOOSE x \in callees : TRUE
  IN IF insn.id # "call" \/ callees = {} THEN <<>>
     ELSE EdgeTo(b, Entry(f), "call")
          \o (IF blocks[b].next = NoBlock THEN <<>> ELSE EdgeTo(Exit(f), blocks[b].next, "default"))

\* A direct call of a function of the program: an edge to its entry, and one
\* from its exit to the block behind the call.
CallEdges(b) ==
  LET insn == Last(Insns(b))
      callees == {f \in DOMAIN prog.code : prog.code[f][1].addr = insn.target}
      f == CHOOSE x \in callees : TRUE
  IN IF insn.id # "call" \/ callees = {} THEN <<>>
     ELSE EdgeTo(b, Entry(f), "call")
          \o (IF blocks[b].next = NoBlock THEN <<>> ELSE EdgeTo(Exit(f), blocks[b].next, "return"))

LinkBlock(b) ==
  /\ phase = "link" /\ b \in pending
  /\ \E es \in {CallEdges(b)} : blocks' = WithEdges(es)
  /\ pending' = pending \ {b}
  /\ UNCHANGED <<prog, phase, fun, left, pos, heads, cur>>

Linked ==
  /\ phase = "link" /\ pending = {}
  /\ phase' = "done"
  /\ UNCHANGED <<prog, fun, left, pos, heads, blocks, cur, pending>>

Init ==
  /\ prog \in Program
  /\ fun \in DOMAIN prog.code /\ left = DOMAIN prog.code \ {fun}
  /\ heads = {Code[1].addr}
  /\ phase = "heads" /\ pos = 1
  /\ blocks = <<>> /\ cur = NoBlock /\ pending = {}

Next ==
  \/ BasicBlockHead \/ MakeBlocks \/ Statement \/ LastStatement
  \/ \E b \in pending : EdgesOfBasicBlock(b) \/ LinkBlock(b)
  \/ \E f \in left : NextFunction(f)
  \/ AllBuilt \/ Linked

Spec == Init /\ [][Next]_vars /\ WF_vars(Next)

-----------------------------------------------------------------------------

\* What the processor does, from the instructions only: where it may go after
\* the instruction at i of f.  A call returns behind itself; a switch goes to
\* the entries of its table.
FlowsOf(f, i) ==
  LET code == prog.code[f]
      insn == code[i]
      behind == IF i < Len(code) THEN {code[i + 1].addr} ELSE {}
      own(a) == \E k \in 1 .. Len(code) : code[k].addr = a
  IN CASE insn.id = "jmp"    -> {a \in {insn.target} : own(a)}
       [] insn.id = "jcc"    -> behind \union {a \in {insn.target} : own(a)}
       [] insn.id = "jmprax" -> IF insn.target = 0 THEN {}
                               ELSE {prog.words[insn.target][k] : k \in 1 .. prog.size[insn.target]}
       [] insn.id = "ret"    -> {MaxAddr}
       [] OTHER              -> behind

Built(f) == \/ phase \in {"link", "done"}
            \/ phase = "edges" /\ f \notin left /\ (f = fun => pending = {})
            \/ phase \in {"heads", "fill"} /\ f \notin left \union {fun}

BlocksOf(f) == {b \in DOMAIN blocks : b[1] = f /\ Common(b)}
EdgesOf(b) == {blocks[b].forward[i] : i \in 1 .. Len(blocks[b].forward)}
ExceptCall(b) == {e \in EdgesOf(b) : e.type \notin {"call", "return"}}

CFGTypeOK ==
  /\ phase \in {"heads", "fill", "edges", "link", "done", "undefined"}
  /\ fun \in DOMAIN prog.code /\ left \subseteq DOMAIN prog.code \ {fun}
  /\ pos \in 1 .. Len(Code) + 1
  /\ cur \in DOMAIN blocks \union {NoBlock} /\ pending \subseteq DOMAIN blocks

\* Every instruction of a finished graph is in one block, the one of its head,
\* the instructions of a block follow each other, and its bounds enclose them.
Partition ==
  \A f \in DOMAIN prog.code : Built(f) =>
    /\ \A i \in 1 .. Len(prog.code[f]) :
         Cardinality({b \in BlocksOf(f) : \E k \in 1 .. Len(Insns(b)) :
                                            Insns(b)[k] = prog.code[f][i]}) = 1
    /\ \A b \in BlocksOf(f) :
         /\ Insns(b)[1].addr = b[2]
         /\ Last(Insns(b)).addr + Last(Insns(b)).size = blocks[b].end
         /\ \A k \in 1 .. Len(Insns(b)) - 1 :
              Insns(b)[k].addr + Insns(b)[k].size = Insns(b)[k + 1].addr

\* getJumpAddr finds every entry of the table at t: each is an instruction of f
\* between its first and its last.
Readable(f, t) ==
  LET code == prog.code[f]
  IN \A k \in 1 .. prog.size[t] : \E i \in 2 .. Len(code) - 1 : prog.words[t][k] = code[i].addr

\* A switch whose three instructions stand in insns, with a table that is read.
Recognised(f, insns, i) ==
  LET t == insns[i].target
  IN t # 0 /\ lookBackForJumpTableAddr(insns, i) = t /\ Readable(f, t)

\* Control enters a block at its head and leaves it at its end only: inside a
\* block each instruction goes to the one behind it and nothing else goes
\* there, except a switch that is not recognised.
StraightLine ==
  \A f \in DOMAIN prog.code : Built(f) =>
    \A b \in BlocksOf(f) : \A k \in 1 .. Len(Insns(b)) - 1 :
      LET a == Insns(b)[k + 1].addr
      IN \A i \in 1 .. Len(prog.code[f]) :
           IF prog.code[f][i] = Insns(b)[k] THEN FlowsOf(f, i) = {a}
           ELSE a \in FlowsOf(f, i) =>
                  prog.code[f][i].id = "jmprax" /\ ~Recognised(f, prog.code[f], i)

\* The blocks are the maximal straight-line pieces of the code.
BlocksExact == CFGTypeOK /\ Partition /\ StraightLine

\* No path of the processor is lost: where it may go after the last instruction
\* of a block, an edge goes.  A switch keeps its edges when it was recognised in
\* its block.
FlowComplete ==
  \A f \in DOMAIN prog.code : Built(f) =>
    \A b \in BlocksOf(f) : \A i \in 1 .. Len(prog.code[f]) :
      prog.code[f][i] = Last(Insns(b)) /\ (Last(Insns(b)).id = "jmprax" => Recognised(f, Insns(b), Len(Insns(b))))
        => \A a \in FlowsOf(f, i) : \E e \in ExceptCall(b) : e.to = <<f, a>>

\* No path is made up, except from words that the builder takes for entries of
\* the switch and that happen to stand for an instruction of the function.
FlowSound ==
  \A f \in DOMAIN prog.code : Built(f) =>
    \A b \in BlocksOf(f) : \A i \in 1 .. Len(prog.code[f]) :
      prog.code[f][i] = Last(Insns(b)) =>
        \A e \in ExceptCall(b) :
          \/ e.to[1] = f /\ e.to[2] \in FlowsOf(f, i)
          \/ /\ Last(Insns(b)).id = "jmprax"
             /\ LET t == lookBackForJumpTableAddr(Insns(b), Len(Insns(b)))
                IN \E k \in 1 .. Len(prog.words[t]) :
                     /\ t = prog.code[f][i].target => k > prog.size[t]
                     /\ e.to = <<f, prog.words[t][k]>>

\* A walk backwards finds the edges of a walk forwards, in whatever order the
\* blocks were met.
EdgesMirrored ==
  \A b, c \in DOMAIN blocks :
    Reaching(blocks[b].forward, c) = Leaving(blocks[c].backward, b)

\* The edges are the flow of control, forwards and backwards.
FlowExact == FlowComplete /\ FlowSound /\ EdgesMirrored

\* Only a jump into the middle of an instruction leaves a block without one.
UndefinedByOverlap ==
  phase = "undefined" =>
    \E i, k \in 1 .. Len(Code) : /\ Code[i].id \in Direct
                                 /\ Code[k].addr < Code[i].target
                                 /\ Code[i].target < Behind(Code, k)

\* Joining the graphs of the functions leaves the graph of each as it was for
\* the passes, which do not follow calls.
LinkKeepsFlow ==
  [][phase = "link" => \A b \in DOMAIN blocks : ExceptCall(b)' = ExceptCall(b)]_vars

\* The build ends.
BuildEnds == <>(phase \in {"done", "undefined"})

\* The graphs of the functions are built and joined without losing a path.
JoinedInTheEnd == LinkKeepsFlow /\ BuildEnds
=============================================================================
