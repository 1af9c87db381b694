--------------------------- MODULE InferenceProofs ---------------------------
(***************************************************************************)
(* Every pass of an analysis is a walk, the frames it notes are the true   *)
(* ones, the contexts it makes have types a join can take, the variables   *)
(* it knows are accessed where it says and those it calls redundant are,   *)
(* and the parameters it infers have a caller, for all functions: proofs   *)
(* about Inference.                                                        *)
(***************************************************************************)
EXTENDS Inference, FoldFacts

(***************************************************************************)
(* The walk of a pass is exact in every graph, with any number of blocks:  *)
(* proofs about BlockWalk.                                                 *)
(***************************************************************************)

\* What is visited leads only to what is visited or waits to be asked for; the
\* block being worked on has not handed its successors over yet.
Frontier ==
  /\ root \in visited \union Elements(todo)
  /\ \A b \in visited \ {cur} : Elements(edges[b]) \subseteq visited \union Elements(todo)

\* Nothing outside a closed set with the root is visited or waits.
Within ==
  \A C \in SUBSET Node : root \in C /\ Closed(C) =>
    visited \subseteq C /\ Elements(todo) \subseteq C /\ (cur # NoNode => cur \in C)

WalkInv == WalkTypeOK /\ Frontier /\ Within

\* The calls still to be made, after one is made and before several.
LEMMA HeadAndTail ==
  ASSUME NEW S, NEW s \in Seq(S), s # <<>>
  PROVE  /\ Head(s) \in S /\ Tail(s) \in Seq(S)
         /\ Elements(s) = {Head(s)} \union Elements(Tail(s))
<1>1. Head(s) \in S /\ Tail(s) \in Seq(S) /\ Len(s) \in Nat /\ Len(s) > 0
  OBVIOUS
<1>2. Len(Tail(s)) = Len(s) - 1 /\ \A i \in 1 .. Len(s) - 1 : Tail(s)[i] = s[i + 1]
  BY <1>1
<1>3. ASSUME NEW i \in 1 .. Len(s) PROVE s[i] \in {Head(s)} \union Elements(Tail(s))
  <2>1. CASE i = 1
    BY <2>1
  <2>2. CASE i # 1
    <3>1. i - 1 \in 1 .. Len(Tail(s)) /\ Tail(s)[i - 1] = s[i]
      BY <1>1, <1>2, <2>2
    <3> QED
      BY <3>1 DEF Elements
  <2> QED
    BY <2>1, <2>2
<1>4. ASSUME NEW i \in 1 .. Len(Tail(s)) PROVE Tail(s)[i] \in Elements(s)
  <2>1. i + 1 \in 1 .. Len(s) /\ Tail(s)[i] = s[i + 1]
    BY <1>1, <1>2
  <2> QED
    BY <2>1 DEF Elements
<1>5. Head(s) \in Elements(s)
  BY <1>1 DEF Elements
<1> QED
  BY <1>1, <1>3, <1>4, <1>5 DEF Elements

LEMMA Concatenated ==
  ASSUME NEW S, NEW s \in Seq(S), NEW t \in Seq(S)
  PROVE  s \o t \in Seq(S) /\ Elements(s \o t) = Elements(s) \union Elements(t)
<1>1. /\ s \o t \in Seq(S) /\ Len(s) \in Nat /\ Len(t) \in Nat /\ Len(s \o t) = Len(s) + Len(t)
      /\ \A i \in 1 .. Len(s) + Len(t) : (s \o t)[i] = IF i <= Len(s) THEN s[i] ELSE t[i - Len(s)]
  OBVIOUS
<1>2. ASSUME NEW i \in 1 .. Len(s \o t) PROVE (s \o t)[i] \in Elements(s) \union Elements(t)
  <2>1. CASE i <= Len(s)
    <3>1. i \in 1 .. Len(s) /\ (s \o t)[i] = s[i]
      BY <1>1, <2>1
    <3> QED
      BY <3>1 DEF Elements
  <2>2. CASE ~(i <= Len(s))
    <3>1. i - Len(s) \in 1 .. Len(t) /\ (s \o t)[i] = t[i - Len(s)]
      BY <1>1, <2>2
    <3> QED
      BY <3>1 DEF Elements
  <2> QED
    BY <2>1, <2>2
<1>3. ASSUME NEW i \in 1 .. Len(s) PROVE s[i] \in Elements(s \o t)
  <2>1. i \in 1 .. Len(s \o t) /\ (s \o t)[i] = s[i]
    BY <1>1
  <2> QED
    BY <2>1 DEF Elements
<1>4. ASSUME NEW i \in 1 .. Len(t) PROVE t[i] \in Elements(s \o t)
  <2>1. i + Len(s) \in 1 .. Len(s \o t) /\ (s \o t)[i + Len(s)] = t[i]
    BY <1>1
  <2> QED
    BY <2>1 DEF Elements
<1> QED
  BY <1>1, <1>2, <1>3, <1>4 DEF Elements

LEMMA OneAndNone == /\ \A x : Elements(<<x>>) = {x}
                    /\ Elements(<<>>) = {}
  BY DEF Elements

\* Both for the first pass and for a pass begun when another has ended.
LEMMA WalkStarts ==
  ASSUME edges \in Graph, root \in Node, todo = <<root>>, visited = {}, cur = NoNode
  PROVE  WalkInv
<1>1. Elements(todo) = {root}
  BY OneAndNone
<1>2. WalkTypeOK
  BY DEF WalkTypeOK
<1>3. Frontier
  BY <1>1 DEF Frontier
<1>4. Within
  BY <1>1 DEF Within
<1> QED
  BY <1>2, <1>3, <1>4 DEF WalkInv

LEMMA WalkReturns == ASSUME WalkInv, Return PROVE WalkInv'
<1> USE DEF WalkInv
<1>1. /\ Head(todo) \in Node /\ Tail(todo) \in Seq(Node)
      /\ Elements(todo) = {Head(todo)} \union Elements(Tail(todo))
  BY HeadAndTail DEF WalkTypeOK, Return
<1>2. Elements(todo)' = Elements(Tail(todo)) /\ Head(todo) \in visited
  BY DEF Return, Elements
<1>3. WalkTypeOK'
  BY <1>1 DEF WalkTypeOK, Return
<1>4. visited \union Elements(todo)' = visited \union Elements(todo)
  BY <1>1, <1>2
<1>5. UNCHANGED <<edges, root, visited, cur>>
  BY DEF Return
<1>6. \A b : Elements(edges[b])' = Elements(edges[b])
  BY <1>5 DEF Elements
<1>7. Frontier'
  BY <1>4, <1>5, <1>6 DEF Frontier
<1>8. Within'
  BY <1>1, <1>2, <1>5, <1>6 DEF Within, Closed
<1> QED
  BY <1>3, <1>7, <1>8

LEMMA WalkEnters == ASSUME WalkInv, Enter PROVE WalkInv'
<1> USE DEF WalkInv
<1>1. /\ Head(todo) \in Node /\ Tail(todo) \in Seq(Node)
      /\ Elements(todo) = {Head(todo)} \union Elements(Tail(todo))
  BY HeadAndTail DEF WalkTypeOK, Enter
<1>2. Elements(todo)' = Elements(Tail(todo)) /\ cur = NoNode /\ cur \notin visited
  BY NodeAssumption DEF Enter, Elements, WalkTypeOK
<1>3. WalkTypeOK'
  BY <1>1 DEF WalkTypeOK, Enter
<1>4. visited' \union Elements(todo)' = visited \union Elements(todo)
  BY <1>1, <1>2 DEF Enter
<1>5. visited' \ {cur'} \subseteq visited \ {cur}
  BY <1>2 DEF Enter
<1>6. Frontier'
  BY <1>4, <1>5 DEF Frontier, Enter
<1>7. Within'
  BY <1>1, <1>2 DEF Within, Enter, Closed
<1> QED
  BY <1>3, <1>6, <1>7

LEMMA WalkLeaves == ASSUME WalkInv, Leave PROVE WalkInv'
<1> USE DEF WalkInv
<1>1. cur \in Node /\ edges[cur] \in Seq(Node)
  BY DEF Leave, WalkTypeOK, Graph
<1>2. /\ todo' \in Seq(Node)
      /\ Elements(todo)' = Elements(edges[cur]) \union Elements(todo)
  <2>1. edges[cur] \o todo \in Seq(Node)
        /\ Elements(edges[cur] \o todo) = Elements(edges[cur]) \union Elements(todo)
    BY <1>1, Concatenated DEF WalkTypeOK
  <2> QED
    BY <2>1 DEF Leave, Elements
<1>3. WalkTypeOK'
  BY <1>2 DEF WalkTypeOK, Leave
<1>4. Frontier'
  <2>1. ASSUME NEW b \in visited
        PROVE  Elements(edges[b]) \subseteq visited \union Elements(todo)'
    BY <1>2, <2>1 DEF Frontier
  <2> QED
    BY <1>2, <2>1 DEF Frontier, Leave
<1>5. Within'
  <2> SUFFICES ASSUME NEW C \in SUBSET Node, root \in C, Closed(C)
               PROVE  visited \subseteq C /\ Elements(todo)' \subseteq C
    BY DEF Within, Leave, Closed
  <2>1. visited \subseteq C /\ Elements(todo) \subseteq C /\ cur \in C
    BY DEF Within, Leave
  <2>2. Elements(edges[cur]) \subseteq C
    BY <2>1 DEF Closed
  <2> QED
    BY <1>2, <2>1, <2>2
<1> QED
  BY <1>3, <1>4, <1>5

LEMMA WalkStep == WalkInv /\ [WalkNext]_walkVars => WalkInv'
<1> SUFFICES ASSUME WalkInv, [WalkNext]_walkVars PROVE WalkInv'
  OBVIOUS
<1>1. CASE Restart
  <2>1. edges' \in Graph /\ root' \in Node /\ todo' = <<root'>> /\ visited' = {} /\ cur' = NoNode
    BY <1>1 DEF Restart
  <2>2. Elements(todo)' = {root'}
    BY <2>1, OneAndNone DEF Elements
  <2>3. WalkTypeOK'
    BY <2>1 DEF WalkTypeOK
  <2>4. Frontier'
    BY <2>1, <2>2 DEF Frontier
  <2>5. Within'
    BY <2>1, <2>2 DEF Within
  <2> QED
    BY <2>3, <2>4, <2>5 DEF WalkInv
<1>2. CASE Return
  BY <1>2, WalkReturns
<1>3. CASE Enter
  BY <1>3, WalkEnters
<1>4. CASE Leave
  BY <1>4, WalkLeaves
<1>5. CASE UNCHANGED walkVars
  BY <1>5 DEF walkVars, WalkInv, WalkTypeOK, Frontier, Within, Closed, Elements
<1> QED
  BY <1>1, <1>2, <1>3, <1>4, <1>5 DEF WalkNext

LEMMA WalkInvExact == WalkInv => WalkExact
<1> SUFFICES ASSUME WalkInv PROVE WalkExact
  OBVIOUS
<1>1. Complete
  <2> SUFFICES ASSUME Finished PROVE root \in visited /\ Closed(visited)
    BY DEF Complete
  <2>1. Elements(todo) = {} /\ cur \notin visited
    BY OneAndNone, NodeAssumption DEF Finished, WalkInv, WalkTypeOK
  <2> QED
    BY <2>1 DEF WalkInv, Frontier, Closed
<1>2. Reachable
  BY DEF WalkInv, Within, Reachable
<1> QED
  BY <1>1, <1>2 DEF WalkExact

\* Passes over any graphs from any roots, one after the other, work on exactly
\* the blocks that can be reached.
THEOREM WalksExact == WalkSpec => []WalkExact
<1>1. WalkInit => WalkInv
  BY WalkStarts DEF WalkInit
<1>2. WalkInv /\ [WalkNext]_walkVars => WalkInv'
  BY WalkStep
<1> QED
  BY <1>1, <1>2, WalkInvExact, PTL DEF WalkSpec

(***************************************************************************)
(* The frame an analysis notes is the frame of every run of the function,  *)
(* in every graph: proofs about StackFrame.                                *)
(***************************************************************************)

Machines == [at : Node, i : Nat, rsp : Int, rbp : Int \union {Other}]

\* The machine agrees with a frame.
FrameAgrees(m, c) == m.rsp = c.rsp /\ (c.frame => m.rbp = c.rbp)

\* What Balanced and ProgramAssumption say of an instruction and the frame
\* before it.
Proper(c, insn) ==
  /\ insn.id = "leave" => c.frame
  /\ Writes(insn, "rbp") /\ ~SetsFrame(insn) => ~c.frame
  /\ insn.id \in {"add", "sub"} /\ Uses(insn, 1, "rsp") =>
       IsImm(insn.op[2]) /\ insn.op[2].val \in Int

\* An instruction moves the machine as the analysis moves the frame.
LEMMA StepAgrees ==
  ASSUME NEW m \in Machines, NEW c \in CFAs, NEW insn, FrameAgrees(m, c), Proper(c, insn)
  PROVE  /\ MachStep(m, insn) \in Machines
         /\ MachStep(m, insn).at = m.at /\ MachStep(m, insn).i = m.i
         /\ FrameAgrees(MachStep(m, insn), InsnCFA(c, insn))
<1> DEFINE n == MachStep(m, insn)
           d == InsnCFA(c, insn)
<1> USE DEF FrameAgrees, Machines, CFAs
<1>1. Uses(insn, 1, "rsp") => ~Uses(insn, 1, "rbp")
  BY DEF Uses, Reg
<1>2. CASE insn.id = "push"
  <2>1. n = [m EXCEPT !.rsp = @ + 8] /\ d = [c EXCEPT !.rsp = @ + 8]
    BY <1>2 DEF MachStep, InsnCFA, Writes
  <2> QED
    BY <2>1
<1>3. CASE insn.id = "pop"
  <2>1. /\ n = [m EXCEPT !.rsp = @ - 8, !.rbp = IF Uses(insn, 1, "rbp") THEN Other ELSE @]
        /\ d = [c EXCEPT !.rsp = @ - 8, !.frame = @ /\ ~Uses(insn, 1, "rbp")]
    BY <1>3 DEF MachStep, InsnCFA, Writes
  <2>2. CASE Uses(insn, 1, "rbp")
    <3>1. n = [at |-> m.at, i |-> m.i, rsp |-> m.rsp - 8, rbp |-> Other]
      BY <2>1, <2>2
    <3>2. d = [rsp |-> c.rsp - 8, rbp |-> c.rbp, frame |-> FALSE]
      BY <2>1, <2>2
    <3>3. n \in Machines
      BY <3>1
    <3>4. n.at = m.at /\ n.i = m.i /\ n.rsp = m.rsp - 8
      BY <3>1
    <3>5. FrameAgrees(n, d)
      BY <3>2, <3>4
    <3> QED
      BY <3>3, <3>4, <3>5
  <2>3. CASE ~Uses(insn, 1, "rbp")
    <3>1. n = [m EXCEPT !.rsp = @ - 8] /\ d = [c EXCEPT !.rsp = @ - 8]
      BY ZenonT(60), <2>1, <2>3
    <3> QED
      BY <3>1
  <2> QED
    BY <2>2, <2>3
<1>4. CASE insn.id = "leave"
  <2>1. /\ n = [m EXCEPT !.rsp = m.rbp - 8, !.rbp = Other]
        /\ d = [c EXCEPT !.rsp = c.rbp - 8, !.frame = FALSE]
    BY <1>4 DEF MachStep, InsnCFA, Writes
  <2>2. m.rbp = c.rbp /\ c.rbp \in Int
    BY <1>4 DEF Proper
  <2>3. n = [at |-> m.at, i |-> m.i, rsp |-> c.rbp - 8, rbp |-> Other]
    BY <2>1, <2>2
  <2>4. d.rsp = c.rbp - 8 /\ d.frame = FALSE
    BY <2>1
  <2>5. n \in Machines
    BY <2>2, <2>3
  <2>6. n.at = m.at /\ n.i = m.i /\ n.rsp = c.rbp - 8
    BY <2>3
  <2> QED
    BY <2>4, <2>5, <2>6
<1>5. CASE insn.id = "ret"
  <2>1. n = [m EXCEPT !.rsp = @ - 8] /\ d = [c EXCEPT !.rsp = @ - 8]
    BY <1>5 DEF MachStep, InsnCFA, Writes
  <2> QED
    BY <2>1
<1>6. CASE insn.id = "sub" /\ Uses(insn, 1, "rsp")
  <2>1. IsImm(insn.op[2]) /\ insn.op[2].val \in Int
    BY <1>6 DEF Proper
  <2>2. ~Writes(insn, "rbp")
    BY <1>1, <1>6 DEF Writes
  <2>3. /\ n = [m EXCEPT !.rsp = @ + insn.op[2].val]
        /\ d = [c EXCEPT !.rsp = @ + insn.op[2].val]
    BY <1>6, <2>1, <2>2 DEF MachStep, InsnCFA
  <2> QED
    BY <2>1, <2>3
<1>7. CASE insn.id = "add" /\ Uses(insn, 1, "rsp")
  <2>1. IsImm(insn.op[2]) /\ insn.op[2].val \in Int
    BY <1>7 DEF Proper
  <2>2. ~Writes(insn, "rbp")
    BY <1>1, <1>7 DEF Writes
  <2>3. /\ n = [m EXCEPT !.rsp = @ - insn.op[2].val]
        /\ d = [c EXCEPT !.rsp = @ - insn.op[2].val]
    BY <1>7, <2>1, <2>2 DEF MachStep, InsnCFA
  <2> QED
    BY <2>1, <2>3
<1>8. CASE Writes(insn, "rbp")
  <2>1. insn.id \in {"mov", "lea", "add", "sub"} /\ ~Uses(insn, 1, "rsp")
    BY <1>1, <1>8 DEF Writes
  <2>2. n = [m EXCEPT !.rbp = IF SetsFrame(insn) THEN m.rsp ELSE Other]
    BY <1>8, <2>1 DEF MachStep
  <2>3. CASE SetsFrame(insn)
    <3>1. d = [c EXCEPT !.rbp = c.rsp, !.frame = TRUE]
      BY <2>1, <2>3 DEF InsnCFA, SetsFrame
    <3> QED
      BY <2>2, <2>3, <3>1
  <2>4. CASE ~SetsFrame(insn)
    <3>1. d = c
      BY <2>1, <2>4 DEF InsnCFA, SetsFrame
    <3>2. ~c.frame
      BY <1>8, <2>4 DEF Proper
    <3> QED
      BY <2>2, <2>4, <3>1, <3>2
  <2> QED
    BY <2>3, <2>4
<1>9. CASE /\ insn.id \notin {"push", "pop", "leave", "ret"} /\ ~Writes(insn, "rbp")
           /\ ~(insn.id \in {"add", "sub"} /\ Uses(insn, 1, "rsp"))
  <2>1. n = m
    BY <1>9 DEF MachStep
  <2>2. d = c
    BY <1>9 DEF InsnCFA, Writes
  <2> QED
    BY <2>1, <2>2
<1> QED
  BY <1>2, <1>3, <1>4, <1>5, <1>6, <1>7, <1>8, <1>9


-----------------------------------------------------------------------------
\* Every call still to be made has the frame of its block.
Carried ==
  /\ carry \in Seq(CFAs) /\ Len(carry) = Len(todo)
  /\ \A i \in 1 .. Len(todo) : carry[i] = prog.depth[todo[i]][1]

\* What is noted of a block that was entered are the true frames, up to the
\* end unless it is the one being worked on.
Noted ==
  /\ cfa \in [Node -> Seq(CFAs)]
  /\ cur # NoNode => cur \in visited
  /\ \A b \in visited :
       /\ Len(cfa[b]) \in 1 .. Len(prog.code[b]) + 1
       /\ b # cur => Len(cfa[b]) = Len(prog.code[b]) + 1
       /\ \A i \in 1 .. Len(cfa[b]) : cfa[b][i] = prog.depth[b][i]

MachineInv ==
  /\ Finished
  /\ mach \in Machines /\ mach.at \in visited
  /\ mach.i \in 1 .. Len(prog.code[mach.at]) + 1
  /\ FrameAgrees(mach, prog.depth[mach.at][mach.i])

\* The later passes keep the frames; they are of no matter to FrameExact.
FrameInv ==
  /\ prog \in Program
  /\ phase \in {"cfa", "run"} =>
       /\ edges = prog.succs /\ root = prog.entry
       /\ Carried /\ Noted
       /\ phase = "run" => MachineInv

\* What the assumption says of the analysed function.
LEMMA ProgFacts ==
  ASSUME prog \in Program
  PROVE  /\ prog.entry \in Node /\ prog.succs \in Graph
         /\ prog.depth \in [Node -> Seq(CFAs)] /\ prog.depth[prog.entry][1] = InitCFA
         /\ \A b \in Node :
              /\ Len(prog.code[b]) \in Nat /\ Len(prog.depth[b]) = Len(prog.code[b]) + 1
              /\ \A s \in Elements(prog.succs[b]) :
                   prog.depth[s][1] = prog.depth[b][Len(prog.code[b]) + 1]
              /\ \A i \in 1 .. Len(prog.code[b]) :
                   /\ prog.depth[b][i + 1] = InsnCFA(prog.depth[b][i], prog.code[b][i])
                   /\ Proper(prog.depth[b][i], prog.code[b][i])
<1>1. Balanced(prog)
  BY ProgramAssumption
<1>2. /\ prog.entry \in Node /\ prog.succs \in Graph
      /\ \A b \in Node : Len(prog.code[b]) \in Nat
  BY ProgramAssumption
<1>3. ASSUME NEW b \in Node, NEW i \in 1 .. Len(prog.code[b])
      PROVE  Proper(prog.depth[b][i], prog.code[b][i])
  <2>1. prog.code[b][i].id \in {"add", "sub"} /\ Uses(prog.code[b][i], 1, "rsp")
          => IsImm(prog.code[b][i].op[2]) /\ prog.code[b][i].op[2].val \in Int
    BY ProgramAssumption
  <2> QED
    BY <1>1, <2>1 DEF Balanced, Proper
<1>4. \A b \in Node : /\ Len(prog.depth[b]) = Len(prog.code[b]) + 1
                      /\ \A s \in Elements(prog.succs[b]) :
                           prog.depth[s][1] = prog.depth[b][Len(prog.code[b]) + 1]
  BY <1>1 DEF Balanced
<1>5. \A b \in Node : \A i \in 1 .. Len(prog.code[b]) :
        prog.depth[b][i + 1] = InsnCFA(prog.depth[b][i], prog.code[b][i])
  BY <1>1 DEF Balanced
<1>6. prog.depth \in [Node -> Seq(CFAs)] /\ prog.depth[prog.entry][1] = InitCFA
  BY <1>1 DEF Balanced
<1> QED
  BY <1>2, <1>3, <1>4, <1>5, <1>6

LEMMA FrameStarts == FrameInit => FrameInv
<1> SUFFICES ASSUME FrameInit PROVE FrameInv
  OBVIOUS
<1>1. prog \in Program /\ edges = prog.succs /\ root = prog.entry /\ phase = "cfa"
  BY DEF FrameInit
<1>2. InitCFA \in CFAs
  BY DEF InitCFA, CFAs
<1>3. Carried
  <2>1. carry = <<InitCFA>> /\ todo = <<prog.entry>>
    BY DEF FrameInit
  <2> QED
    BY <1>1, <1>2, <2>1, ProgFacts DEF Carried
<1>4. Noted
  BY DEF FrameInit, Noted
<1> QED
  BY <1>1, <1>3, <1>4 DEF FrameInv

\* The first of the calls is made.
LEMMA CallMade ==
  ASSUME Carried, todo \in Seq(Node), todo # <<>>, todo' = Tail(todo), carry' = Tail(carry),
         UNCHANGED prog
  PROVE  Carried' /\ Head(carry) \in CFAs /\ Head(carry) = prog.depth[Head(todo)][1]
<1>1. carry # <<>> /\ Len(todo) \in Nat /\ Len(todo) > 0
  BY DEF Carried
<1>2. carry' \in Seq(CFAs) /\ Len(carry') = Len(carry) - 1 /\ Len(todo') = Len(todo) - 1
  BY <1>1 DEF Carried
<1>3. ASSUME NEW i \in 1 .. Len(todo')
      PROVE  carry'[i] = carry[i + 1] /\ todo'[i] = todo[i + 1] /\ i + 1 \in 1 .. Len(todo)
  BY <1>1, <1>2 DEF Carried
<1>4. Carried'
  BY <1>2, <1>3 DEF Carried
<1>5. Head(carry) = carry[1] /\ Head(todo) = todo[1] /\ Head(carry) \in CFAs
  BY <1>1 DEF Carried
<1> QED
  BY <1>1, <1>4, <1>5 DEF Carried

LEMMA BlockKeeps == ASSUME WalkTypeOK, FrameInv, CFABlock PROVE FrameInv'
<1>1. /\ prog \in Program /\ phase = "cfa" /\ Carried /\ Noted
      /\ edges = prog.succs /\ root = prog.entry
      /\ UNCHANGED <<prog, phase, edges, root>>
  BY DEF FrameInv, CFABlock, Enter
<1>2. /\ Carried' /\ Head(carry) \in CFAs /\ Head(carry) = prog.depth[Head(todo)][1]
  BY <1>1, CallMade DEF WalkTypeOK, CFABlock, Enter
<1>3. Head(todo) \in Node
  BY DEF WalkTypeOK, CFABlock, Enter
<1>4. Noted'
  <2> DEFINE h == Head(todo)
  <2>1. /\ cur' = h /\ visited' = visited \union {h} /\ cur = NoNode
        /\ cfa' = [cfa EXCEPT ![h] = <<Head(carry)>>]
        /\ h \notin visited
    BY DEF CFABlock, Enter
  <2>2. cfa' \in [Node -> Seq(CFAs)]
    <3>1. <<Head(carry)>> \in Seq(CFAs)
      BY <1>2
    <3> QED
      BY <1>1, <2>1, <3>1 DEF Noted
  <2>3. cfa'[h] = <<Head(carry)>> /\ \A b \in visited : cfa'[b] = cfa[b]
    BY <1>1, <1>3, <2>1 DEF Noted, WalkTypeOK
  <2>4. Len(prog.code[h]) \in Nat
    BY <1>1, <1>3, ProgFacts
  <2>5. ASSUME NEW b \in visited
        PROVE  /\ b # cur /\ Len(cfa'[b]) \in 1 .. Len(prog.code[b]) + 1
               /\ Len(cfa'[b]) = Len(prog.code[b]) + 1
               /\ \A i \in 1 .. Len(cfa'[b]) : cfa'[b][i] = prog.depth[b][i]
    BY <1>1, <2>1, <2>3, NodeAssumption DEF Noted, WalkTypeOK
  <2>6. /\ Len(cfa'[h]) = 1 /\ cfa'[h][1] = prog.depth[h][1]
    BY <1>2, <2>3
  <2>7. /\ Len(cfa'[h]) \in 1 .. Len(prog.code[h]) + 1
        /\ \A i \in 1 .. Len(cfa'[h]) : cfa'[h][i] = prog.depth[h][i]
    BY <2>4, <2>6
  <2> HIDE DEF h
  <2> QED
    BY <1>1, <2>1, <2>2, <2>5, <2>7 DEF Noted
<1> QED
  BY <1>1, <1>2, <1>4 DEF FrameInv

LEMMA InsnKeeps == ASSUME WalkTypeOK, FrameInv, CFAInsn PROVE FrameInv'
<1>1. /\ prog \in Program /\ phase = "cfa" /\ Carried /\ Noted
      /\ edges = prog.succs /\ root = prog.entry
      /\ UNCHANGED <<prog, phase, edges, root, todo, visited, cur, carry>>
  BY DEF FrameInv, CFAInsn, walkVars
<1>2. cur \in Node /\ cur \in visited
  BY <1>1 DEF WalkTypeOK, CFAInsn, Noted
<1>3. Carried'
  BY <1>1 DEF Carried
<1> DEFINE s == cfa[cur]
           i == Len(s)
           d == InsnCFA(s[i], prog.code[cur][i])
<1>4. /\ s \in Seq(CFAs) /\ i \in 1 .. Len(prog.code[cur])
      /\ Len(prog.code[cur]) \in Nat
      /\ s[i] = prog.depth[cur][i]
      /\ \A j \in 1 .. i : s[j] = prog.depth[cur][j]
  <2>1. s \in Seq(CFAs) /\ i >= 1 /\ \A j \in 1 .. i : s[j] = prog.depth[cur][j]
    BY <1>1, <1>2 DEF Noted
  <2>2. Len(prog.code[cur]) \in Nat
    BY <1>1, <1>2, ProgFacts
  <2>3. i <= Len(prog.code[cur])
    BY DEF CFAInsn, CodeOf
  <2>4. i \in Nat
    BY <2>1
  <2> HIDE DEF s, i
  <2> QED
    BY <2>1, <2>2, <2>3, <2>4
<1>5. cfa' = [cfa EXCEPT ![cur] = Append(s, d)]
  BY <1>1 DEF CFAInsn, CodeOf
<1>6. d = prog.depth[cur][i + 1] /\ d \in CFAs
  <2>1. d = prog.depth[cur][i + 1]
    BY <1>1, <1>2, <1>4, ProgFacts
  <2>2. prog.depth[cur] \in Seq(CFAs) /\ i + 1 \in 1 .. Len(prog.depth[cur])
    BY SMTT(60), <1>1, <1>2, <1>4, ProgFacts
  <2> QED
    BY <2>1, <2>2
<1>7. /\ Append(s, d) \in Seq(CFAs) /\ Len(Append(s, d)) = i + 1
      /\ \A j \in 1 .. i + 1 : Append(s, d)[j] = prog.depth[cur][j]
  <2> HIDE DEF d
  <2>1. /\ Append(s, d) \in Seq(CFAs) /\ Len(Append(s, d)) = i + 1
        /\ Append(s, d)[i + 1] = d
        /\ \A j \in 1 .. i : Append(s, d)[j] = s[j]
    BY <1>4, <1>6
  <2> QED
    BY <1>4, <1>6, <2>1
<1>8. Noted'
  <2> HIDE DEF d, s
  <2>1. cfa' \in [Node -> Seq(CFAs)] /\ cfa'[cur] = Append(s, d)
        /\ \A b \in visited \ {cur} : cfa'[b] = cfa[b]
    BY <1>1, <1>2, <1>5, <1>7 DEF Noted, WalkTypeOK
  <2>2. /\ Len(cfa'[cur]) \in 1 .. Len(prog.code[cur]) + 1
        /\ \A j \in 1 .. Len(cfa'[cur]) : cfa'[cur][j] = prog.depth[cur][j]
    BY <1>4, <1>7, <2>1
  <2>3. ASSUME NEW b \in visited, b # cur
        PROVE  /\ Len(cfa'[b]) = Len(prog.code[b]) + 1
               /\ Len(cfa'[b]) \in 1 .. Len(prog.code[b]) + 1
               /\ \A j \in 1 .. Len(cfa'[b]) : cfa'[b][j] = prog.depth[b][j]
    BY <1>1, <2>1, <2>3 DEF Noted
  <2> QED
    BY <1>1, <1>2, <2>1, <2>2, <2>3 DEF Noted
<1> QED
  BY <1>1, <1>3, <1>8 DEF FrameInv

LEMMA LeaveKeeps == ASSUME WalkTypeOK, FrameInv, CFALeave PROVE FrameInv'
<1>1. /\ prog \in Program /\ phase = "cfa" /\ Carried /\ Noted
      /\ edges = prog.succs /\ root = prog.entry
      /\ UNCHANGED <<prog, phase, edges, root, visited, cfa>>
      /\ cur' = NoNode
  BY DEF FrameInv, CFALeave, Leave
<1>2. cur \in Node /\ cur \in visited
  BY <1>1 DEF WalkTypeOK, CFALeave, Noted
<1> DEFINE n == Len(prog.code[cur]) + 1
           x == cfa[cur][n]
           g == prog.succs[cur]
           new == [i \in DOMAIN g |-> x]
<1>3. Len(cfa[cur]) = n /\ n \in Nat /\ n > 0
  BY <1>1, <1>2, ProgFacts DEF Noted, CFALeave, CodeOf
<1>4. x = prog.depth[cur][n] /\ x \in CFAs
  BY <1>1, <1>2, <1>3 DEF Noted
<1>5. g \in Seq(Node) /\ \A i \in 1 .. Len(g) : prog.depth[g[i]][1] = x
  <2>1. g \in Seq(Node)
    BY <1>1, <1>2, ProgFacts DEF Graph
  <2>2. ASSUME NEW i \in 1 .. Len(g) PROVE prog.depth[g[i]][1] = x
    <3>1. g[i] \in Elements(g)
      BY DEF Elements
    <3> QED
      BY <1>1, <1>2, <1>4, <3>1, ProgFacts
  <2> QED
    BY <2>1, <2>2
<1>6. carry' = new \o carry /\ todo' = g \o todo
  BY <1>1 DEF CFALeave, Leave, CodeOf
<1>7. new \in Seq(CFAs) /\ Len(new) = Len(g) /\ \A i \in 1 .. Len(g) : new[i] = x
  <2> HIDE DEF x, g
  <2>1. DOMAIN g = 1 .. Len(g) /\ Len(g) \in Nat
    BY <1>5
  <2>2. new \in [1 .. Len(g) -> CFAs] /\ \A i \in 1 .. Len(g) : new[i] = x
    BY <1>4, <2>1
  <2>3. new \in Seq(CFAs)
    BY <2>1, <2>2
  <2>4. Len(new) = Len(g)
    BY <2>1
  <2> QED
    BY <2>2, <2>3, <2>4
<1>8. Carried'
  <2> HIDE DEF new, g, x
  <2>1. todo \in Seq(Node) /\ carry \in Seq(CFAs) /\ Len(carry) = Len(todo)
    BY <1>1 DEF Carried, WalkTypeOK
  <2>2. carry' \in Seq(CFAs) /\ Len(carry') = Len(todo')
    <3>1. carry' \in Seq(CFAs) /\ Len(carry') = Len(new) + Len(carry)
      <4>1. \A u, v \in Seq(CFAs) : u \o v \in Seq(CFAs) /\ Len(u \o v) = Len(u) + Len(v)
        OBVIOUS
      <4> QED
        BY <1>6, <1>7, <2>1, <4>1
    <3>2. Len(todo') = Len(g) + Len(todo)
      BY <1>5, <1>6, <2>1
    <3> QED
      BY <1>7, <2>1, <3>1, <3>2
  <2>3. ASSUME NEW i \in 1 .. Len(todo') PROVE carry'[i] = prog.depth[todo'[i]][1]
    <3>1. CASE i <= Len(g)
      <4>1. carry'[i] = new[i] /\ todo'[i] = g[i] /\ i \in 1 .. Len(g)
        BY <1>5, <1>6, <1>7, <2>1, <3>1
      <4> QED
        BY <1>5, <1>7, <4>1
    <3>2. CASE i > Len(g)
      <4>1. /\ carry'[i] = carry[i - Len(g)] /\ todo'[i] = todo[i - Len(g)]
            /\ i - Len(g) \in 1 .. Len(todo)
        BY <1>5, <1>6, <1>7, <2>1, <3>2
      <4> QED
        BY <1>1, <4>1 DEF Carried
    <3> QED
      BY <1>5, <3>1, <3>2
  <2> QED
    BY <1>1, <2>2, <2>3 DEF Carried
<1>9. Noted'
  <2>1. ASSUME NEW b \in visited PROVE Len(cfa[b]) = Len(prog.code[b]) + 1
    BY <1>1, <1>3 DEF Noted
  <2> QED
    BY <1>1, <2>1 DEF Noted
<1> QED
  BY <1>1, <1>8, <1>9 DEF FrameInv

LEMMA ReturnKeeps == ASSUME WalkTypeOK, FrameInv, CFAReturn PROVE FrameInv'
<1>1. /\ prog \in Program /\ phase = "cfa" /\ Carried /\ Noted
      /\ edges = prog.succs /\ root = prog.entry
      /\ UNCHANGED <<prog, phase, edges, root, visited, cur, cfa>>
  BY DEF FrameInv, CFAReturn, Return
<1>2. Carried'
  BY <1>1, CallMade DEF WalkTypeOK, CFAReturn, Return
<1>3. Noted'
  BY <1>1 DEF Noted
<1> QED
  BY <1>1, <1>2, <1>3 DEF FrameInv

-----------------------------------------------------------------------------
\* The frames at the ends of the two.

LEMMA RunKeeps == ASSUME WalkInv, FrameInv, Run PROVE FrameInv'
<1>1. /\ prog \in Program /\ phase = "cfa" /\ Carried /\ Noted
      /\ edges = prog.succs /\ root = prog.entry
      /\ UNCHANGED <<prog, edges, root, todo, visited, cur, carry, cfa>>
      /\ Finished
  BY DEF FrameInv, Run, walkVars
<1>2. Carried' /\ Noted' /\ Finished'
  BY <1>1 DEF Carried, Noted, Finished
<1>3. prog.entry \in visited /\ prog.entry \in Node
  BY <1>1, WalkInvExact, ProgFacts DEF WalkExact, Complete
<1>4. mach' = [at |-> prog.entry, i |-> 1, rsp |-> 8, rbp |-> Other]
  BY DEF Run
<1>5. Len(prog.code[prog.entry]) \in Nat /\ prog.depth[prog.entry][1] = InitCFA
  BY <1>1, <1>3, ProgFacts
<1>6. mach' \in Machines /\ mach'.at = prog.entry /\ mach'.i = 1
  BY <1>3, <1>4 DEF Machines
<1>7. FrameAgrees(mach', InitCFA)
  BY <1>4 DEF FrameAgrees, InitCFA
<1>8. MachineInv'
  BY <1>1, <1>2, <1>3, <1>5, <1>6, <1>7 DEF MachineInv
<1> QED
  BY <1>1, <1>2, <1>8 DEF FrameInv

LEMMA ExecuteKeeps == ASSUME WalkInv, FrameInv, Execute PROVE FrameInv'
<1>1. /\ prog \in Program /\ phase = "run" /\ Carried /\ Noted /\ MachineInv
      /\ edges = prog.succs /\ root = prog.entry
      /\ UNCHANGED <<prog, phase, edges, root, todo, visited, cur, carry, cfa>>
  BY DEF FrameInv, Execute, walkVars
<1>2. Carried' /\ Noted' /\ Finished'
  BY <1>1 DEF Carried, Noted, Finished, MachineInv
<1> DEFINE b == mach.at
           i == mach.i
           c == prog.depth[b][i]
           m == MachStep(mach, prog.code[b][i])
<1>3. /\ mach \in Machines /\ b \in visited /\ b \in Node
      /\ Len(prog.code[b]) \in Nat /\ i \in 1 .. Len(prog.code[b])
      /\ FrameAgrees(mach, c)
  <2>1. mach \in Machines /\ b \in visited /\ FrameAgrees(mach, c) /\ b \in Node
    BY <1>1 DEF MachineInv, Machines
  <2>2. Len(prog.code[b]) \in Nat
    BY <1>1, <2>1, ProgFacts
  <2> QED
    BY <1>1, <2>1, <2>2 DEF MachineInv, Execute, CodeOf
<1>4. c \in CFAs
  <2>1. prog.depth[b] \in Seq(CFAs) /\ i \in 1 .. Len(prog.depth[b])
    BY <1>1, <1>3, ProgFacts
  <2> QED
    BY <2>1
<1>5. Proper(c, prog.code[b][i]) /\ prog.depth[b][i + 1] = InsnCFA(c, prog.code[b][i])
  BY <1>1, <1>3, ProgFacts
<1>6. m \in Machines /\ m.at = b /\ m.i = i /\ FrameAgrees(m, prog.depth[b][i + 1])
  BY <1>3, <1>4, <1>5, StepAgrees
<1>7. mach' = [m EXCEPT !.i = @ + 1]
  BY DEF Execute, CodeOf
<1>8. /\ mach' \in Machines /\ mach'.at = b /\ mach'.i = i + 1
      /\ FrameAgrees(mach', prog.depth[b][i + 1])
  <2> HIDE DEF m
  <2> QED
    BY <1>3, <1>6, <1>7 DEF Machines, FrameAgrees
<1>9. MachineInv'
  BY <1>1, <1>2, <1>3, <1>8 DEF MachineInv
<1> QED
  BY <1>1, <1>2, <1>9 DEF FrameInv

LEMMA JumpKeeps == ASSUME WalkInv, FrameInv, Jump PROVE FrameInv'
<1>1. /\ prog \in Program /\ phase = "run" /\ Carried /\ Noted /\ MachineInv
      /\ edges = prog.succs /\ root = prog.entry
      /\ UNCHANGED <<prog, phase, edges, root, todo, visited, cur, carry, cfa>>
  BY DEF FrameInv, Jump, walkVars
<1>2. Carried' /\ Noted' /\ Finished'
  BY <1>1 DEF Carried, Noted, Finished, MachineInv
<1> DEFINE a == mach.at
           n == Len(prog.code[a]) + 1
<1>3. PICK b \in Elements(prog.succs[a]) : mach' = [mach EXCEPT !.at = b, !.i = 1]
  BY DEF Jump
<1>4. mach \in Machines /\ a \in visited /\ a \in Node
  BY <1>1 DEF MachineInv, Machines
<1>5. mach.i = n /\ FrameAgrees(mach, prog.depth[a][n])
  <2>1. Len(prog.code[a]) \in Nat
    BY <1>1, <1>4, ProgFacts
  <2>2. mach.i = n
    BY <1>1, <2>1 DEF MachineInv, Jump, CodeOf
  <2> QED
    BY <1>1, <2>2 DEF MachineInv
<1>6. b \in visited /\ b \in Node
  BY <1>1, <1>3, <1>4, WalkInvExact DEF WalkExact, Complete, Closed, MachineInv, WalkInv, WalkTypeOK
<1>7. prog.depth[b][1] = prog.depth[a][n] /\ Len(prog.code[b]) \in Nat
  BY <1>1, <1>3, <1>4, <1>6, ProgFacts
<1>8. /\ mach' \in Machines /\ mach'.at = b /\ mach'.i = 1
      /\ FrameAgrees(mach', prog.depth[b][1])
  BY <1>3, <1>4, <1>5, <1>6, <1>7 DEF Machines, FrameAgrees
<1>9. MachineInv'
  BY <1>1, <1>2, <1>6, <1>7, <1>8 DEF MachineInv
<1> QED
  BY <1>1, <1>2, <1>9 DEF FrameInv

LEMMA FrameKept == ASSUME WalkInv, FrameInv, FrameNext PROVE FrameInv'
  BY BlockKeeps, InsnKeeps, LeaveKeeps, ReturnKeeps, RunKeeps, ExecuteKeeps, JumpKeeps
     DEF FrameNext, WalkInv

LEMMA FrameInvExact == ASSUME WalkInv, FrameInv PROVE FrameExact
<1> SUFFICES ASSUME phase = "run"
             PROVE  /\ mach.at \in visited
                    /\ LET c == cfa[mach.at][mach.i]
                       IN c.rsp = mach.rsp /\ (c.frame => mach.rbp = c.rbp)
  BY DEF FrameExact
<1>1. prog \in Program /\ Noted /\ MachineInv
  BY DEF FrameInv
<1>2. mach.at \in visited /\ mach.at \in Node /\ mach.at # cur
  BY <1>1, NodeAssumption DEF MachineInv, Machines, Finished
<1>3. cfa[mach.at][mach.i] = prog.depth[mach.at][mach.i]
  BY <1>1, <1>2 DEF Noted, MachineInv
<1> QED
  BY <1>1, <1>2, <1>3 DEF MachineInv, FrameAgrees

-----------------------------------------------------------------------------

\* A pass begins when another has ended, along the edges or against them.
LEMMA PassRestarts ==
  ASSUME prog \in Program, StartPass \/ Again
  PROVE  Restart /\ prog' = prog /\ phase' \in {"fwd1", "bwd", "fwd2", "params"}
<1>1. /\ prog.succs \in Graph /\ prog.entry \in Node
      /\ prog.preds \in Graph /\ prog.exit \in Node
  BY ProgramAssumption, BackwardAssumption
<1>2. ASSUME NEW g \in Graph, NEW r \in Node, Start(g, r) PROVE Restart
  BY <1>2 DEF Start, Restart
<1>3. CASE StartPass
  BY <1>1, <1>2, <1>3 DEF StartPass, Pass
<1>4. CASE Again
  BY <1>1, <1>2, <1>4 DEF Again, MakeAgain
<1> QED
  BY <1>3, <1>4

\* The steps of a pass between its begin and its end.
InPass == \/ SkipBlock
          \/ EnterForward \/ ForwardInsn \/ LeaveForward
          \/ EnterBackward \/ BackwardInsn \/ LeaveBackward
          \/ EnterParameters \/ ParameterInsn \/ LeaveParameters

LEMMA InPassWalks ==
  ASSUME InPass
  PROVE  /\ [WalkNext]_walkVars /\ UNCHANGED frameVars
         /\ phase \in {"fwd1", "bwd", "fwd2", "params"}
<1>1. CASE SkipBlock
  BY <1>1 DEF SkipBlock, Passing, WalkNext
<1>2. CASE EnterForward
  BY <1>2 DEF EnterForward, WalkNext
<1>3. CASE ForwardInsn
  BY <1>3 DEF ForwardInsn
<1>4. CASE LeaveForward
  BY <1>4 DEF LeaveForward, LeaveBlock, WalkNext
<1>5. CASE EnterBackward
  BY <1>5 DEF EnterBackward, WalkNext
<1>6. CASE BackwardInsn
  BY <1>6 DEF BackwardInsn
<1>7. CASE LeaveBackward
  BY <1>7 DEF LeaveBackward, LeaveBlock, WalkNext
<1>8. CASE EnterParameters
  BY <1>8 DEF EnterParameters, WalkNext
<1>9. CASE ParameterInsn
  BY <1>9 DEF ParameterInsn
<1>10. CASE LeaveParameters
  BY <1>10 DEF LeaveParameters, LeaveBlock, WalkNext
<1> QED
  BY <1>1, <1>2, <1>3, <1>4, <1>5, <1>6, <1>7, <1>8, <1>9, <1>10 DEF InPass

LEMMA FrameWalks == FrameNext => [WalkNext]_walkVars
  BY DEF FrameNext, CFABlock, CFAInsn, CFALeave, CFAReturn, Run, Execute, Jump, WalkNext

LEMMA NextKinds == InferNext => \/ FrameNext /\ UNCHANGED passVars
                                \/ InPass
                                \/ StartPass
                                \/ Again
  BY DEF InferNext, FrameStep, FrameNext, Work, InPass

LEMMA InferWalks == prog \in Program /\ [InferNext]_inferVars => [WalkNext]_walkVars
  BY NextKinds, FrameWalks, InPassWalks, PassRestarts DEF WalkNext, inferVars

LEMMA InferWalkInit == InferInit => WalkInit
  BY ProgramAssumption DEF InferInit, FrameInit, WalkInit

-----------------------------------------------------------------------------
Inv == WalkInv /\ FrameInv

LEMMA InvInit == InferInit => Inv
<1> SUFFICES ASSUME InferInit PROVE Inv
  OBVIOUS
<1>1. WalkInv
  BY InferWalkInit, WalkStarts DEF WalkInit
<1>2. FrameInv
  BY FrameStarts DEF InferInit
<1> QED
  BY <1>1, <1>2 DEF Inv

LEMMA InvStep == Inv /\ [InferNext]_inferVars => Inv'
<1> SUFFICES ASSUME Inv, [InferNext]_inferVars PROVE Inv'
  OBVIOUS
<1>1. prog \in Program
  BY DEF Inv, FrameInv
<1>2. WalkInv'
  BY <1>1, InferWalks, WalkStep DEF Inv
<1>3. FrameInv'
  <2>1. CASE FrameNext
    BY <2>1, FrameKept DEF Inv
  <2>2. CASE InPass
    <3>1. UNCHANGED <<prog, phase>> /\ phase \notin {"cfa", "run"}
      BY <2>2, InPassWalks DEF frameVars
    <3> QED
      BY <1>1, <3>1 DEF FrameInv
  <2>3. CASE StartPass \/ Again
    <3>1. prog' = prog /\ phase' \notin {"cfa", "run"}
      BY <1>1, <2>3, PassRestarts
    <3> QED
      BY <1>1, <3>1 DEF FrameInv
  <2>4. CASE UNCHANGED inferVars
    BY <2>4 DEF inferVars, walkVars, frameVars, Inv, FrameInv, Carried, Noted, MachineInv, Finished
  <2> QED
    BY <2>1, <2>2, <2>3, <2>4, NextKinds
<1> QED
  BY <1>2, <1>3 DEF Inv

\* The CFA pass, the three passes over the types and that over the parameters
\* are walks, of the graph or of the reversed graph, and so are the passes of a
\* second analysis.
THEOREM PassesWalk == Spec => EveryPassWalks
<1>1. Inv /\ [InferNext]_inferVars => [WalkNext]_walkVars
  BY InferWalks DEF Inv, FrameInv
<1> QED
  BY <1>1, InvInit, InvStep, InferWalkInit, PTL DEF Spec, EveryPassWalks

\* No pass leaves out a block that can be reached, and none works on a block
\* that cannot.
THEOREM PassesExact == Spec => []WalkExact
<1>1. Inv => WalkExact
  BY WalkInvExact DEF Inv
<1> QED
  BY <1>1, InvInit, InvStep, PTL DEF Spec

\* In every balanced function, with any graph, the frame noted before an
\* instruction is the frame any run of the function has there.
THEOREM FramesExact == Spec => []FrameExact
<1>1. Inv => FrameExact
  BY FrameInvExact DEF Inv
<1> QED
  BY <1>1, InvInit, InvStep, PTL DEF Spec

-----------------------------------------------------------------------------
\* The blocks the pass has come to.
Seen == Elements(trail) \union ({cur} \ {NoNode})

\* Instruction i of b is a call that hands x on.
HandsOn(x, b, i) == /\ i \in DOMAIN CodeOf(b)
                    /\ x[1] \in OwnTargets(CodeOf(b)[i])
                    /\ x[2] \in Given(x[1], Before(b, i))

\* Before the parameters' pass nothing is inferred.
CallerInv ==
  /\ trail \in Seq(Node) /\ pos \in Nat
  /\ again = "first" /\ phase # "params" => inferred = {}
  /\ phase = "params" /\ again = "first" =>
       \A x \in inferred : \E b \in Seen : \E i : HandsOn(x, b, i)

LEMMA HandsOnKept ==
  ASSUME UNCHANGED <<prog, inC, insnC>>, NEW x, NEW b, NEW i
  PROVE  HandsOn(x, b, i)' <=> HandsOn(x, b, i)
  BY DEF HandsOn, CodeOf, OwnTargets, Given, Before

LEMMA Appended ==
  ASSUME NEW S, NEW s \in Seq(S), NEW x \in S
  PROVE  Append(s, x) \in Seq(S) /\ Elements(Append(s, x)) = Elements(s) \union {x}
<1>1. /\ Append(s, x) = s \o <<x>> /\ <<x>> \in Seq(S) /\ Append(s, x) \in Seq(S)
  OBVIOUS
<1>2. Elements(s \o <<x>>) = Elements(s) \union Elements(<<x>>)
  BY ZenonT(60), <1>1, Concatenated
<1> QED
  BY <1>1, <1>2, OneAndNone

\* What the steps of a pass do to the counters.
LEMMA InPassCounts ==
  ASSUME WalkTypeOK, trail \in Seq(Node), pos \in Nat, InPass
  PROVE  trail' \in Seq(Node) /\ pos' \in Nat /\ again' = again
<1>1. ASSUME LeaveBlock PROVE trail' \in Seq(Node) /\ pos' \in Nat
  <2>1. cur \in Node
    BY <1>1 DEF LeaveBlock, Leave, WalkTypeOK
  <2> QED
    BY <1>1, <2>1 DEF LeaveBlock
<1>2. CASE SkipBlock
  BY <1>2 DEF SkipBlock, passVars
<1>3. CASE EnterForward \/ EnterBackward \/ EnterParameters
  BY <1>3 DEF EnterForward, EnterBackward, EnterParameters, passVars
<1>4. CASE ForwardInsn \/ BackwardInsn \/ ParameterInsn
  BY <1>4 DEF ForwardInsn, BackwardInsn, ParameterInsn
<1>5. CASE LeaveForward \/ LeaveBackward \/ LeaveParameters
  BY <1>1, <1>5 DEF LeaveForward, LeaveBackward, LeaveParameters
<1> QED
  BY <1>2, <1>3, <1>4, <1>5 DEF InPass

LEMMA InPassInfers ==
  ASSUME InPass, phase # "params" PROVE inferred' = inferred
  BY DEF InPass, SkipBlock, EnterForward, ForwardInsn, LeaveForward, EnterBackward, BackwardInsn,
         LeaveBackward, EnterParameters, ParameterInsn, LeaveParameters, passVars

\* The steps of the parameters' pass come to more blocks and change no context.
LEMMA ParameterSteps ==
  ASSUME WalkTypeOK, trail \in Seq(Node), InPass, phase = "params"
  PROVE  /\ UNCHANGED <<prog, inC, insnC>> /\ Seen \subseteq Seen'
         /\ ParameterInsn \/ inferred' = inferred
<1>1. CASE SkipBlock
  BY <1>1 DEF SkipBlock, Return, Seen, Elements, passVars, frameVars
<1>2. CASE EnterParameters
  <2>1. UNCHANGED <<prog, inC, insnC, trail, inferred>> /\ cur = NoNode
    BY <1>2 DEF EnterParameters, Enter, passVars, frameVars
  <2> QED
    BY <2>1 DEF Seen, Elements
<1>3. CASE ParameterInsn
  BY <1>3 DEF ParameterInsn, Seen, Elements, walkVars, frameVars
<1>4. CASE LeaveParameters
  <2>1. /\ UNCHANGED <<prog, inC, insnC, inferred>> /\ trail' = Append(trail, cur)
        /\ cur \in Node
    BY <1>4 DEF LeaveParameters, LeaveBlock, Leave, frameVars, WalkTypeOK
  <2>2. Elements(Append(trail, cur)) = Elements(trail) \union {cur}
    BY <2>1, Appended
  <2>3. Elements(trail)' = Elements(Append(trail, cur))
    BY <2>1 DEF Elements
  <2> QED
    BY <2>1, <2>2, <2>3 DEF Seen
<1> QED
  BY <1>1, <1>2, <1>3, <1>4
     DEF InPass, EnterForward, ForwardInsn, LeaveForward, EnterBackward, BackwardInsn, LeaveBackward

LEMMA ParameterHandsOn ==
  ASSUME Inv, CallerInv, ParameterInsn, NEW x \in inferred', x \notin inferred
  PROVE  cur \in Seen /\ HandsOn(x, cur, pos + 1)
<1>1. /\ cur # NoNode /\ pos < Len(CodeOf(cur))
      /\ x \in OwnTargets(CodeOf(cur)[pos + 1]) \X (1 .. MaxParams)
      /\ x[2] \in Given(x[1], Before(cur, pos + 1))
  BY DEF ParameterInsn, More
<1>2. cur \in Node /\ prog \in Program /\ pos \in Nat
  BY <1>1 DEF Inv, WalkInv, WalkTypeOK, FrameInv, CallerInv
<1>3. Len(prog.code[cur]) \in Nat /\ DOMAIN prog.code[cur] = 1 .. Len(prog.code[cur])
  BY <1>2, ProgramAssumption
<1>4. pos + 1 \in DOMAIN CodeOf(cur)
  BY <1>1, <1>2, <1>3 DEF CodeOf
<1> QED
  BY <1>1, <1>4 DEF Seen, HandsOn

LEMMA CallerStep == Inv /\ CallerInv /\ [InferNext]_inferVars => CallerInv'
<1> SUFFICES ASSUME Inv, CallerInv, [InferNext]_inferVars PROVE CallerInv'
  OBVIOUS
<1>1. WalkTypeOK /\ prog \in Program /\ trail \in Seq(Node) /\ pos \in Nat
  BY DEF Inv, WalkInv, FrameInv, CallerInv
<1>2. CASE FrameNext /\ UNCHANGED passVars
  <2>1. phase \in {"cfa", "run"} /\ phase' \in {"cfa", "run"}
    BY <1>2 DEF FrameNext, CFABlock, CFAInsn, CFALeave, CFAReturn, Run, Execute, Jump
  <2> QED
    BY <1>2, <2>1 DEF CallerInv, passVars
<1>3. CASE InPass
  <2>1. trail' \in Seq(Node) /\ pos' \in Nat /\ again' = again
    BY <1>1, <1>3, InPassCounts
  <2>2. phase' = phase
    BY <1>3, InPassWalks DEF frameVars
  <2>3. again' = "first" /\ phase' # "params" => inferred' = {}
    BY <1>3, <2>1, <2>2, InPassInfers DEF CallerInv
  <2>4. ASSUME phase = "params", again = "first", NEW x \in inferred'
        PROVE  \E b \in Seen' : \E i : HandsOn(x, b, i)'
    <3>1. /\ UNCHANGED <<prog, inC, insnC>> /\ Seen \subseteq Seen'
          /\ ParameterInsn \/ inferred' = inferred
      BY <1>1, <1>3, <2>4, ParameterSteps
    <3>2. \E b \in Seen : \E i : HandsOn(x, b, i)
      BY <2>4, <3>1, ParameterHandsOn DEF CallerInv
    <3> QED
      BY <3>1, <3>2, HandsOnKept
  <2> QED
    BY <2>1, <2>2, <2>3, <2>4 DEF CallerInv
<1>4. CASE StartPass
  <2>1. UNCHANGED <<pos, again, inferred>> /\ trail' = <<>> /\ phase # "params"
    BY <1>4 DEF StartPass, Pass
  <2>2. trail' \in Seq(Node)
    BY <2>1
  <2> QED
    BY <1>1, <2>1, <2>2 DEF CallerInv
<1>5. CASE Again
  <2>1. pos' = pos /\ again' # "first" /\ trail' = <<>>
    BY <1>5 DEF Again, MakeAgain
  <2>2. trail' \in Seq(Node)
    BY <2>1
  <2> QED
    BY <1>1, <2>1, <2>2 DEF CallerInv
<1>6. CASE UNCHANGED inferVars
  <2>1. UNCHANGED <<prog, inC, insnC, trail, pos, again, phase, inferred, cur>>
    BY <1>6 DEF inferVars, walkVars, frameVars, passVars
  <2>2. Seen' = Seen
    BY <2>1 DEF Seen, Elements
  <2> QED
    BY <2>1, <2>2, HandsOnKept DEF CallerInv
<1> QED
  BY <1>2, <1>3, <1>4, <1>5, <1>6, NextKinds

\* A parameter is marked as inferred only because a call that control comes to
\* has a value of its type in its register, whatever the types found are.
THEOREM ParametersInferred == Spec => []InferredByCaller
<1>1. InferInit => CallerInv
  BY DEF InferInit, FrameInit, CallerInv
<1>2. CallerInv => InferredByCaller
  BY DEF CallerInv, InferredByCaller, Seen, HandsOn
<1> QED
  BY <1>1, <1>2, InvInit, InvStep, CallerStep, PTL DEF Spec

-----------------------------------------------------------------------------
(***************************************************************************)
(* The types an analysis gives.                                            *)
(***************************************************************************)

\* A set of types that has what its pointers point to and its types are made of.
ClosedTypes(T) ==
  \A t \in T :
    /\ t.tag = "base" => t = Base(t.kind, t.size)
    /\ t.tag = "pointer" => t.obj \in T
    /\ HasMembers(t) => t.mem \in Seq(Int \X {m \in T : ContextType(m)})

\* However deep one looks into a tame type, it is made of scalars and of unions
\* of them.
Tame(t)  == \E T : t \in T /\ ClosedTypes(T)
Sound(t) == Tame(t) /\ ContextType(t)

\* Sequences over a set are sequences over a larger one.
LEMMA SeqMore ==
  ASSUME NEW A, NEW B, A \subseteq B, NEW s \in Seq(A)
  PROVE  s \in Seq(B)
  OBVIOUS

LEMMA ClosedMore ==
  ASSUME NEW T, NEW U, NEW s \in Seq(Int \X {m \in T : ContextType(m)}), T \subseteq U
  PROVE  s \in Seq(Int \X {m \in U : ContextType(m)})
<1>1. Int \X {m \in T : ContextType(m)} \subseteq Int \X {m \in U : ContextType(m)}
  OBVIOUS
<1> QED
  BY <1>1, SeqMore

\* The types of the debug info are tame, and so are those made of them.
LEMMA TypeTame == ASSUME NEW t \in Type PROVE Tame(t)
<1>1. ClosedTypes(Type)
  <2> SUFFICES ASSUME NEW u \in Type
               PROVE  /\ u.tag = "base" => u = Base(u.kind, u.size)
                      /\ u.tag = "pointer" => u.obj \in Type
                      /\ HasMembers(u) => u.mem \in Seq(Int \X {m \in Type : ContextType(m)})
    BY DEF ClosedTypes
  <2>1. Int \X {m \in Type : m.tag \in {"base", "pointer"}} \subseteq Int \X {m \in Type : ContextType(m)}
    BY DEF ContextType
  <2>2. HasMembers(u) => u.mem \in Seq(Int \X {m \in Type : m.tag \in {"base", "pointer"}})
    BY TypeAssumption
  <2>3. HasMembers(u) => u.mem \in Seq(Int \X {m \in Type : ContextType(m)})
    BY <2>1, <2>2, SeqMore
  <2> QED
    BY <2>3, TypeAssumption
<1> QED
  BY <1>1 DEF Tame

LEMMA SoundBase == ASSUME NEW k, NEW n PROVE Sound(Base(k, n))
<1>1. PICK t : t = Base(k, n)
  OBVIOUS
<1>2. t.tag = "base" /\ t = Base(t.kind, t.size)
  BY <1>1 DEF Base
<1>3. ClosedTypes({t})
  BY <1>2 DEF ClosedTypes, HasMembers, IsAggregate
<1> QED
  BY <1>1, <1>2, <1>3 DEF Sound, Tame, ContextType

LEMMA SoundPointer == ASSUME NEW t, Tame(t) PROVE Sound(Pointer(t)) /\ IsPointerType(Pointer(t))
<1>1. PICK q : q = Pointer(t)
  OBVIOUS
<1>2. q.tag = "pointer" /\ q.obj = t
  BY <1>1 DEF Pointer
<1>3. PICK T : t \in T /\ ClosedTypes(T)
  BY DEF Tame
<1>4. PICK U : U = T \union {q}
  OBVIOUS
<1>5. ClosedTypes(U)
  <2> SUFFICES ASSUME NEW u \in U
               PROVE  /\ u.tag = "base" => u = Base(u.kind, u.size)
                      /\ u.tag = "pointer" => u.obj \in U
                      /\ HasMembers(u) => u.mem \in Seq(Int \X {m \in U : ContextType(m)})
    BY DEF ClosedTypes
  <2>1. CASE u = q
    BY <1>2, <1>3, <1>4, <2>1 DEF HasMembers, IsAggregate
  <2>2. CASE u \in T
    <3>1. /\ u.tag = "base" => u = Base(u.kind, u.size)
          /\ u.tag = "pointer" => u.obj \in T
          /\ HasMembers(u) => u.mem \in Seq(Int \X {m \in T : ContextType(m)})
      BY <1>3, <2>2 DEF ClosedTypes
    <3>2. T \subseteq U
      BY <1>4
    <3> QED
      BY <3>1, <3>2, ClosedMore
  <2> QED
    BY <1>4, <2>1, <2>2
<1> QED
  BY <1>1, <1>2, <1>4, <1>5 DEF Sound, Tame, ContextType, IsPointerType

LEMMA TameObject == ASSUME NEW t, Tame(t), IsPointerType(t) PROVE Tame(t.obj)
  BY DEF Tame, ClosedTypes, IsPointerType

\* The memory model of a tame type is a sequence of sound types.
LEMMA TameModel ==
  ASSUME NEW t, Tame(t)
  PROVE  \E T : /\ ClosedTypes(T)
                /\ MemoryModel(t) \in Seq(Int \X {m \in T : ContextType(m)})
<1>1. PICK T : t \in T /\ ClosedTypes(T)
  BY DEF Tame
<1>2. CASE HasMembers(t)
  BY <1>1, <1>2 DEF ClosedTypes, MemoryModel
<1>3. CASE ~ HasMembers(t) /\ IsIntegerType(t) /\ t.size = 16
  <2>1. PICK h : h = Base(t.kind, 8)
    OBVIOUS
  <2>2. PICK H : h \in H /\ ClosedTypes(H)
    BY <2>1, SoundBase DEF Sound, Tame
  <2>3. MemoryModel(t) = <<<<0, h>>, <<8, h>>>>
    BY <1>3, <2>1 DEF MemoryModel
  <2>4. ContextType(h)
    BY <2>1 DEF ContextType, Base
  <2>5. <<0, h>> \in Int \X {m \in H : ContextType(m)} /\ <<8, h>> \in Int \X {m \in H : ContextType(m)}
    BY <2>2, <2>4
  <2>6. <<<<0, h>>, <<8, h>>>> \in Seq(Int \X {m \in H : ContextType(m)})
    BY <2>5
  <2> QED
    BY <2>2, <2>3, <2>6
<1>4. CASE ~ HasMembers(t) /\ t.tag \in {"base", "pointer"} /\ ~ (IsIntegerType(t) /\ t.size = 16)
  <2>1. MemoryModel(t) = <<<<0, t>>>>
    BY <1>4 DEF MemoryModel
  <2>2. <<0, t>> \in Int \X {m \in T : ContextType(m)}
    BY <1>1, <1>4 DEF ContextType
  <2>3. <<<<0, t>>>> \in Seq(Int \X {m \in T : ContextType(m)})
    BY <2>2
  <2> QED
    BY <1>1, <2>1, <2>3
<1>5. CASE ~ HasMembers(t) /\ t.tag \notin {"base", "pointer"}
  <2>1. ~ IsIntegerType(t)
    BY <1>5 DEF IsIntegerType
  <2>2. MemoryModel(t) = <<>>
    BY <1>5, <2>1 DEF MemoryModel
  <2> QED
    BY <1>1, <2>2
<1>6. IsIntegerType(t) => t.tag = "base"
  BY DEF IsIntegerType
<1> QED
  BY <1>2, <1>3, <1>4, <1>5, <1>6

\* So is what it is in a union.
LEMMA SoundPart ==
  ASSUME NEW t, Sound(t)
  PROVE  \E T : /\ ClosedTypes(T) /\ t \in T
                /\ UnionPart(t) \in Seq(Int \X {m \in T : ContextType(m)})
<1>1. PICK T : t \in T /\ ClosedTypes(T) /\ ContextType(t)
  BY DEF Sound, Tame
<1>2. CASE HasMembers(t)
  BY <1>1, <1>2 DEF ClosedTypes, UnionPart
<1>3. CASE ~ HasMembers(t)
  <2>1. UnionPart(t) = <<<<0, t>>>>
    BY <1>3 DEF UnionPart
  <2>2. <<0, t>> \in Int \X {m \in T : ContextType(m)}
    BY <1>1
  <2>3. <<<<0, t>>>> \in Seq(Int \X {m \in T : ContextType(m)})
    BY <2>2
  <2> QED
    BY <1>1, <2>1, <2>3
<1> QED
  BY <1>2, <1>3

LEMMA SoundMember ==
  ASSUME NEW t, Tame(t)
  PROVE  /\ Len(MemoryModel(t)) \in Nat /\ DOMAIN MemoryModel(t) = 1 .. Len(MemoryModel(t))
         /\ \A i \in DOMAIN MemoryModel(t) : Sound(MemoryModel(t)[i][2])
<1>1. PICK T : /\ ClosedTypes(T)
               /\ MemoryModel(t) \in Seq(Int \X {m \in T : ContextType(m)})
  BY TameModel
<1>2. \A i \in DOMAIN MemoryModel(t) : MemoryModel(t)[i] \in Int \X {m \in T : ContextType(m)}
  BY <1>1
<1>3. \A i \in DOMAIN MemoryModel(t) : MemoryModel(t)[i][2] \in T /\ ContextType(MemoryModel(t)[i][2])
  BY <1>2
<1>4. \A i \in DOMAIN MemoryModel(t) : Sound(MemoryModel(t)[i][2])
  BY <1>1, <1>3 DEF Sound, Tame
<1> QED
  BY <1>1, <1>4

\* A set of naturals has a least element.
LEMMA Least ==
  ASSUME NEW I \in SUBSET Nat, I # {}
  PROVE  \E i \in I : \A j \in I : i <= j
<1> DEFINE T == {k \in Nat : \A j \in I : k <= j}
<1>1. SUFFICES ASSUME ~ \E i \in I : \A j \in I : i <= j PROVE FALSE
  OBVIOUS
<1>2. 0 \in T
  OBVIOUS
<1>3. ASSUME NEW k \in Nat, k \in T PROVE k + 1 \in T
  <2>1. \A j \in I : k <= j
    BY <1>3
  <2>2. k \notin I
    BY <1>1, <2>1
  <2>3. ASSUME NEW j \in I PROVE k + 1 <= j
    <3>1. j \in Nat /\ k <= j /\ j # k
      BY <2>1, <2>2
    <3> QED
      BY <3>1
  <2> QED
    BY <2>3
<1>4. Nat \subseteq T
  <2> HIDE DEF T
  <2> QED
    BY <1>2, <1>3, AllNaturals
<1>5. PICK i : i \in I
  OBVIOUS
<1>6. i \in Nat /\ i + 1 \in Nat
  BY <1>5
<1>7. i + 1 \in T
  BY <1>4, <1>6
<1>8. i + 1 <= i
  BY <1>5, <1>7
<1> QED
  BY <1>6, <1>8

\* FirstOf finds an element at one of the positions.
LEMMA FirstFound ==
  ASSUME NEW s, NEW I \in SUBSET Nat, NEW d
  PROVE  /\ I = {} => FirstOf(s, I, d) = d
         /\ I # {} => \E i \in I : FirstOf(s, I, d) = s[i]
  BY Least DEF FirstOf

\* The types of two closed sets are closed.
LEMMA BothClosed ==
  ASSUME NEW T, NEW U, ClosedTypes(T), ClosedTypes(U)
  PROVE  ClosedTypes(T \union U)
<1> SUFFICES ASSUME NEW t \in T \union U
             PROVE  /\ t.tag = "base" => t = Base(t.kind, t.size)
                    /\ t.tag = "pointer" => t.obj \in T \union U
                    /\ HasMembers(t) => t.mem \in Seq(Int \X {m \in T \union U : ContextType(m)})
  BY DEF ClosedTypes
<1>1. PICK V : V \in {T, U} /\ t \in V /\ ClosedTypes(V) /\ V \subseteq T \union U
  OBVIOUS
<1>2. /\ t.tag = "base" => t = Base(t.kind, t.size)
      /\ t.tag = "pointer" => t.obj \in V
      /\ HasMembers(t) => t.mem \in Seq(Int \X {m \in V : ContextType(m)})
  BY <1>1 DEF ClosedTypes
<1> QED
  BY <1>1, <1>2, ClosedMore

\* Of finitely many members one has the greatest position.
LEMMA Furthest ==
  ASSUME NEW V, NEW S \in SUBSET (Int \X V), IsFiniteSet(S), S # {}
  PROVE  \E x \in S : \A y \in S : y[1] <= x[1]
<1> DEFINE Behind(x) == {y \in S : y[1] > x[1]}
           T == {Behind(x) : x \in S}
<1>1. T # {} /\ \A U \in T : U \subseteq S
  OBVIOUS
<1>2. PICK U \in T : \A W \in T : W \subseteq U => W = U
  <2> HIDE DEF T
  <2> QED
    BY <1>1, LeastSubset
<1>3. PICK x \in S : U = Behind(x)
  BY <1>2
<1>4. \A y \in S : y[1] \in Int
  OBVIOUS
<1>5. ASSUME NEW y \in S, y[1] > x[1]
      PROVE  FALSE
  <2>1. Behind(y) \subseteq Behind(x)
    BY <1>4, <1>5
  <2>2. y \in Behind(x) /\ y \notin Behind(y)
    BY <1>4, <1>5
  <2> QED
    BY <1>2, <1>3, <2>1, <2>2
<1> QED
  BY <1>4, <1>5

Sorted(s) == \A i, j \in DOMAIN s : i < j => s[i][1] <= s[j][1] /\ s[i] # s[j]

\* Finitely many members can be put in order, so ByOffset chooses one of the
\* orders there are.
LEMMA CanBeOrdered ==
  ASSUME NEW V, NEW S \in SUBSET (Int \X V), IsFiniteSet(S)
  PROVE  \E s \in [1 .. Cardinality(S) -> S] : Sorted(s)
<1> DEFINE Orderable(U) == \E s \in [1 .. Cardinality(U) -> U] : Sorted(s)
           T == {n \in Nat : \A U \in SUBSET (Int \X V) :
                   IsFiniteSet(U) /\ Cardinality(U) = n => Orderable(U)}
<1>1. 0 \in T
  <2> SUFFICES ASSUME NEW U \in SUBSET (Int \X V), IsFiniteSet(U), Cardinality(U) = 0
               PROVE  Orderable(U)
    OBVIOUS
  <2>1. PICK s : s = [i \in 1 .. 0 |-> 0]
    OBVIOUS
  <2>2. DOMAIN s = {} /\ s \in [1 .. Cardinality(U) -> U]
    BY <2>1
  <2>3. Sorted(s)
    BY <2>2 DEF Sorted
  <2> QED
    BY <2>2, <2>3
<1>2. ASSUME NEW n \in Nat, n \in T
      PROVE  n + 1 \in T
  <2> SUFFICES ASSUME NEW U \in SUBSET (Int \X V), IsFiniteSet(U), Cardinality(U) = n + 1
               PROVE  Orderable(U)
    OBVIOUS
  <2>1. U # {}
    BY FS_EmptySet
  <2>2. PICK x \in U : \A y \in U : y[1] <= x[1]
    BY <2>1, Furthest
  <2>3. IsFiniteSet(U \ {x}) /\ Cardinality(U \ {x}) = n /\ U \ {x} \in SUBSET (Int \X V)
    <3>1. IsFiniteSet(U \ {x}) /\ Cardinality(U \ {x}) = Cardinality(U) - 1
      BY <2>2, FS_RemoveElement
    <3>2. (n + 1) - 1 = n
      OBVIOUS
    <3> QED
      BY <3>1, <3>2
  <2>4. Orderable(U \ {x})
    BY <1>2, <2>3
  <2>5. PICK s \in [1 .. n -> U \ {x}] : Sorted(s)
    BY <2>3, <2>4
  <2>6. PICK t : t = [i \in 1 .. n + 1 |-> IF i = n + 1 THEN x ELSE s[i]]
    OBVIOUS
  <2>7. t \in [1 .. n + 1 -> U]
    BY <2>2, <2>5, <2>6
  <2>8. ASSUME NEW i \in 1 .. n + 1, NEW j \in 1 .. n + 1, i < j
        PROVE  t[i][1] <= t[j][1] /\ t[i] # t[j]
    <3>1. i \in 1 .. n /\ t[i] = s[i] /\ s[i] \in U \ {x}
      BY <2>5, <2>6, <2>8
    <3>2. CASE j = n + 1
      BY <2>2, <2>6, <3>1, <3>2
    <3>3. CASE j # n + 1
      <4>1. j \in 1 .. n /\ t[j] = s[j]
        BY <2>6, <3>3
      <4> QED
        BY <2>5, <2>8, <3>1, <4>1 DEF Sorted
    <3> QED
      BY <3>2, <3>3
  <2>9. Sorted(t)
    BY <2>7, <2>8 DEF Sorted
  <2> QED
    BY <2>7, <2>9
<1>3. Nat \subseteq T
  <2> HIDE DEF T
  <2> QED
    BY <1>1, <1>2, AllNaturals
<1>4. Cardinality(S) \in Nat
  BY FS_CardinalityType
<1> QED
  BY <1>3, <1>4

LEMMA ByOffsetType ==
  ASSUME NEW V, NEW S \in SUBSET (Int \X V), IsFiniteSet(S)
  PROVE  ByOffset(S) \in Seq(Int \X V)
<1>1. \E s \in [1 .. Cardinality(S) -> S] : Sorted(s)
  BY CanBeOrdered
<1>2. ByOffset(S) \in [1 .. Cardinality(S) -> S]
  BY <1>1 DEF ByOffset, Sorted
<1>3. Cardinality(S) \in Nat
  BY FS_CardinalityType
<1>4. ByOffset(S) \in [1 .. Cardinality(S) -> Int \X V]
  BY <1>2
<1> QED
  BY <1>3, <1>4

\* A sequence has finitely many elements.
LEMMA FinitelyMany ==
  ASSUME NEW S, NEW s \in Seq(S)
  PROVE  {s[i] : i \in DOMAIN s} \in SUBSET S /\ IsFiniteSet({s[i] : i \in DOMAIN s})
<1>1. PICK R : R = {s[i] : i \in DOMAIN s}
  OBVIOUS
<1>2. s \in Surjection(DOMAIN s, R)
  BY <1>1 DEF Surjection
<1>3. DOMAIN s = 1 .. Len(s) /\ Len(s) \in Nat
  OBVIOUS
<1>4. IsFiniteSet(DOMAIN s)
  BY <1>3, FS_Interval
<1>5. IsFiniteSet(R)
  BY <1>2, <1>4, FS_Surjection
<1>6. R \in SUBSET S
  BY <1>1, <1>3
<1> QED
  BY <1>1, <1>5, <1>6

\* A union of scalars of sound types is sound.
LEMMA SoundJoined ==
  ASSUME NEW V, ClosedTypes(V), NEW n, NEW s \in Seq(Int \X {m \in V : ContextType(m)})
  PROVE  Sound([tag |-> "newUnion", size |-> n, mem |-> s])
<1>8. PICK q : q = [tag |-> "newUnion", size |-> n, mem |-> s]
  OBVIOUS
<1>9. q.tag = "newUnion" /\ q.mem = s
  BY <1>8
<1>10. PICK W : W = V \union {q}
  OBVIOUS
<1>11. q.mem \in Seq(Int \X {m \in W : ContextType(m)})
  BY <1>9, <1>10, ClosedMore
<1>12. ASSUME NEW w \in W
       PROVE  /\ w.tag = "base" => w = Base(w.kind, w.size)
              /\ w.tag = "pointer" => w.obj \in W
              /\ HasMembers(w) => w.mem \in Seq(Int \X {m \in W : ContextType(m)})
  <2>1. CASE w = q
    BY <1>9, <1>11, <2>1
  <2>2. CASE w \in V
    <3>1. /\ w.tag = "base" => w = Base(w.kind, w.size)
          /\ w.tag = "pointer" => w.obj \in V
          /\ HasMembers(w) => w.mem \in Seq(Int \X {m \in V : ContextType(m)})
      BY <2>2 DEF ClosedTypes
    <3>2. V \subseteq W
      BY <1>10
    <3> QED
      BY <3>1, <3>2, ClosedMore
  <2> QED
    BY <1>10, <2>1, <2>2
<1>13. ClosedTypes(W)
  BY <1>12 DEF ClosedTypes
<1>14. q \in W
  BY <1>10
<1>15. Sound(q)
  BY <1>9, <1>13, <1>14 DEF Sound, Tame, ContextType
<1> QED
  BY <1>8, <1>15

LEMMA SoundUnion ==
  ASSUME NEW a, NEW b, Sound(a), Sound(b)
  PROVE  Sound(UnionVType(a, b))
<1>1. PICK A : ClosedTypes(A) /\ a \in A /\ UnionPart(a) \in Seq(Int \X {m \in A : ContextType(m)})
  BY SoundPart
<1>2. PICK B : ClosedTypes(B) /\ b \in B /\ UnionPart(b) \in Seq(Int \X {m \in B : ContextType(m)})
  BY SoundPart
<1>3. PICK V : V = A \union B
  OBVIOUS
<1>4. ClosedTypes(V) /\ A \subseteq V /\ B \subseteq V
  BY <1>1, <1>2, <1>3, BothClosed
<1>5. PICK P : P = Int \X {m \in V : ContextType(m)}
  OBVIOUS
<1>6. UnionPart(a) \in Seq(P) /\ UnionPart(b) \in Seq(P)
  BY <1>1, <1>2, <1>4, <1>5, ClosedMore
<1>7. ASSUME NEW n, NEW s \in Seq(P)
      PROVE  Sound([tag |-> "newUnion", size |-> n, mem |-> s])
  BY <1>4, <1>5, <1>7, SoundJoined
<1>8. <<0, a>> \in P /\ <<0, b>> \in P
  BY <1>1, <1>2, <1>4, <1>5 DEF Sound
<1>9. /\ Append(UnionPart(a), <<0, b>>) \in Seq(P)
      /\ Append(UnionPart(b), <<0, a>>) \in Seq(P)
  BY <1>6, <1>8
<1>10. ByOffset({UnionPart(a)[i] : i \in DOMAIN UnionPart(a)}
                  \union {UnionPart(b)[i] : i \in DOMAIN UnionPart(b)}) \in Seq(P)
  <2>a. PICK S : S = {UnionPart(a)[i] : i \in DOMAIN UnionPart(a)}
    OBVIOUS
  <2>b. PICK T : T = {UnionPart(b)[i] : i \in DOMAIN UnionPart(b)}
    OBVIOUS
  <2>c. S \in SUBSET P /\ IsFiniteSet(S)
    BY <1>6, <2>a, FinitelyMany
  <2>d. T \in SUBSET P /\ IsFiniteSet(T)
    BY <1>6, <2>b, FinitelyMany
  <2>1. PICK R : R = S \union T
    OBVIOUS
  <2>2. R \in SUBSET P /\ IsFiniteSet(R)
    BY <2>c, <2>d, <2>1, FS_Union
  <2>3. ByOffset(R) \in Seq(P)
    BY <1>5, <2>2, ByOffsetType
  <2> QED
    BY <2>a, <2>b, <2>1, <2>3
<1> QED
  BY <1>7, <1>9, <1>10 DEF UnionVType

-----------------------------------------------------------------------------
(***************************************************************************)
(* The look-ups.                                                           *)
(***************************************************************************)
LEMMA FirstMember ==
  ASSUME NEW t, Tame(t), NEW I \in SUBSET DOMAIN MemoryModel(t), NEW d
  PROVE  /\ I = {} => FirstOf(MemoryModel(t), I, <<0, d>>)[2] = d
         /\ I # {} => Sound(FirstOf(MemoryModel(t), I, <<0, d>>)[2])
<1>1. PICK s : s = MemoryModel(t)
  OBVIOUS
<1>2. /\ Len(s) \in Nat /\ DOMAIN s = 1 .. Len(s)
      /\ \A i \in DOMAIN s : Sound(s[i][2])
  BY <1>1, SoundMember
<1>3. PICK e : e = <<0, d>>
  OBVIOUS
<1>4. e[2] = d
  BY <1>3
<1>5. /\ I = {} => FirstOf(s, I, e) = e
      /\ I # {} => \E i \in I : FirstOf(s, I, e) = s[i]
  <2>1. I \in SUBSET Nat
    BY <1>1, <1>2
  <2> QED
    BY <2>1, FirstFound
<1>6. /\ I = {} => FirstOf(s, I, e)[2] = d
      /\ I # {} => Sound(FirstOf(s, I, e)[2])
  <2>1. ASSUME I # {} PROVE Sound(FirstOf(s, I, e)[2])
    <3>1. PICK i \in I : FirstOf(s, I, e) = s[i]
      BY <1>5, <2>1
    <3>2. i \in DOMAIN s
      BY <1>1
    <3>3. Sound(s[i][2])
      BY <1>2, <3>2
    <3> QED
      BY <3>1, <3>3
  <2> QED
    BY <1>4, <1>5, <2>1
<1> QED
  BY <1>1, <1>3, <1>6

LEMMA SoundFound ==
  ASSUME NEW t, Tame(t), NEW at, NEW size, NEW lea \in BOOLEAN, Found(t, at, size, lea) # NoType
  PROVE  Sound(Found(t, at, size, lea)) /\ (lea => IsPointerType(Found(t, at, size, lea)))
<1> DEFINE mm == MemoryModel(t)
           there == {i \in DOMAIN mm : mm[i][1] = at /\ (lea \/ mm[i][2].size = size)}
           first == FirstOf(mm, there, <<0, NoType>>)[2]
<1>1. Found(t, at, size, lea) = IF lea /\ at = 0 THEN Pointer(t)
                                ELSE IF lea /\ there # {} THEN Pointer(first) ELSE first
  BY DEF Found
<1>3. there \in SUBSET DOMAIN mm
  OBVIOUS
<1>4. /\ there = {} => first = NoType
      /\ there # {} => Sound(first)
  <2> HIDE DEF there
  <2> QED
    BY <1>3, FirstMember
<1>5. Sound(Pointer(t)) /\ IsPointerType(Pointer(t))
  BY SoundPointer
<1>6. there # {} => Sound(Pointer(first)) /\ IsPointerType(Pointer(first))
  BY <1>4, SoundPointer DEF Sound
<1> HIDE DEF there, first
<1> QED
  BY <1>1, <1>4, <1>5, <1>6

LEMMA SoundFirst ==
  ASSUME NEW t, Tame(t), NEW n, FirstVType(t, n) # Void
  PROVE  Sound(FirstVType(t, n))
<1> DEFINE mm == MemoryModel(t)
           at0 == {i \in DOMAIN mm : mm[i][1] = 0}
           sized == {i \in at0 : mm[i][2].size = n}
           I == IF sized # {} THEN sized ELSE at0
<1>1. FirstVType(t, n) = FirstOf(mm, I, <<0, Void>>)[2]
  BY DEF FirstVType
<1>2. I \in SUBSET DOMAIN mm
  OBVIOUS
<1> HIDE DEF I
<1> QED
  BY <1>1, <1>2, FirstMember

\* A context of sound types.
SoundContext(ctx) == \A o \in DOMAIN ctx : Sound(ctx[o])

LEMMA SoundWithContext ==
  ASSUME NEW ctx, SoundContext(ctx), NEW o, WithContext(ctx, o) # NoType
  PROVE  Sound(WithContext(ctx, o))
<1>1. CASE o \in DOMAIN ctx
  BY <1>1 DEF WithContext, SoundContext
<1>2. CASE o \notin DOMAIN ctx
  <2>1. /\ IsMem(o) /\ Reg(o.base) \in DOMAIN ctx
    BY <1>2 DEF WithContext
  <2>2. PICK t : t = ctx[Reg(o.base)]
    OBVIOUS
  <2>3. Sound(t)
    BY <2>1, <2>2 DEF SoundContext
  <2> DEFINE mm == MemoryModel(t.obj)
             at == {i \in DOMAIN mm : mm[i][1] = o.disp}
             inside == /\ HasMembers(t.obj) /\ o.seg = NoReg /\ o.index = NoReg
                       /\ o.disp < t.obj.size
  <2>4. WithContext(ctx, o) = IF ~IsPointerType(t) THEN NoType
                              ELSE IF t.obj.tag \in {"pointer", "base"} THEN t.obj
                              ELSE IF inside THEN FirstOf(mm, at, <<0, NoType>>)[2] ELSE NoType
    BY <1>2, <2>1, <2>2 DEF WithContext
  <2>5. IsPointerType(t) /\ Tame(t.obj)
    BY <2>3, <2>4, TameObject DEF Sound
  <2>6. CASE t.obj.tag \in {"pointer", "base"}
    BY <2>4, <2>5, <2>6 DEF Sound, ContextType
  <2>7. CASE t.obj.tag \notin {"pointer", "base"}
    <3>1. WithContext(ctx, o) = FirstOf(mm, at, <<0, NoType>>)[2]
      BY <2>4, <2>5, <2>7
    <3>2. at \in SUBSET DOMAIN mm
      OBVIOUS
    <3> HIDE DEF at
    <3> QED
      BY <2>5, <3>1, <3>2, FirstMember
  <2> QED
    BY <2>6, <2>7
<1> QED
  BY <1>1, <1>2

-----------------------------------------------------------------------------
\* A RIP-relative operand of a context is one of an instruction.
MayKey(o, insn) == IsGlobalMem(o) => \E k \in DOMAIN insn.op : insn.op[k] = o
OwnKeys(ctx, insn) == \A o \in DOMAIN ctx : MayKey(o, insn)

\* A context behind an instruction.
Fine(ctx, insn) == SoundContext(ctx) /\ OwnKeys(ctx, insn)

\* A context stays one behind the instruction when a key is put, when keys are
\* taken away and when contexts are joined.
LEMMA FinePut ==
  ASSUME NEW ctx, NEW insn, Fine(ctx, insn), NEW o, MayKey(o, insn), NEW t, Sound(t)
  PROVE  Fine(Put(ctx, o, t), insn)
  BY DEF Fine, SoundContext, OwnKeys, Put

LEMMA FineInsert ==
  ASSUME NEW ctx, NEW insn, Fine(ctx, insn), NEW o, MayKey(o, insn), NEW t, Sound(t)
  PROVE  Fine(Insert(ctx, o, t), insn)
  BY FinePut DEF Insert

LEMMA FineKeep ==
  ASSUME NEW ctx, NEW insn, Fine(ctx, insn), NEW S
  PROVE  Fine(Keep(ctx, S), insn)
  BY DEF Fine, SoundContext, OwnKeys, Keep

LEMMA FineRemoved ==
  ASSUME NEW ctx, NEW insn, Fine(ctx, insn)
  PROVE  /\ \A r : Fine(RemoveReg(ctx, r), insn)
         /\ \A R : Fine(RemoveRegs(ctx, R), insn)
         /\ \A o : Fine(RemoveOP(ctx, o), insn)
         /\ Fine(ClearCalled(ctx), insn)
<1>1. \A r : Fine(RemoveReg(ctx, r), insn)
  BY FineKeep DEF RemoveReg
<1>2. \A R : Fine(RemoveRegs(ctx, R), insn)
  BY FineKeep DEF RemoveRegs
<1>3. \A o : Fine(RemoveOP(ctx, o), insn)
  BY <1>1, FineKeep DEF RemoveOP
<1>4. Fine(ClearCalled(ctx), insn)
  BY FineKeep DEF ClearCalled
<1> QED
  BY <1>1, <1>2, <1>3, <1>4

\* A key of joined contexts has the type it has in one of them.
LEMMA UnionMember ==
  ASSUME NEW ctxs, DOMAIN ctxs \in SUBSET Nat, NEW o \in DOMAIN UnionContext(ctxs)
  PROVE  \E i \in DOMAIN ctxs : o \in DOMAIN ctxs[i] /\ UnionContext(ctxs)[o] = ctxs[i][o]
<1> DEFINE I == {i \in DOMAIN ctxs : o \in DOMAIN ctxs[i]}
<1>1. /\ o \in UNION {DOMAIN ctxs[i] : i \in DOMAIN ctxs}
      /\ UnionContext(ctxs)[o] = FirstOf(ctxs, I, Empty)[o]
  BY DEF UnionContext
<1>2. I # {} /\ I \in SUBSET Nat
  BY <1>1
<1>3. \E i \in I : FirstOf(ctxs, I, Empty) = ctxs[i]
  <2> HIDE DEF I
  <2> QED
    BY <1>2, FirstFound
<1> QED
  BY <1>1, <1>3

LEMMA FineUnion ==
  ASSUME NEW ctxs, DOMAIN ctxs \in SUBSET Nat, NEW insn, \A i \in DOMAIN ctxs : Fine(ctxs[i], insn)
  PROVE  Fine(UnionContext(ctxs), insn)
  BY UnionMember DEF Fine, SoundContext, OwnKeys

LEMMA SoundJoin ==
  ASSUME NEW ctxs, DOMAIN ctxs \in SUBSET Nat, \A i \in DOMAIN ctxs : SoundContext(ctxs[i])
  PROVE  SoundContext(UnionContext(ctxs))
  BY UnionMember DEF SoundContext

LEMMA RegKey == ASSUME NEW r, NEW insn PROVE MayKey(Reg(r), insn)
  BY DEF MayKey, IsGlobalMem, IsMem, Reg

-----------------------------------------------------------------------------
\* An analysis with a context behind an instruction.
Shaped(a) ==
  /\ a = [ctx |-> a.ctx, known |-> a.known, size |-> a.size]
  /\ a.size \in [RegName -> 0 .. 16] /\ a.known \in Seq(VarInfo)
Good(a, insn) == Shaped(a) /\ Fine(a.ctx, insn)

LEMMA GoodWith ==
  ASSUME NEW a, NEW insn, Shaped(a), NEW ctx, Fine(ctx, insn)
  PROVE  Good([a EXCEPT !.ctx = ctx], insn)
<1>1. PICK b : b = [a EXCEPT !.ctx = ctx]
  OBVIOUS
<1>2. b = [ctx |-> ctx, known |-> a.known, size |-> a.size]
  BY <1>1 DEF Shaped
<1> QED
  BY <1>1, <1>2 DEF Good, Shaped

LEMMA GoodSet ==
  ASSUME NEW a, NEW insn, Good(a, insn), NEW o, MayKey(o, insn), NEW t, Sound(t)
  PROVE  Good(Set(a, o, t), insn)
  BY FinePut, GoodWith DEF Set, Good

LEMMA GoodInsert ==
  ASSUME NEW a, NEW insn, Good(a, insn), NEW o, MayKey(o, insn), NEW t, Sound(t)
  PROVE  Good([a EXCEPT !.ctx = Insert(@, o, t)], insn)
  BY FineInsert, GoodWith DEF Good

LEMMA GoodRemoved ==
  ASSUME NEW a, NEW insn, Good(a, insn)
  PROVE  /\ \A r : Good([a EXCEPT !.ctx = RemoveReg(@, r)], insn)
         /\ \A R : Good([a EXCEPT !.ctx = RemoveRegs(@, R)], insn)
         /\ \A o : Good([a EXCEPT !.ctx = RemoveOP(@, o)], insn)
         /\ Good([a EXCEPT !.ctx = ClearCalled(@)], insn)
  BY FineRemoved, GoodWith DEF Good

LEMMA GoodNote ==
  ASSUME NEW a, NEW insn, Good(a, insn), NEW w, \A r \in DOMAIN w : w[r] \in 0 .. 16
  PROVE  Good(Note(a, w), insn) /\ Note(a, w).ctx = a.ctx /\ Note(a, w).known = a.known
<1>1. PICK s : s = [r \in DOMAIN a.size |-> IF r \in DOMAIN w /\ a.size[r] = 0 THEN w[r] ELSE a.size[r]]
  OBVIOUS
<1>2. s \in [RegName -> 0 .. 16]
  BY <1>1 DEF Good, Shaped
<1>3. PICK b : b = Note(a, w)
  OBVIOUS
<1>4. b = [ctx |-> a.ctx, known |-> a.known, size |-> s]
  BY <1>1, <1>3 DEF Note, Good, Shaped
<1> QED
  BY <1>2, <1>3, <1>4 DEF Good, Shaped

LEMMA GoodLearn ==
  ASSUME NEW a, NEW insn, Good(a, insn), NEW f, f.var \in Seq(VarInfo)
  PROVE  Good(Learn(a, f), insn) /\ Learn(a, f).ctx = a.ctx
<1>1. PICK k : k = a.known \o f.var
  OBVIOUS
<1>2. k \in Seq(VarInfo)
  BY <1>1 DEF Good, Shaped
<1>3. PICK b : b = Learn(a, f)
  OBVIOUS
<1>4. b = [ctx |-> a.ctx, known |-> k, size |-> a.size]
  BY <1>1, <1>3 DEF Learn, Good, Shaped
<1> QED
  BY <1>2, <1>3, <1>4 DEF Good, Shaped

-----------------------------------------------------------------------------
\* What the debug info of a function is.
InfoOK(p) ==
  /\ p.vars \in Seq(VarInfo) /\ p.globals \in Seq(GlobalInfo)
  /\ \A t \in DOMAIN p.callee :
       /\ p.callee[t].ret \in Type /\ p.callee[t].params \in Seq(Type)
       /\ p.callee[t].dyn => \A i \in DOMAIN p.callee[t].params :
            IsIntegerClass(p.callee[t].params[i]) \/ IsSSEClass(p.callee[t].params[i])

\* A fact that was found has a sound type; LEA is given pointers.
GoodType(t, lea) == t = NoType \/ (Sound(t) /\ (lea => IsPointerType(t)))
GoodFact(f, lea) == f = NoFact \/ (Sound(f.type) /\ (lea => IsPointerType(f.type)) /\ f.var \in Seq(VarInfo))

LEMMA SoundIsType == ASSUME NEW t, Sound(t) PROVE t # NoType
  BY DEF Sound, ContextType, NoType

LEMMA HitSound ==
  ASSUME NEW lea \in BOOLEAN, NEW o, NEW insn, NEW c
  PROVE  /\ \A v \in VarInfo : GoodType(StackHit(c, o, lea, v), lea)
         /\ \A g \in GlobalInfo : GoodType(GlobalHit(insn, o, lea, g), lea)
<1>1. ASSUME NEW t \in Type, NEW at, NEW size PROVE GoodType(Found(t, at, size, lea), lea)
  BY TypeTame, SoundFound DEF GoodType
<1>2. ASSUME NEW v \in VarInfo PROVE GoodType(StackHit(c, o, lea, v), lea)
  <2>1. v.type \in Type
    BY DEF VarInfo
  <2> QED
    BY <1>1, <2>1 DEF StackHit, GoodType
<1>3. ASSUME NEW g \in GlobalInfo PROVE GoodType(GlobalHit(insn, o, lea, g), lea)
  <2>1. g.type \in Type
    BY DEF GlobalInfo
  <2>2. Sound(Pointer(g.type)) /\ IsPointerType(Pointer(g.type))
    BY <2>1, TypeTame, SoundPointer
  <2>3. PICK t : t = Found(g.type, insn.next + o.disp - g.addr, o.size, lea)
    OBVIOUS
  <2>4. GoodType(t, lea)
    BY <1>1, <2>1, <2>3
  <2>5. GlobalHit(insn, o, lea, g) = IF lea /\ t # NoType THEN Pointer(g.type) ELSE t
    BY <2>3 DEF GlobalHit
  <2> QED
    BY <2>2, <2>4, <2>5 DEF GoodType
<1> QED
  BY <1>2, <1>3

LEMMA FactOf ==
  ASSUME NEW t, NEW lea, GoodType(t, lea)
  PROVE  GoodFact(Fact(t), lea)
<1>1. PICK f : f = Fact(t)
  OBVIOUS
<1>2. f.type = t /\ f.var = <<>>
  BY <1>1 DEF Fact
<1>3. <<>> \in Seq(VarInfo)
  OBVIOUS
<1> QED
  BY <1>1, <1>2, <1>3 DEF GoodFact, GoodType, NoFact

LEMMA GoodFirst ==
  ASSUME NEW hits, DOMAIN hits \in SUBSET Nat, NEW lea, \A i \in DOMAIN hits : GoodType(hits[i], lea)
  PROVE  GoodType(FirstOf(hits, {i \in DOMAIN hits : hits[i] # NoType}, NoType), lea)
<1>1. PICK I : I = {i \in DOMAIN hits : hits[i] # NoType}
  OBVIOUS
<1>2. I \in SUBSET Nat
  BY <1>1
<1> QED
  BY <1>1, <1>2, FirstFound DEF GoodType

LEMMA KnownGood ==
  ASSUME NEW p, InfoOK(p), NEW a, NEW insn, Good(a, insn), NEW c, NEW o, NEW lea \in BOOLEAN
  PROVE  GoodFact(WithKnown(p, a, c, insn, o, lea), lea)
<1> DEFINE hitVars    == [i \in DOMAIN a.known |-> StackHit(c, o, lea, a.known[i])]
           hitGlobals == [i \in DOMAIN p.globals |-> GlobalHit(insn, o, lea, p.globals[i])]
<1>1. PICK hits : hits = IF ~IsMem(o) THEN <<>>
                         ELSE IF o.base = "rip" /\ o.index = NoReg THEN hitGlobals
                         ELSE IF o.base = "rbp" THEN hitVars ELSE <<>>
  OBVIOUS
<1>2. WithKnown(p, a, c, insn, o, lea) =
        Fact(FirstOf(hits, {i \in DOMAIN hits : hits[i] # NoType}, NoType))
  BY <1>1 DEF WithKnown
<1>3. DOMAIN hitVars \in SUBSET Nat /\ \A i \in DOMAIN hitVars : GoodType(hitVars[i], lea)
  <2>1. a.known \in Seq(VarInfo)
    BY DEF Good, Shaped
  <2>2. DOMAIN a.known \in SUBSET Nat /\ \A i \in DOMAIN a.known : a.known[i] \in VarInfo
    BY <2>1
  <2> QED
    BY <2>2, HitSound
<1>4. DOMAIN hitGlobals \in SUBSET Nat /\ \A i \in DOMAIN hitGlobals : GoodType(hitGlobals[i], lea)
  <2>1. p.globals \in Seq(GlobalInfo)
    BY DEF InfoOK
  <2>2. DOMAIN p.globals \in SUBSET Nat /\ \A i \in DOMAIN p.globals : p.globals[i] \in GlobalInfo
    BY <2>1
  <2> QED
    BY <2>2, HitSound
<1>5. DOMAIN hits \in SUBSET Nat /\ \A i \in DOMAIN hits : GoodType(hits[i], lea)
  <2> HIDE DEF hitVars, hitGlobals
  <2>1. CASE hits = <<>>
    BY <2>1
  <2>2. CASE hits = hitVars \/ hits = hitGlobals
    BY <2>2, <1>3, <1>4
  <2> QED
    BY <1>1, <2>1, <2>2
<1>6. GoodType(FirstOf(hits, {i \in DOMAIN hits : hits[i] # NoType}, NoType), lea)
  BY <1>5, GoodFirst
<1> QED
  BY <1>2, <1>6, FactOf

LEMMA UnknownGood ==
  ASSUME NEW p, InfoOK(p), NEW a, NEW insn, Good(a, insn), NEW c, NEW o,
         NEW lea \in BOOLEAN, NEW on \in BOOLEAN
  PROVE  GoodFact(WithUnknown(p, a, c, o, lea, on), lea)
<1> DEFINE new(k) == /\ p.vars[k].stack /\ p.vars[k].id \notin p.hidden
                     /\ \A i \in DOMAIN a.known : a.known[i].id # p.vars[k].id
           hits == [k \in DOMAIN p.vars |-> IF new(k) THEN StackHit(c, o, lea, p.vars[k]) ELSE NoType]
           facts_ == [k \in DOMAIN hits |-> [type |-> hits[k], var |-> <<p.vars[k]>>]]
           I == {k \in DOMAIN hits : hits[k] # NoType}
<1>1. WithUnknown(p, a, c, o, lea, on) =
        IF on /\ IsMem(o) /\ o.base = "rbp" THEN FirstOf(facts_, I, NoFact) ELSE NoFact
  BY DEF WithUnknown
<1>2. DOMAIN p.vars \in SUBSET Nat /\ \A k \in DOMAIN p.vars : p.vars[k] \in VarInfo
  <2>1. p.vars \in Seq(VarInfo)
    BY DEF InfoOK
  <2> QED
    BY <2>1
<1>3. ASSUME NEW k \in I PROVE GoodFact(facts_[k], lea)
  <2>1. k \in DOMAIN p.vars /\ hits[k] # NoType
    OBVIOUS
  <2>2. GoodType(hits[k], lea)
    BY <1>2, <2>1, HitSound DEF GoodType
  <2>3. <<p.vars[k]>> \in Seq(VarInfo)
    BY <1>2, <2>1
  <2> QED
    BY <2>1, <2>2, <2>3 DEF GoodFact, GoodType
<1>4. I \in SUBSET Nat
  BY <1>2
<1>5. GoodFact(FirstOf(facts_, I, NoFact), lea)
  <2>1. /\ I = {} => FirstOf(facts_, I, NoFact) = NoFact
        /\ I # {} => \E i \in I : FirstOf(facts_, I, NoFact) = facts_[i]
    <3> HIDE DEF I, facts_
    <3> QED
      BY <1>4, FirstFound
  <2> HIDE DEF I, facts_
  <2> QED
    BY <1>3, <2>1 DEF GoodFact
<1> QED
  BY <1>1, <1>5 DEF GoodFact

LEMMA ChoiceGood ==
  ASSUME NEW fs, DOMAIN fs \in SUBSET Nat, NEW lea, \A i \in DOMAIN fs : GoodFact(fs[i], lea)
  PROVE  GoodFact(Choose1(fs), lea)
<1>1. PICK I : I = {i \in DOMAIN fs : fs[i].type # NoType}
  OBVIOUS
<1>2. I \in SUBSET Nat /\ Choose1(fs) = FirstOf(fs, I, NoFact)
  BY <1>1 DEF Choose1
<1>3. CASE I = {}
  <2>1. Choose1(fs) = NoFact
    BY <1>2, <1>3, FirstFound
  <2> QED
    BY <2>1 DEF GoodFact
<1>4. CASE I # {}
  <2>1. PICK i \in I : FirstOf(fs, I, NoFact) = fs[i]
    BY <1>2, <1>4, FirstFound
  <2>2. i \in DOMAIN fs
    BY <1>1
  <2> QED
    BY <1>2, <2>1, <2>2
<1> QED
  BY <1>3, <1>4

\* What a context says of an operand.
LEMMA ContextGood ==
  ASSUME NEW a, NEW insn, Good(a, insn), NEW o
  PROVE  GoodType(WithContext(a.ctx, o), FALSE)
  BY SoundWithContext DEF Good, Fine, GoodType

-----------------------------------------------------------------------------
(***************************************************************************)
(* What the operators of an instruction leave.                             *)
(***************************************************************************)
LEMMA OpKey == ASSUME NEW insn, NEW k \in DOMAIN insn.op PROVE MayKey(insn.op[k], insn)
  BY DEF MayKey

\* The types the transfer functions make up are sound.
LEMMA MadeUp ==
  /\ \A n : Sound(SInt(n)) /\ Sound(UInt(n)) /\ Sound(Float(n)) /\ Sound(Bool)
  /\ \A s, n : Sound(IntegerType(s, n))
<1>1. \A n : Sound(SInt(n)) /\ Sound(UInt(n)) /\ Sound(Float(n)) /\ Sound(Bool)
  BY SoundBase DEF SInt, UInt, Float, Bool
<1> QED
  BY <1>1 DEF IntegerType

LEMMA Choice3 ==
  ASSUME NEW lea, NEW f1, NEW f2, NEW f3, GoodFact(f1, lea), GoodFact(f2, lea), GoodFact(f3, lea)
  PROVE  GoodFact(Choose1(<<f1, f2, f3>>), lea)
<1>1. PICK fs : fs = <<f1, f2, f3>>
  OBVIOUS
<1>2. DOMAIN fs = 1 .. 3 /\ fs[1] = f1 /\ fs[2] = f2 /\ fs[3] = f3
  BY <1>1
<1>3. \A i \in DOMAIN fs : GoodFact(fs[i], lea)
  BY <1>2
<1> QED
  BY <1>1, <1>2, <1>3, ChoiceGood

LEMMA Choice5 ==
  ASSUME NEW lea, NEW f1, NEW f2, NEW f3, NEW f4, NEW f5,
         GoodFact(f1, lea), GoodFact(f2, lea), GoodFact(f3, lea), GoodFact(f4, lea), GoodFact(f5, lea)
  PROVE  GoodFact(Choose1(<<f1, f2, f3, f4, f5>>), lea)
<1>1. PICK fs : fs = <<f1, f2, f3, f4, f5>>
  OBVIOUS
<1>2. DOMAIN fs = 1 .. 5 /\ fs[1] = f1 /\ fs[2] = f2 /\ fs[3] = f3 /\ fs[4] = f4 /\ fs[5] = f5
  BY <1>1
<1>3. \A i \in DOMAIN fs : GoodFact(fs[i], lea)
  BY <1>2
<1> QED
  BY <1>1, <1>2, <1>3, ChoiceGood

\* One type for both operands.
LEMMA BothSet ==
  ASSUME NEW a, NEW insn, Good(a, insn), NEW o, MayKey(o, insn), NEW q, MayKey(q, insn),
         NEW t, Sound(t), NEW u, Sound(u)
  PROVE  Good(Set(Set(a, o, t), q, u), insn)
<1>1. PICK b : b = Set(a, o, t)
  OBVIOUS
<1>2. Good(b, insn)
  BY <1>1, GoodSet
<1> QED
  BY <1>1, <1>2, GoodSet

LEMMA SrcGood ==
  ASSUME NEW p, InfoOK(p), NEW a, NEW insn, Good(a, insn), NEW c, NEW on \in BOOLEAN,
         1 \in DOMAIN insn.op, 2 \in DOMAIN insn.op
  PROVE  Good(Src123Dst13(p, a, c, insn, on), insn)
<1>1. PICK o0, o1 : o0 = insn.op[1] /\ o1 = insn.op[2]
  OBVIOUS
<1>2. MayKey(o0, insn) /\ MayKey(o1, insn)
  BY <1>1, OpKey
<1>3. PICK f : f = Choose1(<<WithKnown(p, a, c, insn, o1, FALSE), Fact(WithContext(a.ctx, o1)),
                             WithKnown(p, a, c, insn, o0, FALSE),
                             WithUnknown(p, a, c, o1, FALSE, on), WithUnknown(p, a, c, o0, FALSE, on)>>)
  OBVIOUS
<1>4. GoodFact(f, FALSE)
  <2>1. GoodFact(WithKnown(p, a, c, insn, o1, FALSE), FALSE)
    BY KnownGood
  <2>2. GoodFact(Fact(WithContext(a.ctx, o1)), FALSE)
    BY ContextGood, FactOf
  <2>3. GoodFact(WithKnown(p, a, c, insn, o0, FALSE), FALSE)
    BY KnownGood
  <2>4. GoodFact(WithUnknown(p, a, c, o1, FALSE, on), FALSE)
    BY UnknownGood
  <2>5. GoodFact(WithUnknown(p, a, c, o0, FALSE, on), FALSE)
    BY UnknownGood
  <2> QED
    BY <1>3, <2>1, <2>2, <2>3, <2>4, <2>5, Choice5
<1>5. Src123Dst13(p, a, c, insn, on) =
        IF IsImm(o1) THEN a
        ELSE IF f = NoFact THEN [a EXCEPT !.ctx = RemoveOP(@, o0)]
        ELSE Set(Set(Learn(a, f), o1, f.type), o0, f.type)
  BY <1>1, <1>3 DEF Src123Dst13
<1>6. CASE f # NoFact
  <2>1. Sound(f.type) /\ f.var \in Seq(VarInfo)
    BY <1>4, <1>6 DEF GoodFact
  <2>2. Good(Learn(a, f), insn)
    BY <2>1, GoodLearn
  <2>3. Good(Set(Set(Learn(a, f), o1, f.type), o0, f.type), insn)
    BY <1>2, <2>1, <2>2, BothSet
  <2> QED
    BY <1>5, <1>6, <2>3
<1>7. Good([a EXCEPT !.ctx = RemoveOP(@, o0)], insn)
  BY GoodRemoved
<1> QED
  BY <1>5, <1>6, <1>7

LEMMA MovGood ==
  ASSUME NEW p, InfoOK(p), NEW a, NEW insn, Good(a, insn), NEW c, NEW on \in BOOLEAN,
         1 \in DOMAIN insn.op, 2 \in DOMAIN insn.op
  PROVE  Good(ForwardMOV(p, a, c, insn, on), insn)
<1>1. PICK o0, o1 : o0 = insn.op[1] /\ o1 = insn.op[2]
  OBVIOUS
<1>2. MayKey(o0, insn) /\ MayKey(o1, insn)
  BY <1>1, OpKey
<1> DEFINE canary == /\ IsMem(o1) /\ o1.seg = "fs" /\ o1.base = NoReg
                     /\ o1.index = NoReg /\ o1.disp = 40
           width == IF IsReg(o0) THEN RegWidth(o0.reg) ELSE o0.size
           t == IF IsXMMReg(o0) THEN Float(o1.size) ELSE SInt(width)
<1>3. Good(Set(Set(a, o0, UInt(8)), o1, UInt(8)), insn)
  BY <1>2, MadeUp, BothSet
<1>4. Good(Set(a, o0, SInt(width)), insn)
  BY <1>2, MadeUp, GoodSet
<1>5. Good(Set(Set(a, o0, t), o1, t), insn)
  BY <1>2, MadeUp, BothSet
<1>6. Good(Src123Dst13(p, a, c, insn, on), insn)
  BY SrcGood
<1>7. ForwardMOV(p, a, c, insn, on) \in
        {Set(Set(a, o0, UInt(8)), o1, UInt(8)), Set(a, o0, SInt(width)),
         Set(Set(a, o0, t), o1, t), Src123Dst13(p, a, c, insn, on)}
  <2>1. IsImm(o1) => ~ canary
    BY DEF IsImm, IsMem
  <2> QED
    BY <1>1, <2>1 DEF ForwardMOV, IsGlobalMem, IsMem, IsImm
<1> HIDE DEF canary, width, t
<1> QED
  BY <1>3, <1>4, <1>5, <1>6, <1>7

LEMMA LogicGood ==
  ASSUME NEW p, InfoOK(p), NEW a, NEW insn, Good(a, insn), NEW c, NEW on \in BOOLEAN,
         1 \in DOMAIN insn.op, 2 \in DOMAIN insn.op
  PROVE  Good(ForwardLOGIC(p, a, c, insn, on), insn)
  BY MadeUp, OpKey, GoodInsert, SrcGood DEF ForwardLOGIC

\* A comparison of an SSE register with a global: the global has the type the
\* register has then.
LEMMA FloatGood ==
  ASSUME NEW a, NEW insn, Good(a, insn), NEW o, MayKey(o, insn), NEW q, MayKey(q, insn), NEW n, NEW b,
         b = [a EXCEPT !.ctx = Insert(@, o, Float(n))]
  PROVE  Good(Set(b, q, b.ctx[o]), insn)
<1>1. Good(b, insn)
  BY MadeUp, GoodInsert
<1>2. b.ctx = Insert(a.ctx, o, Float(n))
  BY DEF Good, Shaped
<1>3. o \in DOMAIN b.ctx
  BY <1>2 DEF Insert, Put
<1>4. Sound(b.ctx[o])
  BY <1>1, <1>3 DEF Good, Fine, SoundContext
<1> QED
  BY <1>1, <1>4, GoodSet

LEMMA CmpGood ==
  ASSUME NEW p, InfoOK(p), NEW a, NEW insn, Good(a, insn), NEW c, NEW on \in BOOLEAN,
         1 \in DOMAIN insn.op, 2 \in DOMAIN insn.op
  PROVE  Good(ForwardCMP(p, a, c, insn, on), insn)
<1>1. PICK o0, o1 : o0 = insn.op[1] /\ o1 = insn.op[2]
  OBVIOUS
<1>2. MayKey(o0, insn) /\ MayKey(o1, insn)
  BY <1>1, OpKey
<1>3. PICK b : b = [a EXCEPT !.ctx = Insert(@, o0, Float(o1.size))]
  OBVIOUS
<1>4. Good(Set(b, o1, b.ctx[o0]), insn)
  BY <1>2, <1>3, FloatGood
<1>5. Good([a EXCEPT !.ctx = Insert(@, o0, SInt(SizeOf(a, o0)))], insn)
  BY <1>2, MadeUp, GoodInsert
<1> QED
  BY <1>1, <1>3, <1>4, <1>5, SrcGood DEF ForwardCMP

LEMMA AddGood ==
  ASSUME NEW a, NEW insn, Good(a, insn), NEW o, MayKey(o, insn), NEW q, MayKey(q, insn),
         NEW t, Sound(t), NEW u, Sound(u)
  PROVE  Good(AddTo(a, o, q, t, u), insn)
<1>1. PICK b, c : b = [a EXCEPT !.ctx = Insert(@, q, t)] /\ c = [a EXCEPT !.ctx = Insert(@, q, u)]
  OBVIOUS
<1>2. Good(b, insn) /\ Good(c, insn)
  BY <1>1, GoodInsert
<1>3. Good(Set(b, o, t), insn) /\ Good(Set(c, o, t), insn)
  BY <1>2, GoodSet
<1> QED
  BY <1>1, <1>3 DEF AddTo

LEMMA AddSubGood ==
  ASSUME NEW p, InfoOK(p), NEW a, NEW insn, Good(a, insn), NEW c, NEW on \in BOOLEAN,
         1 \in DOMAIN insn.op, 2 \in DOMAIN insn.op
  PROVE  Good(ForwardADDSUB(p, a, c, insn, on), insn)
<1>1. PICK o0, o1 : o0 = insn.op[1] /\ o1 = insn.op[2]
  OBVIOUS
<1>2. MayKey(o0, insn) /\ MayKey(o1, insn)
  BY <1>1, OpKey
<1> DEFINE fact(o) == Choose1(<<Fact(WithContext(a.ctx, o)), WithKnown(p, a, c, insn, o, FALSE),
                                WithUnknown(p, a, c, o, FALSE, on)>>)
<1>3. ASSUME NEW o PROVE GoodFact(fact(o), FALSE)
  <2>1. GoodFact(Fact(WithContext(a.ctx, o)), FALSE)
    BY ContextGood, FactOf
  <2>2. GoodFact(WithKnown(p, a, c, insn, o, FALSE), FALSE)
    BY KnownGood
  <2>3. GoodFact(WithUnknown(p, a, c, o, FALSE, on), FALSE)
    BY UnknownGood
  <2> QED
    BY <2>1, <2>2, <2>3, Choice3
<1>4. PICK f0, f1 : f0 = fact(o0) /\ f1 = fact(o1)
  OBVIOUS
<1>5. ForwardADDSUB(p, a, c, insn, on) =
        IF IsImm(o1) \/ o0 = Reg("rsp") THEN a
        ELSE IF f0 # NoFact THEN AddTo(Learn(a, f0), o0, o1, f0.type, SInt(SizeOf(a, o1)))
        ELSE IF f1 # NoFact THEN AddTo(Learn(a, f1), o1, o0, f1.type, f1.type)
        ELSE a
  BY <1>1, <1>4 DEF ForwardADDSUB
<1>6. CASE f0 # NoFact
  <2>1. Sound(f0.type) /\ f0.var \in Seq(VarInfo)
    BY <1>3, <1>4, <1>6 DEF GoodFact
  <2>2. Good(Learn(a, f0), insn)
    BY <2>1, GoodLearn
  <2>3. Good(AddTo(Learn(a, f0), o0, o1, f0.type, SInt(SizeOf(a, o1))), insn)
    BY <1>2, <2>1, <2>2, MadeUp, AddGood
  <2> QED
    BY <1>5, <1>6, <2>3
<1>7. CASE f1 # NoFact
  <2>1. Sound(f1.type) /\ f1.var \in Seq(VarInfo)
    BY <1>3, <1>4, <1>7 DEF GoodFact
  <2>2. Good(Learn(a, f1), insn)
    BY <2>1, GoodLearn
  <2>3. Good(AddTo(Learn(a, f1), o1, o0, f1.type, f1.type), insn)
    BY <1>2, <2>1, <2>2, AddGood
  <2> QED
    BY <1>5, <1>6, <1>7, <2>3
<1> QED
  BY <1>5, <1>6, <1>7

\* The first object a pointer points to.
LEMMA ObjectGood ==
  ASSUME NEW a, NEW insn, Good(a, insn), NEW o, MayKey(o, insn),
         NEW t, Sound(t), IsPointerType(t)
  PROVE  Good(SetObject(a, o, t), insn)
<1>1. Tame(t.obj)
  BY TameObject DEF Sound
<1>2. PICK u : u = FirstVType(t.obj, o.size)
  OBVIOUS
<1>3. u # Void => Sound(u)
  BY <1>1, <1>2, SoundFirst
<1>4. SetObject(a, o, t) = IF t.obj = Void \/ u = Void THEN a ELSE Set(a, o, u)
  BY <1>2 DEF SetObject
<1> QED
  BY <1>3, <1>4, GoodSet

\* An integer type of another width.
LEMMA Resized ==
  ASSUME NEW t, Sound(t), t.tag = "base", NEW n
  PROVE  Sound([t EXCEPT !.size = n])
<1>1. t = Base(t.kind, t.size)
  BY DEF Sound, Tame, ClosedTypes
<1>2. PICK u : u = [t EXCEPT !.size = n]
  OBVIOUS
<1>3. u = Base(t.kind, n)
  BY <1>1, <1>2 DEF Base
<1> QED
  BY <1>2, <1>3, SoundBase

LEMMA LeaGood ==
  ASSUME NEW p, InfoOK(p), NEW a, NEW insn, Good(a, insn), NEW c, NEW on \in BOOLEAN,
         1 \in DOMAIN insn.op, 2 \in DOMAIN insn.op
  PROVE  Good(ForwardLEA(p, a, c, insn, on), insn)
<1>1. PICK o0, o1 : o0 = insn.op[1] /\ o1 = insn.op[2]
  OBVIOUS
<1>2. MayKey(o0, insn) /\ MayKey(o1, insn)
  BY <1>1, OpKey
<1>3. PICK base, known, inCtx, fresh :
        /\ base = Reg(o1.base)
        /\ known = WithKnown(p, a, c, insn, o1, TRUE)
        /\ inCtx = WithContext(a.ctx, o1)
        /\ fresh = WithUnknown(p, a, c, o1, TRUE, on)
  OBVIOUS
<1>4. GoodFact(known, TRUE) /\ GoodFact(fresh, TRUE) /\ GoodType(inCtx, FALSE)
  BY <1>3, KnownGood, UnknownGood, ContextGood
<1> DEFINE sum == /\ o1.index = NoReg /\ o1.seg = NoReg /\ base \in DOMAIN a.ctx
                  /\ IsIntegerType(a.ctx[base])
           added == Set(Set(a, o0, [a.ctx[base] EXCEPT !.size = SizeOf(a, o0)]), o1, SInt(8))
           ofKnown == SetObject(Set(a, o0, known.type), o1, known.type)
           ofCtx == Set(Set(a, o1, inCtx), o0, Pointer(inCtx))
           ofFresh == SetObject(Set(Learn(a, fresh), o0, fresh.type), o1, fresh.type)
           removed == [a EXCEPT !.ctx = RemoveOP(@, o0)]
<1>5. ForwardLEA(p, a, c, insn, on) =
        CASE sum -> added
          [] ~sum /\ known # NoFact -> ofKnown
          [] ~sum /\ known = NoFact /\ inCtx # NoType -> ofCtx
          [] ~sum /\ known = NoFact /\ inCtx = NoType /\ fresh # NoFact -> ofFresh
          [] OTHER -> removed
  BY <1>1, <1>3 DEF ForwardLEA
<1>6. ASSUME sum PROVE Good(added, insn)
  <2>1. Sound(a.ctx[base]) /\ a.ctx[base].tag = "base"
    BY <1>6 DEF IsIntegerType, Good, Fine, SoundContext
  <2>2. Sound([a.ctx[base] EXCEPT !.size = SizeOf(a, o0)])
    BY <2>1, Resized
  <2> QED
    BY <1>2, <2>2, MadeUp, BothSet
<1>7. ASSUME known # NoFact PROVE Good(ofKnown, insn)
  <2>1. Sound(known.type) /\ IsPointerType(known.type)
    BY <1>4, <1>7 DEF GoodFact
  <2>2. Good(Set(a, o0, known.type), insn)
    BY <1>2, <2>1, GoodSet
  <2> QED
    BY <1>2, <2>1, <2>2, ObjectGood
<1>8. ASSUME inCtx # NoType PROVE Good(ofCtx, insn)
  <2>1. Sound(inCtx) /\ Sound(Pointer(inCtx))
    BY <1>4, <1>8, SoundPointer DEF GoodType, Sound
  <2> QED
    BY <1>2, <2>1, BothSet
<1>9. ASSUME fresh # NoFact PROVE Good(ofFresh, insn)
  <2>1. Sound(fresh.type) /\ IsPointerType(fresh.type) /\ fresh.var \in Seq(VarInfo)
    BY <1>4, <1>9 DEF GoodFact
  <2>2. Good(Learn(a, fresh), insn)
    BY <2>1, GoodLearn
  <2>3. Good(Set(Learn(a, fresh), o0, fresh.type), insn)
    BY <1>2, <2>1, <2>2, GoodSet
  <2> QED
    BY <1>2, <2>1, <2>3, ObjectGood
<1>10. Good(removed, insn)
  BY GoodRemoved
<1> HIDE DEF sum, added, ofKnown, ofCtx, ofFresh, removed
<1> QED
  BY <1>5, <1>6, <1>7, <1>8, <1>9, <1>10

LEMMA ExtendGood ==
  ASSUME NEW a, NEW insn, Good(a, insn), NEW signed, 1 \in DOMAIN insn.op, 2 \in DOMAIN insn.op
  PROVE  Good(ForwardExtend(a, insn, signed), insn)
<1>1. PICK t, u : /\ t = IF insn.id = "movsxd" THEN SInt(4) ELSE IntegerType(signed, SizeOf(a, insn.op[2]))
                  /\ u = IF insn.id = "movsxd" THEN SInt(8) ELSE IntegerType(signed, SizeOf(a, insn.op[1]))
  OBVIOUS
<1>2. Sound(t) /\ Sound(u)
  BY <1>1, MadeUp
<1>3. PICK b : b = [a EXCEPT !.ctx = Insert(@, insn.op[2], t)]
  OBVIOUS
<1>4. Good(b, insn)
  BY <1>2, <1>3, OpKey, GoodInsert
<1>5. Good(Set(b, insn.op[1], u), insn)
  BY <1>2, <1>4, OpKey, GoodSet
<1>6. ForwardExtend(a, insn, signed) = Set(b, insn.op[1], u)
  BY <1>1, <1>3 DEF ForwardExtend
<1> QED
  BY <1>5, <1>6

\* A result comes in registers with sound types.
LEMMA ReturnSound ==
  ASSUME NEW t \in Type
  PROVE  \A r \in DOMAIN ReturnRegs(t) : Sound(ReturnRegs(t)[r])
<1>1. Tame(t) /\ Sound(Pointer(t))
  BY TypeTame, SoundPointer
<1>2. t.tag \in {"base", "pointer"} => Sound(t)
  BY <1>1 DEF Sound, ContextType
<1>3. t.tag = "base" => Sound([t EXCEPT !.size = 8])
  BY <1>2, Resized
<1>4. PICK q, u : /\ q = CHOOSE x \in {"al", "ax", "eax", "rax"} : RegWidth(x) = t.size
                  /\ u = [t EXCEPT !.size = 8]
  OBVIOUS
<1>5. ReturnRegs(t) =
        CASE t.tag = "base" /\ t.kind = "float" -> [r \in {"xmm0"} |-> t]
          [] t.tag = "base" /\ t.kind # "float" /\ t.size = 16 -> [r \in {"rax", "rdx"} |-> u]
          [] t.tag = "base" /\ t.kind # "float" /\ t.size < 16 -> [r \in {q} |-> t]
          [] t.tag = "pointer" -> [r \in {"rax"} |-> t]
          [] t.tag \in {"structure", "union"} /\ t.size > 128 -> [r \in {"rax"} |-> Pointer(t)]
          [] OTHER -> <<>>
  BY <1>4 DEF ReturnRegs
<1>6. PICK f : f = ReturnRegs(t)
  OBVIOUS
<1>7. \/ f = [r \in {"xmm0"} |-> t] /\ Sound(t)
      \/ f = [r \in {"rax", "rdx"} |-> u] /\ Sound(u)
      \/ f = [r \in {q} |-> t] /\ Sound(t)
      \/ f = [r \in {"rax"} |-> t] /\ Sound(t)
      \/ f = [r \in {"rax"} |-> Pointer(t)]
      \/ f = <<>>
  BY <1>2, <1>3, <1>4, <1>5, <1>6
<1>8. \A r \in DOMAIN f : Sound(f[r])
  BY <1>1, <1>7
<1> QED
  BY <1>6, <1>8

LEMMA NoteABIGood ==
  ASSUME NEW a, NEW insn, Good(a, insn), NEW R
  PROVE  Good(NoteABI(a, R), insn) /\ NoteABI(a, R).ctx = a.ctx
  BY GoodNote DEF NoteABI

LEMMA InsertRegsGood ==
  ASSUME NEW a, NEW insn, Good(a, insn), NEW regs, \A r \in DOMAIN regs : Sound(regs[r])
  PROVE  Good(InsertRegs(a, regs), insn)
<1>1. PICK b, add : /\ b = NoteABI(a, DOMAIN regs)
                    /\ add = [o \in {Reg(r) : r \in DOMAIN regs} |-> regs[o.reg]]
  OBVIOUS
<1>2. Good(b, insn)
  BY <1>1, NoteABIGood
<1>3. Fine(add, insn)
  <2>1. ASSUME NEW o \in DOMAIN add PROVE Sound(add[o]) /\ MayKey(o, insn)
    <3>1. PICK r \in DOMAIN regs : o = Reg(r)
      BY <1>1
    <3>2. add[o] = regs[r]
      BY <1>1, <3>1 DEF Reg
    <3> QED
      BY <3>1, <3>2, RegKey
  <2> QED
    BY <2>1 DEF Fine, SoundContext, OwnKeys
<1>4. PICK ctxs : ctxs = <<b.ctx, add>>
  OBVIOUS
<1>5. DOMAIN ctxs = 1 .. 2 /\ ctxs[1] = b.ctx /\ ctxs[2] = add
  BY <1>4
<1>6. \A i \in DOMAIN ctxs : Fine(ctxs[i], insn)
  BY <1>2, <1>3, <1>5 DEF Good
<1>7. Fine(UnionContext(ctxs), insn)
  BY <1>5, <1>6, FineUnion
<1>8. InsertRegs(a, regs) = [b EXCEPT !.ctx = UnionContext(ctxs)]
  BY <1>1, <1>4 DEF InsertRegs
<1> QED
  BY <1>2, <1>7, <1>8, GoodWith DEF Good

LEMMA CallGood ==
  ASSUME NEW p, InfoOK(p), NEW a, NEW insn, Good(a, insn)
  PROVE  Good(ForwardCall(p, a, insn), insn)
<1>1. PICK b, T : b = [a EXCEPT !.ctx = ClearCalled(@)] /\ T = Targets(p, insn)
  OBVIOUS
<1>2. Good(b, insn)
  BY <1>1, GoodRemoved
<1>3. PICK x : x = CHOOSE t \in T : TRUE
  OBVIOUS
<1>4. ForwardCall(p, a, insn) = IF T = {} THEN b ELSE InsertRegs(b, ReturnRegs(p.callee[x].ret))
  BY <1>1, <1>3 DEF ForwardCall
<1>5. T # {} => x \in DOMAIN p.callee
  BY <1>1, <1>3 DEF Targets
<1>6. T # {} => p.callee[x].ret \in Type
  BY <1>5 DEF InfoOK
<1> QED
  BY <1>2, <1>4, <1>6, ReturnSound, InsertRegsGood

\* The switch, by groups of instructions.
LEMMA WidenGood ==
  ASSUME NEW a, NEW insn, Good(a, insn), insn.id \in Widening
  PROVE  Good(ForwardWiden(a, insn), insn) /\ Good(BackwardWiden(a, insn), insn)
<1> DEFINE rax == {"al", "ax", "eax", "rax"}
<1>1. ASSUME NEW ctx, Fine(ctx, insn), NEW r, NEW n PROVE Good([a EXCEPT !.ctx = Insert(ctx, Reg(r), SInt(n))], insn)
  <2>1. Fine(Insert(ctx, Reg(r), SInt(n)), insn)
    BY <1>1, RegKey, MadeUp, FineInsert
  <2> QED
    BY <2>1, GoodWith DEF Good
<1>2. /\ \A r : Fine(RemoveReg(a.ctx, r), insn)
      /\ \A R : Fine(RemoveRegs(a.ctx, R), insn)
  BY FineRemoved DEF Good
<1>3. \A R : Good([a EXCEPT !.ctx = RemoveRegs(@, R)], insn)
  BY GoodRemoved
<1>4. CASE insn.id = "cdq"
  BY <1>3, <1>4 DEF ForwardWiden, BackwardWiden
<1>5. CASE insn.id = "cbw"
  <2>1. ForwardWiden(a, insn) = [a EXCEPT !.ctx = Insert(RemoveReg(a.ctx, "ah"), Reg("ax"), SInt(2))]
    BY <1>5 DEF ForwardWiden
  <2>2. BackwardWiden(a, insn) = [a EXCEPT !.ctx = RemoveRegs(@, rax)]
    BY <1>5 DEF BackwardWiden
  <2> QED
    BY <1>1, <1>2, <1>3, <2>1, <2>2
<1>6. CASE insn.id = "cwde"
  <2>1. ForwardWiden(a, insn) = [a EXCEPT !.ctx = Insert(RemoveRegs(a.ctx, rax), Reg("ax"), SInt(2))]
    BY <1>6 DEF ForwardWiden
  <2>2. BackwardWiden(a, insn) = [a EXCEPT !.ctx = Insert(RemoveRegs(a.ctx, rax), Reg("al"), SInt(1))]
    BY <1>6 DEF BackwardWiden
  <2> QED
    BY <1>1, <1>2, <2>1, <2>2
<1>7. CASE insn.id = "cdqe"
  <2>1. ForwardWiden(a, insn) = [a EXCEPT !.ctx = Insert(RemoveRegs(a.ctx, rax), Reg("rax"), SInt(8))]
    BY <1>7 DEF ForwardWiden
  <2>2. BackwardWiden(a, insn) = [a EXCEPT !.ctx = Insert(RemoveRegs(a.ctx, rax), Reg("eax"), SInt(4))]
    BY <1>7 DEF BackwardWiden
  <2> QED
    BY <1>1, <1>2, <2>1, <2>2
<1> QED
  BY <1>4, <1>5, <1>6, <1>7 DEF Widening

LEMMA X87Good ==
  ASSUME NEW a, NEW insn, Good(a, insn), insn.id \in X87, 1 \in DOMAIN insn.op
  PROVE  Good(ForwardX87(a, insn), insn) /\ Good(BackwardX87(a, insn), insn)
<1>1. PICK o : o = insn.op[1] /\ MayKey(o, insn)
  BY OpKey
<1>2. Good([a EXCEPT !.ctx = RemoveOP(@, o)], insn)
  BY GoodRemoved
<1>3. \A n : Good(Set(a, o, Float(n)), insn) /\ Good(Set(a, o, SInt(n)), insn)
  BY <1>1, MadeUp, GoodSet
<1> QED
  BY <1>1, <1>2, <1>3 DEF ForwardX87, BackwardX87, X87

LEMMA SetccGood ==
  ASSUME NEW a, NEW insn, Good(a, insn), 1 \in DOMAIN insn.op, NEW r
  PROVE  Good([a EXCEPT !.ctx = Insert(RemoveReg(@, r), insn.op[1], Bool)], insn)
<1>1. PICK ctx : ctx = RemoveReg(a.ctx, r)
  OBVIOUS
<1>2. Fine(ctx, insn)
  BY <1>1, FineRemoved DEF Good
<1>3. Fine(Insert(ctx, insn.op[1], Bool), insn)
  BY <1>2, OpKey, MadeUp, FineInsert
<1> QED
  BY <1>1, <1>3, GoodWith DEF Good

\* An instruction has the operands of its family.
Formed(insn) ==
  /\ Arity(insn.id) >= 1 => 1 \in DOMAIN insn.op
  /\ Arity(insn.id) >= 2 => 2 \in DOMAIN insn.op

LEMMA FormedOps ==
  ASSUME NEW insn, Formed(insn)
  PROVE  /\ insn.id \in {"mov", "lea", "movzx", "movsx", "movsxd", "cmp", "logic", "add", "sub"}
              => 1 \in DOMAIN insn.op /\ 2 \in DOMAIN insn.op
         /\ insn.id \in {"call", "setcc", "clobber", "fld", "fist"} => 1 \in DOMAIN insn.op
  BY DEF Formed, Arity

LEMMA ArithmeticGood ==
  ASSUME NEW p, InfoOK(p), NEW a, NEW insn, Good(a, insn), NEW c, NEW on \in BOOLEAN,
         Formed(insn), insn.id \in Arithmetic
  PROVE  Good(ForwardArithmetic(p, a, c, insn, on), insn)
<1>1. CASE insn.id = "cmp"
  BY <1>1, FormedOps, CmpGood DEF ForwardArithmetic
<1>2. CASE insn.id = "logic"
  BY <1>2, FormedOps, LogicGood DEF ForwardArithmetic
<1>3. CASE insn.id = "setcc"
  BY <1>3, FormedOps, SetccGood DEF ForwardArithmetic
<1>4. CASE insn.id \in {"add", "sub"}
  BY <1>4, FormedOps, AddSubGood DEF ForwardArithmetic
<1> QED
  BY <1>1, <1>2, <1>3, <1>4 DEF Arithmetic

\* A forward step leaves a context behind its instruction.
LEMMA ForwardGood ==
  ASSUME NEW p, InfoOK(p), NEW a, NEW insn, Good(a, insn), NEW c, NEW on \in BOOLEAN, Formed(insn)
  PROVE  Good(Forward(p, a, c, insn, on), insn)
<1>1. CASE insn.id = "call"
  <2>1. Forward(p, a, c, insn, on) = ForwardCall(p, a, insn)
    BY <1>1 DEF Forward, Widening, X87, Arithmetic
  <2> QED
    BY <1>1, <2>1, CallGood
<1>2. CASE insn.id = "movzx"
  <2>1. Forward(p, a, c, insn, on) = ForwardExtend(a, insn, FALSE)
    BY <1>2 DEF Forward, Widening, X87, Arithmetic
  <2> QED
    BY <1>2, <2>1, FormedOps, ExtendGood
<1>3. CASE insn.id \in {"movsx", "movsxd"}
  <2>1. Forward(p, a, c, insn, on) = ForwardExtend(a, insn, TRUE)
    BY <1>3 DEF Forward, Widening, X87, Arithmetic
  <2> QED
    BY <1>3, <2>1, FormedOps, ExtendGood
<1>4. CASE insn.id = "mov"
  <2>1. Forward(p, a, c, insn, on) = ForwardMOV(p, a, c, insn, on)
    BY <1>4 DEF Forward, Widening, X87, Arithmetic
  <2> QED
    BY <1>4, <2>1, FormedOps, MovGood
<1>5. CASE insn.id = "lea"
  <2>1. Forward(p, a, c, insn, on) = ForwardLEA(p, a, c, insn, on)
    BY <1>5 DEF Forward, Widening, X87, Arithmetic
  <2> QED
    BY <1>5, <2>1, FormedOps, LeaGood
<1>6. CASE insn.id \in Widening
  <2>1. Forward(p, a, c, insn, on) = ForwardWiden(a, insn)
    BY <1>6 DEF Forward, Widening, X87, Arithmetic
  <2> QED
    BY <1>6, <2>1, WidenGood
<1>7. CASE insn.id \in X87
  <2>1. Forward(p, a, c, insn, on) = ForwardX87(a, insn)
    BY <1>7 DEF Forward, Widening, X87, Arithmetic
  <2> QED
    BY <1>7, <2>1, FormedOps, X87Good DEF X87
<1>8. CASE insn.id \in Arithmetic
  <2>1. Forward(p, a, c, insn, on) = ForwardArithmetic(p, a, c, insn, on)
    BY <1>8 DEF Forward, Widening, X87, Arithmetic
  <2> QED
    BY <1>8, <2>1, ArithmeticGood
<1>9. CASE insn.id \notin {"call", "movzx", "movsx", "movsxd", "mov", "lea"} \union Widening \union X87 \union Arithmetic
  <2>1. Forward(p, a, c, insn, on) = a
    BY <1>9 DEF Forward
  <2> QED
    BY <2>1
<1> QED
  BY <1>1, <1>2, <1>3, <1>4, <1>5, <1>6, <1>7, <1>8, <1>9

-----------------------------------------------------------------------------
\* Backward.

LEMMA EqGood ==
  ASSUME NEW a, NEW insn, Good(a, insn), 1 \in DOMAIN insn.op, 2 \in DOMAIN insn.op
  PROVE  Good(BackwardEQ(a, insn), insn)
<1>1. PICK t0, t1 : t0 = WithContext(a.ctx, insn.op[1]) /\ t1 = WithContext(a.ctx, insn.op[2])
  OBVIOUS
<1>2. GoodType(t0, FALSE) /\ GoodType(t1, FALSE)
  BY <1>1, ContextGood
<1>3. PICK t : t = IF t0 # NoType /\ t1 # NoType THEN UnionVType(t0, t1)
                   ELSE IF t0 # NoType THEN t0 ELSE t1
  OBVIOUS
<1>4. t = NoType \/ Sound(t)
  BY <1>2, <1>3, SoundUnion DEF GoodType
<1>5. BackwardEQ(a, insn) = IF t = NoType THEN a ELSE Set(Set(a, insn.op[1], t), insn.op[2], t)
  BY <1>1, <1>3 DEF BackwardEQ
<1>6. MayKey(insn.op[1], insn) /\ MayKey(insn.op[2], insn)
  BY OpKey
<1> QED
  BY <1>4, <1>5, <1>6, BothSet

LEMMA DstGood ==
  ASSUME NEW a, NEW insn, Good(a, insn), 2 \in DOMAIN insn.op
  PROVE  Good(BackwardDst1(a, insn), insn)
<1>1. PICK t : t = WithContext(a.ctx, insn.op[1])
  OBVIOUS
<1>2. PICK b : b = IF t = NoType THEN a ELSE Set(a, insn.op[2], t)
  OBVIOUS
<1>3. Good(b, insn)
  BY <1>1, <1>2, ContextGood, OpKey, GoodSet DEF GoodType
<1>4. BackwardDst1(a, insn) = [b EXCEPT !.ctx = RemoveOP(@, insn.op[1])]
  BY <1>1, <1>2 DEF BackwardDst1
<1>5. Good([b EXCEPT !.ctx = RemoveOP(@, insn.op[1])], insn)
  BY <1>3, GoodRemoved
<1> QED
  BY <1>4, <1>5

LEMMA BackMovGood ==
  ASSUME NEW a, NEW insn, Good(a, insn), 2 \in DOMAIN insn.op
  PROVE  Good(BackwardMOV(a, insn), insn)
  BY DstGood DEF BackwardMOV

LEMMA BackLeaGood ==
  ASSUME NEW a, NEW insn, Good(a, insn), 2 \in DOMAIN insn.op
  PROVE  Good(BackwardLEA(a, insn), insn)
<1>1. PICK t : t = WithContext(a.ctx, insn.op[1])
  OBVIOUS
<1>2. PICK b : b = IF t # NoType THEN SetObject(a, insn.op[2], t) ELSE a
  OBVIOUS
<1>3. BackwardLEA(a, insn) = IF t # NoType /\ ~IsPointerType(t) THEN a
                             ELSE [b EXCEPT !.ctx = RemoveOP(@, insn.op[1])]
  BY <1>1, <1>2 DEF BackwardLEA
<1>4. ASSUME t = NoType \/ IsPointerType(t) PROVE Good([b EXCEPT !.ctx = RemoveOP(@, insn.op[1])], insn)
  <2>1. Good(b, insn)
    BY <1>1, <1>2, <1>4, ContextGood, OpKey, ObjectGood DEF GoodType
  <2> QED
    BY <2>1, GoodRemoved
<1> QED
  BY <1>3, <1>4

LEMMA BackAddGood ==
  ASSUME NEW a, NEW insn, Good(a, insn), 1 \in DOMAIN insn.op, 2 \in DOMAIN insn.op
  PROVE  Good(BackwardADDSUB(a, insn), insn)
<1>1. PICK o0, o1 : o0 = insn.op[1] /\ o1 = insn.op[2]
  OBVIOUS
<1>2. MayKey(o0, insn) /\ MayKey(o1, insn)
  BY <1>1, OpKey
<1>3. PICK t0, t1 : t0 = WithContext(a.ctx, o0) /\ t1 = WithContext(a.ctx, o1)
  OBVIOUS
<1>4. GoodType(t0, FALSE) /\ GoodType(t1, FALSE)
  BY <1>3, ContextGood
<1>5. BackwardADDSUB(a, insn) =
        IF IsImm(o1) \/ o0 = Reg("rsp") THEN a
        ELSE IF t0 # NoType THEN AddTo(a, o0, o1, t0, SInt(SizeOf(a, o1)))
        ELSE IF t1 # NoType THEN AddTo(a, o1, o0, t1, t1)
        ELSE a
  BY <1>1, <1>3 DEF BackwardADDSUB
<1>6. t0 # NoType => Good(AddTo(a, o0, o1, t0, SInt(SizeOf(a, o1))), insn)
  BY <1>2, <1>4, MadeUp, AddGood DEF GoodType
<1>7. t1 # NoType => Good(AddTo(a, o1, o0, t1, t1), insn)
  BY <1>2, <1>4, AddGood DEF GoodType
<1> QED
  BY <1>5, <1>6, <1>7

LEMMA TestGood ==
  ASSUME NEW a, NEW insn, Good(a, insn), 1 \in DOMAIN insn.op, 2 \in DOMAIN insn.op
  PROVE  Good(BackwardTest(a, insn), insn)
<1>1. PICK o0, o1 : o0 = insn.op[1] /\ o1 = insn.op[2]
  OBVIOUS
<1>2. MayKey(o0, insn) /\ MayKey(o1, insn)
  BY <1>1, OpKey
<1>3. PICK b : b = [a EXCEPT !.ctx = Insert(@, o0, Float(o1.size))]
  OBVIOUS
<1>4. Good(Set(b, o1, b.ctx[o0]), insn)
  BY <1>2, <1>3, FloatGood
<1>5. PICK t : t = IF insn.id = "logic" THEN UInt(SizeOf(a, o0)) ELSE SInt(SizeOf(a, o0))
  OBVIOUS
<1>6. Good([a EXCEPT !.ctx = Insert(@, o0, t)], insn)
  BY <1>2, <1>5, MadeUp, GoodInsert
<1>7. BackwardTest(a, insn) =
        IF IsReg(o0) /\ IsImm(o1) /\ (insn.id = "logic" \/ o1.val # 0)
        THEN [a EXCEPT !.ctx = Insert(@, o0, t)]
        ELSE IF insn.id = "cmp" /\ IsXMMReg(o0) /\ IsGlobalMem(o1)
        THEN Set(b, o1, b.ctx[o0]) ELSE BackwardEQ(a, insn)
  BY <1>1, <1>3, <1>5 DEF BackwardTest
<1> QED
  BY <1>4, <1>6, <1>7, EqGood

LEMMA BackExtendGood ==
  ASSUME NEW a, NEW insn, Good(a, insn), NEW signed, 2 \in DOMAIN insn.op
  PROVE  Good(BackwardExtend(a, insn, signed), insn)
  BY MadeUp, OpKey, GoodSet DEF BackwardExtend

LEMMA BackArithmeticGood ==
  ASSUME NEW a, NEW insn, Good(a, insn), Formed(insn), insn.id \in Arithmetic
  PROVE  Good(BackwardArithmetic(a, insn), insn)
<1>1. CASE insn.id \in {"cmp", "logic"}
  BY <1>1, FormedOps, TestGood DEF BackwardArithmetic
<1>2. CASE insn.id = "setcc"
  BY <1>2, GoodRemoved DEF BackwardArithmetic
<1>3. CASE insn.id \in {"add", "sub"}
  BY <1>3, FormedOps, BackAddGood DEF BackwardArithmetic
<1> QED
  BY <1>1, <1>2, <1>3 DEF Arithmetic

\* An argument in a register has the type of its parameter.
LEMMA ParameterTypes ==
  ASSUME NEW ts
  PROVE  /\ DOMAIN ParameterRegs(ts) = DOMAIN ts
         /\ \A i \in DOMAIN ts : ParameterRegs(ts)[i][2] = ts[i]
  BY DEF ParameterRegs

LEMMA SetRegsGood ==
  ASSUME NEW a, NEW insn, Good(a, insn), NEW regs, Len(regs) \in Nat,
         DOMAIN regs = 1 .. Len(regs), \A i \in DOMAIN regs : Sound(regs[i][2])
  PROVE  Good(SetRegs(a, regs), insn)
<1>1. PICK n : n = Len(regs)
  OBVIOUS
<1>2. PICK b : b = NoteABI(a, {regs[i][1] : i \in DOMAIN regs})
  OBVIOUS
<1>3. Good(b, insn)
  BY <1>2, NoteABIGood
<1> DEFINE one(i) == [o \in {Reg(regs[i][1])} |-> regs[i][2]]
<1>4. PICK ctxs : ctxs = [k \in 1 .. n + 1 |-> IF k <= n THEN one(n + 1 - k) ELSE b.ctx]
  OBVIOUS
<1>5. ASSUME NEW i \in DOMAIN regs PROVE Fine(one(i), insn)
  <2>1. PICK q : q = Reg(regs[i][1])
    OBVIOUS
  <2>2. MayKey(q, insn)
    BY <2>1, RegKey
  <2>3. PICK c : c = one(i)
    OBVIOUS
  <2>4. DOMAIN c = {q} /\ c[q] = regs[i][2]
    BY <2>1, <2>3
  <2> QED
    BY <2>2, <2>3, <2>4 DEF Fine, SoundContext, OwnKeys
<1>6. DOMAIN ctxs \in SUBSET Nat
  BY <1>1, <1>4
<1>7. ASSUME NEW k \in DOMAIN ctxs PROVE Fine(ctxs[k], insn)
  <2> HIDE DEF one
  <2>1. k \in 1 .. n + 1 /\ ctxs[k] = IF k <= n THEN one(n + 1 - k) ELSE b.ctx
    BY <1>4
  <2>2. CASE k <= n
    <3>1. n + 1 - k \in DOMAIN regs
      BY <1>1, <2>1, <2>2
    <3> QED
      BY <1>5, <2>1, <2>2, <3>1
  <2>3. CASE ~ (k <= n)
    BY <1>3, <2>1, <2>3 DEF Good
  <2> QED
    BY <2>2, <2>3
<1>8. Fine(UnionContext(ctxs), insn)
  BY <1>6, <1>7, FineUnion
<1>9. SetRegs(a, regs) = [b EXCEPT !.ctx = UnionContext(ctxs)]
  BY <1>1, <1>2, <1>4 DEF SetRegs
<1> QED
  BY <1>3, <1>8, <1>9, GoodWith DEF Good

LEMMA BackCallGood ==
  ASSUME NEW p, InfoOK(p), NEW a, NEW insn, Good(a, insn)
  PROVE  Good(BackwardCall(p, a, insn), insn)
<1>1. PICK b, T : /\ b = [a EXCEPT !.ctx = ClearCalled(@)]
                  /\ T = {t \in Targets(p, insn) : p.callee[t].dyn}
  OBVIOUS
<1>2. Good(b, insn)
  BY <1>1, GoodRemoved
<1>3. PICK x : x = CHOOSE t \in T : TRUE
  OBVIOUS
<1>4. BackwardCall(p, a, insn) = IF T = {} THEN b ELSE SetRegs(b, ParameterRegs(p.callee[x].params))
  BY <1>1, <1>3 DEF BackwardCall
<1>5. ASSUME T # {} PROVE Good(SetRegs(b, ParameterRegs(p.callee[x].params)), insn)
  <2>1. x \in DOMAIN p.callee /\ p.callee[x].dyn
    BY <1>1, <1>3, <1>5 DEF Targets
  <2>2. PICK ts : ts = p.callee[x].params
    OBVIOUS
  <2>3. ts \in Seq(Type) /\ \A i \in DOMAIN ts : IsIntegerClass(ts[i]) \/ IsSSEClass(ts[i])
    BY <2>1, <2>2 DEF InfoOK
  <2>4. ASSUME NEW i \in DOMAIN ts PROVE Sound(ts[i])
    <3>1. ts[i] \in Type /\ (IsIntegerClass(ts[i]) \/ IsSSEClass(ts[i]))
      BY <2>3
    <3>2. ts[i].tag \in {"base", "pointer"}
      BY <3>1 DEF IsIntegerClass, IsSSEClass, IsPointerType, IsIntegerType, IsFloatType, Bool, Base
    <3> QED
      BY <3>1, <3>2, TypeTame DEF Sound, ContextType
  <2>5. PICK regs : regs = ParameterRegs(ts)
    OBVIOUS
  <2>6. DOMAIN regs = DOMAIN ts /\ \A i \in DOMAIN regs : Sound(regs[i][2])
    BY <2>4, <2>5, ParameterTypes
  <2>7. Len(ts) \in Nat /\ DOMAIN ts = 1 .. Len(ts)
    BY <2>3
  <2>8. Len(regs) = Len(ts)
    <3>1. regs = [i \in 1 .. Len(ts) |-> regs[i]]
      BY <2>5, <2>6, <2>7 DEF ParameterRegs
    <3> QED
      BY <2>7, <3>1
  <2> QED
    BY <1>2, <2>2, <2>5, <2>6, <2>7, <2>8, SetRegsGood
<1> QED
  BY <1>2, <1>4, <1>5

\* A backward step leaves a context in front of its instruction.
LEMMA BackwardGood ==
  ASSUME NEW p, InfoOK(p), NEW a, NEW insn, Good(a, insn), Formed(insn)
  PROVE  Good(Backward(p, a, insn), insn)
<1>1. CASE insn.id = "call"
  <2>1. Backward(p, a, insn) = BackwardCall(p, a, insn)
    BY <1>1 DEF Backward, Widening, X87, Arithmetic
  <2> QED
    BY <1>1, <2>1, BackCallGood
<1>2. CASE insn.id = "movzx"
  <2>1. Backward(p, a, insn) = BackwardExtend(a, insn, FALSE)
    BY <1>2 DEF Backward, Widening, X87, Arithmetic
  <2> QED
    BY <1>2, <2>1, FormedOps, BackExtendGood
<1>3. CASE insn.id \in {"movsx", "movsxd"}
  <2>1. Backward(p, a, insn) = BackwardExtend(a, insn, TRUE)
    BY <1>3 DEF Backward, Widening, X87, Arithmetic
  <2> QED
    BY <1>3, <2>1, FormedOps, BackExtendGood
<1>4. CASE insn.id = "mov"
  <2>1. Backward(p, a, insn) = BackwardMOV(a, insn)
    BY <1>4 DEF Backward, Widening, X87, Arithmetic
  <2> QED
    BY <1>4, <2>1, FormedOps, BackMovGood
<1>5. CASE insn.id = "lea"
  <2>1. Backward(p, a, insn) = BackwardLEA(a, insn)
    BY <1>5 DEF Backward, Widening, X87, Arithmetic
  <2> QED
    BY <1>5, <2>1, FormedOps, BackLeaGood
<1>6. CASE insn.id \in Widening
  <2>1. Backward(p, a, insn) = BackwardWiden(a, insn)
    BY <1>6 DEF Backward, Widening, X87, Arithmetic
  <2> QED
    BY <1>6, <2>1, WidenGood
<1>7. CASE insn.id \in X87
  <2>1. Backward(p, a, insn) = BackwardX87(a, insn)
    BY <1>7 DEF Backward, Widening, X87, Arithmetic
  <2> QED
    BY <1>7, <2>1, FormedOps, X87Good DEF X87
<1>8. CASE insn.id \in Arithmetic
  <2>1. Backward(p, a, insn) = BackwardArithmetic(a, insn)
    BY <1>8 DEF Backward, Widening, X87, Arithmetic
  <2> QED
    BY <1>8, <2>1, BackArithmeticGood
<1>9. CASE insn.id \notin {"call", "movzx", "movsx", "movsxd", "mov", "lea"} \union Widening \union X87 \union Arithmetic
  <2>1. Backward(p, a, insn) = a
    BY <1>9 DEF Backward
  <2> QED
    BY <2>1
<1> QED
  BY <1>1, <1>2, <1>3, <1>4, <1>5, <1>6, <1>7, <1>8, <1>9

\* The operands an instruction names are no RIP-relative ones of another.
LEMMA PrepareGood ==
  ASSUME NEW a, Shaped(a), SoundContext(a.ctx), NEW insn
  PROVE  Good(Prepare(a, insn), insn)
<1>1. PICK ctx : ctx = RemoveReg(a.ctx, "rip")
  OBVIOUS
<1>2. Fine(ctx, insn)
  <2>1. \A o \in DOMAIN ctx : o \in DOMAIN a.ctx /\ ctx[o] = a.ctx[o] /\ "rip" \notin RegsOf(o)
    BY <1>1 DEF RemoveReg, Keep
  <2>2. \A o \in DOMAIN ctx : ~ IsGlobalMem(o)
    BY <2>1 DEF IsGlobalMem, IsMem, IsReg, RegsOf, NoReg
  <2> QED
    BY <2>1, <2>2 DEF Fine, SoundContext, OwnKeys, MayKey
<1>3. PICK b : b = [a EXCEPT !.ctx = ctx]
  OBVIOUS
<1>4. Good(b, insn)
  BY <1>2, <1>3, GoodWith
<1>5. PICK R : NoteOperands(b, insn) = Note(b, [r \in R |-> RegWidth(r)])
  BY DEF NoteOperands
<1>6. PICK w : w = [r \in R |-> RegWidth(r)]
  OBVIOUS
<1>7. \A r \in DOMAIN w : w[r] \in 0 .. 16
  BY <1>6 DEF RegWidth
<1>8. Good(Note(b, w), insn)
  BY <1>4, <1>7, GoodNote
<1>9. Prepare(a, insn) = NoteOperands(b, insn)
  BY <1>1, <1>3 DEF Prepare
<1> QED
  BY <1>5, <1>6, <1>8, <1>9

-----------------------------------------------------------------------------
\* The contexts of the instructions of b.
InsnsOK(b) == /\ DOMAIN insnC[b] = DOMAIN CodeOf(b)
              /\ \A i \in DOMAIN insnC[b] : SoundContext(insnC[b][i])

\* What the analysis holds is sound.
StoreOK ==
  /\ Shaped(facts) /\ SoundContext(facts.ctx)
  /\ DOMAIN inC = Node /\ DOMAIN outC = Node /\ DOMAIN insnC = Node
  /\ \A b \in Node : SoundContext(inC[b]) /\ SoundContext(outC[b])
  /\ \A b \in Node : InsnsOK(b)
  /\ inferred \subseteq (DOMAIN prog.callee) \X (1 .. MaxParams)

\* Where the analysis is.
PlaceOK ==
  /\ phase \in {"cfa", "run", "fwd1", "bwd", "fwd2", "params"}
  /\ pos \in Nat /\ trail \in Seq(Node)
  /\ cur # NoNode => cur \in visited
  /\ cur = NoNode => pos = 0
  /\ cur \in Node => pos <= Len(CodeOf(cur))
  /\ phase \in {"cfa", "run"} => pos = 0 /\ trail = <<>>
  /\ Elements(trail) \subseteq visited

\* The contexts behind the first n instructions of b have no RIP-relative
\* operand of another instruction.
OwnedTo(b, n) == \A i \in DOMAIN insnC[b] : i <= n => OwnKeys(insnC[b][i], CodeOf(b)[i])
Owned(b)      == \A i \in DOMAIN insnC[b] : OwnKeys(insnC[b][i], CodeOf(b)[i])

\* Of the blocks the last pass has done that holds, and so for the blocks a path
\* leads to when the pass has ended.
OwnOK ==
  /\ phase \in {"fwd2", "params"} => edges = prog.succs /\ root = prog.entry
  /\ phase = "fwd2" => /\ \A b \in visited : b # cur => Owned(b)
                       /\ cur \in Node => OwnedTo(cur, pos)
  /\ phase = "params" => \E D \in SUBSET Node : root \in D /\ Closed(D) /\ \A b \in D : Owned(b)

ContextInv == StoreOK /\ PlaceOK /\ OwnOK

LEMMA SoundEmpty == SoundContext(Empty) /\ \A insn : OwnKeys(Empty, insn)
  BY DEF SoundContext, OwnKeys, Empty

LEMMA ProgramCode ==
  ASSUME prog \in Program, NEW b \in Node
  PROVE  /\ Len(CodeOf(b)) \in Nat /\ DOMAIN CodeOf(b) = 1 .. Len(CodeOf(b))
         /\ \A i \in 1 .. Len(CodeOf(b)) : Formed(CodeOf(b)[i])
<1>1. Len(CodeOf(b)) \in Nat /\ DOMAIN CodeOf(b) = 1 .. Len(CodeOf(b))
  BY ProgramAssumption DEF CodeOf
<1>2. ASSUME NEW i \in 1 .. Len(CodeOf(b)) PROVE Formed(CodeOf(b)[i])
  <2>1. PICK insn : insn = CodeOf(b)[i]
    OBVIOUS
  <2>2. /\ Len(insn.op) \in Nat /\ DOMAIN insn.op = 1 .. Len(insn.op)
        /\ Len(insn.op) >= Arity(insn.id)
    BY <2>1, OperandAssumption DEF CodeOf
  <2>3. Arity(insn.id) \in {0, 1, 2}
    BY DEF Arity
  <2>4. Formed(insn)
    BY <2>2, <2>3 DEF Formed
  <2> QED
    BY <2>1, <2>4
<1> QED
  BY <1>1, <1>2

LEMMA DebugOK == ASSUME prog \in Program PROVE InfoOK(Debug)
<1>1. PICK d : d = Debug
  OBVIOUS
<1>2. /\ d.vars = prog.params \o prog.vars /\ d.globals = prog.globals
      /\ d.callee = prog.callee
  BY <1>1 DEF Debug
<1>3. prog.params \o prog.vars \in Seq(VarInfo)
  <2>1. prog.params \in Seq(VarInfo) /\ prog.vars \in Seq(VarInfo)
    BY DebugAssumption
  <2> QED
    BY <2>1
<1>4. InfoOK(d)
  BY <1>2, <1>3, DebugAssumption DEF InfoOK
<1> QED
  BY <1>1, <1>4

\* The contexts of blocks, joined.
LEMMA JoinSound ==
  ASSUME NEW blocks \in Seq(Node), NEW ctx, \A b \in Node : SoundContext(ctx[b])
  PROVE  SoundContext(Join(blocks, ctx))
<1>1. PICK ctxs : ctxs = [i \in DOMAIN blocks |-> ctx[blocks[i]]]
  OBVIOUS
<1>2. DOMAIN blocks \in SUBSET Nat /\ \A i \in DOMAIN blocks : blocks[i] \in Node
  OBVIOUS
<1>3. DOMAIN ctxs \in SUBSET Nat /\ \A i \in DOMAIN ctxs : SoundContext(ctxs[i])
  BY <1>1, <1>2
<1>4. SoundContext(UnionContext(ctxs))
  BY <1>3, SoundJoin
<1> QED
  BY <1>1, <1>4 DEF Join

LEMMA FactsWith ==
  ASSUME Shaped(facts), NEW ctx, SoundContext(ctx)
  PROVE  Shaped([facts EXCEPT !.ctx = ctx]) /\ SoundContext([facts EXCEPT !.ctx = ctx].ctx)
<1>1. PICK b : b = [facts EXCEPT !.ctx = ctx]
  OBVIOUS
<1>2. b = [ctx |-> ctx, known |-> facts.known, size |-> facts.size]
  BY <1>1 DEF Shaped
<1> QED
  BY <1>1, <1>2 DEF Shaped

LEMMA StartsSound ==
  /\ Shaped(NoFacts) /\ SoundContext(NoFacts.ctx)
  /\ \A p : \A b \in Node :
       /\ DOMAIN NoContexts(p)[b] = DOMAIN p.code[b]
       /\ \A i \in DOMAIN NoContexts(p)[b] : NoContexts(p)[b][i] = Empty
<1>1. Shaped(NoFacts) /\ SoundContext(NoFacts.ctx)
  <2>1. <<>> \in Seq(VarInfo) /\ [r \in RegName |-> 0] \in [RegName -> 0 .. 16]
    OBVIOUS
  <2> QED
    BY <2>1, SoundEmpty DEF NoFacts, Shaped
<1> QED
  BY <1>1 DEF NoContexts

LEMMA ContextStarts == InferInit => ContextInv
<1> SUFFICES ASSUME InferInit PROVE ContextInv
  OBVIOUS
<1>1. StoreOK
  <2>1. /\ facts = NoFacts /\ inC = [b \in Node |-> Empty] /\ outC = inC
        /\ insnC = NoContexts(prog) /\ inferred = {}
    BY DEF InferInit
  <2>2. DOMAIN insnC = Node
    BY <2>1 DEF NoContexts
  <2> QED
    BY <2>1, <2>2, StartsSound, SoundEmpty DEF StoreOK, InsnsOK, CodeOf
<1>2. PlaceOK
  <2>1. phase = "cfa" /\ pos = 0 /\ trail = <<>> /\ cur = NoNode
    BY DEF InferInit, FrameInit
  <2>2. trail \in Seq(Node) /\ Elements(trail) = {}
    BY <2>1 DEF Elements
  <2> QED
    BY <2>1, <2>2, NodeAssumption DEF PlaceOK
<1>3. OwnOK
  BY DEF InferInit, FrameInit, OwnOK
<1> QED
  BY <1>1, <1>2, <1>3 DEF ContextInv

-----------------------------------------------------------------------------
(***************************************************************************)
(* The steps of an analysis.                                               *)
(***************************************************************************)

LEMMA ForwardStep ==
  ASSUME prog \in Program, WalkTypeOK, StoreOK, PlaceOK, ForwardInsn
  PROVE  /\ cur \in Node /\ pos + 1 \in 1 .. Len(CodeOf(cur))
         /\ Good(facts', CodeOf(cur)[pos + 1])
<1>1. cur \in Node /\ pos + 1 \in 1 .. Len(CodeOf(cur))
  <2>1. cur # NoNode /\ pos < Len(CodeOf(cur)) /\ cur \in Node /\ pos \in Nat
    BY DEF ForwardInsn, More, WalkTypeOK, PlaceOK
  <2> QED
    BY <2>1, ProgramCode
<1>2. PICK insn, p, a, on :
        /\ insn = CodeOf(cur)[pos + 1] /\ p = Debug /\ a = Prepare(facts, insn)
        /\ on = (phase = "fwd2")
        /\ facts' = Forward(p, a, cfa[cur][pos + 1], insn, on)
  BY DEF ForwardInsn
<1>3. InfoOK(p) /\ Formed(insn)
  BY <1>1, <1>2, DebugOK, ProgramCode
<1>4. Good(a, insn)
  BY <1>2, PrepareGood DEF StoreOK
<1>5. on \in BOOLEAN
  BY <1>2
<1>6. Good(facts', insn)
  BY <1>2, <1>3, <1>4, <1>5, ForwardGood
<1> QED
  BY <1>1, <1>2, <1>6

LEMMA BackwardStep ==
  ASSUME prog \in Program, WalkTypeOK, StoreOK, PlaceOK, BackwardInsn
  PROVE  cur \in Node /\ Shaped(facts') /\ SoundContext(facts'.ctx)
<1> DEFINE i == Len(CodeOf(cur)) - pos
<1>1. cur \in Node /\ i \in 1 .. Len(CodeOf(cur))
  <2>1. cur # NoNode /\ pos < Len(CodeOf(cur)) /\ cur \in Node /\ pos \in Nat
    BY DEF BackwardInsn, More, WalkTypeOK, PlaceOK
  <2> QED
    BY <2>1, ProgramCode
<1>2. PICK insn, p, a :
        /\ insn = CodeOf(cur)[i] /\ p = Debug /\ a = Prepare(facts, insn)
        /\ facts' = Backward(p, a, insn)
  BY DEF BackwardInsn
<1> HIDE DEF i
<1>3. InfoOK(p) /\ Formed(insn)
  BY <1>1, <1>2, DebugOK, ProgramCode
<1>4. Good(a, insn)
  BY <1>2, PrepareGood DEF StoreOK
<1>5. Good(facts', insn)
  BY <1>2, <1>3, <1>4, BackwardGood
<1> QED
  BY <1>1, <1>5 DEF Good, Fine

\* A context is noted at an instruction of a block.
LEMMA ContextNoted ==
  ASSUME StoreOK, NEW b, NEW i, NEW ctx, SoundContext(ctx),
         NEW m, m = [insnC EXCEPT ![b][i] = ctx]
  PROVE  /\ DOMAIN m = Node
         /\ \A d \in Node : /\ DOMAIN m[d] = DOMAIN CodeOf(d)
                            /\ \A k \in DOMAIN m[d] : SoundContext(m[d][k])
         /\ \A d \in Node : \A k \in DOMAIN m[d] :
              (d # b \/ k # i => m[d][k] = insnC[d][k]) /\ (d = b /\ k = i => m[d][k] = ctx)
<1>1. /\ DOMAIN insnC = Node
      /\ \A d \in Node : /\ DOMAIN insnC[d] = DOMAIN CodeOf(d)
                         /\ \A k \in DOMAIN insnC[d] : SoundContext(insnC[d][k])
  BY DEF StoreOK, InsnsOK
<1>2. \A d \in Node : m[d] = IF d = b THEN [insnC[b] EXCEPT ![i] = ctx] ELSE insnC[d]
  BY <1>1
<1>3. DOMAIN m = Node
  BY <1>1
<1>4. ASSUME NEW d \in Node
      PROVE  /\ DOMAIN m[d] = DOMAIN insnC[d]
             /\ \A k \in DOMAIN m[d] : m[d][k] = IF d = b /\ k = i THEN ctx ELSE insnC[d][k]
  BY <1>2
<1> QED
  BY <1>1, <1>3, <1>4

LEMMA StoreInPass ==
  ASSUME prog \in Program, WalkTypeOK, StoreOK, PlaceOK, InPass
  PROVE  StoreOK'
<1>1. UNCHANGED prog /\ \A b : CodeOf(b)' = CodeOf(b)
  BY InPassWalks DEF frameVars, CodeOf
<1>2. insnC' = insnC => DOMAIN insnC' = Node /\ \A d \in Node : InsnsOK(d)'
  BY <1>1 DEF StoreOK, InsnsOK
<1>3. ASSUME UNCHANGED <<facts, inC, outC, insnC>>, inferred' \subseteq (DOMAIN prog.callee) \X (1 .. MaxParams)
      PROVE  StoreOK'
  BY <1>1, <1>3, <1>2 DEF StoreOK
<1>4. CASE SkipBlock \/ EnterParameters \/ LeaveParameters
  BY <1>3, <1>4 DEF SkipBlock, EnterParameters, LeaveParameters, passVars, StoreOK
<1>5. CASE ParameterInsn
  <2>1. \A insn : OwnTargets(insn) \subseteq DOMAIN prog.callee
    BY DEF OwnTargets, Targets
  <2> QED
    BY <1>3, <1>5, <2>1 DEF ParameterInsn, StoreOK
<1>6. CASE EnterForward
  <2>1. PICK b, base : b = Head(todo) /\ base = Join(prog.preds[b], outC)
    OBVIOUS
  <2>2. b \in Node
    BY <1>6, <2>1, HeadAndTail DEF EnterForward, Enter, WalkTypeOK
  <2>3. SoundContext(base)
    <3>1. prog.preds[b] \in Seq(Node)
      BY <2>2, BackwardAssumption DEF Graph
    <3> QED
      BY <2>1, <3>1, JoinSound DEF StoreOK
  <2>4. CASE Inner(b)
    <3>1. /\ inC' = [inC EXCEPT ![b] = base] /\ facts' = [facts EXCEPT !.ctx = base]
          /\ UNCHANGED <<outC, insnC, inferred>>
      BY <1>6, <2>1, <2>4 DEF EnterForward
    <3>2. Shaped(facts') /\ SoundContext(facts'.ctx)
      BY <2>3, <3>1, FactsWith DEF StoreOK
    <3>3. DOMAIN inC' = Node /\ \A d \in Node : SoundContext(inC'[d])
      BY <2>3, <3>1 DEF StoreOK
    <3> QED
      BY <1>1, <1>2, <3>1, <3>2, <3>3 DEF StoreOK
  <2>5. CASE ~ Inner(b)
    <3>1. outC' = [outC EXCEPT ![b] = inC[b]] /\ UNCHANGED <<inC, insnC, facts, inferred>>
      BY <1>6, <2>1, <2>5 DEF EnterForward
    <3>2. DOMAIN outC' = Node /\ \A d \in Node : SoundContext(outC'[d])
      BY <2>2, <3>1 DEF StoreOK
    <3> QED
      BY <1>1, <1>2, <3>1, <3>2 DEF StoreOK
  <2> QED
    BY <2>4, <2>5
<1>7. CASE EnterBackward
  <2>1. PICK b, base : b = Head(todo) /\ base = Join(prog.succs[b], inC)
    OBVIOUS
  <2>2. b \in Node
    BY <1>7, <2>1, HeadAndTail DEF EnterBackward, Enter, WalkTypeOK
  <2>3. SoundContext(base)
    <3>1. prog.succs[b] \in Seq(Node)
      BY <2>2, ProgramAssumption DEF Graph
    <3> QED
      BY <2>1, <3>1, JoinSound DEF StoreOK
  <2>4. CASE Inner(b)
    <3>1. /\ outC' = [outC EXCEPT ![b] = base] /\ facts' = [facts EXCEPT !.ctx = base]
          /\ insnC' = [insnC EXCEPT ![b][Len(CodeOf(b))] = base]
          /\ UNCHANGED <<inC, inferred>>
      BY <1>7, <2>1, <2>4 DEF EnterBackward
    <3>2. Shaped(facts') /\ SoundContext(facts'.ctx)
      BY <2>3, <3>1, FactsWith DEF StoreOK
    <3>3. DOMAIN outC' = Node /\ \A d \in Node : SoundContext(outC'[d])
      BY <2>3, <3>1 DEF StoreOK
    <3>4. DOMAIN insnC' = Node /\ \A d \in Node : InsnsOK(d)'
      <4>1. PICK n : n = Len(CodeOf(b))
        OBVIOUS
      <4>2. insnC' = [insnC EXCEPT ![b][n] = base]
        BY <3>1, <4>1
      <4>3. /\ DOMAIN insnC' = Node
            /\ \A d \in Node : /\ DOMAIN insnC'[d] = DOMAIN CodeOf(d)
                               /\ \A k \in DOMAIN insnC'[d] : SoundContext(insnC'[d][k])
        <5>1. PICK m, x, y, z : m = [insnC EXCEPT ![x][y] = z] /\ x = b /\ y = n /\ z = base
          OBVIOUS
        <5>2. SoundContext(z)
          BY <2>3, <5>1
        <5>3. /\ DOMAIN m = Node
              /\ \A d \in Node : /\ DOMAIN m[d] = DOMAIN CodeOf(d)
                                 /\ \A k \in DOMAIN m[d] : SoundContext(m[d][k])
          BY <5>1, <5>2, ContextNoted
        <5>4. m = insnC'
          BY <4>2, <5>1
        <5> QED
          BY <5>3, <5>4
      <4>4. ASSUME NEW d \in Node PROVE InsnsOK(d)'
        <5>1. CodeOf(d)' = CodeOf(d)
          BY <1>1
        <5> QED
          BY <4>3, <5>1 DEF InsnsOK
      <4> QED
        BY <4>3, <4>4
    <3>5. inC' = inC /\ inferred' = inferred
      BY <3>1
    <3> QED
      BY <1>1, <3>2, <3>3, <3>4, <3>5 DEF StoreOK
  <2>5. CASE ~ Inner(b)
    <3>1. inC' = [inC EXCEPT ![b] = outC[b]] /\ UNCHANGED <<outC, insnC, facts, inferred>>
      BY <1>7, <2>1, <2>5 DEF EnterBackward
    <3>2. DOMAIN inC' = Node /\ \A d \in Node : SoundContext(inC'[d])
      BY <2>2, <3>1 DEF StoreOK
    <3> QED
      BY <1>1, <1>2, <3>1, <3>2 DEF StoreOK
  <2> QED
    BY <2>4, <2>5
<1>8. CASE ForwardInsn
  <2>1. Shaped(facts') /\ SoundContext(facts'.ctx)
    BY <1>8, ForwardStep DEF Good, Fine
  <2>2. insnC' = [insnC EXCEPT ![cur][pos + 1] = facts'.ctx] /\ UNCHANGED <<inC, outC, inferred>>
    BY <1>8 DEF ForwardInsn
  <2>3. DOMAIN insnC' = Node /\ \A d \in Node : InsnsOK(d)'
    <3>1. PICK m : m = [insnC EXCEPT ![cur][pos + 1] = facts'.ctx]
      OBVIOUS
    <3>2. /\ DOMAIN m = Node
         /\ \A d \in Node : /\ DOMAIN m[d] = DOMAIN CodeOf(d)
                            /\ \A k \in DOMAIN m[d] : SoundContext(m[d][k])
      BY <2>1, <3>1, ContextNoted
    <3>3. m = insnC'
      BY <2>2, <3>1
    <3>4. ASSUME NEW d \in Node PROVE InsnsOK(d)'
      <4>1. CodeOf(d)' = CodeOf(d)
        BY <1>1
      <4> QED
        BY <3>2, <3>3, <4>1 DEF InsnsOK
    <3> QED
      BY <3>2, <3>3, <3>4
  <2> QED
    BY <1>1, <2>1, <2>2, <2>3 DEF StoreOK
<1>9. CASE BackwardInsn
  <2>1. Shaped(facts') /\ SoundContext(facts'.ctx)
    BY <1>9, BackwardStep
  <2>2. UNCHANGED <<inC, outC, inferred>>
    BY <1>9 DEF BackwardInsn
  <2>3. \/ insnC' = insnC
        \/ \E i : insnC' = [insnC EXCEPT ![cur][i] = facts'.ctx]
    BY <1>9 DEF BackwardInsn
  <2>4. DOMAIN insnC' = Node /\ \A d \in Node : InsnsOK(d)'
    <3>1. CASE insnC' = insnC
      BY <1>1, <3>1 DEF StoreOK, InsnsOK
    <3>2. ASSUME NEW i, insnC' = [insnC EXCEPT ![cur][i] = facts'.ctx]
          PROVE  DOMAIN insnC' = Node /\ \A d \in Node : InsnsOK(d)'
      <4>1. PICK m : m = [insnC EXCEPT ![cur][i] = facts'.ctx]
        OBVIOUS
      <4>2. /\ DOMAIN m = Node
           /\ \A d \in Node : /\ DOMAIN m[d] = DOMAIN CodeOf(d)
                              /\ \A k \in DOMAIN m[d] : SoundContext(m[d][k])
        BY <2>1, <4>1, ContextNoted
      <4>3. m = insnC'
        BY <3>2, <4>1
      <4>4. ASSUME NEW d \in Node PROVE InsnsOK(d)'
        <5>1. CodeOf(d)' = CodeOf(d)
          BY <1>1
        <5> QED
          BY <4>2, <4>3, <5>1 DEF InsnsOK
      <4> QED
        BY <4>2, <4>3, <4>4
    <3> QED
      BY <2>3, <3>1, <3>2
  <2> QED
    BY <1>1, <2>1, <2>2, <2>4 DEF StoreOK
<1>10. CASE LeaveForward
  <2>1. /\ outC' = IF Inner(cur) THEN [outC EXCEPT ![cur] = facts.ctx] ELSE outC
        /\ UNCHANGED <<inC, insnC, facts, inferred>>
    BY <1>10 DEF LeaveForward
  <2>2. DOMAIN outC' = Node /\ \A d \in Node : SoundContext(outC'[d])
    BY <2>1 DEF StoreOK
  <2> QED
    BY <1>1, <1>2, <2>1, <2>2 DEF StoreOK
<1>11. CASE LeaveBackward
  <2>1. /\ inC' = IF Inner(cur) THEN [inC EXCEPT ![cur] = facts.ctx] ELSE inC
        /\ UNCHANGED <<outC, insnC, facts, inferred>>
    BY <1>11 DEF LeaveBackward
  <2>2. DOMAIN inC' = Node /\ \A d \in Node : SoundContext(inC'[d])
    BY <2>1 DEF StoreOK
  <2> QED
    BY <1>1, <1>2, <2>1, <2>2 DEF StoreOK
<1> QED
  BY <1>4, <1>5, <1>6, <1>7, <1>8, <1>9, <1>10, <1>11 DEF InPass

LEMMA StoreStep ==
  ASSUME prog \in Program, WalkTypeOK, StoreOK, PlaceOK, [InferNext]_inferVars
  PROVE  StoreOK'
<1>1. CASE FrameNext /\ UNCHANGED passVars
  <2>1. UNCHANGED <<prog, facts, inC, outC, insnC, inferred>>
    BY <1>1 DEF FrameNext, CFABlock, CFAInsn, CFALeave, CFAReturn, Run, Execute, Jump, passVars
  <2> QED
    BY <2>1 DEF StoreOK, InsnsOK, CodeOf
<1>2. CASE InPass
  BY <1>2, StoreInPass
<1>3. CASE StartPass
  <2>1. UNCHANGED <<prog, facts, inC, outC, insnC, inferred>>
    BY <1>3 DEF StartPass, Pass
  <2> QED
    BY <2>1 DEF StoreOK, InsnsOK, CodeOf
<1>4. CASE Again
  <2>1. /\ facts' = NoFacts /\ inC' = [b \in Node |-> Empty] /\ outC' = inC'
        /\ insnC' = NoContexts(prog) /\ UNCHANGED <<prog, inferred>>
    BY <1>4 DEF Again, MakeAgain
  <2>2. Shaped(facts') /\ SoundContext(facts'.ctx)
    BY <2>1, StartsSound
  <2>3. /\ DOMAIN inC' = Node /\ DOMAIN outC' = Node
        /\ \A b \in Node : SoundContext(inC'[b]) /\ SoundContext(outC'[b])
    BY <2>1, SoundEmpty
  <2>4. DOMAIN insnC' = Node
    BY <2>1 DEF NoContexts
  <2>5. ASSUME NEW b \in Node PROVE InsnsOK(b)'
    <3>1. /\ DOMAIN insnC'[b] = DOMAIN CodeOf(b)'
          /\ \A i \in DOMAIN insnC'[b] : insnC'[b][i] = Empty
      BY <2>1, StartsSound DEF CodeOf
    <3> QED
      BY <3>1, SoundEmpty DEF InsnsOK
  <2> QED
    BY <2>1, <2>2, <2>3, <2>4, <2>5 DEF StoreOK
<1>5. CASE UNCHANGED inferVars
  <2>1. UNCHANGED <<prog, facts, inC, outC, insnC, inferred>>
    BY <1>5 DEF inferVars, frameVars, passVars
  <2> QED
    BY <2>1 DEF StoreOK, InsnsOK, CodeOf
<1> QED
  BY <1>1, <1>2, <1>3, <1>4, <1>5, NextKinds

\* The blocks done are among those visited, whatever the step is.
LEMMA VisitedGrows ==
  ASSUME Enter \/ Return \/ Leave
  PROVE  visited \subseteq visited'
  BY DEF Enter, Return, Leave

\* A step of a block.
LEMMA CountedOn ==
  ASSUME prog \in Program, WalkTypeOK, PlaceOK, More, pos' = pos + 1
  PROVE  pos' \in Nat /\ pos' <= Len(CodeOf(cur)) /\ cur # NoNode
<1>1. cur # NoNode /\ pos < Len(CodeOf(cur)) /\ cur \in Node /\ pos \in Nat
  BY DEF More, WalkTypeOK, PlaceOK
<1> QED
  BY <1>1, ProgramCode

LEMMA CurVisited ==
  ASSUME cur # NoNode => cur \in visited, [WalkNext]_walkVars
  PROVE  (cur # NoNode => cur \in visited)'
  BY DEF WalkNext, Restart, Return, Enter, Leave, walkVars

LEMMA PlaceInPass ==
  ASSUME prog \in Program, WalkInv, PlaceOK, InPass
  PROVE  PlaceOK'
<1>1. /\ UNCHANGED <<prog, phase>> /\ \A b : CodeOf(b)' = CodeOf(b)
      /\ phase \in {"fwd1", "bwd", "fwd2", "params"}
  BY InPassWalks DEF frameVars, CodeOf
<1>2. WalkTypeOK /\ (cur # NoNode => cur \in visited)'
  BY InPassWalks, CurVisited DEF WalkInv, PlaceOK
<1>3. ASSUME UNCHANGED <<pos, trail>>, Enter \/ Return PROVE PlaceOK'
  <2>1. cur = NoNode /\ pos = 0
    BY <1>3 DEF Enter, Return, PlaceOK
  <2>2. visited \subseteq visited'
    BY <1>3, VisitedGrows
  <2>3. \A b \in Node : Len(CodeOf(b)) \in Nat
    BY ProgramCode
  <2> QED
    BY <1>1, <1>2, <1>3, <2>1, <2>2, <2>3 DEF PlaceOK, Elements
<1>4. ASSUME LeaveBlock PROVE PlaceOK'
  <2>1. /\ cur \in Node /\ cur' = NoNode /\ visited' = visited /\ pos' = 0
        /\ trail' = Append(trail, cur)
    BY <1>2, <1>4 DEF LeaveBlock, Leave, WalkTypeOK
  <2>2. trail' \in Seq(Node) /\ Elements(Append(trail, cur)) = Elements(trail) \union {cur}
    BY <2>1, Appended DEF PlaceOK
  <2>3. Elements(trail)' = Elements(trail) \union {cur}
    BY <2>1, <2>2 DEF Elements
  <2>4. cur \in visited
    BY <2>1, NodeAssumption DEF PlaceOK
  <2> QED
    BY <1>1, <2>1, <2>2, <2>3, <2>4, NodeAssumption DEF PlaceOK
<1>5. ASSUME More, pos' = pos + 1, UNCHANGED <<walkVars, trail>> PROVE PlaceOK'
  <2>1. pos' \in Nat /\ pos' <= Len(CodeOf(cur)) /\ cur # NoNode
    BY <1>2, <1>5, CountedOn
  <2>2. UNCHANGED <<cur, visited, trail>>
    BY <1>5 DEF walkVars
  <2> QED
    BY <1>1, <2>1, <2>2 DEF PlaceOK, Elements
<1>6. CASE SkipBlock
  BY <1>3, <1>6 DEF SkipBlock, passVars
<1>7. CASE EnterForward \/ EnterBackward \/ EnterParameters
  BY <1>3, <1>7 DEF EnterForward, EnterBackward, EnterParameters, passVars
<1>8. CASE ForwardInsn \/ BackwardInsn \/ ParameterInsn
  BY <1>5, <1>8 DEF ForwardInsn, BackwardInsn, ParameterInsn
<1>9. CASE LeaveForward \/ LeaveBackward \/ LeaveParameters
  BY <1>4, <1>9 DEF LeaveForward, LeaveBackward, LeaveParameters
<1> QED
  BY <1>6, <1>7, <1>8, <1>9 DEF InPass

LEMMA PlaceStep ==
  ASSUME prog \in Program, WalkInv, PlaceOK, [InferNext]_inferVars
  PROVE  PlaceOK'
<1>1. CASE FrameNext /\ UNCHANGED passVars
  <2>1. /\ phase \in {"cfa", "run"} /\ phase' \in {"cfa", "run"} /\ UNCHANGED <<prog, pos, trail>>
    BY <1>1 DEF FrameNext, CFABlock, CFAInsn, CFALeave, CFAReturn, Run, Execute, Jump, passVars
  <2>2. pos' = 0 /\ trail' = <<>>
    BY <2>1 DEF PlaceOK
  <2>3. trail' \in Seq(Node) /\ Elements(trail)' = {}
    BY <2>2 DEF Elements
  <2>4. \A b \in Node : Len(CodeOf(b))' \in Nat
    BY <2>1, ProgramCode DEF CodeOf
  <2>5. (cur # NoNode => cur \in visited)'
    BY <1>1, FrameWalks, CurVisited DEF PlaceOK
  <2> QED
    BY <2>1, <2>2, <2>3, <2>4, <2>5 DEF PlaceOK
<1>2. CASE InPass
  BY <1>2, PlaceInPass
<1>3. CASE StartPass \/ Again
  <2>1. /\ cur = NoNode /\ cur' = NoNode /\ UNCHANGED <<prog, pos>> /\ trail' = <<>>
        /\ phase' \in {"fwd1", "bwd", "fwd2", "params"}
    BY <1>3 DEF StartPass, Pass, Again, MakeAgain, Start
  <2>2. trail' \in Seq(Node) /\ Elements(trail)' = {}
    BY <2>1 DEF Elements
  <2> QED
    BY <2>1, <2>2, NodeAssumption DEF PlaceOK
<1>4. CASE UNCHANGED inferVars
  <2>1. UNCHANGED <<prog, phase, pos, trail, cur, visited>>
    BY <1>4 DEF inferVars, walkVars, frameVars, passVars
  <2> QED
    BY <2>1 DEF PlaceOK, Elements, CodeOf
<1> QED
  BY <1>1, <1>2, <1>3, <1>4, NextKinds

LEMMA OwnInPass ==
  ASSUME prog \in Program, WalkInv, StoreOK, PlaceOK, OwnOK, InPass
  PROVE  OwnOK'
<1>1. /\ UNCHANGED <<prog, phase>> /\ \A b : CodeOf(b)' = CodeOf(b)
  BY InPassWalks DEF frameVars, CodeOf
<1>2. /\ WalkTypeOK /\ visited \subseteq Node
      /\ UNCHANGED <<edges, root>>
  <2>1. CASE SkipBlock
    BY <2>1 DEF SkipBlock, Return, WalkInv, WalkTypeOK
  <2>2. CASE EnterForward \/ EnterBackward \/ EnterParameters
    BY <2>2 DEF EnterForward, EnterBackward, EnterParameters, Enter, WalkInv, WalkTypeOK
  <2>3. CASE ForwardInsn \/ BackwardInsn \/ ParameterInsn
    BY <2>3 DEF ForwardInsn, BackwardInsn, ParameterInsn, walkVars, WalkInv, WalkTypeOK
  <2>4. CASE LeaveForward \/ LeaveBackward \/ LeaveParameters
    BY <2>4 DEF LeaveForward, LeaveBackward, LeaveParameters, LeaveBlock, Leave, WalkInv, WalkTypeOK
  <2> QED
    BY <2>1, <2>2, <2>3, <2>4 DEF InPass
<1>3. insnC' = insnC => \A b : (Owned(b)' <=> Owned(b)) /\ \A n : OwnedTo(b, n)' <=> OwnedTo(b, n)
  BY <1>1 DEF Owned, OwnedTo
<1>4. CASE phase \notin {"fwd2", "params"}
  BY <1>1, <1>4 DEF OwnOK
<1>5. CASE phase = "params"
  <2>1. insnC' = insnC
    BY <1>5 DEF InPass, SkipBlock, EnterForward, ForwardInsn, LeaveForward, EnterBackward, BackwardInsn,
               LeaveBackward, EnterParameters, ParameterInsn, LeaveParameters, passVars
  <2>2. PICK D \in SUBSET Node : root \in D /\ Closed(D) /\ \A b \in D : Owned(b)
    BY <1>5 DEF OwnOK
  <2>3. (root \in D /\ Closed(D) /\ \A b \in D : Owned(b))'
    BY <1>2, <1>3, <2>1, <2>2 DEF Closed
  <2> QED
    BY <1>1, <1>2, <1>5, <2>3 DEF OwnOK
<1>6. CASE phase = "fwd2"
  <2>1. /\ edges = prog.succs /\ root = prog.entry
        /\ \A b \in visited : b # cur => Owned(b)
        /\ cur \in Node => OwnedTo(cur, pos)
    BY <1>6 DEF OwnOK
  <2>2. SUFFICES /\ \A b \in visited' : b # cur' => Owned(b)'
                 /\ cur' \in Node => OwnedTo(cur, pos)'
    BY <1>1, <1>2, <1>6, <2>1, <2>2 DEF OwnOK
  <2>3. CASE SkipBlock
    <3>1. UNCHANGED <<visited, cur, pos, insnC>>
      BY <2>3 DEF SkipBlock, Return, passVars
    <3>2. OwnedTo(cur, pos)' <=> OwnedTo(cur, pos)
      BY <1>1, <3>1 DEF OwnedTo
    <3> QED
      BY <1>3, <2>1, <3>1, <3>2
  <2>4. CASE EnterForward
    <3>1. PICK h : /\ h = Head(todo) /\ cur = NoNode /\ cur' = h /\ visited' = visited \union {h}
                   /\ UNCHANGED <<pos, insnC>>
      BY <2>4 DEF EnterForward, Enter
    <3>2. pos = 0
      BY <3>1 DEF PlaceOK
    <3>3. ASSUME NEW b \in visited', b # cur' PROVE Owned(b)'
      <4>1. b \in visited /\ b # cur
        BY <1>2, <3>1, <3>3, NodeAssumption
      <4> QED
        BY <1>3, <2>1, <3>1, <4>1
    <3>4. ASSUME h \in Node PROVE OwnedTo(cur, pos)'
      <4>1. DOMAIN insnC[h] = 1 .. Len(CodeOf(h)) /\ Len(CodeOf(h)) \in Nat
        BY <3>4, ProgramCode DEF StoreOK, InsnsOK
      <4>2. \A i \in DOMAIN insnC[h] : ~ (i <= 0)
        BY <4>1
      <4> QED
        BY <3>1, <3>2, <4>2 DEF OwnedTo
    <3> QED
      BY <3>1, <3>3, <3>4
  <2>5. CASE ForwardInsn
    <3>1. /\ cur \in Node /\ pos + 1 \in 1 .. Len(CodeOf(cur))
          /\ Good(facts', CodeOf(cur)[pos + 1])
      BY <1>2, <2>5, ForwardStep
    <3>2. /\ insnC' = [insnC EXCEPT ![cur][pos + 1] = facts'.ctx] /\ pos' = pos + 1
          /\ UNCHANGED <<cur, visited>>
      BY <2>5 DEF ForwardInsn, walkVars
    <3>3. PICK m, x, y, z : /\ m = [insnC EXCEPT ![x][y] = z]
                            /\ x = cur /\ y = pos + 1 /\ z = facts'.ctx
      OBVIOUS
    <3>4. m = insnC' /\ SoundContext(z) /\ OwnKeys(z, CodeOf(cur)[y])
      BY <3>1, <3>2, <3>3 DEF Good, Fine
    <3>5. /\ \A d \in Node : DOMAIN m[d] = DOMAIN CodeOf(d)
          /\ \A d \in Node : \A k \in DOMAIN m[d] :
               (d # x \/ k # y => m[d][k] = insnC[d][k]) /\ (d = x /\ k = y => m[d][k] = z)
      <4>1. m = [insnC EXCEPT ![x][y] = z]
        BY <3>3
      <4>2. SoundContext(z)
        BY <3>4
      <4> QED
        BY <4>1, <4>2, ContextNoted
    <3>6. ASSUME NEW b \in visited, b # cur PROVE Owned(b)'
      <4>1. b \in Node /\ Owned(b)
        BY <1>2, <2>1, <3>6
      <4>2. DOMAIN insnC'[b] = DOMAIN insnC[b] /\ \A k \in DOMAIN insnC[b] : insnC'[b][k] = insnC[b][k]
        BY <3>3, <3>4, <3>5, <3>6, <4>1 DEF StoreOK, InsnsOK
      <4> QED
        BY <1>1, <4>1, <4>2 DEF Owned
    <3>7. OwnedTo(cur, pos)'
      <4>1. DOMAIN insnC'[cur] = 1 .. Len(CodeOf(cur)) /\ DOMAIN insnC[cur] = 1 .. Len(CodeOf(cur))
            /\ Len(CodeOf(cur)) \in Nat /\ pos \in Nat
        BY <3>1, <3>4, <3>5, ProgramCode DEF StoreOK, InsnsOK, PlaceOK
      <4>2. ASSUME NEW i \in DOMAIN insnC'[cur], i <= pos + 1 PROVE OwnKeys(insnC'[cur][i], CodeOf(cur)[i])
        <5>1. CASE i = pos + 1
          BY <3>1, <3>3, <3>4, <3>5, <5>1
        <5>2. CASE i # pos + 1
          <6>1. i <= pos /\ i \in DOMAIN insnC[cur]
            BY <4>1, <4>2, <5>2
          <6>2. OwnKeys(insnC[cur][i], CodeOf(cur)[i])
            BY <2>1, <3>1, <6>1 DEF OwnedTo
          <6>3. i \in DOMAIN m[x] /\ x \in Node /\ i # y
            BY <3>1, <3>3, <3>4, <5>2
          <6>4. m[x][i] = insnC[x][i]
            BY <3>5, <6>3
          <6>5. insnC'[cur][i] = insnC[cur][i]
            BY <3>3, <3>4, <6>4
          <6> QED
            BY <6>2, <6>5
        <5> QED
          BY <5>1, <5>2
      <4> QED
        BY <1>1, <3>2, <4>2 DEF OwnedTo
    <3> QED
      BY <3>2, <3>6, <3>7
  <2>6. CASE LeaveForward
    <3>1. /\ cur \in Node /\ cur' = NoNode /\ pos = Len(CodeOf(cur))
          /\ UNCHANGED <<visited, insnC>>
      BY <1>2, <2>6 DEF LeaveForward, LeaveBlock, Leave, WalkTypeOK
    <3>2. DOMAIN insnC[cur] = 1 .. Len(CodeOf(cur)) /\ Len(CodeOf(cur)) \in Nat
      BY <3>1, ProgramCode DEF StoreOK, InsnsOK
    <3>3. Owned(cur)
      BY <2>1, <3>1, <3>2 DEF Owned, OwnedTo
    <3> QED
      BY <1>3, <2>1, <3>1, <3>3, NodeAssumption
  <2> QED
    BY <1>6, <2>3, <2>4, <2>5, <2>6
       DEF InPass, EnterBackward, BackwardInsn, LeaveBackward, EnterParameters, ParameterInsn, LeaveParameters
<1> QED
  BY <1>4, <1>5, <1>6

LEMMA OwnStep ==
  ASSUME prog \in Program, WalkInv, StoreOK, PlaceOK, OwnOK, [InferNext]_inferVars
  PROVE  OwnOK'
<1>1. CASE FrameNext /\ UNCHANGED passVars
  <2>1. phase' \in {"cfa", "run"}
    BY <1>1 DEF FrameNext, CFABlock, CFAInsn, CFALeave, CFAReturn, Run, Execute, Jump
  <2> QED
    BY <2>1 DEF OwnOK
<1>2. CASE InPass
  BY <1>2, OwnInPass
<1>3. ASSUME NEW from, Pass(from, "fwd2", prog.succs, prog.entry) PROVE OwnOK'
  BY <1>3, NodeAssumption DEF Pass, Start, OwnOK
<1>4. CASE Pass("fwd2", "params", prog.succs, prog.entry)
  <2>1. /\ phase = "fwd2" /\ phase' = "params" /\ Finished
        /\ edges' = prog.succs /\ root' = prog.entry
        /\ UNCHANGED <<prog, insnC>>
    BY <1>4 DEF Pass, Start, Finished
  <2>2. edges = prog.succs /\ root = prog.entry /\ \A b \in visited : b # cur => Owned(b)
    BY <2>1 DEF OwnOK
  <2>3. root \in visited /\ Closed(visited) /\ visited \in SUBSET Node
    BY <2>1, WalkInvExact DEF WalkExact, Complete, WalkInv, WalkTypeOK
  <2>4. \A b \in visited : Owned(b)
    BY <2>1, <2>2, <2>3, NodeAssumption DEF Finished
  <2>5. PICK D : D = visited
    OBVIOUS
  <2>6. (root \in D /\ Closed(D) /\ \A b \in D : Owned(b))'
    BY <2>1, <2>2, <2>3, <2>4, <2>5 DEF Closed, Owned, CodeOf
  <2> QED
    BY <2>1, <2>3, <2>5, <2>6 DEF OwnOK
<1>5. CASE StartPass
  <2>1. ASSUME NEW from, NEW g, NEW r, Pass(from, "fwd1", g, r) \/ Pass(from, "bwd", g, r) PROVE OwnOK'
    BY <2>1 DEF Pass, OwnOK
  <2> QED
    BY <1>3, <1>4, <1>5, <2>1 DEF StartPass
<1>6. CASE Again
  BY <1>6, NodeAssumption DEF Again, MakeAgain, Start, OwnOK
<1>7. CASE UNCHANGED inferVars
  BY <1>7 DEF inferVars, walkVars, frameVars, passVars, OwnOK, Closed, Owned, OwnedTo, CodeOf
<1> QED
  BY <1>1, <1>2, <1>5, <1>6, <1>7, NextKinds

LEMMA ContextStep == Inv /\ ContextInv /\ [InferNext]_inferVars => ContextInv'
  BY StoreStep, PlaceStep, OwnStep DEF Inv, WalkInv, FrameInv, ContextInv

LEMMA ContextsSound == ASSUME Inv, ContextInv PROVE OperandsSound
<1>1. WalkInv /\ WalkTypeOK /\ WalkExact /\ StoreOK /\ PlaceOK /\ OwnOK /\ prog \in Program
  BY WalkInvExact DEF Inv, WalkInv, FrameInv, ContextInv
<1>2. InferTypeOK
  <2>1. \A b \in Node : DOMAIN insnC[b] = DOMAIN prog.code[b]
    BY <1>1 DEF StoreOK, InsnsOK, CodeOf
  <2> QED
    BY <1>1, <2>1 DEF InferTypeOK, StoreOK, PlaceOK, Shaped
<1>3. NoAggregate
  <2>1. ASSUME NEW b \in Node, NEW c \in {inC[b], outC[b]} \union {insnC[b][i] : i \in DOMAIN insnC[b]}
        PROVE  SoundContext(c)
    BY <1>1, <2>1 DEF StoreOK, InsnsOK
  <2> QED
    BY <2>1 DEF NoAggregate, SoundContext, Sound
<1>4. RipIsOwn
  <2> SUFFICES ASSUME phase = "params", NEW b \in Elements(trail)
               PROVE  Owned(b)
    BY DEF RipIsOwn, Owned, OwnKeys, MayKey
  <2>1. PICK D \in SUBSET Node : root \in D /\ Closed(D) /\ \A d \in D : Owned(d)
    BY <1>1 DEF OwnOK
  <2>2. visited \subseteq D
    BY <1>1, <2>1 DEF WalkExact, Reachable
  <2> QED
    BY <1>1, <2>1, <2>2 DEF PlaceOK
<1> QED
  BY <1>2, <1>3, <1>4 DEF OperandsSound

\* Whatever the functions and their debug info are, no join of contexts meets a
\* structure, union or array, and behind an instruction the last pass leaves no
\* RIP-relative operand of another.
THEOREM ContextsKeepTypes == Spec => []OperandsSound
<1>1. InferInit => Inv /\ ContextInv
  BY InvInit, ContextStarts
<1>2. Inv /\ ContextInv /\ [InferNext]_inferVars => Inv' /\ ContextInv'
  BY InvStep, ContextStep
<1>3. Inv /\ ContextInv => OperandsSound
  BY ContextsSound
<1> QED
  BY <1>1, <1>2, <1>3, PTL DEF Spec

-----------------------------------------------------------------------------
(***************************************************************************)
(* The variables that become known.                                        *)
(***************************************************************************)

\* An operand of insn is where the frame c says v is.
Touches(c, insn, v) ==
  \E n \in DOMAIN insn.op :
    /\ IsMem(insn.op[n]) /\ insn.op[n].base = "rbp"
    /\ StackHit(c, insn.op[n], insn.id = "lea", v) # NoType

\* What an instruction may add to the variables that are known: nothing, or a
\* new one that the debug info has and the instruction touches.
NewVars(p, a, c, insn, on) ==
  {<<>>} \union
  {<<p.vars[k]>> : k \in {j \in DOMAIN p.vars :
     /\ on /\ p.vars[j].id \notin p.hidden
     /\ \A i \in DOMAIN a.known : a.known[i].id # p.vars[j].id
     /\ Touches(c, insn, p.vars[j])}}

Offered(f, V) == f = NoFact \/ (f.type # NoType /\ f.var \in V)
Learns(a, b, V) == b.known = a.known \/ \E v \in V : b.known = a.known \o v

IsFacts(a) == a = [ctx |-> a.ctx, known |-> a.known, size |-> a.size]

\* Only Learn changes what is known.
LEMMA KnownWith ==
  ASSUME NEW a, IsFacts(a), NEW ctx
  PROVE  IsFacts([a EXCEPT !.ctx = ctx]) /\ [a EXCEPT !.ctx = ctx].known = a.known
<1>1. PICK b : b = [a EXCEPT !.ctx = ctx]
  OBVIOUS
<1>2. b = [ctx |-> ctx, known |-> a.known, size |-> a.size]
  BY <1>1 DEF IsFacts
<1> QED
  BY <1>1, <1>2 DEF IsFacts

LEMMA KnownSet ==
  ASSUME NEW a, IsFacts(a), NEW o, NEW t
  PROVE  IsFacts(Set(a, o, t)) /\ Set(a, o, t).known = a.known
  BY KnownWith DEF Set

LEMMA KnownTwice ==
  ASSUME NEW a, IsFacts(a), NEW o, NEW t, NEW q, NEW u
  PROVE  Set(Set(a, o, t), q, u).known = a.known
<1>1. PICK b : b = Set(a, o, t)
  OBVIOUS
<1> QED
  BY <1>1, KnownSet

LEMMA KnownNote ==
  ASSUME NEW a, IsFacts(a), NEW w
  PROVE  IsFacts(Note(a, w)) /\ Note(a, w).known = a.known
<1>1. PICK s : s = [r \in DOMAIN a.size |-> IF r \in DOMAIN w /\ a.size[r] = 0 THEN w[r] ELSE a.size[r]]
  OBVIOUS
<1>2. PICK b : b = Note(a, w)
  OBVIOUS
<1>3. b = [ctx |-> a.ctx, known |-> a.known, size |-> s]
  BY <1>1, <1>2 DEF Note, IsFacts
<1> QED
  BY <1>2, <1>3 DEF IsFacts

LEMMA KnownLearn ==
  ASSUME NEW a, IsFacts(a), NEW f
  PROVE  IsFacts(Learn(a, f)) /\ Learn(a, f).known = a.known \o f.var
<1>1. PICK k : k = a.known \o f.var
  OBVIOUS
<1>2. PICK b : b = Learn(a, f)
  OBVIOUS
<1>3. b = [ctx |-> a.ctx, known |-> k, size |-> a.size]
  BY <1>1, <1>2 DEF Learn, IsFacts
<1> QED
  BY <1>1, <1>2, <1>3 DEF IsFacts

LEMMA KnownRegs ==
  ASSUME NEW a, IsFacts(a), NEW regs
  PROVE  InsertRegs(a, regs).known = a.known /\ SetRegs(a, regs).known = a.known
<1>1. ASSUME NEW R, NEW ctx PROVE [NoteABI(a, R) EXCEPT !.ctx = ctx].known = a.known
  <2>1. PICK b : b = NoteABI(a, R)
    OBVIOUS
  <2>2. IsFacts(b) /\ b.known = a.known
    BY <2>1, KnownNote DEF NoteABI
  <2> QED
    BY <2>1, <2>2, KnownWith
<1> QED
  BY <1>1 DEF InsertRegs, SetRegs

LEMMA KnownAddTo ==
  ASSUME NEW a, IsFacts(a), NEW o, NEW q, NEW t, NEW u
  PROVE  AddTo(a, o, q, t, u).known = a.known
<1>1. PICK b, c : b = [a EXCEPT !.ctx = Insert(@, q, t)] /\ c = [a EXCEPT !.ctx = Insert(@, q, u)]
  OBVIOUS
<1>2. /\ IsFacts(b) /\ b.known = a.known
      /\ IsFacts(c) /\ c.known = a.known
  BY <1>1, KnownWith
<1>3. Set(b, o, t).known = a.known /\ Set(c, o, t).known = a.known
  BY <1>2, KnownSet
<1> QED
  BY <1>1, <1>3 DEF AddTo

LEMMA KnownSetObject ==
  ASSUME NEW a, IsFacts(a), NEW o, NEW t
  PROVE  SetObject(a, o, t).known = a.known
  BY KnownSet DEF SetObject

-----------------------------------------------------------------------------
\* Facts.
LEMMA FactOffered ==
  ASSUME NEW V, <<>> \in V, NEW t PROVE Offered(Fact(t), V)
<1>1. PICK f : f = Fact(t)
  OBVIOUS
<1>2. f.type = t /\ f.var = <<>> /\ (t = NoType => f = NoFact)
  BY <1>1 DEF Fact, NoFact
<1> QED
  BY <1>1, <1>2 DEF Offered

LEMMA UnknownOffered ==
  ASSUME NEW p, DOMAIN p.vars \in SUBSET Nat, NEW a, NEW c, NEW insn, NEW on \in BOOLEAN,
         NEW n \in DOMAIN insn.op
  PROVE  Offered(WithUnknown(p, a, c, insn.op[n], insn.id = "lea", on), NewVars(p, a, c, insn, on))
<1>1. PICK o, lea : o = insn.op[n] /\ lea = (insn.id = "lea")
  OBVIOUS
<1> DEFINE new(k) == /\ p.vars[k].stack /\ p.vars[k].id \notin p.hidden
                     /\ \A i \in DOMAIN a.known : a.known[i].id # p.vars[k].id
           hits == [k \in DOMAIN p.vars |-> IF new(k) THEN StackHit(c, o, lea, p.vars[k]) ELSE NoType]
           facts_ == [k \in DOMAIN hits |-> [type |-> hits[k], var |-> <<p.vars[k]>>]]
           I == {k \in DOMAIN hits : hits[k] # NoType}
<1>2. WithUnknown(p, a, c, o, lea, on) =
        IF on /\ IsMem(o) /\ o.base = "rbp" THEN FirstOf(facts_, I, NoFact) ELSE NoFact
  BY DEF WithUnknown
<1>3. I \in SUBSET Nat
  OBVIOUS
<1>4. /\ I = {} => FirstOf(facts_, I, NoFact) = NoFact
      /\ I # {} => \E i \in I : FirstOf(facts_, I, NoFact) = facts_[i]
  <2> HIDE DEF I, facts_
  <2> QED
    BY <1>3, FirstFound
<1>5. ASSUME on, IsMem(o), o.base = "rbp", NEW k \in I
      PROVE  Offered(facts_[k], NewVars(p, a, c, insn, on))
  <2>1. /\ k \in DOMAIN p.vars /\ hits[k] # NoType
        /\ facts_[k].type = hits[k] /\ facts_[k].var = <<p.vars[k]>>
    OBVIOUS
  <2>2. new(k) /\ StackHit(c, o, lea, p.vars[k]) # NoType
    BY <2>1
  <2>3. Touches(c, insn, p.vars[k])
    BY <1>1, <1>5, <2>2 DEF Touches
  <2>4. <<p.vars[k]>> \in NewVars(p, a, c, insn, on)
    BY <1>5, <2>1, <2>2, <2>3 DEF NewVars
  <2> QED
    BY <2>1, <2>4 DEF Offered
<1>6. CASE on /\ IsMem(o) /\ o.base = "rbp" /\ I # {}
  <2> HIDE DEF I, facts_
  <2> QED
    BY <1>1, <1>2, <1>4, <1>5, <1>6
<1>7. CASE ~ (on /\ IsMem(o) /\ o.base = "rbp" /\ I # {})
  <2> HIDE DEF I, facts_
  <2> QED
    BY <1>1, <1>2, <1>4, <1>7 DEF Offered
<1> QED
  BY <1>6, <1>7

LEMMA ChoiceOffered ==
  ASSUME NEW V, NEW fs, DOMAIN fs \in SUBSET Nat, \A i \in DOMAIN fs : Offered(fs[i], V)
  PROVE  Offered(Choose1(fs), V)
<1>1. PICK I : I = {i \in DOMAIN fs : fs[i].type # NoType}
  OBVIOUS
<1>2. I \in SUBSET Nat /\ Choose1(fs) = FirstOf(fs, I, NoFact)
  BY <1>1 DEF Choose1
<1>3. CASE I = {}
  BY <1>2, <1>3, FirstFound DEF Offered
<1>4. CASE I # {}
  <2>1. PICK i \in I : FirstOf(fs, I, NoFact) = fs[i]
    BY <1>2, <1>4, FirstFound
  <2> QED
    BY <1>1, <1>2, <2>1
<1> QED
  BY <1>3, <1>4

LEMMA Offers3 ==
  ASSUME NEW V, NEW f1, NEW f2, NEW f3, Offered(f1, V), Offered(f2, V), Offered(f3, V)
  PROVE  Offered(Choose1(<<f1, f2, f3>>), V)
<1>1. PICK fs : fs = <<f1, f2, f3>>
  OBVIOUS
<1>2. DOMAIN fs = 1 .. 3 /\ fs[1] = f1 /\ fs[2] = f2 /\ fs[3] = f3
  BY <1>1
<1>3. \A i \in DOMAIN fs : Offered(fs[i], V)
  BY <1>2
<1> QED
  BY <1>1, <1>2, <1>3, ChoiceOffered

LEMMA Offers5 ==
  ASSUME NEW V, NEW f1, NEW f2, NEW f3, NEW f4, NEW f5,
         Offered(f1, V), Offered(f2, V), Offered(f3, V), Offered(f4, V), Offered(f5, V)
  PROVE  Offered(Choose1(<<f1, f2, f3, f4, f5>>), V)
<1>1. PICK fs : fs = <<f1, f2, f3, f4, f5>>
  OBVIOUS
<1>2. DOMAIN fs = 1 .. 5 /\ fs[1] = f1 /\ fs[2] = f2 /\ fs[3] = f3 /\ fs[4] = f4 /\ fs[5] = f5
  BY <1>1
<1>3. \A i \in DOMAIN fs : Offered(fs[i], V)
  BY <1>2
<1> QED
  BY <1>1, <1>2, <1>3, ChoiceOffered

-----------------------------------------------------------------------------
\* What each instruction learns.
LEMMA LearnsNothing ==
  ASSUME NEW a, NEW b, b.known = a.known, NEW V PROVE Learns(a, b, V)
  BY DEF Learns

LEMMA LearnsFact ==
  ASSUME NEW a, IsFacts(a), NEW V, NEW f, Offered(f, V), f # NoFact
  PROVE  /\ IsFacts(Learn(a, f))
         /\ \A b : b.known = Learn(a, f).known => Learns(a, b, V)
  BY KnownLearn DEF Offered, Learns

LEMMA SrcLearns ==
  ASSUME NEW p, DOMAIN p.vars \in SUBSET Nat, NEW a, IsFacts(a), NEW c, NEW insn, NEW on \in BOOLEAN,
         1 \in DOMAIN insn.op, 2 \in DOMAIN insn.op, insn.id # "lea"
  PROVE  Learns(a, Src123Dst13(p, a, c, insn, on), NewVars(p, a, c, insn, on))
<1>1. PICK o0, o1, V : o0 = insn.op[1] /\ o1 = insn.op[2] /\ V = NewVars(p, a, c, insn, on)
  OBVIOUS
<1>2. PICK f : f = Choose1(<<WithKnown(p, a, c, insn, o1, FALSE), Fact(WithContext(a.ctx, o1)),
                             WithKnown(p, a, c, insn, o0, FALSE),
                             WithUnknown(p, a, c, o1, FALSE, on), WithUnknown(p, a, c, o0, FALSE, on)>>)
  OBVIOUS
<1>3. <<>> \in V
  BY <1>1 DEF NewVars
<1>4. Offered(f, V)
  <2>1. \A o : Offered(WithKnown(p, a, c, insn, o, FALSE), V)
    BY <1>3, FactOffered DEF WithKnown
  <2>2. Offered(Fact(WithContext(a.ctx, o1)), V)
    BY <1>3, FactOffered
  <2>3. Offered(WithUnknown(p, a, c, o1, FALSE, on), V)
    <3>1. Offered(WithUnknown(p, a, c, insn.op[2], insn.id = "lea", on), V)
      BY <1>1, UnknownOffered
    <3> QED
      BY <1>1, <3>1
  <2>4. Offered(WithUnknown(p, a, c, o0, FALSE, on), V)
    <3>1. Offered(WithUnknown(p, a, c, insn.op[1], insn.id = "lea", on), V)
      BY <1>1, UnknownOffered
    <3> QED
      BY <1>1, <3>1
  <2> QED
    BY <1>2, <2>1, <2>2, <2>3, <2>4, Offers5
<1>5. Src123Dst13(p, a, c, insn, on) =
        IF IsImm(o1) THEN a
        ELSE IF f = NoFact THEN [a EXCEPT !.ctx = RemoveOP(@, o0)]
        ELSE Set(Set(Learn(a, f), o1, f.type), o0, f.type)
  BY <1>1, <1>2 DEF Src123Dst13
<1>6. CASE f # NoFact
  <2>1. /\ IsFacts(Learn(a, f))
        /\ \A b : b.known = Learn(a, f).known => Learns(a, b, V)
    BY <1>4, <1>6, LearnsFact
  <2>2. Learns(a, Set(Set(Learn(a, f), o1, f.type), o0, f.type), V)
    BY <2>1, KnownTwice
  <2> QED
    BY <1>1, <1>5, <1>6, <2>2, LearnsNothing
<1>7. Learns(a, [a EXCEPT !.ctx = RemoveOP(@, o0)], V)
  BY KnownWith, LearnsNothing
<1> QED
  BY <1>1, <1>5, <1>6, <1>7, LearnsNothing

LEMMA MovLearns ==
  ASSUME NEW p, DOMAIN p.vars \in SUBSET Nat, NEW a, IsFacts(a), NEW c, NEW insn, NEW on \in BOOLEAN,
         1 \in DOMAIN insn.op, 2 \in DOMAIN insn.op, insn.id # "lea"
  PROVE  Learns(a, ForwardMOV(p, a, c, insn, on), NewVars(p, a, c, insn, on))
<1>1. \/ \E o, t : ForwardMOV(p, a, c, insn, on) = Set(a, o, t)
      \/ \E o, q, t, u : ForwardMOV(p, a, c, insn, on) = Set(Set(a, o, t), q, u)
      \/ ForwardMOV(p, a, c, insn, on) = Src123Dst13(p, a, c, insn, on)
  <2> DEFINE o0 == insn.op[1]
             o1 == insn.op[2]
             canary == /\ IsMem(o1) /\ o1.seg = "fs" /\ o1.base = NoReg
                       /\ o1.index = NoReg /\ o1.disp = 40
             width == IF IsReg(o0) THEN RegWidth(o0.reg) ELSE o0.size
             t == IF IsXMMReg(o0) THEN Float(o1.size) ELSE SInt(width)
  <2>1. ForwardMOV(p, a, c, insn, on) \in
          {Set(Set(a, o0, UInt(8)), o1, UInt(8)), Set(a, o0, SInt(width)),
           Set(Set(a, o0, t), o1, t), Src123Dst13(p, a, c, insn, on)}
    <3>1. IsImm(o1) => ~ canary
      BY DEF IsImm, IsMem
    <3> QED
      BY <3>1 DEF ForwardMOV, IsGlobalMem, IsMem, IsImm
  <2> HIDE DEF o0, o1, canary, width, t
  <2> QED
    BY <2>1
<1> QED
  BY <1>1, KnownSet, KnownTwice, LearnsNothing, SrcLearns

LEMMA LogicLearns ==
  ASSUME NEW p, DOMAIN p.vars \in SUBSET Nat, NEW a, IsFacts(a), NEW c, NEW insn, NEW on \in BOOLEAN,
         1 \in DOMAIN insn.op, 2 \in DOMAIN insn.op, insn.id # "lea"
  PROVE  Learns(a, ForwardLOGIC(p, a, c, insn, on), NewVars(p, a, c, insn, on))
  BY KnownWith, LearnsNothing, SrcLearns DEF ForwardLOGIC

LEMMA CmpLearns ==
  ASSUME NEW p, DOMAIN p.vars \in SUBSET Nat, NEW a, IsFacts(a), NEW c, NEW insn, NEW on \in BOOLEAN,
         1 \in DOMAIN insn.op, 2 \in DOMAIN insn.op, insn.id # "lea"
  PROVE  Learns(a, ForwardCMP(p, a, c, insn, on), NewVars(p, a, c, insn, on))
<1>1. PICK o0, o1 : o0 = insn.op[1] /\ o1 = insn.op[2]
  OBVIOUS
<1>2. PICK b, d : /\ b = [a EXCEPT !.ctx = Insert(@, o0, Float(o1.size))]
                  /\ d = [a EXCEPT !.ctx = Insert(@, o0, SInt(SizeOf(a, o0)))]
  OBVIOUS
<1>3. IsFacts(b) /\ b.known = a.known /\ d.known = a.known
  BY <1>2, KnownWith
<1>4. Set(b, o1, b.ctx[o0]).known = a.known
  BY <1>3, KnownSet
<1>5. ForwardCMP(p, a, c, insn, on) \in {d, Set(b, o1, b.ctx[o0]), Src123Dst13(p, a, c, insn, on)}
  BY <1>1, <1>2 DEF ForwardCMP
<1> QED
  BY <1>3, <1>4, <1>5, LearnsNothing, SrcLearns

LEMMA AddSubLearns ==
  ASSUME NEW p, DOMAIN p.vars \in SUBSET Nat, NEW a, IsFacts(a), NEW c, NEW insn, NEW on \in BOOLEAN,
         1 \in DOMAIN insn.op, 2 \in DOMAIN insn.op, insn.id # "lea"
  PROVE  Learns(a, ForwardADDSUB(p, a, c, insn, on), NewVars(p, a, c, insn, on))
<1>1. PICK o0, o1, V : o0 = insn.op[1] /\ o1 = insn.op[2] /\ V = NewVars(p, a, c, insn, on)
  OBVIOUS
<1> DEFINE fact(o) == Choose1(<<Fact(WithContext(a.ctx, o)), WithKnown(p, a, c, insn, o, FALSE),
                                WithUnknown(p, a, c, o, FALSE, on)>>)
<1>2. <<>> \in V
  BY <1>1 DEF NewVars
<1>3. ASSUME NEW n \in DOMAIN insn.op PROVE Offered(fact(insn.op[n]), V)
  <2>1. PICK o : o = insn.op[n]
    OBVIOUS
  <2>2. Offered(Fact(WithContext(a.ctx, o)), V) /\ Offered(WithKnown(p, a, c, insn, o, FALSE), V)
    BY <1>2, FactOffered DEF WithKnown
  <2>3. Offered(WithUnknown(p, a, c, insn.op[n], insn.id = "lea", on), V)
    BY <1>1, UnknownOffered
  <2>4. Offered(WithUnknown(p, a, c, o, FALSE, on), V)
    BY <2>1, <2>3
  <2> QED
    BY <2>1, <2>2, <2>4, Offers3
<1>4. PICK f0, f1 : f0 = fact(o0) /\ f1 = fact(o1)
  OBVIOUS
<1>5. Offered(f0, V) /\ Offered(f1, V)
  BY <1>1, <1>3, <1>4
<1>6. ForwardADDSUB(p, a, c, insn, on) =
        IF IsImm(o1) \/ o0 = Reg("rsp") THEN a
        ELSE IF f0 # NoFact THEN AddTo(Learn(a, f0), o0, o1, f0.type, SInt(SizeOf(a, o1)))
        ELSE IF f1 # NoFact THEN AddTo(Learn(a, f1), o1, o0, f1.type, f1.type)
        ELSE a
  BY <1>1, <1>4 DEF ForwardADDSUB
<1>7. ASSUME NEW f, Offered(f, V), f # NoFact, NEW o, NEW q, NEW t, NEW u
      PROVE  Learns(a, AddTo(Learn(a, f), o, q, t, u), V)
  <2>1. /\ IsFacts(Learn(a, f))
        /\ \A b : b.known = Learn(a, f).known => Learns(a, b, V)
    BY <1>7, LearnsFact
  <2> QED
    BY <2>1, KnownAddTo
<1> HIDE DEF fact
<1> QED
  BY <1>1, <1>5, <1>6, <1>7, LearnsNothing

LEMMA LeaLearns ==
  ASSUME NEW p, DOMAIN p.vars \in SUBSET Nat, NEW a, IsFacts(a), NEW c, NEW insn, NEW on \in BOOLEAN,
         1 \in DOMAIN insn.op, 2 \in DOMAIN insn.op, insn.id = "lea"
  PROVE  Learns(a, ForwardLEA(p, a, c, insn, on), NewVars(p, a, c, insn, on))
<1>1. PICK o0, o1, V : o0 = insn.op[1] /\ o1 = insn.op[2] /\ V = NewVars(p, a, c, insn, on)
  OBVIOUS
<1>2. PICK base, known, inCtx, fresh :
        /\ base = Reg(o1.base)
        /\ known = WithKnown(p, a, c, insn, o1, TRUE)
        /\ inCtx = WithContext(a.ctx, o1)
        /\ fresh = WithUnknown(p, a, c, o1, TRUE, on)
  OBVIOUS
<1>3. Offered(fresh, V)
  <2>1. Offered(WithUnknown(p, a, c, insn.op[2], insn.id = "lea", on), V)
    BY <1>1, UnknownOffered
  <2> QED
    BY <1>1, <1>2, <2>1
<1> DEFINE sum == /\ o1.index = NoReg /\ o1.seg = NoReg /\ base \in DOMAIN a.ctx
                  /\ IsIntegerType(a.ctx[base])
           added == Set(Set(a, o0, [a.ctx[base] EXCEPT !.size = SizeOf(a, o0)]), o1, SInt(8))
           ofKnown == SetObject(Set(a, o0, known.type), o1, known.type)
           ofCtx == Set(Set(a, o1, inCtx), o0, Pointer(inCtx))
           ofFresh == SetObject(Set(Learn(a, fresh), o0, fresh.type), o1, fresh.type)
           removed == [a EXCEPT !.ctx = RemoveOP(@, o0)]
<1>4. ForwardLEA(p, a, c, insn, on) =
        CASE sum -> added
          [] ~sum /\ known # NoFact -> ofKnown
          [] ~sum /\ known = NoFact /\ inCtx # NoType -> ofCtx
          [] ~sum /\ known = NoFact /\ inCtx = NoType /\ fresh # NoFact -> ofFresh
          [] OTHER -> removed
  BY <1>1, <1>2 DEF ForwardLEA
<1>5. added.known = a.known /\ ofCtx.known = a.known
  BY KnownTwice
<1>6. removed.known = a.known
  BY KnownWith
<1>7. ofKnown.known = a.known
  BY KnownSet, KnownSetObject
<1>8. ASSUME fresh # NoFact PROVE Learns(a, ofFresh, V)
  <2>1. /\ IsFacts(Learn(a, fresh))
        /\ \A b : b.known = Learn(a, fresh).known => Learns(a, b, V)
    BY <1>3, <1>8, LearnsFact
  <2>2. /\ IsFacts(Set(Learn(a, fresh), o0, fresh.type))
        /\ Set(Learn(a, fresh), o0, fresh.type).known = Learn(a, fresh).known
    BY <2>1, KnownSet
  <2>3. ofFresh.known = Learn(a, fresh).known
    BY <2>2, KnownSetObject
  <2> QED
    BY <2>1, <2>3
<1>9. ForwardLEA(p, a, c, insn, on) \in {added, ofKnown, ofCtx, removed} \/
        (fresh # NoFact /\ ForwardLEA(p, a, c, insn, on) = ofFresh)
  <2> HIDE DEF sum, added, ofKnown, ofCtx, ofFresh, removed
  <2> QED
    BY <1>4
<1> HIDE DEF sum, added, ofKnown, ofCtx, ofFresh, removed
<1> QED
  BY <1>1, <1>5, <1>6, <1>7, <1>8, <1>9, LearnsNothing

LEMMA ExtendKeeps ==
  ASSUME NEW a, IsFacts(a), NEW insn, NEW signed
  PROVE  ForwardExtend(a, insn, signed).known = a.known
<1>1. PICK t, u : /\ t = IF insn.id = "movsxd" THEN SInt(4) ELSE IntegerType(signed, SizeOf(a, insn.op[2]))
                  /\ u = IF insn.id = "movsxd" THEN SInt(8) ELSE IntegerType(signed, SizeOf(a, insn.op[1]))
  OBVIOUS
<1>2. PICK b : b = [a EXCEPT !.ctx = Insert(@, insn.op[2], t)]
  OBVIOUS
<1>3. IsFacts(b) /\ b.known = a.known
  BY <1>2, KnownWith
<1>4. ForwardExtend(a, insn, signed) = Set(b, insn.op[1], u)
  BY <1>1, <1>2 DEF ForwardExtend
<1> QED
  BY <1>3, <1>4, KnownSet

LEMMA BackExtendKeeps ==
  ASSUME NEW a, IsFacts(a), NEW insn, NEW signed
  PROVE  BackwardExtend(a, insn, signed).known = a.known
  BY KnownSet DEF BackwardExtend

LEMMA WidenKeeps ==
  ASSUME NEW a, IsFacts(a), NEW insn, insn.id \in Widening
  PROVE  ForwardWiden(a, insn).known = a.known /\ BackwardWiden(a, insn).known = a.known
<1> DEFINE rax == {"al", "ax", "eax", "rax"}
<1>1. \A ctx : [a EXCEPT !.ctx = ctx].known = a.known
  BY KnownWith
<1>2. \E ctx : ForwardWiden(a, insn) = [a EXCEPT !.ctx = ctx]
  BY DEF ForwardWiden, Widening
<1>3. \E ctx : BackwardWiden(a, insn) = [a EXCEPT !.ctx = ctx]
  BY DEF BackwardWiden, Widening
<1> QED
  BY <1>1, <1>2, <1>3

LEMMA X87Keeps ==
  ASSUME NEW a, IsFacts(a), NEW insn, insn.id \in X87
  PROVE  ForwardX87(a, insn).known = a.known /\ BackwardX87(a, insn).known = a.known
<1>1. [a EXCEPT !.ctx = RemoveOP(@, insn.op[1])].known = a.known
  BY KnownWith
<1>2. ForwardX87(a, insn) = [a EXCEPT !.ctx = RemoveOP(@, insn.op[1])]
        \/ \E t : ForwardX87(a, insn) = Set(a, insn.op[1], t)
  BY DEF ForwardX87, X87
<1> QED
  BY <1>1, <1>2, KnownSet DEF BackwardX87

LEMMA CallKeeps ==
  ASSUME NEW p, NEW a, IsFacts(a), NEW insn
  PROVE  ForwardCall(p, a, insn).known = a.known /\ BackwardCall(p, a, insn).known = a.known
<1>1. PICK b : b = [a EXCEPT !.ctx = ClearCalled(@)]
  OBVIOUS
<1>2. IsFacts(b) /\ b.known = a.known
  BY <1>1, KnownWith
<1>3. ForwardCall(p, a, insn) = b \/ \E regs : ForwardCall(p, a, insn) = InsertRegs(b, regs)
  BY <1>1 DEF ForwardCall
<1>4. BackwardCall(p, a, insn) = b \/ \E regs : BackwardCall(p, a, insn) = SetRegs(b, regs)
  BY <1>1 DEF BackwardCall
<1> QED
  BY <1>2, <1>3, <1>4, KnownRegs

LEMMA ArithmeticLearns ==
  ASSUME NEW p, DOMAIN p.vars \in SUBSET Nat, NEW a, IsFacts(a), NEW c, NEW insn, NEW on \in BOOLEAN,
         Formed(insn), insn.id \in Arithmetic
  PROVE  Learns(a, ForwardArithmetic(p, a, c, insn, on), NewVars(p, a, c, insn, on))
<1>1. CASE insn.id = "cmp"
  BY <1>1, FormedOps, CmpLearns DEF ForwardArithmetic
<1>2. CASE insn.id = "logic"
  BY <1>2, FormedOps, LogicLearns DEF ForwardArithmetic
<1>3. CASE insn.id = "setcc"
  BY <1>3, KnownWith, LearnsNothing DEF ForwardArithmetic
<1>4. CASE insn.id \in {"add", "sub"}
  BY <1>4, FormedOps, AddSubLearns DEF ForwardArithmetic
<1> QED
  BY <1>1, <1>2, <1>3, <1>4 DEF Arithmetic

\* A forward step learns one new variable at most, and one its instruction
\* touches.
LEMMA ForwardLearns ==
  ASSUME NEW p, DOMAIN p.vars \in SUBSET Nat, NEW a, IsFacts(a), NEW c, NEW insn, NEW on \in BOOLEAN,
         Formed(insn)
  PROVE  Learns(a, Forward(p, a, c, insn, on), NewVars(p, a, c, insn, on))
<1> USE LearnsNothing
<1>1. CASE insn.id = "call"
  <2>1. Forward(p, a, c, insn, on) = ForwardCall(p, a, insn)
    BY <1>1 DEF Forward, Widening, X87, Arithmetic
  <2> QED
    BY <2>1, CallKeeps
<1>2. CASE insn.id = "movzx"
  <2>1. Forward(p, a, c, insn, on) = ForwardExtend(a, insn, FALSE)
    BY <1>2 DEF Forward, Widening, X87, Arithmetic
  <2> QED
    BY <2>1, ExtendKeeps
<1>3. CASE insn.id \in {"movsx", "movsxd"}
  <2>1. Forward(p, a, c, insn, on) = ForwardExtend(a, insn, TRUE)
    BY <1>3 DEF Forward, Widening, X87, Arithmetic
  <2> QED
    BY <2>1, ExtendKeeps
<1>4. CASE insn.id = "mov"
  <2>1. Forward(p, a, c, insn, on) = ForwardMOV(p, a, c, insn, on)
    BY <1>4 DEF Forward, Widening, X87, Arithmetic
  <2> QED
    BY <1>4, <2>1, FormedOps, MovLearns
<1>5. CASE insn.id = "lea"
  <2>1. Forward(p, a, c, insn, on) = ForwardLEA(p, a, c, insn, on)
    BY <1>5 DEF Forward, Widening, X87, Arithmetic
  <2> QED
    BY <1>5, <2>1, FormedOps, LeaLearns
<1>6. CASE insn.id \in Widening
  <2>1. Forward(p, a, c, insn, on) = ForwardWiden(a, insn)
    BY <1>6 DEF Forward, Widening, X87, Arithmetic
  <2> QED
    BY <1>6, <2>1, WidenKeeps
<1>7. CASE insn.id \in X87
  <2>1. Forward(p, a, c, insn, on) = ForwardX87(a, insn)
    BY <1>7 DEF Forward, Widening, X87, Arithmetic
  <2> QED
    BY <1>7, <2>1, X87Keeps
<1>8. CASE insn.id \in Arithmetic
  <2>1. Forward(p, a, c, insn, on) = ForwardArithmetic(p, a, c, insn, on)
    BY <1>8 DEF Forward, Widening, X87, Arithmetic
  <2> QED
    BY <1>8, <2>1, ArithmeticLearns
<1>9. CASE insn.id \notin {"call", "movzx", "movsx", "movsxd", "mov", "lea"} \union Widening \union X87 \union Arithmetic
  <2>1. Forward(p, a, c, insn, on) = a
    BY <1>9 DEF Forward
  <2> QED
    BY <2>1
<1> QED
  BY <1>1, <1>2, <1>3, <1>4, <1>5, <1>6, <1>7, <1>8, <1>9

-----------------------------------------------------------------------------
\* Backward, nothing is learnt.
LEMMA EqKeeps == ASSUME NEW a, IsFacts(a), NEW insn PROVE BackwardEQ(a, insn).known = a.known
<1>1. BackwardEQ(a, insn) = a \/ \E o, q, t : BackwardEQ(a, insn) = Set(Set(a, o, t), q, t)
  BY DEF BackwardEQ
<1> QED
  BY <1>1, KnownTwice

LEMMA BackMovKeeps == ASSUME NEW a, IsFacts(a), NEW insn PROVE BackwardMOV(a, insn).known = a.known
<1>1. PICK b : b = IF WithContext(a.ctx, insn.op[1]) = NoType THEN a
                   ELSE Set(a, insn.op[2], WithContext(a.ctx, insn.op[1]))
  OBVIOUS
<1>2. IsFacts(b) /\ b.known = a.known
  BY <1>1, KnownSet
<1>3. BackwardDst1(a, insn) = [b EXCEPT !.ctx = RemoveOP(@, insn.op[1])]
  BY <1>1 DEF BackwardDst1
<1>4. BackwardDst1(a, insn).known = a.known
  BY <1>2, <1>3, KnownWith
<1> QED
  BY <1>4 DEF BackwardMOV

LEMMA BackLeaKeeps == ASSUME NEW a, IsFacts(a), NEW insn PROVE BackwardLEA(a, insn).known = a.known
<1>1. PICK t : t = WithContext(a.ctx, insn.op[1])
  OBVIOUS
<1>2. PICK b : b = IF t # NoType THEN SetObject(a, insn.op[2], t) ELSE a
  OBVIOUS
<1>3. IsFacts(b) /\ b.known = a.known
  BY <1>2, KnownSet, KnownSetObject DEF SetObject
<1>4. BackwardLEA(a, insn) = IF t # NoType /\ ~IsPointerType(t) THEN a
                             ELSE [b EXCEPT !.ctx = RemoveOP(@, insn.op[1])]
  BY <1>1, <1>2 DEF BackwardLEA
<1> QED
  BY <1>3, <1>4, KnownWith

LEMMA BackArithmeticKeeps ==
  ASSUME NEW a, IsFacts(a), NEW insn, insn.id \in Arithmetic
  PROVE  BackwardArithmetic(a, insn).known = a.known
<1>1. CASE insn.id \in {"cmp", "logic"}
  <2>1. PICK o0, o1, t : /\ o0 = insn.op[1] /\ o1 = insn.op[2]
                         /\ t = IF insn.id = "logic" THEN UInt(SizeOf(a, o0)) ELSE SInt(SizeOf(a, o0))
    OBVIOUS
  <2>2. PICK b, d : /\ b = [a EXCEPT !.ctx = Insert(@, o0, Float(o1.size))]
                    /\ d = [a EXCEPT !.ctx = Insert(@, o0, t)]
    OBVIOUS
  <2>3. IsFacts(b) /\ b.known = a.known /\ d.known = a.known
    BY <2>2, KnownWith
  <2>4. Set(b, o1, b.ctx[o0]).known = a.known
    BY <2>3, KnownSet
  <2>5. BackwardTest(a, insn) \in {d, Set(b, o1, b.ctx[o0]), BackwardEQ(a, insn)}
    BY <2>1, <2>2 DEF BackwardTest
  <2> QED
    BY <1>1, <2>3, <2>4, <2>5, EqKeeps DEF BackwardArithmetic
<1>2. CASE insn.id = "setcc"
  BY <1>2, KnownWith DEF BackwardArithmetic
<1>3. CASE insn.id \in {"add", "sub"}
  <2>1. BackwardADDSUB(a, insn) = a
          \/ \E o, q, t, u : BackwardADDSUB(a, insn) = AddTo(a, o, q, t, u)
    BY DEF BackwardADDSUB
  <2> QED
    BY <1>3, <2>1, KnownAddTo DEF BackwardArithmetic
<1> QED
  BY <1>1, <1>2, <1>3 DEF Arithmetic

LEMMA BackwardKeeps ==
  ASSUME NEW p, NEW a, IsFacts(a), NEW insn
  PROVE  Backward(p, a, insn).known = a.known
<1>1. CASE insn.id = "call"
  <2>1. Backward(p, a, insn) = BackwardCall(p, a, insn)
    BY <1>1 DEF Backward, Widening, X87, Arithmetic
  <2> QED
    BY <2>1, CallKeeps
<1>2. CASE insn.id = "movzx"
  <2>1. Backward(p, a, insn) = BackwardExtend(a, insn, FALSE)
    BY <1>2 DEF Backward, Widening, X87, Arithmetic
  <2> QED
    BY <2>1, BackExtendKeeps
<1>3. CASE insn.id \in {"movsx", "movsxd"}
  <2>1. Backward(p, a, insn) = BackwardExtend(a, insn, TRUE)
    BY <1>3 DEF Backward, Widening, X87, Arithmetic
  <2> QED
    BY <2>1, BackExtendKeeps
<1>4. CASE insn.id = "mov"
  <2>1. Backward(p, a, insn) = BackwardMOV(a, insn)
    BY <1>4 DEF Backward, Widening, X87, Arithmetic
  <2> QED
    BY <2>1, BackMovKeeps
<1>5. CASE insn.id = "lea"
  <2>1. Backward(p, a, insn) = BackwardLEA(a, insn)
    BY <1>5 DEF Backward, Widening, X87, Arithmetic
  <2> QED
    BY <2>1, BackLeaKeeps
<1>6. CASE insn.id \in Widening
  <2>1. Backward(p, a, insn) = BackwardWiden(a, insn)
    BY <1>6 DEF Backward, Widening, X87, Arithmetic
  <2> QED
    BY <1>6, <2>1, WidenKeeps
<1>7. CASE insn.id \in X87
  <2>1. Backward(p, a, insn) = BackwardX87(a, insn)
    BY <1>7 DEF Backward, Widening, X87, Arithmetic
  <2> QED
    BY <1>7, <2>1, X87Keeps
<1>8. CASE insn.id \in Arithmetic
  <2>1. Backward(p, a, insn) = BackwardArithmetic(a, insn)
    BY <1>8 DEF Backward, Widening, X87, Arithmetic
  <2> QED
    BY <1>8, <2>1, BackArithmeticKeeps
<1>9. CASE insn.id \notin {"call", "movzx", "movsx", "movsxd", "mov", "lea"} \union Widening \union X87 \union Arithmetic
  <2>1. Backward(p, a, insn) = a
    BY <1>9 DEF Backward
  <2> QED
    BY <2>1
<1> QED
  BY <1>1, <1>2, <1>3, <1>4, <1>5, <1>6, <1>7, <1>8, <1>9

LEMMA PrepareKeeps ==
  ASSUME NEW a, IsFacts(a), NEW insn
  PROVE  IsFacts(Prepare(a, insn)) /\ Prepare(a, insn).known = a.known
<1>1. PICK b : b = [a EXCEPT !.ctx = RemoveReg(@, "rip")]
  OBVIOUS
<1>2. IsFacts(b) /\ b.known = a.known
  BY <1>1, KnownWith
<1>3. \E w : NoteOperands(b, insn) = Note(b, w)
  BY DEF NoteOperands
<1>4. IsFacts(NoteOperands(b, insn)) /\ NoteOperands(b, insn).known = a.known
  BY <1>2, <1>3, KnownNote
<1> QED
  BY <1>1, <1>4 DEF Prepare

-----------------------------------------------------------------------------
(***************************************************************************)
(* A step that learns no variable which is missing from the debug info is  *)
(* the step that is taken where none is missing.                           *)
(***************************************************************************)
NoneOf(vars, H) == \A i \in DOMAIN vars : vars[i].id \notin H

\* What the debug info still says when H is missing.
Reduced(p, q) ==
  /\ q.vars = p.vars /\ q.globals = p.globals /\ q.callee = p.callee
  /\ p.hidden = {} /\ p.vars \in Seq(VarInfo)

\* g is found where f would be, if nothing that f was read from is missing.
Near(f, g, H) ==
  /\ f.var \in Seq(VarInfo) /\ (f = NoFact \/ f.type # NoType)
  /\ NoneOf(f.var, H) => g = f

LEMMA NearFact == ASSUME NEW t, NEW H PROVE Near(Fact(t), Fact(t), H)
<1>1. PICK f : f = Fact(t)
  OBVIOUS
<1>2. f.type = t /\ f.var = <<>> /\ (t = NoType => f = NoFact)
  BY <1>1 DEF Fact, NoFact
<1>3. <<>> \in Seq(VarInfo)
  OBVIOUS
<1> QED
  BY <1>1, <1>2, <1>3 DEF Near

LEMMA SameKnown ==
  ASSUME NEW p, NEW q, Reduced(p, q), NEW a, NEW c, NEW insn, NEW o, NEW lea \in BOOLEAN
  PROVE  WithKnown(q, a, c, insn, o, lea) = WithKnown(p, a, c, insn, o, lea)
  BY DEF WithKnown, Reduced

LEMMA NearKnown ==
  ASSUME NEW p, NEW q, Reduced(p, q), NEW a, NEW c, NEW insn, NEW o, NEW lea \in BOOLEAN
  PROVE  Near(WithKnown(p, a, c, insn, o, lea), WithKnown(q, a, c, insn, o, lea), q.hidden)
<1>1. WithKnown(q, a, c, insn, o, lea) = WithKnown(p, a, c, insn, o, lea)
  BY SameKnown
<1>2. \E t : WithKnown(p, a, c, insn, o, lea) = Fact(t)
  BY DEF WithKnown
<1> QED
  BY <1>1, <1>2, NearFact

\* FirstOf takes the element at the least position.
LEMMA FirstIs ==
  ASSUME NEW s, NEW I \in SUBSET Nat, NEW none, NEW i \in I, \A k \in I : i <= k
  PROVE  FirstOf(s, I, none) = s[i]
<1>1. PICK x : x = CHOOSE y \in I : \A k \in I : y <= k
  OBVIOUS
<1>2. x \in I /\ \A k \in I : x <= k
  BY <1>1
<1>3. x \in Nat /\ i \in Nat /\ x <= i /\ i <= x
  BY <1>2
<1>4. x = i
  BY <1>3
<1> QED
  BY <1>1, <1>4 DEF FirstOf

LEMMA NearUnknown ==
  ASSUME NEW p, NEW q, Reduced(p, q), NEW a, NEW c, NEW o, NEW lea \in BOOLEAN, NEW on \in BOOLEAN
  PROVE  Near(WithUnknown(p, a, c, o, lea, on), WithUnknown(q, a, c, o, lea, on), q.hidden)
<1> DEFINE free(k) == p.vars[k].stack /\ \A i \in DOMAIN a.known : a.known[i].id # p.vars[k].id
           hit(k) == StackHit(c, o, lea, p.vars[k])
           hits(H) == [k \in DOMAIN p.vars |-> IF /\ p.vars[k].stack /\ p.vars[k].id \notin H
                                                  /\ \A i \in DOMAIN a.known : a.known[i].id # p.vars[k].id
                                               THEN hit(k) ELSE NoType]
           found(H) == [k \in DOMAIN hits(H) |-> [type |-> hits(H)[k], var |-> <<p.vars[k]>>]]
           at(H) == {k \in DOMAIN hits(H) : hits(H)[k] # NoType}
<1>1. /\ WithUnknown(p, a, c, o, lea, on) =
           IF on /\ IsMem(o) /\ o.base = "rbp" THEN FirstOf(found({}), at({}), NoFact) ELSE NoFact
      /\ WithUnknown(q, a, c, o, lea, on) =
           IF on /\ IsMem(o) /\ o.base = "rbp" THEN FirstOf(found(q.hidden), at(q.hidden), NoFact) ELSE NoFact
  BY DEF WithUnknown, Reduced
<1>2. DOMAIN p.vars \in SUBSET Nat /\ \A k \in DOMAIN p.vars : p.vars[k] \in VarInfo
  <2>1. p.vars \in Seq(VarInfo)
    BY DEF Reduced
  <2> QED
    BY <2>1
<1>3. ASSUME NEW H, NEW k PROVE k \in at(H) <=> k \in DOMAIN p.vars /\ free(k) /\ p.vars[k].id \notin H /\ hit(k) # NoType
  <2> HIDE DEF hit
  <2> QED
    OBVIOUS
<1>4. ASSUME NEW H, NEW k \in at(H)
      PROVE  found(H)[k] = [type |-> hit(k), var |-> <<p.vars[k]>>]
  <2> HIDE DEF hit
  <2>1. k \in DOMAIN p.vars /\ free(k) /\ p.vars[k].id \notin H
    OBVIOUS
  <2> QED
    BY <2>1
<1> HIDE DEF free, hit, hits, found, at
<1>5. \A H : at(H) \in SUBSET Nat
  BY <1>2, <1>3
<1>6. PICK f, g : f = FirstOf(found({}), at({}), NoFact) /\ g = FirstOf(found(q.hidden), at(q.hidden), NoFact)
  OBVIOUS
<1>7. Near(f, g, q.hidden)
  <2>1. \A k \in at(q.hidden) : k \in at({}) /\ found(q.hidden)[k] = found({})[k]
    BY <1>3, <1>4
  <2>2. CASE at({}) = {}
    <3>1. at(q.hidden) = {}
      BY <2>1, <2>2
    <3>2. f = NoFact /\ g = NoFact
      BY <1>6, <2>2, <3>1 DEF FirstOf
    <3> QED
      BY <3>2, NearFact DEF NoFact
  <2>3. CASE at({}) # {}
    <3>1. PICK i \in at({}) : \A k \in at({}) : i <= k
      BY <1>5, <2>3, Least
    <3>3. f = found({})[i]
      BY <1>5, <1>6, <3>1, FirstIs
    <3>4. f = [type |-> hit(i), var |-> <<p.vars[i]>>] /\ hit(i) # NoType /\ p.vars[i] \in VarInfo
      BY <1>2, <1>3, <1>4, <3>1, <3>3
    <3>5. ASSUME NoneOf(f.var, q.hidden) PROVE g = f
      <4>1. p.vars[i].id \notin q.hidden
        <5>1. f.var = <<p.vars[i]>>
          BY <3>4
        <5>2. 1 \in DOMAIN f.var /\ f.var[1] = p.vars[i]
          BY <5>1
        <5> QED
          BY <3>5, <5>2 DEF NoneOf
      <4>2. i \in at(q.hidden)
        BY <1>3, <3>1, <4>1
      <4>3. g = found(q.hidden)[i]
        BY <1>5, <1>6, <2>1, <3>1, <4>2, FirstIs
      <4> QED
        BY <2>1, <3>3, <4>2, <4>3
    <3>6. f.var \in Seq(VarInfo) /\ f.type # NoType
      <4>1. f.var = <<p.vars[i]>> /\ f.type = hit(i)
        BY <3>4
      <4> QED
        BY <3>4, <4>1
    <3> QED
      BY <3>5, <3>6 DEF Near
  <2> QED
    BY <2>2, <2>3
<1>8. Near(NoFact, NoFact, q.hidden)
  BY NearFact DEF NoFact
<1> QED
  BY <1>1, <1>6, <1>7, <1>8

LEMMA NearChoice ==
  ASSUME NEW H, NEW fs, NEW gs, DOMAIN fs \in SUBSET Nat, DOMAIN gs = DOMAIN fs,
         \A i \in DOMAIN fs : Near(fs[i], gs[i], H)
  PROVE  Near(Choose1(fs), Choose1(gs), H)
<1>1. PICK I, J : I = {i \in DOMAIN fs : fs[i].type # NoType} /\ J = {i \in DOMAIN gs : gs[i].type # NoType}
  OBVIOUS
<1>2. /\ I \in SUBSET Nat /\ J \in SUBSET Nat
      /\ Choose1(fs) = FirstOf(fs, I, NoFact) /\ Choose1(gs) = FirstOf(gs, J, NoFact)
  BY <1>1 DEF Choose1
<1>3. ASSUME NEW j \in J, j \notin I PROVE FALSE
  <2>1. j \in DOMAIN fs /\ fs[j] = NoFact
    BY <1>1, <1>3 DEF Near
  <2>2. NoneOf(fs[j].var, H)
    BY <2>1 DEF NoFact, Fact, NoneOf
  <2>3. gs[j] = NoFact
    BY <2>1, <2>2 DEF Near
  <2> QED
    BY <1>1, <2>3 DEF NoFact, Fact
<1>4. CASE I = {}
  <2>1. J = {}
    BY <1>3, <1>4
  <2>2. Choose1(fs) = NoFact /\ Choose1(gs) = NoFact
    BY <1>2, <1>4, <2>1 DEF FirstOf
  <2> QED
    BY <2>2, NearFact DEF NoFact
<1>5. CASE I # {}
  <2>1. PICK i \in I : \A k \in I : i <= k
    BY <1>2, <1>5, Least
  <2>2. Choose1(fs) = fs[i]
    BY <1>2, <2>1, FirstIs
  <2>3. Near(fs[i], gs[i], H)
    BY <1>1
  <2>4. ASSUME NoneOf(fs[i].var, H) PROVE Choose1(gs) = fs[i]
    <3>1. gs[i] = fs[i]
      BY <2>3, <2>4 DEF Near
    <3>2. i \in J
      BY <1>1, <2>1, <3>1
    <3>3. \A k \in J : i <= k
      BY <1>3, <2>1
    <3>4. Choose1(gs) = gs[i]
      BY <1>2, <3>2, <3>3, FirstIs
    <3> QED
      BY <3>1, <3>4
  <2> QED
    BY <2>2, <2>3, <2>4 DEF Near
<1> QED
  BY <1>4, <1>5

LEMMA Near3 ==
  ASSUME NEW H, NEW f1, NEW f2, NEW f3, NEW g1, NEW g2, NEW g3,
         Near(f1, g1, H), Near(f2, g2, H), Near(f3, g3, H)
  PROVE  Near(Choose1(<<f1, f2, f3>>), Choose1(<<g1, g2, g3>>), H)
<1>1. PICK fs, gs : fs = <<f1, f2, f3>> /\ gs = <<g1, g2, g3>>
  OBVIOUS
<1>2. /\ DOMAIN fs = 1 .. 3 /\ fs[1] = f1 /\ fs[2] = f2 /\ fs[3] = f3
      /\ DOMAIN gs = 1 .. 3 /\ gs[1] = g1 /\ gs[2] = g2 /\ gs[3] = g3
  BY <1>1
<1>3. \A i \in DOMAIN fs : Near(fs[i], gs[i], H)
  BY <1>2
<1> QED
  BY <1>1, <1>2, <1>3, NearChoice

LEMMA Near5 ==
  ASSUME NEW H, NEW f1, NEW f2, NEW f3, NEW f4, NEW f5, NEW g1, NEW g2, NEW g3, NEW g4, NEW g5,
         Near(f1, g1, H), Near(f2, g2, H), Near(f3, g3, H), Near(f4, g4, H), Near(f5, g5, H)
  PROVE  Near(Choose1(<<f1, f2, f3, f4, f5>>), Choose1(<<g1, g2, g3, g4, g5>>), H)
<1>1. PICK fs, gs : fs = <<f1, f2, f3, f4, f5>> /\ gs = <<g1, g2, g3, g4, g5>>
  OBVIOUS
<1>2. /\ DOMAIN fs = 1 .. 5 /\ fs[1] = f1 /\ fs[2] = f2 /\ fs[3] = f3 /\ fs[4] = f4 /\ fs[5] = f5
      /\ DOMAIN gs = 1 .. 5 /\ gs[1] = g1 /\ gs[2] = g2 /\ gs[3] = g3 /\ gs[4] = g4 /\ gs[5] = g5
  BY <1>1
<1>3. \A i \in DOMAIN fs : Near(fs[i], gs[i], H)
  BY <1>2
<1> QED
  BY <1>1, <1>2, <1>3, NearChoice

Facts(a) == IsFacts(a) /\ a.known \in Seq(VarInfo)

LEMMA LearnNear ==
  ASSUME NEW H, NEW f, NEW g, Near(f, g, H), NEW a, Facts(a), NEW b,
         b.known = Learn(a, f).known, NoneOf(b.known, H)
  PROVE  g = f
<1>1. Learn(a, f).known = a.known \o f.var
  BY KnownLearn DEF Facts
<1>2. PICK s, t : s = a.known /\ t = f.var
  OBVIOUS
<1>3. /\ s \in Seq(VarInfo) /\ t \in Seq(VarInfo) /\ Len(s) \in Nat /\ Len(t) \in Nat
      /\ Len(s \o t) = Len(s) + Len(t)
      /\ \A i \in 1 .. Len(s) + Len(t) : (s \o t)[i] = IF i <= Len(s) THEN s[i] ELSE t[i - Len(s)]
  <2>1. s \in Seq(VarInfo) /\ t \in Seq(VarInfo)
    BY <1>2 DEF Facts, Near
  <2> QED
    BY <2>1
<1>4. ASSUME NEW i \in DOMAIN t PROVE t[i].id \notin H
  <2>1. i \in 1 .. Len(t)
    BY <1>3
  <2>2. Len(s) + i \in DOMAIN (s \o t) /\ (s \o t)[Len(s) + i] = t[i]
    BY <1>3, <2>1
  <2> QED
    BY <1>1, <1>2, <2>2 DEF NoneOf
<1> QED
  BY <1>2, <1>4 DEF Near, NoneOf

LEMMA SrcHidden ==
  ASSUME NEW p, NEW q, Reduced(p, q), NEW a, Facts(a), NEW c, NEW insn, NEW on \in BOOLEAN,
         NoneOf(Src123Dst13(p, a, c, insn, on).known, q.hidden)
  PROVE  Src123Dst13(q, a, c, insn, on) = Src123Dst13(p, a, c, insn, on)
<1>1. PICK o0, o1, H : o0 = insn.op[1] /\ o1 = insn.op[2] /\ H = q.hidden
  OBVIOUS
<1> DEFINE fact(r) == Choose1(<<WithKnown(r, a, c, insn, o1, FALSE), Fact(WithContext(a.ctx, o1)),
                                WithKnown(r, a, c, insn, o0, FALSE),
                                WithUnknown(r, a, c, o1, FALSE, on), WithUnknown(r, a, c, o0, FALSE, on)>>)
<1>2. Near(fact(p), fact(q), H)
  BY <1>1, NearKnown, NearFact, NearUnknown, Near5
<1>3. ASSUME NEW r
      PROVE  Src123Dst13(r, a, c, insn, on) =
               IF IsImm(o1) THEN a
               ELSE IF fact(r) = NoFact THEN [a EXCEPT !.ctx = RemoveOP(@, o0)]
               ELSE Set(Set(Learn(a, fact(r)), o1, fact(r).type), o0, fact(r).type)
  BY <1>1 DEF Src123Dst13
<1> HIDE DEF fact
<1>4. CASE IsImm(o1)
  BY <1>3, <1>4
<1>5. CASE fact(p) = NoFact
  <2>1. NoneOf(fact(p).var, H)
    BY <1>5 DEF NoneOf, NoFact, Fact
  <2> QED
    BY <1>2, <1>3, <1>5, <2>1 DEF Near
<1>6. CASE ~ IsImm(o1) /\ fact(p) # NoFact
  <2>1. PICK b : b = Set(Set(Learn(a, fact(p)), o1, fact(p).type), o0, fact(p).type)
    OBVIOUS
  <2>2. IsFacts(Learn(a, fact(p)))
    BY KnownLearn DEF Facts
  <2>3. b.known = Learn(a, fact(p)).known
    BY <2>1, <2>2, KnownTwice
  <2>4. Src123Dst13(p, a, c, insn, on) = b
    BY <1>3, <1>6, <2>1
  <2>5. fact(q) = fact(p)
    BY <1>1, <1>2, <2>3, <2>4, LearnNear
  <2> QED
    BY <1>3, <2>5
<1> QED
  BY <1>4, <1>5, <1>6

LEMMA MovHidden ==
  ASSUME NEW p, NEW q, Reduced(p, q), NEW a, Facts(a), NEW c, NEW insn, NEW on \in BOOLEAN,
         NoneOf(ForwardMOV(p, a, c, insn, on).known, q.hidden)
  PROVE  ForwardMOV(q, a, c, insn, on) = ForwardMOV(p, a, c, insn, on)
<1> DEFINE o0 == insn.op[1]
           o1 == insn.op[2]
           canary == /\ IsMem(o1) /\ o1.seg = "fs" /\ o1.base = NoReg
                     /\ o1.index = NoReg /\ o1.disp = 40
           width == IF IsReg(o0) THEN RegWidth(o0.reg) ELSE o0.size
           t == IF IsXMMReg(o0) THEN Float(o1.size) ELSE SInt(width)
<1>1. ASSUME NEW r
      PROVE  ForwardMOV(r, a, c, insn, on) =
               IF canary THEN Set(Set(a, o0, UInt(8)), o1, UInt(8))
               ELSE IF IsImm(o1) THEN Set(a, o0, SInt(width))
               ELSE IF IsReg(o0) /\ IsGlobalMem(o1) THEN Set(Set(a, o0, t), o1, t)
               ELSE Src123Dst13(r, a, c, insn, on)
  <2>1. /\ IsImm(o1) => ~ canary
        /\ IsImm(o1) => ~ IsGlobalMem(o1)
    BY DEF IsImm, IsMem, IsGlobalMem
  <2> QED
    BY <2>1 DEF ForwardMOV
<1> HIDE DEF o0, o1, canary, width, t
<1> QED
  BY <1>1, SrcHidden

LEMMA LogicHidden ==
  ASSUME NEW p, NEW q, Reduced(p, q), NEW a, Facts(a), NEW c, NEW insn, NEW on \in BOOLEAN,
         NoneOf(ForwardLOGIC(p, a, c, insn, on).known, q.hidden)
  PROVE  ForwardLOGIC(q, a, c, insn, on) = ForwardLOGIC(p, a, c, insn, on)
  BY SrcHidden DEF ForwardLOGIC

LEMMA CmpHidden ==
  ASSUME NEW p, NEW q, Reduced(p, q), NEW a, Facts(a), NEW c, NEW insn, NEW on \in BOOLEAN,
         NoneOf(ForwardCMP(p, a, c, insn, on).known, q.hidden)
  PROVE  ForwardCMP(q, a, c, insn, on) = ForwardCMP(p, a, c, insn, on)
<1>1. PICK o0, o1 : o0 = insn.op[1] /\ o1 = insn.op[2]
  OBVIOUS
<1>2. PICK b, d : /\ b = [a EXCEPT !.ctx = Insert(@, o0, Float(o1.size))]
                  /\ d = [a EXCEPT !.ctx = Insert(@, o0, SInt(SizeOf(a, o0)))]
  OBVIOUS
<1>3. ASSUME NEW r
      PROVE  ForwardCMP(r, a, c, insn, on) =
               IF IsReg(o0) /\ IsImm(o1) /\ o1.val # 0 THEN d
               ELSE IF IsXMMReg(o0) /\ IsGlobalMem(o1) THEN Set(b, o1, b.ctx[o0])
               ELSE Src123Dst13(r, a, c, insn, on)
  BY <1>1, <1>2 DEF ForwardCMP
<1> QED
  BY <1>3, SrcHidden

LEMMA AddSubHidden ==
  ASSUME NEW p, NEW q, Reduced(p, q), NEW a, Facts(a), NEW c, NEW insn, NEW on \in BOOLEAN,
         NoneOf(ForwardADDSUB(p, a, c, insn, on).known, q.hidden)
  PROVE  ForwardADDSUB(q, a, c, insn, on) = ForwardADDSUB(p, a, c, insn, on)
<1>1. PICK o0, o1, H : o0 = insn.op[1] /\ o1 = insn.op[2] /\ H = q.hidden
  OBVIOUS
<1> DEFINE fact(r, o) == Choose1(<<Fact(WithContext(a.ctx, o)), WithKnown(r, a, c, insn, o, FALSE),
                                   WithUnknown(r, a, c, o, FALSE, on)>>)
<1>2. ASSUME NEW o PROVE Near(fact(p, o), fact(q, o), H)
  BY <1>1, NearKnown, NearFact, NearUnknown, Near3
<1>3. ASSUME NEW r
      PROVE  ForwardADDSUB(r, a, c, insn, on) =
               IF IsImm(o1) \/ o0 = Reg("rsp") THEN a
               ELSE IF fact(r, o0) # NoFact
               THEN AddTo(Learn(a, fact(r, o0)), o0, o1, fact(r, o0).type, SInt(SizeOf(a, o1)))
               ELSE IF fact(r, o1) # NoFact
               THEN AddTo(Learn(a, fact(r, o1)), o1, o0, fact(r, o1).type, fact(r, o1).type)
               ELSE a
  BY <1>1 DEF ForwardADDSUB
<1> HIDE DEF fact
<1>4. ASSUME NEW o, fact(p, o) = NoFact PROVE fact(q, o) = fact(p, o)
  <2>1. NoneOf(fact(p, o).var, H)
    BY <1>4 DEF NoneOf, NoFact, Fact
  <2> QED
    BY <1>2, <2>1 DEF Near
<1>5. ASSUME NEW o, NEW x, NEW y, NEW t, NEW u,
             ForwardADDSUB(p, a, c, insn, on) = AddTo(Learn(a, fact(p, o)), x, y, t, u)
      PROVE  fact(q, o) = fact(p, o)
  <2>1. IsFacts(Learn(a, fact(p, o)))
    BY KnownLearn DEF Facts
  <2>2. ForwardADDSUB(p, a, c, insn, on).known = Learn(a, fact(p, o)).known
    BY <1>5, <2>1, KnownAddTo
  <2> QED
    BY <1>1, <1>2, <2>2, LearnNear
<1>6. CASE IsImm(o1) \/ o0 = Reg("rsp")
  BY <1>3, <1>6
<1>7. CASE ~ (IsImm(o1) \/ o0 = Reg("rsp")) /\ fact(p, o0) # NoFact
  <2>1. fact(q, o0) = fact(p, o0)
    BY <1>3, <1>5, <1>7
  <2> QED
    BY <1>3, <1>7, <2>1
<1>8. CASE ~ (IsImm(o1) \/ o0 = Reg("rsp")) /\ fact(p, o0) = NoFact
  <2>1. fact(q, o0) = fact(p, o0)
    BY <1>4, <1>8
  <2>2. fact(q, o1) = fact(p, o1)
    BY <1>3, <1>4, <1>5, <1>8
  <2> QED
    BY <1>3, <1>8, <2>1, <2>2
<1> QED
  BY <1>6, <1>7, <1>8

LEMMA LeaHidden ==
  ASSUME NEW p, NEW q, Reduced(p, q), NEW a, Facts(a), NEW c, NEW insn, NEW on \in BOOLEAN,
         NoneOf(ForwardLEA(p, a, c, insn, on).known, q.hidden)
  PROVE  ForwardLEA(q, a, c, insn, on) = ForwardLEA(p, a, c, insn, on)
<1>1. PICK o0, o1, H : o0 = insn.op[1] /\ o1 = insn.op[2] /\ H = q.hidden
  OBVIOUS
<1>2. PICK base, known, inCtx :
        /\ base = Reg(o1.base)
        /\ known = WithKnown(p, a, c, insn, o1, TRUE)
        /\ inCtx = WithContext(a.ctx, o1)
  OBVIOUS
<1>3. WithKnown(q, a, c, insn, o1, TRUE) = known
  <2>1. \A lea \in BOOLEAN : WithKnown(q, a, c, insn, o1, lea) = WithKnown(p, a, c, insn, o1, lea)
    BY SameKnown
  <2> QED
    BY <1>2, <2>1, Zenon
<1> DEFINE sum == /\ o1.index = NoReg /\ o1.seg = NoReg /\ base \in DOMAIN a.ctx
                  /\ IsIntegerType(a.ctx[base])
           added == Set(Set(a, o0, [a.ctx[base] EXCEPT !.size = SizeOf(a, o0)]), o1, SInt(8))
           ofKnown == SetObject(Set(a, o0, known.type), o1, known.type)
           ofCtx == Set(Set(a, o1, inCtx), o0, Pointer(inCtx))
           fresh(r) == WithUnknown(r, a, c, o1, TRUE, on)
           ofFresh(f) == SetObject(Set(Learn(a, f), o0, f.type), o1, f.type)
           removed == [a EXCEPT !.ctx = RemoveOP(@, o0)]
           settled == sum \/ known # NoFact \/ inCtx # NoType
<1>4. ASSUME NEW r, WithKnown(r, a, c, insn, o1, TRUE) = known
      PROVE  ForwardLEA(r, a, c, insn, on) =
        CASE sum -> added
          [] ~sum /\ known # NoFact -> ofKnown
          [] ~sum /\ known = NoFact /\ inCtx # NoType -> ofCtx
          [] ~sum /\ known = NoFact /\ inCtx = NoType /\ fresh(r) # NoFact -> ofFresh(fresh(r))
          [] OTHER -> removed
  BY <1>1, <1>2, <1>4 DEF ForwardLEA
<1>5. Near(fresh(p), fresh(q), H)
  BY <1>1, NearUnknown
<1>6. \A f : IsFacts(Learn(a, f))
  BY KnownLearn DEF Facts
<1>7. ASSUME NEW f PROVE ofFresh(f).known = Learn(a, f).known
  <2>1. /\ IsFacts(Set(Learn(a, f), o0, f.type))
        /\ Set(Learn(a, f), o0, f.type).known = Learn(a, f).known
    BY <1>6, KnownSet
  <2> QED
    BY <2>1, KnownSetObject
<1> HIDE DEF sum, added, ofKnown, ofCtx, ofFresh, removed, fresh
<1>8. CASE settled
  <2>1. CASE sum
    BY <1>2, <1>3, <1>4, <2>1
  <2>2. CASE ~ sum /\ known # NoFact
    BY <1>2, <1>3, <1>4, <2>2
  <2>3. CASE ~ sum /\ known = NoFact /\ inCtx # NoType
    BY <1>2, <1>3, <1>4, <2>3
  <2> QED
    BY <1>8, <2>1, <2>2, <2>3
<1>9. CASE ~ settled /\ fresh(p) = NoFact
  <2>1. NoneOf(fresh(p).var, H)
    BY <1>9 DEF NoneOf, NoFact, Fact
  <2>2. fresh(q) = fresh(p)
    BY <1>5, <2>1 DEF Near
  <2> QED
    BY <1>2, <1>3, <1>4, <1>9, <2>2
<1>10. CASE ~ settled /\ fresh(p) # NoFact
  <2>1. ForwardLEA(p, a, c, insn, on) = ofFresh(fresh(p))
    BY <1>2, <1>4, <1>10
  <2>2. fresh(q) = fresh(p)
    BY <1>1, <1>5, <1>7, <2>1, LearnNear
  <2> QED
    BY <1>2, <1>3, <1>4, <1>10, <2>2
<1> QED
  BY <1>8, <1>9, <1>10

LEMMA ForwardHidden ==
  ASSUME NEW p, NEW q, Reduced(p, q), NEW a, Facts(a), NEW c, NEW insn, NEW on \in BOOLEAN,
         NoneOf(Forward(p, a, c, insn, on).known, q.hidden)
  PROVE  Forward(q, a, c, insn, on) = Forward(p, a, c, insn, on)
<1>1. CASE insn.id = "call"
  <2>1. \A r : Forward(r, a, c, insn, on) = ForwardCall(r, a, insn)
    BY <1>1 DEF Forward, Widening, X87, Arithmetic
  <2>2. ForwardCall(q, a, insn) = ForwardCall(p, a, insn)
    BY DEF ForwardCall, Targets, Reduced
  <2> QED
    BY <2>1, <2>2
<1>2. CASE insn.id = "mov"
  <2>1. \A r : Forward(r, a, c, insn, on) = ForwardMOV(r, a, c, insn, on)
    BY <1>2 DEF Forward, Widening, X87, Arithmetic
  <2> QED
    BY <2>1, MovHidden
<1>3. CASE insn.id = "lea"
  <2>1. \A r : Forward(r, a, c, insn, on) = ForwardLEA(r, a, c, insn, on)
    BY <1>3 DEF Forward, Widening, X87, Arithmetic
  <2> QED
    BY <2>1, LeaHidden
<1>4. CASE insn.id = "cmp"
  <2>1. \A r : Forward(r, a, c, insn, on) = ForwardCMP(r, a, c, insn, on)
    BY <1>4 DEF Forward, ForwardArithmetic, Widening, X87, Arithmetic
  <2> QED
    BY <2>1, CmpHidden
<1>5. CASE insn.id = "logic"
  <2>1. \A r : Forward(r, a, c, insn, on) = ForwardLOGIC(r, a, c, insn, on)
    BY <1>5 DEF Forward, ForwardArithmetic, Widening, X87, Arithmetic
  <2> QED
    BY <2>1, LogicHidden
<1>6. CASE insn.id \in {"add", "sub"}
  <2>1. \A r : Forward(r, a, c, insn, on) = ForwardADDSUB(r, a, c, insn, on)
    BY <1>6 DEF Forward, ForwardArithmetic, Widening, X87, Arithmetic
  <2> QED
    BY <2>1, AddSubHidden
<1>7. CASE insn.id = "setcc"
  BY <1>7 DEF Forward, ForwardArithmetic, Widening, X87, Arithmetic
<1>8. CASE insn.id = "movzx"
  <2>1. \A r : Forward(r, a, c, insn, on) = ForwardExtend(a, insn, FALSE)
    BY <1>8 DEF Forward, Widening, X87, Arithmetic
  <2> QED
    BY <2>1
<1>9. CASE insn.id \in {"movsx", "movsxd"}
  <2>1. \A r : Forward(r, a, c, insn, on) = ForwardExtend(a, insn, TRUE)
    BY <1>9 DEF Forward, Widening, X87, Arithmetic
  <2> QED
    BY <2>1
<1>10. CASE insn.id \in Widening
  <2>1. \A r : Forward(r, a, c, insn, on) = ForwardWiden(a, insn)
    BY <1>10 DEF Forward, Widening, X87, Arithmetic
  <2> QED
    BY <2>1
<1>11. CASE insn.id \in X87
  <2>1. \A r : Forward(r, a, c, insn, on) = ForwardX87(a, insn)
    BY <1>11 DEF Forward, Widening, X87, Arithmetic
  <2> QED
    BY <2>1
<1>12. CASE insn.id \notin {"call", "movzx", "movsx", "movsxd", "mov", "lea"} \union Widening \union X87 \union Arithmetic
  BY <1>12 DEF Forward
<1> QED
  BY <1>1, <1>2, <1>3, <1>4, <1>5, <1>6, <1>7, <1>8, <1>9, <1>10, <1>11, <1>12 DEF Arithmetic

LEMMA BackwardHidden ==
  ASSUME NEW p, NEW q, Reduced(p, q), NEW a, NEW insn
  PROVE  Backward(q, a, insn) = Backward(p, a, insn)
<1>1. BackwardCall(q, a, insn) = BackwardCall(p, a, insn)
  BY DEF BackwardCall, Targets, Reduced
<1> QED
  BY <1>1 DEF Backward

-----------------------------------------------------------------------------
(***************************************************************************)
(* The variables that are known, over the steps of an analysis.            *)
(***************************************************************************)
\* The frames are noted of blocks that every walk along the edges stays in.
FramedOK ==
  phase \in {"fwd1", "bwd", "fwd2", "params"} =>
    \E C \in SUBSET Node :
      /\ prog.entry \in C /\ \A b \in C : cfa[b] # <<>>
      /\ \A b \in C : Elements(prog.succs[b]) \subseteq C

\* An instruction of the function, with a frame, touches v.
Accessed(v) ==
  \E b \in Node : \E i \in DOMAIN CodeOf(b) : cfa[b] # <<>> /\ Touches(cfa[b][i], CodeOf(b)[i], v)

KnownOK ==
  /\ \A i, j \in DOMAIN facts.known : facts.known[i].id = facts.known[j].id => i = j
  /\ facts.known # <<>> => phase \in {"fwd2", "params"}
  /\ \A k \in DOMAIN facts.known : facts.known[k].id \notin hidden /\ Accessed(facts.known[k])

LEMMA FramedStep ==
  ASSUME Inv, FramedOK, [InferNext]_inferVars
  PROVE  FramedOK'
<1>1. CASE FrameNext
  BY <1>1 DEF FrameNext, CFABlock, CFAInsn, CFALeave, CFAReturn, Run, Execute, Jump, FramedOK
<1>2. CASE InPass
  BY <1>2, InPassWalks DEF FramedOK, frameVars
<1>3. CASE Pass("cfa", "fwd1", prog.succs, prog.entry)
  <2>1. /\ phase = "cfa" /\ Finished /\ UNCHANGED <<prog, cfa>>
    BY <1>3 DEF Pass, Start, Finished
  <2>2. edges = prog.succs /\ root = prog.entry /\ Noted
    BY <2>1 DEF Inv, FrameInv
  <2>3. root \in visited /\ Closed(visited) /\ visited \in SUBSET Node
    BY <2>1, WalkInvExact DEF Inv, WalkExact, Complete, WalkInv, WalkTypeOK
  <2>4. ASSUME NEW b \in visited PROVE cfa[b] # <<>>
    <3>1. Len(cfa[b]) \in 1 .. Len(prog.code[b]) + 1
      BY <2>2 DEF Noted
    <3> QED
      BY <3>1
  <2>5. PICK C : C = visited
    OBVIOUS
  <2> QED
    BY <2>1, <2>2, <2>3, <2>4, <2>5 DEF FramedOK, Closed
<1>4. CASE StartPass \/ Again
  <2>1. UNCHANGED <<prog, cfa>>
    BY <1>4 DEF StartPass, Pass, Again, MakeAgain
  <2>2. phase \in {"fwd1", "bwd", "fwd2", "params"} \/ Pass("cfa", "fwd1", prog.succs, prog.entry)
    BY <1>4 DEF StartPass, Pass, Again, MakeAgain
  <2> QED
    BY <1>3, <2>1, <2>2 DEF FramedOK
<1>5. CASE UNCHANGED inferVars
  BY <1>5 DEF inferVars, frameVars, FramedOK
<1> QED
  BY <1>1, <1>2, <1>4, <1>5, NextKinds

\* In the last pass the block being worked on has frames.
LEMMA FramedCur ==
  ASSUME Inv, OwnOK, FramedOK, phase = "fwd2", cur \in Node
  PROVE  cfa[cur] # <<>>
<1>1. PICK C \in SUBSET Node :
        /\ prog.entry \in C /\ \A b \in C : cfa[b] # <<>>
        /\ \A b \in C : Elements(prog.succs[b]) \subseteq C
  BY DEF FramedOK
<1>2. root \in C /\ Closed(C)
  BY <1>1 DEF OwnOK, Closed
<1>3. cur \in C
  BY <1>2, NodeAssumption DEF Inv, WalkInv, Within
<1> QED
  BY <1>1, <1>3

\* What a forward step learns.
LEMMA ForwardKnows ==
  ASSUME prog \in Program, WalkTypeOK, StoreOK, PlaceOK, ForwardInsn
  PROVE  Learns(facts, facts', NewVars(Debug, facts, cfa[cur][pos + 1], CodeOf(cur)[pos + 1], phase = "fwd2"))
<1>1. cur \in Node /\ pos + 1 \in 1 .. Len(CodeOf(cur))
  BY ForwardStep
<1>2. PICK insn, p, a, on, c :
        /\ insn = CodeOf(cur)[pos + 1] /\ p = Debug /\ a = Prepare(facts, insn)
        /\ on = (phase = "fwd2") /\ c = cfa[cur][pos + 1]
        /\ facts' = Forward(p, a, c, insn, on)
  BY DEF ForwardInsn
<1>3. Formed(insn) /\ DOMAIN p.vars \in SUBSET Nat
  <2>1. p.vars \in Seq(VarInfo)
    BY <1>2, DebugOK DEF InfoOK
  <2> QED
    BY <1>1, <1>2, <2>1, ProgramCode
<1>4. IsFacts(a) /\ a.known = facts.known
  BY <1>2, PrepareKeeps DEF StoreOK, Shaped, IsFacts
<1>5. on \in BOOLEAN
  BY <1>2
<1>6. Learns(a, facts', NewVars(p, a, c, insn, on))
  BY <1>2, <1>3, <1>4, <1>5, ForwardLearns
<1>7. NewVars(p, a, c, insn, on) = NewVars(p, facts, c, insn, on)
  BY <1>4 DEF NewVars
<1>8. Learns(facts, facts', NewVars(p, facts, c, insn, on))
  BY <1>4, <1>6, <1>7 DEF Learns
<1> QED
  BY <1>2, <1>8

\* The steps of a pass that learn nothing.
LEMMA OthersKnow ==
  ASSUME prog \in Program, WalkTypeOK, StoreOK, PlaceOK, InPass, ~ ForwardInsn
  PROVE  facts'.known = facts.known
<1>1. IsFacts(facts)
  BY DEF StoreOK, Shaped, IsFacts
<1>2. CASE EnterForward \/ EnterBackward
  <2>1. facts' = facts \/ \E ctx : facts' = [facts EXCEPT !.ctx = ctx]
    BY <1>2 DEF EnterForward, EnterBackward
  <2> QED
    BY <1>1, <2>1, KnownWith
<1>3. CASE BackwardInsn
  <2>1. PICK insn, p, a : a = Prepare(facts, insn) /\ facts' = Backward(p, a, insn)
    BY <1>3 DEF BackwardInsn
  <2>2. IsFacts(a) /\ a.known = facts.known
    BY <1>1, <2>1, PrepareKeeps
  <2> QED
    BY <2>1, <2>2, BackwardKeeps
<1> QED
  BY <1>2, <1>3 DEF InPass, SkipBlock, LeaveForward, LeaveBackward, EnterParameters, ParameterInsn,
                    LeaveParameters, passVars

LEMMA KnownSame ==
  ASSUME KnownOK, UNCHANGED <<prog, hidden>>, facts'.known = facts.known,
         facts.known # <<>> => phase' \in {"fwd2", "params"} /\ cfa' = cfa
  PROVE  KnownOK'
<1>1. CASE facts.known = <<>>
  BY <1>1 DEF KnownOK
<1>2. CASE facts.known # <<>>
  BY <1>2 DEF KnownOK, Accessed, CodeOf
<1> QED
  BY <1>1, <1>2

\* A variable more.
LEMMA KnownMore ==
  ASSUME NEW s \in Seq(VarInfo), NEW v \in VarInfo, NEW t, t = s \o <<v>>
  PROVE  /\ t \in Seq(VarInfo) /\ Len(s) \in Nat /\ DOMAIN t = 1 .. Len(s) + 1 /\ DOMAIN s = 1 .. Len(s)
         /\ t[Len(s) + 1] = v /\ \A i \in 1 .. Len(s) : t[i] = s[i]
  OBVIOUS

LEMMA KnownStep ==
  ASSUME Inv, ContextInv, FramedOK, KnownOK, [InferNext]_inferVars
  PROVE  KnownOK'
<1>1. prog \in Program /\ WalkTypeOK /\ StoreOK /\ PlaceOK /\ OwnOK
  BY DEF Inv, WalkInv, FrameInv, ContextInv
<1>2. CASE FrameNext /\ UNCHANGED passVars
  <2>1. facts.known = <<>>
    BY <1>2 DEF FrameNext, CFABlock, CFAInsn, CFALeave, CFAReturn, Run, Execute, Jump, KnownOK
  <2>2. UNCHANGED <<facts, hidden>>
    BY <1>2 DEF passVars
  <2> QED
    BY <2>1, <2>2 DEF KnownOK
<1>3. CASE InPass /\ ~ ForwardInsn
  <2>1. UNCHANGED <<prog, phase, cfa>>
    BY <1>3, InPassWalks DEF frameVars
  <2>2. hidden' = hidden
    BY <1>3 DEF InPass, SkipBlock, EnterForward, LeaveForward, EnterBackward, BackwardInsn, LeaveBackward,
                EnterParameters, ParameterInsn, LeaveParameters, passVars
  <2>3. facts'.known = facts.known
    BY <1>1, <1>3, OthersKnow
  <2> QED
    BY <2>1, <2>2, <2>3, KnownSame DEF KnownOK
<1>4. CASE ForwardInsn
  <2>1. UNCHANGED <<prog, phase, cfa, hidden>> /\ phase \in {"fwd1", "fwd2"}
    BY <1>4 DEF ForwardInsn, frameVars
  <2>2. PICK insn, c, on : insn = CodeOf(cur)[pos + 1] /\ c = cfa[cur][pos + 1] /\ on = (phase = "fwd2")
    OBVIOUS
  <2>3. facts.known \in Seq(VarInfo) /\ Debug.vars \in Seq(VarInfo)
    BY <1>1, DebugOK DEF StoreOK, Shaped, InfoOK
  <2>4. Learns(facts, facts', NewVars(Debug, facts, c, insn, on))
    BY <1>1, <1>4, <2>2, ForwardKnows
  <2>5. CASE facts'.known = facts.known
    BY <2>1, <2>5, KnownSame DEF KnownOK
  <2>6. CASE facts'.known # facts.known
    <3>1. PICK w \in NewVars(Debug, facts, c, insn, on) : facts'.known = facts.known \o w
      BY <2>4, <2>6 DEF Learns
    <3>2. w # <<>>
      BY <2>3, <2>6, <3>1
    <3>3. PICK k \in DOMAIN Debug.vars :
            /\ w = <<Debug.vars[k]>>
            /\ on /\ Debug.vars[k].id \notin Debug.hidden
            /\ \A i \in DOMAIN facts.known : facts.known[i].id # Debug.vars[k].id
            /\ Touches(c, insn, Debug.vars[k])
      BY <3>1, <3>2 DEF NewVars
    <3>4. PICK s, v, t : s = facts.known /\ v = Debug.vars[k] /\ t = facts'.known
      OBVIOUS
    <3>5. v \in VarInfo
      BY <2>3, <3>4
    <3>6. /\ Len(s) \in Nat /\ DOMAIN t = 1 .. Len(s) + 1 /\ DOMAIN s = 1 .. Len(s)
          /\ t[Len(s) + 1] = v /\ \A i \in 1 .. Len(s) : t[i] = s[i]
      <4>1. s \in Seq(VarInfo) /\ t = s \o <<v>>
        BY <2>3, <3>1, <3>3, <3>4
      <4> QED
        BY <3>5, <4>1, KnownMore
    <3>7. phase = "fwd2"
      BY <2>2, <3>3
    <3>8. v.id \notin hidden
      BY <3>3, <3>4 DEF Debug
    <3>9. Accessed(v)
      <4>1. cur \in Node /\ pos + 1 \in DOMAIN CodeOf(cur)
        BY <1>1, <1>4, ForwardStep, ProgramCode
      <4>2. cfa[cur] # <<>>
        BY <1>1, <3>7, <4>1, FramedCur
      <4> QED
        BY <2>2, <3>3, <3>4, <4>1, <4>2 DEF Accessed
    <3>10. ASSUME NEW i \in DOMAIN t, NEW j \in DOMAIN t, t[i].id = t[j].id PROVE i = j
      <4>1. \A x \in DOMAIN s : s[x].id # v.id
        BY <3>3, <3>4
      <4>2. i \in 1 .. Len(s) \/ i = Len(s) + 1
        BY <3>6
      <4>3. j \in 1 .. Len(s) \/ j = Len(s) + 1
        BY <3>6
      <4>4. CASE i \in 1 .. Len(s) /\ j \in 1 .. Len(s)
        BY <3>4, <3>6, <3>10, <4>4 DEF KnownOK
      <4> QED
        BY <3>6, <3>10, <4>1, <4>2, <4>3, <4>4
    <3>11. ASSUME NEW i \in DOMAIN t PROVE t[i].id \notin hidden /\ Accessed(t[i])
      <4>1. CASE i \in 1 .. Len(s)
        BY <3>4, <3>6, <4>1 DEF KnownOK
      <4>2. CASE i = Len(s) + 1
        BY <3>6, <3>8, <3>9, <4>2
      <4> QED
        BY <3>6, <4>1, <4>2
    <3>12. \A x : Accessed(x)' <=> Accessed(x)
      BY <2>1 DEF Accessed, CodeOf
    <3> QED
      BY <2>1, <3>4, <3>7, <3>10, <3>11, <3>12 DEF KnownOK
  <2> QED
    BY <2>5, <2>6
<1>5. CASE StartPass
  <2>1. /\ UNCHANGED <<prog, cfa, hidden, facts>>
        /\ phase \in {"fwd2", "params"} => phase' \in {"fwd2", "params"}
    BY <1>5 DEF StartPass, Pass
  <2>2. facts'.known = facts.known
    BY <2>1
  <2> QED
    BY <2>1, <2>2, KnownSame DEF KnownOK
<1>6. CASE Again
  <2>1. facts' = NoFacts
    BY <1>6 DEF Again, MakeAgain
  <2>2. facts'.known = <<>> /\ DOMAIN facts'.known = {}
    BY <2>1 DEF NoFacts
  <2> QED
    BY <2>2 DEF KnownOK
<1>7. CASE UNCHANGED inferVars
  <2>1. UNCHANGED <<prog, cfa, phase, hidden, facts>>
    BY <1>7 DEF inferVars, frameVars, passVars
  <2>2. facts'.known = facts.known
    BY <2>1
  <2> QED
    BY <2>1, <2>2, KnownSame DEF KnownOK
<1> QED
  BY <1>2, <1>3, <1>4, <1>5, <1>6, <1>7, NextKinds

LEMMA KnownAccess == ASSUME KnownOK PROVE KnownAccessed
<1>1. ASSUME NEW k \in DOMAIN facts.known
      PROVE  \E b \in Node : \E i \in DOMAIN CodeOf(b) :
               LET insn == CodeOf(b)[i]
               IN /\ cfa[b] # <<>>
                  /\ \E o \in {insn.op[n] : n \in DOMAIN insn.op} :
                       IsMem(o) /\ o.base = "rbp" /\ StackHit(cfa[b][i], o, insn.id = "lea", facts.known[k]) # NoType
  BY DEF KnownOK, Accessed, Touches
<1> QED
  BY <1>1 DEF KnownOK, KnownAccessed

-----------------------------------------------------------------------------
(***************************************************************************)
(* The first three passes, step by step.  A step of an analysis is a       *)
(* function of where it is, so two analyses of a function that start alike *)
(* stay alike, as long as they learn the same.                             *)
(***************************************************************************)
State(e, t, v, k, ph, n, ic, oc, nc, f, tr) ==
  [edges |-> e, todo |-> t, visited |-> v, cur |-> k, phase |-> ph, pos |-> n,
   inC |-> ic, outC |-> oc, insnC |-> nc, facts |-> f, trail |-> tr]

Now == State(edges, todo, visited, cur, phase, pos, inC, outC, insnC, facts, trail)

\* What the debug info says of p when H is missing.
Info(p, H) == [vars |-> p.params \o p.vars, hidden |-> H, globals |-> p.globals, callee |-> p.callee]

Begin(p) ==
  State(p.succs, <<p.entry>>, {}, NoNode, "fwd1", 0, [b \in Node |-> Empty], [b \in Node |-> Empty],
        NoContexts(p), NoFacts, <<>>)

NextPhase(ph) == IF ph = "fwd1" THEN "bwd" ELSE IF ph = "bwd" THEN "fwd2" ELSE "params"

PassFrom(p, s) ==
  State(IF s.phase = "fwd1" THEN p.preds ELSE p.succs,
        <<IF s.phase = "fwd1" THEN p.exit ELSE p.entry>>, {}, NoNode, NextPhase(s.phase),
        s.pos, s.inC, s.outC, s.insnC, s.facts, <<>>)

SkipFrom(s) ==
  State(s.edges, Tail(s.todo), s.visited, s.cur, s.phase, s.pos, s.inC, s.outC, s.insnC, s.facts, s.trail)

InnerOf(p, b) == b \notin {p.entry, p.exit}

EnterForwardFrom(p, s, b) ==
  LET base == Join(p.preds[b], s.outC)
  IN State(s.edges, Tail(s.todo), s.visited \union {b}, b, s.phase, s.pos,
           IF InnerOf(p, b) THEN [s.inC EXCEPT ![b] = base] ELSE s.inC,
           IF InnerOf(p, b) THEN s.outC ELSE [s.outC EXCEPT ![b] = s.inC[b]],
           s.insnC,
           IF InnerOf(p, b) THEN [s.facts EXCEPT !.ctx = base] ELSE s.facts, s.trail)

EnterBackwardFrom(p, s, b) ==
  LET base == Join(p.succs[b], s.inC)
  IN State(s.edges, Tail(s.todo), s.visited \union {b}, b, s.phase, s.pos,
           IF InnerOf(p, b) THEN s.inC ELSE [s.inC EXCEPT ![b] = s.outC[b]],
           IF InnerOf(p, b) THEN [s.outC EXCEPT ![b] = base] ELSE s.outC,
           IF InnerOf(p, b) THEN [s.insnC EXCEPT ![b][Len(p.code[b])] = base] ELSE s.insnC,
           IF InnerOf(p, b) THEN [s.facts EXCEPT !.ctx = base] ELSE s.facts, s.trail)

\* The facts behind the next instruction of the block.
ForwardFacts(p, c, s, H) ==
  LET insn == p.code[s.cur][s.pos + 1]
  IN Forward(Info(p, H), Prepare(s.facts, insn), c[s.cur][s.pos + 1], insn, s.phase = "fwd2")

BackwardFacts(p, s, H) ==
  LET insn == p.code[s.cur][Len(p.code[s.cur]) - s.pos]
  IN Backward(Info(p, H), Prepare(s.facts, insn), insn)

ForwardFrom(s, f) ==
  State(s.edges, s.todo, s.visited, s.cur, s.phase, s.pos + 1, s.inC, s.outC,
        [s.insnC EXCEPT ![s.cur][s.pos + 1] = f.ctx], f, s.trail)

BackwardFrom(s, i, f) ==
  State(s.edges, s.todo, s.visited, s.cur, s.phase, s.pos + 1, s.inC, s.outC,
        IF i = 1 THEN s.insnC ELSE [s.insnC EXCEPT ![s.cur][i - 1] = f.ctx], f, s.trail)

LeaveFrom(p, s) ==
  State(s.edges, s.edges[s.cur] \o s.todo, s.visited, NoNode, s.phase, 0,
        IF s.phase = "bwd" /\ InnerOf(p, s.cur) THEN [s.inC EXCEPT ![s.cur] = s.facts.ctx] ELSE s.inC,
        IF s.phase # "bwd" /\ InnerOf(p, s.cur) THEN [s.outC EXCEPT ![s.cur] = s.facts.ctx] ELSE s.outC,
        s.insnC, s.facts, Append(s.trail, s.cur))

\* The step from s of an analysis of p, with the frames c, when H is missing.
Follow(p, c, s, H) ==
  IF s.cur = NoNode
  THEN IF s.todo = <<>> THEN PassFrom(p, s)
       ELSE IF Head(s.todo) \in s.visited THEN SkipFrom(s)
       ELSE IF s.phase = "bwd" THEN EnterBackwardFrom(p, s, Head(s.todo))
       ELSE EnterForwardFrom(p, s, Head(s.todo))
  ELSE IF s.pos < Len(p.code[s.cur])
       THEN IF s.phase = "bwd"
            THEN BackwardFrom(s, Len(p.code[s.cur]) - s.pos, BackwardFacts(p, s, H))
            ELSE ForwardFrom(s, ForwardFacts(p, c, s, H))
       ELSE LeaveFrom(p, s)

LEMMA StateFields ==
  ASSUME NEW e, NEW t, NEW v, NEW k, NEW ph, NEW n, NEW ic, NEW oc, NEW nc, NEW f, NEW tr, NEW s,
         s = State(e, t, v, k, ph, n, ic, oc, nc, f, tr)
  PROVE  /\ s.edges = e /\ s.todo = t /\ s.visited = v /\ s.cur = k /\ s.phase = ph /\ s.pos = n
         /\ s.inC = ic /\ s.outC = oc /\ s.insnC = nc /\ s.facts = f /\ s.trail = tr
  BY DEF State

LEMMA NowFields ==
  ASSUME NEW s, s = Now
  PROVE  /\ s.edges = edges /\ s.todo = todo /\ s.visited = visited /\ s.cur = cur /\ s.phase = phase
         /\ s.pos = pos /\ s.inC = inC /\ s.outC = outC /\ s.insnC = insnC /\ s.facts = facts /\ s.trail = trail
  BY StateFields DEF Now

\* The first passes, and every step of theirs.
TypePass == phase \in {"fwd1", "bwd", "fwd2"}

LEMMA FollowEnter ==
  ASSUME TypePass, EnterForward \/ EnterBackward, NEW s, s = Now
  PROVE  Now' = Follow(prog, cfa, s, hidden)
<1>1. /\ s.edges = edges /\ s.todo = todo /\ s.visited = visited /\ s.cur = cur /\ s.phase = phase
      /\ s.pos = pos /\ s.inC = inC /\ s.outC = outC /\ s.insnC = insnC /\ s.facts = facts /\ s.trail = trail
  BY NowFields
<1>2. PICK b : b = Head(todo)
  OBVIOUS
<1>3. /\ cur = NoNode /\ todo # <<>> /\ b \notin visited /\ edges' = edges /\ todo' = Tail(todo)
      /\ visited' = visited \union {b} /\ cur' = b /\ phase' = phase /\ pos' = pos /\ trail' = trail
  BY <1>2 DEF EnterForward, EnterBackward, Enter, frameVars
<1>4. InnerOf(prog, b) <=> Inner(b)
  BY DEF InnerOf, Inner
<1>5. CASE EnterForward
  <2>1. phase # "bwd"
    BY <1>5 DEF EnterForward
  <2>2. Follow(prog, cfa, s, hidden) = EnterForwardFrom(prog, s, b)
    BY <1>1, <1>2, <1>3, <2>1 DEF Follow
  <2>3. PICK base : base = Join(prog.preds[b], outC)
    OBVIOUS
  <2>4. /\ inC' = IF Inner(b) THEN [inC EXCEPT ![b] = base] ELSE inC
        /\ outC' = IF Inner(b) THEN outC ELSE [outC EXCEPT ![b] = inC[b]]
        /\ facts' = IF Inner(b) THEN [facts EXCEPT !.ctx = base] ELSE facts
        /\ insnC' = insnC
    BY <1>2, <1>5, <2>3 DEF EnterForward
  <2> QED
    BY <1>1, <1>3, <1>4, <2>2, <2>3, <2>4 DEF EnterForwardFrom, Now
<1>6. CASE EnterBackward
  <2>1. phase = "bwd"
    BY <1>6 DEF EnterBackward
  <2>2. Follow(prog, cfa, s, hidden) = EnterBackwardFrom(prog, s, b)
    BY <1>1, <1>2, <1>3, <2>1 DEF Follow
  <2>3. PICK base : base = Join(prog.succs[b], inC)
    OBVIOUS
  <2>4. /\ inC' = IF Inner(b) THEN inC ELSE [inC EXCEPT ![b] = outC[b]]
        /\ outC' = IF Inner(b) THEN [outC EXCEPT ![b] = base] ELSE outC
        /\ facts' = IF Inner(b) THEN [facts EXCEPT !.ctx = base] ELSE facts
        /\ insnC' = IF Inner(b) THEN [insnC EXCEPT ![b][Len(prog.code[b])] = base] ELSE insnC
    BY <1>2, <1>6, <2>3 DEF EnterBackward, CodeOf
  <2> QED
    BY <1>1, <1>3, <1>4, <2>2, <2>3, <2>4 DEF EnterBackwardFrom, Now
<1> QED
  BY <1>5, <1>6

LEMMA FollowInsn ==
  ASSUME TypePass, ForwardInsn \/ BackwardInsn, NEW s, s = Now
  PROVE  Now' = Follow(prog, cfa, s, hidden)
<1>1. /\ s.edges = edges /\ s.todo = todo /\ s.visited = visited /\ s.cur = cur /\ s.phase = phase
      /\ s.pos = pos /\ s.inC = inC /\ s.outC = outC /\ s.insnC = insnC /\ s.facts = facts /\ s.trail = trail
  BY NowFields
<1>2. /\ cur # NoNode /\ pos < Len(prog.code[cur])
      /\ edges' = edges /\ todo' = todo /\ visited' = visited /\ cur' = cur /\ phase' = phase
      /\ pos' = pos + 1 /\ inC' = inC /\ outC' = outC /\ trail' = trail
  BY DEF ForwardInsn, BackwardInsn, More, CodeOf, walkVars, frameVars
<1>3. Debug = Info(prog, hidden)
  BY DEF Debug, Info
<1>4. CASE ForwardInsn
  <2>1. phase # "bwd"
    BY <1>4 DEF ForwardInsn
  <2>2. Follow(prog, cfa, s, hidden) = ForwardFrom(s, ForwardFacts(prog, cfa, s, hidden))
    BY <1>1, <1>2, <2>1 DEF Follow
  <2>3. facts' = ForwardFacts(prog, cfa, s, hidden)
    BY <1>1, <1>3, <1>4 DEF ForwardInsn, ForwardFacts, CodeOf
  <2>4. insnC' = [insnC EXCEPT ![cur][pos + 1] = facts'.ctx]
    BY <1>4 DEF ForwardInsn
  <2> QED
    BY <1>1, <1>2, <2>2, <2>3, <2>4 DEF ForwardFrom, Now
<1>5. CASE BackwardInsn
  <2>1. phase = "bwd"
    BY <1>5 DEF BackwardInsn
  <2>2. Follow(prog, cfa, s, hidden) =
          BackwardFrom(s, Len(prog.code[cur]) - pos, BackwardFacts(prog, s, hidden))
    BY <1>1, <1>2, <2>1 DEF Follow
  <2>3. facts' = BackwardFacts(prog, s, hidden)
    BY <1>1, <1>3, <1>5 DEF BackwardInsn, BackwardFacts, CodeOf
  <2>4. PICK i : i = Len(prog.code[cur]) - pos
    OBVIOUS
  <2>5. insnC' = IF i = 1 THEN insnC ELSE [insnC EXCEPT ![cur][i - 1] = facts'.ctx]
    BY <1>5, <2>4 DEF BackwardInsn, CodeOf
  <2> QED
    BY <1>1, <1>2, <2>2, <2>3, <2>4, <2>5 DEF BackwardFrom, Now
<1> QED
  BY <1>4, <1>5

LEMMA FollowLeave ==
  ASSUME prog \in Program, WalkTypeOK, TypePass, LeaveForward \/ LeaveBackward, NEW s, s = Now
  PROVE  Now' = Follow(prog, cfa, s, hidden)
<1>1. /\ s.edges = edges /\ s.todo = todo /\ s.visited = visited /\ s.cur = cur /\ s.phase = phase
      /\ s.pos = pos /\ s.inC = inC /\ s.outC = outC /\ s.insnC = insnC /\ s.facts = facts /\ s.trail = trail
  BY NowFields
<1>2. /\ cur # NoNode /\ pos = Len(prog.code[cur])
      /\ edges' = edges /\ todo' = edges[cur] \o todo /\ visited' = visited /\ cur' = NoNode /\ phase' = phase
      /\ pos' = 0 /\ trail' = Append(trail, cur) /\ insnC' = insnC /\ facts' = facts
  BY DEF LeaveForward, LeaveBackward, LeaveBlock, Leave, CodeOf, frameVars
<1>3. Len(prog.code[cur]) \in Nat
  BY <1>2, ProgramCode DEF CodeOf, WalkTypeOK
<1>4. Follow(prog, cfa, s, hidden) = LeaveFrom(prog, s)
  BY <1>1, <1>2, <1>3 DEF Follow
<1>5. InnerOf(prog, cur) <=> Inner(cur)
  BY DEF InnerOf, Inner
<1>6. /\ inC' = IF phase = "bwd" /\ InnerOf(prog, cur) THEN [inC EXCEPT ![cur] = facts.ctx] ELSE inC
      /\ outC' = IF phase # "bwd" /\ InnerOf(prog, cur) THEN [outC EXCEPT ![cur] = facts.ctx] ELSE outC
  BY <1>5 DEF LeaveForward, LeaveBackward
<1> QED
  BY <1>1, <1>2, <1>4, <1>6 DEF LeaveFrom, Now

LEMMA FollowWalk ==
  ASSUME TypePass, SkipBlock \/ StartPass, NEW s, s = Now
  PROVE  Now' = Follow(prog, cfa, s, hidden)
<1>1. /\ s.edges = edges /\ s.todo = todo /\ s.visited = visited /\ s.cur = cur /\ s.phase = phase
      /\ s.pos = pos /\ s.inC = inC /\ s.outC = outC /\ s.insnC = insnC /\ s.facts = facts /\ s.trail = trail
  BY NowFields
<1>2. CASE SkipBlock
  <2>1. /\ cur = NoNode /\ todo # <<>> /\ Head(todo) \in visited /\ todo' = Tail(todo)
        /\ UNCHANGED <<edges, visited, cur, phase, pos, inC, outC, insnC, facts, trail>>
    BY <1>2 DEF SkipBlock, Return, frameVars, passVars
  <2>2. Follow(prog, cfa, s, hidden) = SkipFrom(s)
    BY <1>1, <2>1 DEF Follow
  <2> QED
    BY <1>1, <2>1, <2>2 DEF SkipFrom, Now
<1>3. CASE StartPass
  <2>1. /\ todo = <<>> /\ cur = NoNode /\ visited' = {} /\ cur' = NoNode /\ trail' = <<>>
        /\ UNCHANGED <<pos, inC, outC, insnC, facts>>
        /\ edges' = IF phase = "fwd1" THEN prog.preds ELSE prog.succs
        /\ todo' = <<IF phase = "fwd1" THEN prog.exit ELSE prog.entry>>
        /\ phase' = NextPhase(phase)
    BY <1>3 DEF StartPass, Pass, Start, TypePass, NextPhase
  <2>2. Follow(prog, cfa, s, hidden) = PassFrom(prog, s)
    BY <1>1, <2>1 DEF Follow
  <2> QED
    BY <1>1, <2>1, <2>2 DEF PassFrom, Now
<1> QED
  BY <1>2, <1>3

LEMMA FollowNow ==
  ASSUME prog \in Program, WalkTypeOK, TypePass, InPass \/ StartPass
  PROVE  Now' = Follow(prog, cfa, Now, hidden)
<1>1. PICK s : s = Now
  OBVIOUS
<1>2. Now' = Follow(prog, cfa, s, hidden)
  BY <1>1, FollowEnter, FollowInsn, FollowLeave, FollowWalk
     DEF InPass, EnterParameters, ParameterInsn, LeaveParameters, TypePass
<1> QED
  BY <1>1, <1>2

\* What is missing is not missed: where an analysis learns nothing about H, it
\* takes the same step without H.
LEMMA SameFollow ==
  ASSUME NEW p \in Program, NEW c, NEW s, NEW H, Facts(s.facts),
         NoneOf(Follow(p, c, s, {}).facts.known, H)
  PROVE  Follow(p, c, s, H) = Follow(p, c, s, {})
<1>1. PICK q, r : q = Info(p, {}) /\ r = Info(p, H)
  OBVIOUS
<1>2. Reduced(q, r) /\ r.hidden = H
  <2>1. p.params \o p.vars \in Seq(VarInfo)
    <3>1. p.params \in Seq(VarInfo) /\ p.vars \in Seq(VarInfo)
      BY DebugAssumption
    <3> QED
      BY <3>1
  <2> QED
    BY <1>1, <2>1 DEF Info, Reduced
<1>3. BackwardFacts(p, s, H) = BackwardFacts(p, s, {})
  BY <1>1, <1>2, BackwardHidden DEF BackwardFacts
<1>4. ASSUME s.cur # NoNode, s.pos < Len(p.code[s.cur]), s.phase # "bwd"
      PROVE  ForwardFacts(p, c, s, H) = ForwardFacts(p, c, s, {})
  <2>1. PICK f : f = ForwardFacts(p, c, s, {})
    OBVIOUS
  <2>2. Follow(p, c, s, {}) = ForwardFrom(s, f)
    BY <1>4, <2>1 DEF Follow
  <2>3. ForwardFrom(s, f).facts = f
    BY StateFields DEF ForwardFrom
  <2>4. PICK insn, d, on, a : /\ insn = p.code[s.cur][s.pos + 1] /\ d = c[s.cur][s.pos + 1]
                              /\ on = (s.phase = "fwd2") /\ a = Prepare(s.facts, insn)
    OBVIOUS
  <2>5. Facts(a) /\ on \in BOOLEAN
    BY <2>4, PrepareKeeps DEF Facts
  <2>6. /\ f = Forward(q, a, d, insn, on)
        /\ ForwardFacts(p, c, s, H) = Forward(r, a, d, insn, on)
    BY <1>1, <2>1, <2>4 DEF ForwardFacts
  <2>7. NoneOf(f.known, H)
    BY <2>2, <2>3
  <2> QED
    BY <1>2, <2>1, <2>5, <2>6, <2>7, ForwardHidden
<1>5. CASE s.cur # NoNode /\ s.pos < Len(p.code[s.cur]) /\ s.phase # "bwd"
  BY <1>4, <1>5 DEF Follow
<1>6. CASE s.cur # NoNode /\ s.pos < Len(p.code[s.cur]) /\ s.phase = "bwd"
  BY <1>3, <1>6 DEF Follow
<1>7. CASE ~ (s.cur # NoNode /\ s.pos < Len(p.code[s.cur]))
  BY <1>7 DEF Follow
<1> QED
  BY <1>5, <1>6, <1>7

\* An analysis forgets no variable it knows.
LEMMA KnownGrows ==
  ASSUME Inv, ContextInv, InPass \/ StartPass
  PROVE  Ids(facts.known) \subseteq Ids(facts'.known)
<1>1. prog \in Program /\ WalkTypeOK /\ StoreOK /\ PlaceOK /\ facts.known \in Seq(VarInfo)
  BY DEF Inv, WalkInv, FrameInv, ContextInv, StoreOK, Shaped
<1>2. CASE facts'.known = facts.known
  BY <1>2
<1>3. CASE ForwardInsn /\ facts'.known # facts.known
  <2>1. PICK W : W = NewVars(Debug, facts, cfa[cur][pos + 1], CodeOf(cur)[pos + 1], phase = "fwd2")
    OBVIOUS
  <2>2. PICK w \in W : facts'.known = facts.known \o w
    BY <1>1, <1>3, <2>1, ForwardKnows DEF Learns
  <2>3. w = <<>> \/ \E k \in DOMAIN Debug.vars : w = <<Debug.vars[k]>>
    BY <2>1, <2>2 DEF NewVars
  <2>4. Debug.vars \in Seq(VarInfo)
    BY <1>1, DebugOK DEF InfoOK
  <2>5. PICK k \in DOMAIN Debug.vars : w = <<Debug.vars[k]>>
    BY <1>1, <1>3, <2>2, <2>3
  <2>6. PICK a, v, t : a = facts.known /\ v = Debug.vars[k] /\ t = facts'.known
    OBVIOUS
  <2>7. v \in VarInfo
    BY <2>4, <2>6
  <2>8. a \in Seq(VarInfo) /\ t = a \o <<v>>
    BY <1>1, <2>2, <2>5, <2>6
  <2>9. /\ Len(a) \in Nat /\ DOMAIN t = 1 .. Len(a) + 1 /\ DOMAIN a = 1 .. Len(a)
        /\ \A i \in 1 .. Len(a) : t[i] = a[i]
    BY <2>7, <2>8, KnownMore
  <2>10. Ids(a) \subseteq Ids(t)
    BY <2>9 DEF Ids
  <2> QED
    BY <2>6, <2>10
<1>4. CASE InPass /\ ~ ForwardInsn
  BY <1>1, <1>2, <1>4, OthersKnow
<1>5. CASE StartPass
  <2>1. facts' = facts
    BY <1>5 DEF StartPass, Pass
  <2> QED
    BY <2>1
<1> QED
  BY <1>2, <1>3, <1>4, <1>5

(***************************************************************************)
(* The history of the first three passes.                                  *)
(***************************************************************************)
\* h: the first n steps of an analysis of p, none of them in the last pass.
History(p, c, h, n) ==
  /\ n \in Nat /\ h[0] = Begin(p)
  /\ \A i \in 0 .. n - 1 : h[i + 1] = Follow(p, c, h[i], {}) /\ h[i].phase # "params"
  /\ \A i \in 0 .. n : Ids(h[i].facts.known) \subseteq Ids(h[n].facts.known)

LEMMA HistoryBegins ==
  ASSUME NEW p, NEW c
  PROVE  \E h : History(p, c, h, 0) /\ h[0] = Begin(p)
<1>1. PICK h : h = [i \in {0} |-> Begin(p)]
  OBVIOUS
<1> QED
  BY <1>1 DEF History

LEMMA HistoryGrows ==
  ASSUME NEW p, NEW c, NEW h, NEW n, History(p, c, h, n), h[n].phase # "params",
         NEW s, s = Follow(p, c, h[n], {}), Ids(h[n].facts.known) \subseteq Ids(s.facts.known)
  PROVE  \E g : History(p, c, g, n + 1) /\ g[n + 1] = s
<1>1. n \in Nat
  BY DEF History
<1>2. PICK g : g = [i \in 0 .. n + 1 |-> IF i = n + 1 THEN s ELSE h[i]]
  OBVIOUS
<1>3. g[n + 1] = s /\ \A i \in 0 .. n : g[i] = h[i]
  BY <1>1, <1>2
<1>4. g[0] = Begin(p)
  BY <1>1, <1>3 DEF History
<1>5. ASSUME NEW i \in 0 .. (n + 1) - 1
      PROVE  g[i + 1] = Follow(p, c, g[i], {}) /\ g[i].phase # "params"
  <2>1. CASE i = n
    BY <1>1, <1>3, <2>1
  <2>2. CASE i # n
    <3>1. i \in 0 .. n - 1 /\ i + 1 \in 0 .. n /\ i \in 0 .. n
      BY <1>1, <2>2
    <3> QED
      BY <1>3, <3>1 DEF History
  <2> QED
    BY <2>1, <2>2
<1>6. ASSUME NEW i \in 0 .. n + 1
      PROVE  Ids(g[i].facts.known) \subseteq Ids(g[n + 1].facts.known)
  <2>1. CASE i = n + 1
    BY <2>1
  <2>2. CASE i \in 0 .. n
    BY <1>3, <2>2 DEF History
  <2> QED
    BY <1>1, <2>1, <2>2
<1>7. History(p, c, g, n + 1)
  BY <1>1, <1>4, <1>5, <1>6 DEF History
<1> QED
  BY <1>3, <1>7

\* Before the first pass the analysis has found nothing.
Fresh == /\ again = "first" /\ hidden = {} /\ pos = 0 /\ trail = <<>>
         /\ inC = [b \in Node |-> Empty] /\ outC = [b \in Node |-> Empty]
         /\ insnC = NoContexts(prog) /\ facts = NoFacts

\* The first analysis is at the end of a history, and at its end has its facts;
\* the one without the redundant variables is on the way through the history of
\* the first, and at its end too.
HistoryOK ==
  /\ phase \in {"cfa", "run"} => Fresh
  /\ again = "first" /\ TypePass =>
       hidden = {} /\ \E h, n : History(prog, cfa, h, n) /\ h[n] = Now
  /\ again = "first" /\ phase = "params" =>
       \E h, n : /\ History(prog, cfa, h, n)
                 /\ h[n].phase = "params" /\ h[n].facts = facts /\ h[n].insnC = insnC
  /\ again = "reduced" =>
       \E h, n : /\ History(prog, cfa, h, n)
                 /\ h[n].phase = "params" /\ h[n].facts = saved.facts /\ h[n].insnC = saved.insnC
                 /\ hidden \intersect Ids(saved.facts.known) = {}
                 /\ TypePass => \E i \in 0 .. n - 1 : h[i] = Now
                 /\ phase = "params" => facts = saved.facts /\ insnC = saved.insnC

LEMMA HistoryStarts == ASSUME InferInit PROVE HistoryOK
  BY DEF InferInit, FrameInit, HistoryOK, Fresh, TypePass

\* What the steps leave alone.
LEMMA HistoryFrame ==
  ASSUME InPass \/ StartPass
  PROVE  UNCHANGED <<prog, cfa, again, hidden, saved>>
<1>1. CASE InPass
  <2>1. UNCHANGED <<prog, cfa>>
    BY <1>1, InPassWalks DEF frameVars
  <2> QED
    BY <1>1, <2>1 DEF InPass, SkipBlock, EnterForward, ForwardInsn, LeaveForward, EnterBackward, BackwardInsn,
       LeaveBackward, EnterParameters, ParameterInsn, LeaveParameters, passVars
<1> QED
  BY <1>1 DEF StartPass, Pass

LEMMA HistoryFirst ==
  ASSUME Inv, ContextInv, HistoryOK, again = "first", TypePass, InPass \/ StartPass
  PROVE  HistoryOK'
<1>1. UNCHANGED <<prog, cfa, again, hidden, saved>> /\ hidden = {} /\ prog \in Program /\ WalkTypeOK
  BY HistoryFrame DEF HistoryOK, Inv, WalkInv, FrameInv
<1>2. PICK h, n : History(prog, cfa, h, n) /\ h[n] = Now
  BY DEF HistoryOK
<1>3. Now' = Follow(prog, cfa, Now, {})
  BY <1>1, FollowNow
<1>4. h[n].phase = phase /\ h[n].facts = facts
  BY <1>2, NowFields
<1>5. PICK s : s = Now'
  OBVIOUS
<1>6. /\ s.phase = phase' /\ s.facts = facts' /\ s.insnC = insnC'
  BY <1>5, StateFields DEF Now
<1>7. Ids(h[n].facts.known) \subseteq Ids(s.facts.known)
  BY <1>4, <1>6, KnownGrows
<1>8. h[n].phase # "params"
  BY <1>4 DEF TypePass
<1>9. s = Follow(prog, cfa, h[n], {})
  BY <1>2, <1>3, <1>5
<1>10. PICK g : History(prog, cfa, g, n + 1) /\ g[n + 1] = s
  BY <1>2, <1>7, <1>8, <1>9, HistoryGrows
<1>11. PICK m : m = n + 1
  OBVIOUS
<1>12. History(prog, cfa, g, m)' /\ g[m] = Now' /\ g[m].facts = facts' /\ g[m].insnC = insnC' /\ g[m].phase = phase'
  BY <1>1, <1>5, <1>6, <1>10, <1>11
<1>13. phase' \in {"fwd1", "bwd", "fwd2", "params"}
  BY InPassWalks DEF TypePass, StartPass, Pass, frameVars
<1> QED
  BY <1>1, <1>12, <1>13 DEF HistoryOK

LEMMA HistoryReduced ==
  ASSUME Inv, ContextInv, HistoryOK, again = "reduced", TypePass, InPass \/ StartPass
  PROVE  HistoryOK'
<1>1. UNCHANGED <<prog, cfa, again, hidden, saved>> /\ prog \in Program /\ WalkTypeOK
  BY HistoryFrame DEF Inv, WalkInv, FrameInv
<1>2. PICK h, n :
        /\ History(prog, cfa, h, n)
        /\ h[n].phase = "params" /\ h[n].facts = saved.facts /\ h[n].insnC = saved.insnC
        /\ hidden \intersect Ids(saved.facts.known) = {}
        /\ \E i \in 0 .. n - 1 : h[i] = Now
  BY DEF HistoryOK
<1>3. PICK i \in 0 .. n - 1 : h[i] = Now
  BY <1>2
<1>4. PICK s, t : s = Now /\ t = Follow(prog, cfa, s, {})
  OBVIOUS
<1>5. n \in Nat /\ i \in Nat /\ i + 1 \in 0 .. n
  BY <1>2, <1>3 DEF History
<1>6. h[i + 1] = t
  BY <1>2, <1>3, <1>4 DEF History
<1>7. Ids(t.facts.known) \subseteq Ids(saved.facts.known)
  BY <1>2, <1>5, <1>6 DEF History
<1>8. NoneOf(t.facts.known, hidden)
  BY <1>2, <1>7 DEF NoneOf, Ids
<1>9. s.facts = facts
  BY <1>4, NowFields
<1>10. Facts(s.facts)
  BY <1>9 DEF ContextInv, StoreOK, Shaped, Facts, IsFacts
<1>11. Now' = t
  BY <1>1, <1>4, <1>8, <1>10, FollowNow, SameFollow
<1>12. /\ t.phase = phase' /\ t.facts = facts' /\ t.insnC = insnC'
  BY <1>11, StateFields DEF Now
<1>13. phase' \in {"fwd1", "bwd", "fwd2", "params"}
  BY InPassWalks DEF TypePass, StartPass, Pass, frameVars
<1>14. TypePass' => \E j \in 0 .. n - 1 : h[j] = Now'
  <2>1. CASE i + 1 = n
    BY <1>2, <1>6, <1>12, <2>1 DEF TypePass
  <2>2. CASE i + 1 # n
    <3>1. i + 1 \in 0 .. n - 1
      BY <1>5, <2>2
    <3> QED
      BY <1>6, <1>11, <3>1
  <2> QED
    BY <2>1, <2>2
<1>15. phase' = "params" => facts' = saved.facts /\ insnC' = saved.insnC
  <2>1. CASE i + 1 = n
    BY <1>2, <1>6, <1>12, <2>1
  <2>2. CASE i + 1 # n
    <3>1. i + 1 \in 0 .. n - 1
      BY <1>5, <2>2
    <3> QED
      BY <1>2, <1>6, <1>12, <3>1 DEF History
  <2> QED
    BY <2>1, <2>2
<1> QED
  BY <1>1, <1>2, <1>13, <1>14, <1>15 DEF HistoryOK

LEMMA HistoryAgain ==
  ASSUME Inv, ContextInv, HistoryOK, Again
  PROVE  HistoryOK'
<1>1. /\ phase = "params" /\ again = "first" /\ UNCHANGED <<prog, cfa>>
      /\ phase' \in {"fwd1", "fwd2"} /\ again' \in {"reduced", "last pass"}
      /\ saved'.insnC = insnC /\ saved'.facts = facts
  <2>1. PICK what, hide, from : MakeAgain(what, hide, from) /\ from \in {"fwd1", "fwd2"} /\ what \in {"reduced", "last pass"}
    BY DEF Again
  <2>2. saved' = [insnC |-> insnC, facts |-> facts]
    BY <2>1 DEF MakeAgain
  <2>3. /\ phase = "params" /\ again = "first" /\ UNCHANGED <<prog, cfa>>
        /\ phase' = from /\ again' = what
    BY <2>1 DEF MakeAgain
  <2> QED
    BY <2>1, <2>2, <2>3
<1>2. CASE MakeAgain("reduced", Redundant, "fwd1")
  <2>1. PICK h, n : /\ History(prog, cfa, h, n)
                    /\ h[n].phase = "params" /\ h[n].facts = facts /\ h[n].insnC = insnC
    BY <1>1 DEF HistoryOK
  <2>2. hidden' \intersect Ids(saved'.facts.known) = {}
    BY <1>1, <1>2 DEF MakeAgain, Redundant
  <2>3. Now' = Begin(prog)
    <3>1. pos' = 0
      BY <1>2 DEF MakeAgain, Start, ContextInv, PlaceOK
    <3> QED
      BY <1>2, <3>1 DEF MakeAgain, Start, Now, Begin
  <2>4. n \in Nat /\ h[0] = Begin(prog)
    BY <2>1 DEF History
  <2>5. n # 0
    BY <2>1, <2>4 DEF Begin, State
  <2>6. 0 \in 0 .. n - 1 /\ h[0] = Now'
    BY <2>3, <2>4, <2>5
  <2>7. phase' = "fwd1" /\ again' = "reduced"
    BY <1>2 DEF MakeAgain
  <2> QED
    BY <1>1, <2>1, <2>2, <2>6, <2>7 DEF HistoryOK
<1>3. CASE MakeAgain("last pass", {}, "fwd2")
  BY <1>3 DEF MakeAgain, HistoryOK
<1> QED
  BY <1>2, <1>3 DEF Again

LEMMA HistoryStep ==
  ASSUME Inv, ContextInv, HistoryOK, [InferNext]_inferVars
  PROVE  HistoryOK'
<1>1. CASE FrameNext /\ UNCHANGED passVars
  <2>1. phase \in {"cfa", "run"} /\ phase' \in {"cfa", "run"} /\ prog' = prog
    BY <1>1 DEF FrameNext, CFABlock, CFAInsn, CFALeave, CFAReturn, Run, Execute, Jump
  <2>2. Fresh /\ Fresh'
    BY <1>1, <2>1 DEF HistoryOK, Fresh, passVars, NoContexts
  <2> QED
    BY <2>1, <2>2 DEF HistoryOK, Fresh, TypePass
<1>2. CASE Pass("cfa", "fwd1", prog.succs, prog.entry)
  <2>1. Fresh
    BY <1>2 DEF Pass, HistoryOK
  <2>2. Now' = Begin(prog) /\ prog' = prog /\ phase' = "fwd1" /\ again' = "first" /\ hidden' = {}
    BY <1>2, <2>1 DEF Pass, Start, Fresh, Now, Begin
  <2>3. PICK h : History(prog, cfa, h, 0) /\ h[0] = Begin(prog)
    BY HistoryBegins
  <2>4. cfa' = cfa
    BY <1>2 DEF Pass
  <2> QED
    BY <2>2, <2>3, <2>4 DEF HistoryOK
<1>3. CASE (InPass \/ StartPass) /\ TypePass
  <2>1. CASE again = "first"
    BY <1>3, <2>1, HistoryFirst
  <2>2. CASE again = "reduced"
    BY <1>3, <2>2, HistoryReduced
  <2>3. CASE again \notin {"first", "reduced"}
    <3>1. phase' \in {"fwd1", "bwd", "fwd2", "params"}
      BY <1>3, InPassWalks DEF TypePass, StartPass, Pass, frameVars
    <3> QED
      BY <1>3, <2>3, <3>1, HistoryFrame DEF HistoryOK
  <2> QED
    BY <2>1, <2>2, <2>3
<1>4. CASE InPass /\ phase = "params"
  <2>1. UNCHANGED <<prog, cfa, again, hidden, saved>>
    BY <1>4, HistoryFrame
  <2>2. UNCHANGED <<phase, facts, insnC>>
    BY <1>4 DEF InPass, SkipBlock, EnterForward, ForwardInsn, LeaveForward, EnterBackward, BackwardInsn,
       LeaveBackward, EnterParameters, ParameterInsn, LeaveParameters, passVars, frameVars
  <2> QED
    BY <1>4, <2>1, <2>2 DEF HistoryOK, TypePass
<1>5. CASE Again
  BY <1>5, HistoryAgain
<1>6. CASE UNCHANGED inferVars
  <2>1. Now' = Now
    BY <1>6 DEF inferVars, walkVars, frameVars, passVars, Now
  <2>2. UNCHANGED <<prog, cfa, again, hidden, saved, phase, facts, insnC, inC, outC, pos, trail>>
    BY <1>6 DEF inferVars, walkVars, frameVars, passVars
  <2> QED
    BY <2>1, <2>2 DEF HistoryOK, TypePass, Fresh, NoContexts
<1>7. InPass => TypePass \/ phase = "params"
  BY InPassWalks DEF TypePass
<1>8. StartPass => TypePass \/ Pass("cfa", "fwd1", prog.succs, prog.entry)
  BY DEF StartPass, Pass, TypePass
<1> QED
  BY <1>1, <1>2, <1>3, <1>4, <1>5, <1>6, <1>7, <1>8, NextKinds

LEMMA KnownStarts == ASSUME InferInit PROVE FramedOK /\ KnownOK
<1>1. phase = "cfa" /\ facts = NoFacts
  BY DEF InferInit, FrameInit
<1>2. facts.known = <<>> /\ DOMAIN facts.known = {}
  BY <1>1 DEF NoFacts
<1> QED
  BY <1>1, <1>2 DEF FramedOK, KnownOK

\* Each variable an analysis knows is known once, not before the last pass, and
\* some instruction of the function with a frame accesses it.  An analysis made
\* again without the variables that were not known goes the way of the first,
\* state by state: it finds the same types and knows the same variables.
THEOREM KnownIsExact == Spec => []KnownExact
<1>1. InferInit => Inv /\ ContextInv /\ FramedOK /\ KnownOK /\ HistoryOK
  BY InvInit, ContextStarts, KnownStarts, HistoryStarts
<1>2. Inv /\ ContextInv /\ FramedOK /\ KnownOK /\ HistoryOK /\ [InferNext]_inferVars =>
        Inv' /\ ContextInv' /\ FramedOK' /\ KnownOK' /\ HistoryOK'
  BY InvStep, ContextStep, FramedStep, KnownStep, HistoryStep
<1>3. HistoryOK => RedundantIsRedundant
  BY DEF HistoryOK, RedundantIsRedundant
<1>4. KnownOK /\ HistoryOK => KnownExact
  BY <1>3, KnownAccess DEF KnownExact
<1> QED
  BY <1>1, <1>2, <1>4, PTL DEF Spec

-----------------------------------------------------------------------------
(***************************************************************************)
(* What an instruction does depends on the sizes of its own operands only, *)
(* and the sizes it notes depend on nothing else.                          *)
(***************************************************************************)
\* The two differ in sizes of registers only.
Alike(a, b) == a.ctx = b.ctx /\ a.known = b.known

\* The same facts, apart from sizes.
Twins(a, b) == IsFacts(a) /\ IsFacts(b) /\ Alike(a, b)

LEMMA TwinsWith ==
  ASSUME NEW a, NEW b, Twins(a, b), NEW ctx
  PROVE  /\ Twins([a EXCEPT !.ctx = ctx], [b EXCEPT !.ctx = ctx])
         /\ [a EXCEPT !.ctx = ctx].ctx = ctx /\ [a EXCEPT !.ctx = ctx].size = a.size
<1>1. PICK x : x = [a EXCEPT !.ctx = ctx]
  OBVIOUS
<1>2. x = [ctx |-> ctx, known |-> a.known, size |-> a.size]
  BY <1>1 DEF IsFacts, Twins
<1>3. PICK y : y = [b EXCEPT !.ctx = ctx]
  OBVIOUS
<1>4. y = [ctx |-> ctx, known |-> b.known, size |-> b.size]
  BY <1>3 DEF IsFacts, Twins
<1> QED
  BY <1>1, <1>2, <1>3, <1>4 DEF IsFacts, Alike, Twins

LEMMA TwinsSet ==
  ASSUME NEW a, NEW b, Twins(a, b), NEW o, NEW t
  PROVE  Twins(Set(a, o, t), Set(b, o, t)) /\ Set(a, o, t).size = a.size
<1>1. Put(a.ctx, o, t) = Put(b.ctx, o, t)
  BY DEF Alike, Twins
<1> QED
  BY <1>1, TwinsWith DEF Set

LEMMA TwinsTwice ==
  ASSUME NEW a, NEW b, Twins(a, b), NEW o, NEW t, NEW q, NEW u
  PROVE  Twins(Set(Set(a, o, t), q, u), Set(Set(b, o, t), q, u)) /\ Set(Set(a, o, t), q, u).size = a.size
<1>1. PICK x, y : x = Set(a, o, t) /\ y = Set(b, o, t)
  OBVIOUS
<1>2. Twins(x, y) /\ x.size = a.size
  BY <1>1, TwinsSet
<1>3. Twins(Set(x, q, u), Set(y, q, u)) /\ Set(x, q, u).size = x.size
  BY <1>2, TwinsSet
<1> QED
  BY <1>1, <1>2, <1>3

LEMMA TwinsLearn ==
  ASSUME NEW a, NEW b, Twins(a, b), NEW f
  PROVE  Twins(Learn(a, f), Learn(b, f)) /\ Learn(a, f).ctx = a.ctx /\ Learn(a, f).size = a.size
<1>1. PICK x : x = Learn(a, f)
  OBVIOUS
<1>2. x = [ctx |-> a.ctx, known |-> a.known \o f.var, size |-> a.size]
  BY <1>1 DEF IsFacts, Twins, Learn
<1>3. PICK y : y = Learn(b, f)
  OBVIOUS
<1>4. y = [ctx |-> b.ctx, known |-> b.known \o f.var, size |-> b.size]
  BY <1>3 DEF IsFacts, Twins, Learn
<1> QED
  BY <1>1, <1>2, <1>3, <1>4 DEF IsFacts, Twins, Alike

LEMMA TwinsRemove ==
  ASSUME NEW a, NEW b, Twins(a, b), NEW o
  PROVE  /\ Twins([a EXCEPT !.ctx = RemoveOP(@, o)], [b EXCEPT !.ctx = RemoveOP(@, o)])
         /\ [a EXCEPT !.ctx = RemoveOP(@, o)].size = a.size
<1>1. PICK x : x = [a EXCEPT !.ctx = RemoveOP(@, o)]
  OBVIOUS
<1>2. x = [ctx |-> RemoveOP(a.ctx, o), known |-> a.known, size |-> a.size]
  BY <1>1 DEF IsFacts, Twins
<1>3. PICK y : y = [b EXCEPT !.ctx = RemoveOP(@, o)]
  OBVIOUS
<1>4. y = [ctx |-> RemoveOP(b.ctx, o), known |-> b.known, size |-> b.size]
  BY <1>3 DEF IsFacts, Twins
<1> QED
  BY <1>1, <1>2, <1>3, <1>4 DEF IsFacts, Alike, Twins

LEMMA TwinsInsert ==
  ASSUME NEW a, NEW b, Twins(a, b), NEW o, NEW t
  PROVE  /\ Twins([a EXCEPT !.ctx = Insert(@, o, t)], [b EXCEPT !.ctx = Insert(@, o, t)])
         /\ [a EXCEPT !.ctx = Insert(@, o, t)].size = a.size
<1>1. PICK x : x = [a EXCEPT !.ctx = Insert(@, o, t)]
  OBVIOUS
<1>2. x = [ctx |-> Insert(a.ctx, o, t), known |-> a.known, size |-> a.size]
  BY <1>1 DEF IsFacts, Twins
<1>3. PICK y : y = [b EXCEPT !.ctx = Insert(@, o, t)]
  OBVIOUS
<1>4. y = [ctx |-> Insert(b.ctx, o, t), known |-> b.known, size |-> b.size]
  BY <1>3 DEF IsFacts, Twins
<1> QED
  BY <1>1, <1>2, <1>3, <1>4 DEF IsFacts, Alike, Twins

\* What is looked up is the same.
LEMMA TwinsLookUp ==
  ASSUME NEW p, NEW a, NEW b, Twins(a, b), NEW c, NEW insn, NEW o, NEW lea, NEW on
  PROVE  /\ WithKnown(p, a, c, insn, o, lea) = WithKnown(p, b, c, insn, o, lea)
         /\ WithUnknown(p, a, c, o, lea, on) = WithUnknown(p, b, c, o, lea, on)
  BY DEF Alike, Twins, WithKnown, WithUnknown

\* Each family of instructions does the same to both and notes no size.
LEMMA SrcTwins ==
  ASSUME NEW p, NEW a, NEW b, Twins(a, b), NEW c, NEW insn, NEW on
  PROVE  /\ Twins(Src123Dst13(p, a, c, insn, on), Src123Dst13(p, b, c, insn, on))
         /\ Src123Dst13(p, a, c, insn, on).size = a.size
<1>1. PICK o0, o1 : o0 = insn.op[1] /\ o1 = insn.op[2]
  OBVIOUS
<1>2. PICK f : f = Choose1(<<WithKnown(p, a, c, insn, o1, FALSE), Fact(WithContext(a.ctx, o1)),
                             WithKnown(p, a, c, insn, o0, FALSE),
                             WithUnknown(p, a, c, o1, FALSE, on), WithUnknown(p, a, c, o0, FALSE, on)>>)
  OBVIOUS
<1>3. f = Choose1(<<WithKnown(p, b, c, insn, o1, FALSE), Fact(WithContext(b.ctx, o1)),
                    WithKnown(p, b, c, insn, o0, FALSE),
                    WithUnknown(p, b, c, o1, FALSE, on), WithUnknown(p, b, c, o0, FALSE, on)>>)
  <2>1. PICK no : no = FALSE
    OBVIOUS
  <2>2. \A o : /\ WithKnown(p, a, c, insn, o, no) = WithKnown(p, b, c, insn, o, no)
               /\ WithUnknown(p, a, c, o, no, on) = WithUnknown(p, b, c, o, no, on)
    BY TwinsLookUp
  <2>3. a.ctx = b.ctx
    BY DEF Twins, Alike
  <2> QED
    BY <1>2, <2>1, <2>2, <2>3
<1>4. Src123Dst13(p, a, c, insn, on) =
        IF IsImm(o1) THEN a
        ELSE IF f = NoFact THEN [a EXCEPT !.ctx = RemoveOP(@, o0)]
        ELSE Set(Set(Learn(a, f), o1, f.type), o0, f.type)
  BY <1>1, <1>2 DEF Src123Dst13
<1>5. Src123Dst13(p, b, c, insn, on) =
        IF IsImm(o1) THEN b
        ELSE IF f = NoFact THEN [b EXCEPT !.ctx = RemoveOP(@, o0)]
        ELSE Set(Set(Learn(b, f), o1, f.type), o0, f.type)
  BY <1>1, <1>3 DEF Src123Dst13
<1>6. CASE IsImm(o1)
  BY <1>4, <1>5, <1>6
<1>7. CASE ~ IsImm(o1) /\ f = NoFact
  BY <1>4, <1>5, <1>7, TwinsRemove
<1>8. CASE ~ IsImm(o1) /\ f # NoFact
  <2>1. PICK x, y : x = Learn(a, f) /\ y = Learn(b, f)
    OBVIOUS
  <2>2. Twins(x, y) /\ x.size = a.size
    BY <2>1, TwinsLearn
  <2> QED
    BY <1>4, <1>5, <1>8, <2>1, <2>2, TwinsTwice
<1> QED
  BY <1>6, <1>7, <1>8

LEMMA MovTwins ==
  ASSUME NEW p, NEW a, NEW b, Twins(a, b), NEW c, NEW insn, NEW on
  PROVE  /\ Twins(ForwardMOV(p, a, c, insn, on), ForwardMOV(p, b, c, insn, on))
         /\ ForwardMOV(p, a, c, insn, on).size = a.size
<1>1. PICK o0, o1 : o0 = insn.op[1] /\ o1 = insn.op[2]
  OBVIOUS
<1> DEFINE canary == /\ IsMem(o1) /\ o1.seg = "fs" /\ o1.base = NoReg
                     /\ o1.index = NoReg /\ o1.disp = 40
           width == IF IsReg(o0) THEN RegWidth(o0.reg) ELSE o0.size
           t == IF IsXMMReg(o0) THEN Float(o1.size) ELSE SInt(width)
<1>2. \A z : ForwardMOV(p, z, c, insn, on) =
        CASE canary -> Set(Set(z, o0, UInt(8)), o1, UInt(8))
          [] IsImm(o1) -> Set(z, o0, SInt(width))
          [] ~canary /\ IsReg(o0) /\ IsGlobalMem(o1) -> Set(Set(z, o0, t), o1, t)
          [] OTHER -> Src123Dst13(p, z, c, insn, on)
  BY <1>1 DEF ForwardMOV
<1>3. canary => ~ IsImm(o1)
  BY DEF IsMem, IsImm
<1>4. IsGlobalMem(o1) => ~ IsImm(o1)
  BY DEF IsGlobalMem, IsMem, IsImm
<1> HIDE DEF canary, width, t
<1>5. CASE canary
  <2>1. \A z : ForwardMOV(p, z, c, insn, on) = Set(Set(z, o0, UInt(8)), o1, UInt(8))
    BY <1>2, <1>3, <1>5
  <2> QED
    BY <2>1, TwinsTwice
<1>6. CASE ~ canary /\ IsImm(o1)
  <2>1. \A z : ForwardMOV(p, z, c, insn, on) = Set(z, o0, SInt(width))
    BY <1>2, <1>4, <1>6
  <2> QED
    BY <2>1, TwinsSet
<1>7. CASE ~ canary /\ ~ IsImm(o1) /\ IsReg(o0) /\ IsGlobalMem(o1)
  <2>1. \A z : ForwardMOV(p, z, c, insn, on) = Set(Set(z, o0, t), o1, t)
    BY <1>2, <1>7
  <2> QED
    BY <2>1, TwinsTwice
<1>8. CASE ~ canary /\ ~ IsImm(o1) /\ ~ (IsReg(o0) /\ IsGlobalMem(o1))
  <2>1. \A z : ForwardMOV(p, z, c, insn, on) = Src123Dst13(p, z, c, insn, on)
    BY <1>2, <1>8
  <2> QED
    BY <2>1, SrcTwins
<1> QED
  BY <1>5, <1>6, <1>7, <1>8

\* The sizes of the operands of insn are the same for both.
SizedAlike(a, b, insn) == \A k \in DOMAIN insn.op : SizeOf(a, insn.op[k]) = SizeOf(b, insn.op[k])

LEMMA LogicTwins ==
  ASSUME NEW p, NEW a, NEW b, Twins(a, b), NEW c, NEW insn, NEW on,
         SizeOf(a, insn.op[1]) = SizeOf(b, insn.op[1])
  PROVE  /\ Twins(ForwardLOGIC(p, a, c, insn, on), ForwardLOGIC(p, b, c, insn, on))
         /\ ForwardLOGIC(p, a, c, insn, on).size = a.size
<1>1. PICK o, n : o = insn.op[1] /\ n = SizeOf(a, o) /\ n = SizeOf(b, o)
  OBVIOUS
<1>2. CASE IsReg(insn.op[1]) /\ IsImm(insn.op[2])
  BY <1>1, <1>2, TwinsInsert DEF ForwardLOGIC
<1>3. CASE ~ (IsReg(insn.op[1]) /\ IsImm(insn.op[2]))
  BY <1>3, SrcTwins DEF ForwardLOGIC
<1> QED
  BY <1>2, <1>3

LEMMA CmpTwins ==
  ASSUME NEW p, NEW a, NEW b, Twins(a, b), NEW c, NEW insn, NEW on,
         SizeOf(a, insn.op[1]) = SizeOf(b, insn.op[1])
  PROVE  /\ Twins(ForwardCMP(p, a, c, insn, on), ForwardCMP(p, b, c, insn, on))
         /\ ForwardCMP(p, a, c, insn, on).size = a.size
<1>1. PICK o0, o1, n : o0 = insn.op[1] /\ o1 = insn.op[2] /\ n = SizeOf(a, o0) /\ n = SizeOf(b, o0)
  OBVIOUS
<1>2. CASE IsReg(o0) /\ IsImm(o1) /\ o1.val # 0
  <2>1. /\ ForwardCMP(p, a, c, insn, on) = [a EXCEPT !.ctx = Insert(@, o0, SInt(n))]
        /\ ForwardCMP(p, b, c, insn, on) = [b EXCEPT !.ctx = Insert(@, o0, SInt(n))]
    BY <1>1, <1>2 DEF ForwardCMP
  <2> QED
    BY <2>1, TwinsInsert
<1>3. CASE ~ (IsReg(o0) /\ IsImm(o1) /\ o1.val # 0) /\ IsXMMReg(o0) /\ IsGlobalMem(o1)
  <2>1. PICK x, y : /\ x = [a EXCEPT !.ctx = Insert(@, o0, Float(o1.size))]
                    /\ y = [b EXCEPT !.ctx = Insert(@, o0, Float(o1.size))]
    OBVIOUS
  <2>2. Twins(x, y) /\ x.size = a.size
    BY <2>1, TwinsInsert
  <2>3. PICK t : t = x.ctx[o0] /\ t = y.ctx[o0]
    BY <2>2 DEF Twins, Alike
  <2>4. ForwardCMP(p, a, c, insn, on) = Set(x, o1, t) /\ ForwardCMP(p, b, c, insn, on) = Set(y, o1, t)
    BY <1>1, <1>3, <2>1, <2>3 DEF ForwardCMP
  <2> QED
    BY <2>2, <2>4, TwinsSet
<1>4. CASE ~ (IsReg(o0) /\ IsImm(o1) /\ o1.val # 0) /\ ~ (IsXMMReg(o0) /\ IsGlobalMem(o1))
  BY <1>1, <1>4, SrcTwins DEF ForwardCMP
<1> QED
  BY <1>2, <1>3, <1>4

LEMMA AddToTwins ==
  ASSUME NEW a, NEW b, Twins(a, b), NEW o, NEW q, NEW t, NEW u
  PROVE  /\ Twins(AddTo(a, o, q, t, u), AddTo(b, o, q, t, u))
         /\ AddTo(a, o, q, t, u).size = a.size
<1>1. ASSUME NEW w
      PROVE  /\ Twins(Set([a EXCEPT !.ctx = Insert(@, q, w)], o, t), Set([b EXCEPT !.ctx = Insert(@, q, w)], o, t))
             /\ Set([a EXCEPT !.ctx = Insert(@, q, w)], o, t).size = a.size
  <2>1. PICK x, y : x = [a EXCEPT !.ctx = Insert(@, q, w)] /\ y = [b EXCEPT !.ctx = Insert(@, q, w)]
    OBVIOUS
  <2>2. Twins(x, y) /\ x.size = a.size
    BY <2>1, TwinsInsert
  <2>3. Twins(Set(x, o, t), Set(y, o, t)) /\ Set(x, o, t).size = x.size
    BY <2>2, TwinsSet
  <2> QED
    BY <2>1, <2>2, <2>3
<1>2. CASE IsIntegerType(t)
  BY <1>1, <1>2 DEF AddTo
<1>3. CASE ~ IsIntegerType(t) /\ IsPointerType(t)
  BY <1>1, <1>3 DEF AddTo
<1>4. CASE ~ IsIntegerType(t) /\ ~ IsPointerType(t)
  BY <1>4 DEF AddTo
<1> QED
  BY <1>2, <1>3, <1>4

LEMMA AddSubTwins ==
  ASSUME NEW p, NEW a, NEW b, Twins(a, b), NEW c, NEW insn, NEW on,
         ~ (IsImm(insn.op[2]) \/ insn.op[1] = Reg("rsp")) => SizeOf(a, insn.op[2]) = SizeOf(b, insn.op[2])
  PROVE  /\ Twins(ForwardADDSUB(p, a, c, insn, on), ForwardADDSUB(p, b, c, insn, on))
         /\ ForwardADDSUB(p, a, c, insn, on).size = a.size
<1>1. PICK o0, o1 : o0 = insn.op[1] /\ o1 = insn.op[2]
  OBVIOUS
<1> DEFINE fact(z, o) == Choose1(<<Fact(WithContext(z.ctx, o)), WithKnown(p, z, c, insn, o, FALSE),
                                   WithUnknown(p, z, c, o, FALSE, on)>>)
<1>2. ASSUME NEW o PROVE fact(a, o) = fact(b, o)
  <2>1. PICK no : no = FALSE
    OBVIOUS
  <2>2. /\ WithKnown(p, a, c, insn, o, no) = WithKnown(p, b, c, insn, o, no)
        /\ WithUnknown(p, a, c, o, no, on) = WithUnknown(p, b, c, o, no, on)
    BY TwinsLookUp
  <2>3. a.ctx = b.ctx
    BY DEF Twins, Alike
  <2> QED
    BY <2>1, <2>2, <2>3
<1>3. PICK f0, f1 : f0 = fact(a, o0) /\ f1 = fact(a, o1)
  OBVIOUS
<1>4. f0 = fact(b, o0) /\ f1 = fact(b, o1)
  BY <1>2, <1>3
<1>5. ForwardADDSUB(p, a, c, insn, on) =
        IF IsImm(o1) \/ o0 = Reg("rsp") THEN a
        ELSE IF f0 # NoFact THEN AddTo(Learn(a, f0), o0, o1, f0.type, SInt(SizeOf(a, o1)))
        ELSE IF f1 # NoFact THEN AddTo(Learn(a, f1), o1, o0, f1.type, f1.type)
        ELSE a
  BY <1>1, <1>3 DEF ForwardADDSUB
<1>6. ForwardADDSUB(p, b, c, insn, on) =
        IF IsImm(o1) \/ o0 = Reg("rsp") THEN b
        ELSE IF f0 # NoFact THEN AddTo(Learn(b, f0), o0, o1, f0.type, SInt(SizeOf(b, o1)))
        ELSE IF f1 # NoFact THEN AddTo(Learn(b, f1), o1, o0, f1.type, f1.type)
        ELSE b
  BY <1>1, <1>4 DEF ForwardADDSUB
<1> HIDE DEF fact
<1>7. CASE IsImm(o1) \/ o0 = Reg("rsp")
  BY <1>5, <1>6, <1>7
<1>8. CASE ~ (IsImm(o1) \/ o0 = Reg("rsp")) /\ f0 # NoFact
  <2>1. PICK x, y : x = Learn(a, f0) /\ y = Learn(b, f0)
    OBVIOUS
  <2>2. Twins(x, y) /\ x.size = a.size
    BY <2>1, TwinsLearn
  <2>3. PICK t : t = SInt(SizeOf(a, o1)) /\ t = SInt(SizeOf(b, o1))
    BY <1>1, <1>8
  <2> QED
    BY <1>5, <1>6, <1>8, <2>1, <2>2, <2>3, AddToTwins
<1>9. CASE ~ (IsImm(o1) \/ o0 = Reg("rsp")) /\ f0 = NoFact /\ f1 # NoFact
  <2>1. PICK x, y : x = Learn(a, f1) /\ y = Learn(b, f1)
    OBVIOUS
  <2>2. Twins(x, y) /\ x.size = a.size
    BY <2>1, TwinsLearn
  <2> QED
    BY <1>5, <1>6, <1>9, <2>1, <2>2, AddToTwins
<1>10. CASE ~ (IsImm(o1) \/ o0 = Reg("rsp")) /\ f0 = NoFact /\ f1 = NoFact
  BY <1>5, <1>6, <1>10
<1> QED
  BY <1>7, <1>8, <1>9, <1>10

LEMMA SetObjectTwins ==
  ASSUME NEW a, NEW b, Twins(a, b), NEW o, NEW t
  PROVE  Twins(SetObject(a, o, t), SetObject(b, o, t)) /\ SetObject(a, o, t).size = a.size
  BY TwinsSet DEF SetObject

LEMMA LeaTwins ==
  ASSUME NEW p, NEW a, NEW b, Twins(a, b), NEW c, NEW insn, NEW on,
         SizeOf(a, insn.op[1]) = SizeOf(b, insn.op[1])
  PROVE  /\ Twins(ForwardLEA(p, a, c, insn, on), ForwardLEA(p, b, c, insn, on))
         /\ ForwardLEA(p, a, c, insn, on).size = a.size
<1>1. PICK o0, o1, base : o0 = insn.op[1] /\ o1 = insn.op[2] /\ base = Reg(o1.base)
  OBVIOUS
<1>2. PICK ctx : ctx = a.ctx /\ ctx = b.ctx
  BY DEF Twins, Alike
<1>3. PICK known, fresh : known = WithKnown(p, a, c, insn, o1, TRUE) /\ fresh = WithUnknown(p, a, c, o1, TRUE, on)
  OBVIOUS
<1>4. known = WithKnown(p, b, c, insn, o1, TRUE) /\ fresh = WithUnknown(p, b, c, o1, TRUE, on)
  <2>1. PICK yes : yes = TRUE
    OBVIOUS
  <2>2. /\ WithKnown(p, a, c, insn, o1, yes) = WithKnown(p, b, c, insn, o1, yes)
        /\ WithUnknown(p, a, c, o1, yes, on) = WithUnknown(p, b, c, o1, yes, on)
    BY TwinsLookUp
  <2> QED
    BY <1>3, <2>1, <2>2
<1>5. PICK inCtx, t : inCtx = WithContext(ctx, o1) /\ t = [ctx[base] EXCEPT !.size = SizeOf(a, o0)]
  OBVIOUS
<1>6. t = [ctx[base] EXCEPT !.size = SizeOf(b, o0)]
  BY <1>1, <1>5
<1> DEFINE sum == /\ o1.index = NoReg /\ o1.seg = NoReg /\ base \in DOMAIN ctx
                  /\ IsIntegerType(ctx[base])
           to(z) == CASE sum -> Set(Set(z, o0, t), o1, SInt(8))
                      [] ~sum /\ known # NoFact -> SetObject(Set(z, o0, known.type), o1, known.type)
                      [] ~sum /\ known = NoFact /\ inCtx # NoType -> Set(Set(z, o1, inCtx), o0, Pointer(inCtx))
                      [] ~sum /\ known = NoFact /\ inCtx = NoType /\ fresh # NoFact ->
                           SetObject(Set(Learn(z, fresh), o0, fresh.type), o1, fresh.type)
                      [] OTHER -> [z EXCEPT !.ctx = RemoveOP(@, o0)]
<1>7. ForwardLEA(p, a, c, insn, on) = to(a)
  BY <1>1, <1>2, <1>3, <1>5 DEF ForwardLEA
<1>8. ForwardLEA(p, b, c, insn, on) = to(b)
  BY <1>1, <1>2, <1>4, <1>5, <1>6 DEF ForwardLEA
<1> HIDE DEF sum
<1>9. CASE sum
  <2>1. to(a) = Set(Set(a, o0, t), o1, SInt(8)) /\ to(b) = Set(Set(b, o0, t), o1, SInt(8))
    BY <1>9
  <2> QED
    BY <1>7, <1>8, <2>1, TwinsTwice
<1>10. CASE ~sum /\ known # NoFact
  <2>1. PICK x, y : x = Set(a, o0, known.type) /\ y = Set(b, o0, known.type)
    OBVIOUS
  <2>2. Twins(x, y) /\ x.size = a.size
    BY <2>1, TwinsSet
  <2>3. to(a) = SetObject(x, o1, known.type) /\ to(b) = SetObject(y, o1, known.type)
    BY <1>10, <2>1
  <2> QED
    BY <1>7, <1>8, <2>2, <2>3, SetObjectTwins
<1>11. CASE ~sum /\ known = NoFact /\ inCtx # NoType
  <2>1. /\ to(a) = Set(Set(a, o1, inCtx), o0, Pointer(inCtx))
        /\ to(b) = Set(Set(b, o1, inCtx), o0, Pointer(inCtx))
    BY <1>11
  <2> QED
    BY <1>7, <1>8, <2>1, TwinsTwice
<1>12. CASE ~sum /\ known = NoFact /\ inCtx = NoType /\ fresh # NoFact
  <2>1. PICK u, v, x, y : /\ u = Learn(a, fresh) /\ v = Learn(b, fresh)
                          /\ x = Set(u, o0, fresh.type) /\ y = Set(v, o0, fresh.type)
    OBVIOUS
  <2>2. Twins(u, v) /\ u.size = a.size
    BY <2>1, TwinsLearn
  <2>3. Twins(x, y) /\ x.size = a.size
    BY <2>1, <2>2, TwinsSet
  <2>4. to(a) = SetObject(x, o1, fresh.type) /\ to(b) = SetObject(y, o1, fresh.type)
    BY <1>12, <2>1
  <2> QED
    BY <1>7, <1>8, <2>3, <2>4, SetObjectTwins
<1>13. CASE ~sum /\ known = NoFact /\ inCtx = NoType /\ fresh = NoFact
  <2>1. to(a) = [a EXCEPT !.ctx = RemoveOP(@, o0)] /\ to(b) = [b EXCEPT !.ctx = RemoveOP(@, o0)]
    BY <1>13
  <2>2. /\ ForwardLEA(p, a, c, insn, on) = [a EXCEPT !.ctx = RemoveOP(@, o0)]
        /\ ForwardLEA(p, b, c, insn, on) = [b EXCEPT !.ctx = RemoveOP(@, o0)]
    BY <1>7, <1>8, <2>1
  <2> QED
    BY <2>2, TwinsRemove
<1> QED
  BY <1>9, <1>10, <1>11, <1>12, <1>13

\* The sizes z once the registers of width have been noted.
Wider(z, width) == [r \in DOMAIN z |-> IF r \in DOMAIN width /\ z[r] = 0 THEN width[r] ELSE z[r]]

LEMMA TwinsNote ==
  ASSUME NEW a, NEW b, Twins(a, b), NEW w
  PROVE  Twins(Note(a, w), Note(b, w)) /\ Note(a, w).ctx = a.ctx /\ Note(a, w).size = Wider(a.size, w)
<1>1. PICK x : x = Note(a, w)
  OBVIOUS
<1>2. PICK z : z = [r \in DOMAIN a.size |-> IF r \in DOMAIN w /\ a.size[r] = 0 THEN w[r] ELSE a.size[r]]
  OBVIOUS
<1>3. x = [a EXCEPT !.size = z]
  BY <1>1, <1>2 DEF Note
<1>4. x = [ctx |-> a.ctx, known |-> a.known, size |-> z]
  BY <1>3 DEF IsFacts, Twins
<1>5. PICK y : y = Note(b, w)
  OBVIOUS
<1>6. PICK u : u = [r \in DOMAIN b.size |-> IF r \in DOMAIN w /\ b.size[r] = 0 THEN w[r] ELSE b.size[r]]
  OBVIOUS
<1>7. y = [b EXCEPT !.size = u]
  BY <1>5, <1>6 DEF Note
<1>8. y = [ctx |-> b.ctx, known |-> b.known, size |-> u]
  BY <1>7 DEF IsFacts, Twins
<1> QED
  BY <1>1, <1>2, <1>4, <1>5, <1>8 DEF IsFacts, Alike, Twins, Wider

\* The registers insn names, and those its result is returned in.
OperandWidths(insn) ==
  LET R == (IF NamesOperands(insn)
            THEN {insn.op[i].reg : i \in {j \in DOMAIN insn.op : IsReg(insn.op[j])}} ELSE {})
           \union Implicit(insn)
  IN [r \in R |-> RegWidth(r)]

ResultOf(p, insn) == p.callee[CHOOSE t \in Targets(p, insn) : TRUE].ret

Returned(p, insn, z) ==
  IF insn.id = "call" /\ Targets(p, insn) # {}
  THEN Wider(z, [r \in DOMAIN ReturnRegs(ResultOf(p, insn)) |-> 8]) ELSE z

\* The sizes behind insn.
SizesBehind(p, insn, z) == Returned(p, insn, Wider(z, OperandWidths(insn)))

LEMMA PrepareTwins ==
  ASSUME NEW a, NEW b, Twins(a, b), NEW insn
  PROVE  /\ Twins(Prepare(a, insn), Prepare(b, insn))
         /\ Prepare(a, insn).size = Wider(a.size, OperandWidths(insn))
<1>1. PICK x, y : x = [a EXCEPT !.ctx = RemoveReg(@, "rip")] /\ y = [b EXCEPT !.ctx = RemoveReg(@, "rip")]
  OBVIOUS
<1>2. Twins(x, y) /\ x.size = a.size
  <2>1. PICK ctx : ctx = RemoveReg(a.ctx, "rip") /\ ctx = RemoveReg(b.ctx, "rip")
    BY DEF Twins, Alike
  <2>2. x = [a EXCEPT !.ctx = ctx] /\ y = [b EXCEPT !.ctx = ctx]
    BY <1>1, <2>1
  <2> QED
    BY <2>2, TwinsWith
<1>3. PICK w : w = OperandWidths(insn)
  OBVIOUS
<1>4. \A z : NoteOperands(z, insn) = Note(z, w)
  BY <1>3 DEF NoteOperands, OperandWidths
<1>5. Prepare(a, insn) = Note(x, w) /\ Prepare(b, insn) = Note(y, w)
  BY <1>1, <1>4 DEF Prepare
<1> QED
  BY <1>2, <1>3, <1>5, TwinsNote

LEMMA InsertRegsTwins ==
  ASSUME NEW a, NEW b, Twins(a, b), NEW regs
  PROVE  /\ Twins(InsertRegs(a, regs), InsertRegs(b, regs))
         /\ InsertRegs(a, regs).size = Wider(a.size, [r \in DOMAIN regs |-> 8])
<1>1. PICK w, add : /\ w = [r \in DOMAIN regs |-> 8]
                    /\ add = [o \in {Reg(r) : r \in DOMAIN regs} |-> regs[o.reg]]
  OBVIOUS
<1>2. PICK x, y : x = Note(a, w) /\ y = Note(b, w)
  OBVIOUS
<1>3. Twins(x, y) /\ x.size = Wider(a.size, w)
  BY <1>2, TwinsNote
<1>4. PICK ctx : ctx = UnionContext(<<x.ctx, add>>) /\ ctx = UnionContext(<<y.ctx, add>>)
  BY <1>3 DEF Twins, Alike
<1>5. InsertRegs(a, regs) = [x EXCEPT !.ctx = ctx] /\ InsertRegs(b, regs) = [y EXCEPT !.ctx = ctx]
  BY <1>1, <1>2, <1>4 DEF InsertRegs, NoteABI
<1> QED
  BY <1>1, <1>3, <1>5, TwinsWith

LEMMA CallTwins ==
  ASSUME NEW p, NEW a, NEW b, Twins(a, b), NEW insn, insn.id = "call"
  PROVE  /\ Twins(ForwardCall(p, a, insn), ForwardCall(p, b, insn))
         /\ ForwardCall(p, a, insn).size = Returned(p, insn, a.size)
<1>1. PICK x, y : x = [a EXCEPT !.ctx = ClearCalled(@)] /\ y = [b EXCEPT !.ctx = ClearCalled(@)]
  OBVIOUS
<1>2. Twins(x, y) /\ x.size = a.size
  <2>1. PICK ctx : ctx = ClearCalled(a.ctx) /\ ctx = ClearCalled(b.ctx)
    BY DEF Twins, Alike
  <2>2. x = [a EXCEPT !.ctx = ctx] /\ y = [b EXCEPT !.ctx = ctx]
    BY <1>1, <2>1
  <2> QED
    BY <2>2, TwinsWith
<1>3. PICK regs : regs = ReturnRegs(ResultOf(p, insn))
  OBVIOUS
<1>4. /\ ForwardCall(p, a, insn) = IF Targets(p, insn) = {} THEN x ELSE InsertRegs(x, regs)
      /\ ForwardCall(p, b, insn) = IF Targets(p, insn) = {} THEN y ELSE InsertRegs(y, regs)
  BY <1>1, <1>3 DEF ForwardCall, ResultOf
<1>5. CASE Targets(p, insn) = {}
  BY <1>2, <1>4, <1>5 DEF Returned
<1>6. CASE Targets(p, insn) # {}
  BY <1>2, <1>3, <1>4, <1>6, InsertRegsTwins DEF Returned
<1> QED
  BY <1>5, <1>6

LEMMA ExtendTwins ==
  ASSUME NEW a, NEW b, Twins(a, b), NEW insn, NEW signed,
         SizeOf(a, insn.op[1]) = SizeOf(b, insn.op[1]), SizeOf(a, insn.op[2]) = SizeOf(b, insn.op[2])
  PROVE  /\ Twins(ForwardExtend(a, insn, signed), ForwardExtend(b, insn, signed))
         /\ ForwardExtend(a, insn, signed).size = a.size
<1>1. PICK o, q, t, u :
        /\ o = insn.op[1] /\ q = insn.op[2]
        /\ t = IF insn.id = "movsxd" THEN SInt(8) ELSE IntegerType(signed, SizeOf(a, insn.op[1]))
        /\ u = IF insn.id = "movsxd" THEN SInt(4) ELSE IntegerType(signed, SizeOf(a, insn.op[2]))
  OBVIOUS
<1>2. PICK x, y : x = [a EXCEPT !.ctx = Insert(@, q, u)] /\ y = [b EXCEPT !.ctx = Insert(@, q, u)]
  OBVIOUS
<1>3. Twins(x, y) /\ x.size = a.size
  BY <1>2, TwinsInsert
<1>4. ForwardExtend(a, insn, signed) = Set(x, o, t) /\ ForwardExtend(b, insn, signed) = Set(y, o, t)
  BY <1>1, <1>2 DEF ForwardExtend
<1> QED
  BY <1>3, <1>4, TwinsSet

LEMMA WidenTwins ==
  ASSUME NEW a, NEW b, Twins(a, b), NEW insn, insn.id \in Widening
  PROVE  Twins(ForwardWiden(a, insn), ForwardWiden(b, insn)) /\ ForwardWiden(a, insn).size = a.size
<1>1. PICK c : c = a.ctx /\ c = b.ctx
  BY DEF Twins, Alike
<1>2. ASSUME NEW ctx, ForwardWiden(a, insn) = [a EXCEPT !.ctx = ctx], ForwardWiden(b, insn) = [b EXCEPT !.ctx = ctx]
      PROVE  Twins(ForwardWiden(a, insn), ForwardWiden(b, insn)) /\ ForwardWiden(a, insn).size = a.size
  BY <1>2, TwinsWith
<1>3. CASE insn.id = "cdq"
  <2>1. PICK ctx : ctx = RemoveRegs(c, {"dl", "dx", "edx", "rdx"})
    OBVIOUS
  <2>2. ForwardWiden(a, insn) = [a EXCEPT !.ctx = ctx] /\ ForwardWiden(b, insn) = [b EXCEPT !.ctx = ctx]
    BY <1>1, <1>3, <2>1 DEF ForwardWiden
  <2> QED
    BY <1>2, <2>2
<1>4. CASE insn.id = "cbw"
  <2>1. PICK ctx : ctx = Insert(RemoveReg(c, "ah"), Reg("ax"), SInt(2))
    OBVIOUS
  <2>2. ForwardWiden(a, insn) = [a EXCEPT !.ctx = ctx] /\ ForwardWiden(b, insn) = [b EXCEPT !.ctx = ctx]
    BY <1>1, <1>4, <2>1 DEF ForwardWiden
  <2> QED
    BY <1>2, <2>2
<1>5. CASE insn.id = "cwde"
  <2>1. PICK ctx : ctx = Insert(RemoveRegs(c, {"al", "ax", "eax", "rax"}), Reg("ax"), SInt(2))
    OBVIOUS
  <2>2. ForwardWiden(a, insn) = [a EXCEPT !.ctx = ctx] /\ ForwardWiden(b, insn) = [b EXCEPT !.ctx = ctx]
    BY <1>1, <1>5, <2>1 DEF ForwardWiden
  <2> QED
    BY <1>2, <2>2
<1>6. CASE insn.id = "cdqe"
  <2>1. PICK ctx : ctx = Insert(RemoveRegs(c, {"al", "ax", "eax", "rax"}), Reg("rax"), SInt(8))
    OBVIOUS
  <2>2. ForwardWiden(a, insn) = [a EXCEPT !.ctx = ctx] /\ ForwardWiden(b, insn) = [b EXCEPT !.ctx = ctx]
    BY <1>1, <1>6, <2>1 DEF ForwardWiden
  <2> QED
    BY <1>2, <2>2
<1> QED
  BY <1>3, <1>4, <1>5, <1>6 DEF Widening

LEMMA X87Twins ==
  ASSUME NEW a, NEW b, Twins(a, b), NEW insn, insn.id \in X87,
         SizeOf(a, insn.op[1]) = SizeOf(b, insn.op[1])
  PROVE  Twins(ForwardX87(a, insn), ForwardX87(b, insn)) /\ ForwardX87(a, insn).size = a.size
<1>1. CASE insn.id = "clobber"
  BY <1>1, TwinsRemove DEF ForwardX87
<1>2. CASE insn.id # "clobber"
  <2>1. PICK o, t : /\ o = insn.op[1]
                    /\ t = IF insn.id = "fld" THEN Float(IF SizeOf(a, o) = 10 THEN 8 ELSE SizeOf(a, o))
                           ELSE SInt(SizeOf(a, o))
    OBVIOUS
  <2>2. ForwardX87(a, insn) = Set(a, o, t) /\ ForwardX87(b, insn) = Set(b, o, t)
    BY <1>2, <2>1 DEF ForwardX87, X87
  <2> QED
    BY <2>2, TwinsSet
<1> QED
  BY <1>1, <1>2

LEMMA SetccTwins ==
  ASSUME NEW a, NEW b, Twins(a, b), NEW o, NEW r
  PROVE  /\ Twins([a EXCEPT !.ctx = Insert(RemoveReg(@, r), o, Bool)],
                  [b EXCEPT !.ctx = Insert(RemoveReg(@, r), o, Bool)])
         /\ [a EXCEPT !.ctx = Insert(RemoveReg(@, r), o, Bool)].size = a.size
<1>1. PICK ctx : ctx = Insert(RemoveReg(a.ctx, r), o, Bool) /\ ctx = Insert(RemoveReg(b.ctx, r), o, Bool)
  BY DEF Twins, Alike
<1>2. /\ [a EXCEPT !.ctx = Insert(RemoveReg(@, r), o, Bool)] = [a EXCEPT !.ctx = ctx]
      /\ [b EXCEPT !.ctx = Insert(RemoveReg(@, r), o, Bool)] = [b EXCEPT !.ctx = ctx]
  BY <1>1
<1> QED
  BY <1>2, TwinsWith

LEMMA ArithmeticTwins ==
  ASSUME NEW p, NEW a, NEW b, Twins(a, b), NEW c, NEW insn, NEW on, insn.id \in Arithmetic, Formed(insn),
         NamesOperands(insn) => SizedAlike(a, b, insn)
  PROVE  /\ Twins(ForwardArithmetic(p, a, c, insn, on), ForwardArithmetic(p, b, c, insn, on))
         /\ ForwardArithmetic(p, a, c, insn, on).size = a.size
<1>1. insn.id \in {"cmp", "logic", "setcc"} => NamesOperands(insn)
  BY DEF NamesOperands
<1>2. CASE insn.id = "cmp"
  <2>1. /\ ForwardArithmetic(p, a, c, insn, on) = ForwardCMP(p, a, c, insn, on)
        /\ ForwardArithmetic(p, b, c, insn, on) = ForwardCMP(p, b, c, insn, on)
    BY <1>2 DEF ForwardArithmetic
  <2>2. SizeOf(a, insn.op[1]) = SizeOf(b, insn.op[1])
    BY <1>1, <1>2, FormedOps DEF SizedAlike
  <2> QED
    BY <2>1, <2>2, CmpTwins
<1>3. CASE insn.id = "logic"
  <2>1. /\ ForwardArithmetic(p, a, c, insn, on) = ForwardLOGIC(p, a, c, insn, on)
        /\ ForwardArithmetic(p, b, c, insn, on) = ForwardLOGIC(p, b, c, insn, on)
    BY <1>3 DEF ForwardArithmetic
  <2>2. SizeOf(a, insn.op[1]) = SizeOf(b, insn.op[1])
    BY <1>1, <1>3, FormedOps DEF SizedAlike
  <2> QED
    BY <2>1, <2>2, LogicTwins
<1>4. CASE insn.id = "setcc"
  <2>1. PICK o, r : o = insn.op[1] /\ r = insn.op[1].reg
    OBVIOUS
  <2>2. \A z : ForwardArithmetic(p, z, c, insn, on) = [z EXCEPT !.ctx = Insert(RemoveReg(@, r), o, Bool)]
    BY <1>4, <2>1 DEF ForwardArithmetic
  <2>3. /\ Twins([a EXCEPT !.ctx = Insert(RemoveReg(@, r), o, Bool)],
                 [b EXCEPT !.ctx = Insert(RemoveReg(@, r), o, Bool)])
        /\ [a EXCEPT !.ctx = Insert(RemoveReg(@, r), o, Bool)].size = a.size
    BY SetccTwins
  <2> QED
    BY <2>2, <2>3
<1>5. CASE insn.id \in {"add", "sub"}
  <2>1. /\ ForwardArithmetic(p, a, c, insn, on) = ForwardADDSUB(p, a, c, insn, on)
        /\ ForwardArithmetic(p, b, c, insn, on) = ForwardADDSUB(p, b, c, insn, on)
    BY <1>5 DEF ForwardArithmetic
  <2>2. ~ (IsImm(insn.op[2]) \/ insn.op[1] = Reg("rsp")) => NamesOperands(insn)
    BY <1>5 DEF NamesOperands, Uses
  <2>3. ~ (IsImm(insn.op[2]) \/ insn.op[1] = Reg("rsp")) => SizeOf(a, insn.op[2]) = SizeOf(b, insn.op[2])
    BY <1>5, <2>2, FormedOps DEF SizedAlike
  <2> QED
    BY <2>1, <2>3, AddSubTwins
<1> QED
  BY <1>2, <1>3, <1>4, <1>5 DEF Arithmetic

\* Forward does the same to both, and notes what it notes.
LEMMA ForwardTwins ==
  ASSUME NEW p, NEW a, NEW b, Twins(a, b), NEW c, NEW insn, NEW on, Formed(insn),
         NamesOperands(insn) => SizedAlike(a, b, insn)
  PROVE  /\ Twins(Forward(p, a, c, insn, on), Forward(p, b, c, insn, on))
         /\ Forward(p, a, c, insn, on).size = Returned(p, insn, a.size)
<1>1. insn.id # "call" => Returned(p, insn, a.size) = a.size
  BY DEF Returned
<1>2. insn.id \in {"movzx", "movsx", "movsxd", "lea", "clobber", "fld", "fist"} => NamesOperands(insn)
  BY DEF NamesOperands
<1>3. CASE insn.id = "call"
  <2>1. \A z : Forward(p, z, c, insn, on) = ForwardCall(p, z, insn)
    BY <1>3 DEF Forward, Widening, X87, Arithmetic
  <2> QED
    BY <1>3, <2>1, CallTwins
<1>4. CASE insn.id \in {"movzx", "movsx", "movsxd"}
  <2>1. PICK signed : signed = (insn.id # "movzx")
    OBVIOUS
  <2>2. \A z : Forward(p, z, c, insn, on) = ForwardExtend(z, insn, signed)
    <3>1. CASE insn.id = "movzx"
      <4>1. signed = FALSE
        BY <2>1, <3>1
      <4> QED
        BY <3>1, <4>1 DEF Forward, Widening, X87, Arithmetic
    <3>2. CASE insn.id # "movzx"
      <4>1. signed = TRUE
        BY <2>1, <3>2
      <4> QED
        BY <1>4, <3>2, <4>1 DEF Forward, Widening, X87, Arithmetic
    <3> QED
      BY <3>1, <3>2
  <2>3. SizeOf(a, insn.op[1]) = SizeOf(b, insn.op[1]) /\ SizeOf(a, insn.op[2]) = SizeOf(b, insn.op[2])
    BY <1>2, <1>4, FormedOps DEF SizedAlike
  <2> QED
    BY <1>1, <1>4, <2>2, <2>3, ExtendTwins
<1>5. CASE insn.id = "mov"
  <2>1. \A z : Forward(p, z, c, insn, on) = ForwardMOV(p, z, c, insn, on)
    BY <1>5 DEF Forward, Widening, X87, Arithmetic
  <2> QED
    BY <1>1, <1>5, <2>1, MovTwins
<1>6. CASE insn.id = "lea"
  <2>1. \A z : Forward(p, z, c, insn, on) = ForwardLEA(p, z, c, insn, on)
    BY <1>6 DEF Forward, Widening, X87, Arithmetic
  <2>2. SizeOf(a, insn.op[1]) = SizeOf(b, insn.op[1])
    BY <1>2, <1>6, FormedOps DEF SizedAlike
  <2> QED
    BY <1>1, <1>6, <2>1, <2>2, LeaTwins
<1>7. CASE insn.id \in Widening
  <2>1. \A z : Forward(p, z, c, insn, on) = ForwardWiden(z, insn)
    BY <1>7 DEF Forward, Widening, X87, Arithmetic
  <2> QED
    BY <1>1, <1>7, <2>1, WidenTwins DEF Widening
<1>8. CASE insn.id \in X87
  <2>1. \A z : Forward(p, z, c, insn, on) = ForwardX87(z, insn)
    BY <1>8 DEF Forward, Widening, X87, Arithmetic
  <2>2. SizeOf(a, insn.op[1]) = SizeOf(b, insn.op[1])
    BY <1>2, <1>8, FormedOps DEF SizedAlike, X87
  <2> QED
    BY <1>1, <1>8, <2>1, <2>2, X87Twins DEF X87
<1>9. CASE insn.id \in Arithmetic
  <2>1. \A z : Forward(p, z, c, insn, on) = ForwardArithmetic(p, z, c, insn, on)
    BY <1>9 DEF Forward, Widening, X87, Arithmetic
  <2> QED
    BY <1>1, <1>9, <2>1, ArithmeticTwins DEF Arithmetic
<1>10. CASE insn.id \notin {"call", "movzx", "movsx", "movsxd", "mov", "lea"} \union Widening \union X87 \union Arithmetic
  <2>1. \A z : Forward(p, z, c, insn, on) = z
    BY <1>10 DEF Forward
  <2> QED
    BY <1>1, <1>10, <2>1
<1> QED
  BY <1>3, <1>4, <1>5, <1>6, <1>7, <1>8, <1>9, <1>10

-----------------------------------------------------------------------------
(***************************************************************************)
(* Sizes are noted once and stay.                                          *)
(***************************************************************************)
Covers(z, y) == \A r \in RegName : z[r] # 0 => y[r] = z[r]

LEMMA CoversSelf == ASSUME NEW z PROVE Covers(z, z)
  BY DEF Covers

LEMMA CoversOn ==
  ASSUME NEW z, NEW y, NEW x, Covers(z, y), Covers(y, x)
  PROVE  Covers(z, x)
  BY DEF Covers

LEMMA CoversWider ==
  ASSUME NEW z, DOMAIN z = RegName, NEW w
  PROVE  Covers(z, Wider(z, w)) /\ DOMAIN Wider(z, w) = RegName
  BY DEF Covers, Wider

LEMMA CoversBehind ==
  ASSUME NEW p, NEW insn, NEW z, DOMAIN z = RegName
  PROVE  Covers(z, SizesBehind(p, insn, z)) /\ DOMAIN SizesBehind(p, insn, z) = RegName
<1>1. PICK y : y = Wider(z, OperandWidths(insn))
  OBVIOUS
<1>2. Covers(z, y) /\ DOMAIN y = RegName
  BY <1>1, CoversWider
<1>3. Covers(y, Returned(p, insn, y)) /\ DOMAIN Returned(p, insn, y) = RegName
  BY <1>2, CoversWider, CoversSelf DEF Returned
<1> QED
  BY <1>1, <1>2, <1>3, CoversOn DEF SizesBehind

\* Going backward only the registers of a library call's parameters are noted.
LEMMA SizeSet ==
  ASSUME NEW a, IsFacts(a), NEW o, NEW t
  PROVE  IsFacts(Set(a, o, t)) /\ Set(a, o, t).size = a.size
  BY TwinsSet DEF Twins, Alike

LEMMA SizeWith ==
  ASSUME NEW a, IsFacts(a), NEW ctx
  PROVE  IsFacts([a EXCEPT !.ctx = ctx]) /\ [a EXCEPT !.ctx = ctx].size = a.size
  BY TwinsWith DEF Twins, Alike

LEMMA SizeInsert ==
  ASSUME NEW a, IsFacts(a), NEW o, NEW t
  PROVE  /\ IsFacts([a EXCEPT !.ctx = Insert(@, o, t)])
         /\ [a EXCEPT !.ctx = Insert(@, o, t)].size = a.size
  BY TwinsInsert DEF Twins, Alike

LEMMA SizeRemove ==
  ASSUME NEW a, IsFacts(a), NEW o
  PROVE  [a EXCEPT !.ctx = RemoveOP(@, o)].size = a.size
  BY TwinsRemove DEF Twins, Alike

LEMMA EqSize == ASSUME NEW a, IsFacts(a), NEW insn PROVE BackwardEQ(a, insn).size = a.size
<1>1. \A t : Set(Set(a, insn.op[1], t), insn.op[2], t).size = a.size
  BY SizeSet
<1>2. \/ BackwardEQ(a, insn) = a
      \/ \E t : BackwardEQ(a, insn) = Set(Set(a, insn.op[1], t), insn.op[2], t)
  BY DEF BackwardEQ
<1> QED
  BY <1>1, <1>2

LEMMA BackMovSize == ASSUME NEW a, IsFacts(a), NEW insn PROVE BackwardMOV(a, insn).size = a.size
<1>1. PICK t : t = WithContext(a.ctx, insn.op[1])
  OBVIOUS
<1>2. PICK b : b = IF t = NoType THEN a ELSE Set(a, insn.op[2], t)
  OBVIOUS
<1>3. IsFacts(b) /\ b.size = a.size
  BY <1>2, SizeSet
<1>4. [b EXCEPT !.ctx = RemoveOP(@, insn.op[1])].size = a.size
  BY <1>3, SizeRemove
<1>5. BackwardMOV(a, insn) \in {a, [b EXCEPT !.ctx = RemoveOP(@, insn.op[1])]}
  BY <1>1, <1>2 DEF BackwardMOV, BackwardDst1
<1> QED
  BY <1>4, <1>5

LEMMA BackLeaSize == ASSUME NEW a, IsFacts(a), NEW insn PROVE BackwardLEA(a, insn).size = a.size
<1>1. PICK t : t = WithContext(a.ctx, insn.op[1])
  OBVIOUS
<1>2. PICK b : b = IF t # NoType THEN SetObject(a, insn.op[2], t) ELSE a
  OBVIOUS
<1>3. IsFacts(b) /\ b.size = a.size
  BY <1>2, SizeSet DEF SetObject
<1>4. [b EXCEPT !.ctx = RemoveOP(@, insn.op[1])].size = a.size
  BY <1>3, SizeRemove
<1>5. BackwardLEA(a, insn) \in {a, [b EXCEPT !.ctx = RemoveOP(@, insn.op[1])]}
  BY <1>1, <1>2 DEF BackwardLEA
<1> QED
  BY <1>4, <1>5

LEMMA AddToSize ==
  ASSUME NEW a, IsFacts(a), NEW o, NEW q, NEW t, NEW u
  PROVE  AddTo(a, o, q, t, u).size = a.size
  BY AddToTwins DEF Twins, Alike

LEMMA BackArithmeticSize ==
  ASSUME NEW a, IsFacts(a), NEW insn, insn.id \in Arithmetic
  PROVE  BackwardArithmetic(a, insn).size = a.size
<1>1. CASE insn.id \in {"cmp", "logic"}
  <2>1. PICK o0, o1, t : /\ o0 = insn.op[1] /\ o1 = insn.op[2]
                         /\ t = IF insn.id = "logic" THEN UInt(SizeOf(a, o0)) ELSE SInt(SizeOf(a, o0))
    OBVIOUS
  <2>2. PICK b, d : /\ b = [a EXCEPT !.ctx = Insert(@, o0, Float(o1.size))]
                    /\ d = [a EXCEPT !.ctx = Insert(@, o0, t)]
    OBVIOUS
  <2>3. IsFacts(b) /\ b.size = a.size /\ d.size = a.size
    BY <2>2, SizeInsert
  <2>4. Set(b, o1, b.ctx[o0]).size = a.size
    BY <2>3, SizeSet
  <2>5. BackwardTest(a, insn) \in {d, Set(b, o1, b.ctx[o0]), BackwardEQ(a, insn)}
    BY <2>1, <2>2 DEF BackwardTest
  <2> QED
    BY <1>1, <2>3, <2>4, <2>5, EqSize DEF BackwardArithmetic
<1>2. CASE insn.id = "setcc"
  <2>1. PICK ctx : ctx = RemoveReg(a.ctx, insn.op[1].reg)
    OBVIOUS
  <2>2. BackwardArithmetic(a, insn) = [a EXCEPT !.ctx = ctx]
    BY <1>2, <2>1 DEF BackwardArithmetic
  <2> QED
    BY <2>2, SizeWith
<1>3. CASE insn.id \in {"add", "sub"}
  <2>1. BackwardADDSUB(a, insn) = a
          \/ \E o, q, t, u : BackwardADDSUB(a, insn) = AddTo(a, o, q, t, u)
    BY DEF BackwardADDSUB
  <2> QED
    BY <1>3, <2>1, AddToSize DEF BackwardArithmetic
<1> QED
  BY <1>1, <1>2, <1>3 DEF Arithmetic

LEMMA BackCallSize ==
  ASSUME NEW p, NEW a, IsFacts(a), DOMAIN a.size = RegName, NEW insn
  PROVE  Covers(a.size, BackwardCall(p, a, insn).size)
<1>1. PICK ctx, b : ctx = ClearCalled(a.ctx) /\ b = [a EXCEPT !.ctx = ClearCalled(@)]
  OBVIOUS
<1>2. b = [a EXCEPT !.ctx = ctx]
  BY <1>1
<1>3. IsFacts(b) /\ b.size = a.size
  BY <1>2, SizeWith
<1>4. BackwardCall(p, a, insn) = b \/ \E regs : BackwardCall(p, a, insn) = SetRegs(b, regs)
  BY <1>1 DEF BackwardCall
<1>5. ASSUME NEW regs PROVE Covers(b.size, SetRegs(b, regs).size)
  <2>1. PICK w, d : w = [r \in {regs[i][1] : i \in DOMAIN regs} |-> 8] /\ d = Note(b, w)
    OBVIOUS
  <2>2. IsFacts(d) /\ d.size = Wider(b.size, w)
    BY <1>3, <2>1, TwinsNote DEF Twins, Alike
  <2>3. \E e : SetRegs(b, regs) = [d EXCEPT !.ctx = e]
    <3>1. SetRegs(b, regs) = [d EXCEPT !.ctx = UnionContext([k \in 1 .. Len(regs) + 1 |->
             IF k <= Len(regs) THEN [o \in {Reg(regs[Len(regs) + 1 - k][1])} |-> regs[Len(regs) + 1 - k][2]] ELSE @])]
      BY <2>1 DEF SetRegs, NoteABI
    <3>2. SetRegs(b, regs) = [d EXCEPT !.ctx = UnionContext([k \in 1 .. Len(regs) + 1 |->
             IF k <= Len(regs) THEN [o \in {Reg(regs[Len(regs) + 1 - k][1])} |-> regs[Len(regs) + 1 - k][2]] ELSE d.ctx])]
      BY <3>1
    <3> QED
      BY <3>2
  <2>4. SetRegs(b, regs).size = d.size
    BY <2>2, <2>3, SizeWith
  <2> QED
    BY <1>3, <2>2, <2>4, CoversWider
<1> QED
  BY <1>3, <1>4, <1>5, CoversSelf

LEMMA BackExtendSize ==
  ASSUME NEW a, IsFacts(a), NEW insn, NEW signed
  PROVE  BackwardExtend(a, insn, signed).size = a.size
  BY SizeSet DEF BackwardExtend

LEMMA BackWidenSize ==
  ASSUME NEW a, IsFacts(a), NEW insn, insn.id \in Widening
  PROVE  BackwardWiden(a, insn).size = a.size
<1>1. PICK rax, c : rax = {"al", "ax", "eax", "rax"} /\ c = a.ctx
  OBVIOUS
<1>2. CASE insn.id = "cdq"
  <2>1. PICK ctx : ctx = RemoveRegs(c, {"dl", "dx", "edx", "rdx"})
    OBVIOUS
  <2>2. BackwardWiden(a, insn) = [a EXCEPT !.ctx = ctx]
    BY <1>1, <1>2, <2>1 DEF BackwardWiden
  <2> QED
    BY <2>2, SizeWith
<1>3. CASE insn.id = "cbw"
  <2>1. PICK ctx : ctx = RemoveRegs(c, rax)
    OBVIOUS
  <2>2. BackwardWiden(a, insn) = [a EXCEPT !.ctx = ctx]
    BY <1>1, <1>3, <2>1 DEF BackwardWiden
  <2> QED
    BY <2>2, SizeWith
<1>4. CASE insn.id = "cwde"
  <2>1. PICK ctx : ctx = Insert(RemoveRegs(c, rax), Reg("al"), SInt(1))
    OBVIOUS
  <2>2. BackwardWiden(a, insn) = [a EXCEPT !.ctx = ctx]
    BY <1>1, <1>4, <2>1 DEF BackwardWiden
  <2> QED
    BY <2>2, SizeWith
<1>5. CASE insn.id = "cdqe"
  <2>1. PICK ctx : ctx = Insert(RemoveRegs(c, rax), Reg("eax"), SInt(4))
    OBVIOUS
  <2>2. BackwardWiden(a, insn) = [a EXCEPT !.ctx = ctx]
    BY <1>1, <1>5, <2>1 DEF BackwardWiden
  <2> QED
    BY <2>2, SizeWith
<1> QED
  BY <1>2, <1>3, <1>4, <1>5 DEF Widening

LEMMA BackwardSize ==
  ASSUME NEW p, NEW a, IsFacts(a), DOMAIN a.size = RegName, NEW insn
  PROVE  Covers(a.size, Backward(p, a, insn).size)
<1>1. CASE insn.id = "call"
  <2>1. Backward(p, a, insn) = BackwardCall(p, a, insn)
    BY <1>1 DEF Backward, Widening, X87, Arithmetic
  <2> QED
    BY <2>1, BackCallSize
<1>2. CASE insn.id \in {"movzx", "movsx", "movsxd"}
  <2>1. \E signed : Backward(p, a, insn) = BackwardExtend(a, insn, signed)
    BY <1>2 DEF Backward, Widening, X87, Arithmetic
  <2> QED
    BY <2>1, BackExtendSize, CoversSelf
<1>3. CASE insn.id = "mov"
  <2>1. Backward(p, a, insn) = BackwardMOV(a, insn)
    BY <1>3 DEF Backward, Widening, X87, Arithmetic
  <2> QED
    BY <2>1, BackMovSize, CoversSelf
<1>4. CASE insn.id = "lea"
  <2>1. Backward(p, a, insn) = BackwardLEA(a, insn)
    BY <1>4 DEF Backward, Widening, X87, Arithmetic
  <2> QED
    BY <2>1, BackLeaSize, CoversSelf
<1>5. CASE insn.id \in Widening
  <2>1. Backward(p, a, insn) = BackwardWiden(a, insn)
    BY <1>5 DEF Backward, Widening, X87, Arithmetic
  <2> QED
    BY <1>5, <2>1, BackWidenSize, CoversSelf
<1>6. CASE insn.id \in X87
  <2>1. Backward(p, a, insn) = BackwardX87(a, insn)
    BY <1>6 DEF Backward, Widening, X87, Arithmetic
  <2> QED
    BY <2>1, SizeRemove, CoversSelf DEF BackwardX87
<1>7. CASE insn.id \in Arithmetic
  <2>1. Backward(p, a, insn) = BackwardArithmetic(a, insn)
    BY <1>7 DEF Backward, Widening, X87, Arithmetic
  <2> QED
    BY <1>7, <2>1, BackArithmeticSize, CoversSelf
<1>8. CASE insn.id \notin {"call", "movzx", "movsx", "movsxd", "mov", "lea"} \union Widening \union X87 \union Arithmetic
  <2>1. Backward(p, a, insn) = a
    BY <1>8 DEF Backward
  <2> QED
    BY <2>1, CoversSelf
<1> QED
  BY <1>1, <1>2, <1>3, <1>4, <1>5, <1>6, <1>7, <1>8

\* An instruction that finds the sizes noted that the other pass notes behind
\* it does what the other does.
LEMMA StepTwins ==
  ASSUME NEW p, NEW x, NEW s, Twins(x, s), DOMAIN x.size = RegName, DOMAIN s.size = RegName,
         NEW insn, Formed(insn), \A k \in DOMAIN insn.op : IsReg(insn.op[k]) => insn.op[k].reg \in RegName,
         Covers(SizesBehind(p, insn, x.size), s.size), NEW c, NEW on
  PROVE  /\ Twins(Forward(p, Prepare(x, insn), c, insn, on), Forward(p, Prepare(s, insn), c, insn, on))
         /\ Forward(p, Prepare(x, insn), c, insn, on).size = SizesBehind(p, insn, x.size)
<1>1. PICK a, b : a = Prepare(x, insn) /\ b = Prepare(s, insn)
  OBVIOUS
<1>2. PICK w : w = OperandWidths(insn)
  OBVIOUS
<1>3. Twins(s, x)
  BY DEF Twins, Alike
<1>4. Twins(a, b) /\ a.size = Wider(x.size, w) /\ b.size = Wider(s.size, w)
  BY <1>1, <1>2, <1>3, PrepareTwins
<1>5. Covers(a.size, s.size) /\ DOMAIN a.size = RegName
  <2>1. Covers(a.size, Returned(p, insn, a.size)) /\ DOMAIN a.size = RegName
    <3>1. DOMAIN a.size = RegName
      BY <1>4, CoversWider
    <3> QED
      BY <3>1, CoversWider, CoversSelf DEF Returned
  <2> QED
    BY <1>2, <1>4, <2>1, CoversOn DEF SizesBehind
<1>6. Covers(s.size, b.size)
  BY <1>4, CoversWider
<1>7. ASSUME NamesOperands(insn) PROVE SizedAlike(a, b, insn)
  <2>1. ASSUME NEW k \in DOMAIN insn.op, IsReg(insn.op[k])
        PROVE  a.size[insn.op[k].reg] = b.size[insn.op[k].reg]
    <3>1. PICK r : r = insn.op[k].reg
      OBVIOUS
    <3>2. r \in RegName
      BY <2>1, <3>1
    <3>3. r \in DOMAIN w /\ w[r] = RegWidth(r)
      BY <1>2, <1>7, <2>1, <3>1 DEF OperandWidths
    <3>4. RegWidth(r) # 0
      BY DEF RegWidth
    <3>5. a.size[r] # 0
      BY <1>4, <3>2, <3>3, <3>4 DEF Wider
    <3> QED
      BY <1>5, <1>6, <3>1, <3>2, <3>5 DEF Covers
  <2> QED
    BY <2>1 DEF SizedAlike, SizeOf
<1> QED
  BY <1>1, <1>2, <1>4, <1>7, ForwardTwins DEF SizesBehind

-----------------------------------------------------------------------------
(***************************************************************************)
(* Where the walk of a pass is depends on the graph alone, and which sizes *)
(* a forward pass has noted on where it is.                                *)
(***************************************************************************)
Way(e, t, v, k, n, tr) == [edges |-> e, todo |-> t, visited |-> v, cur |-> k, pos |-> n, trail |-> tr]

WayOf(s) == Way(s.edges, s.todo, s.visited, s.cur, s.pos, s.trail)
NowWay   == Way(edges, todo, visited, cur, pos, trail)

Departs(p) == Way(p.succs, <<p.entry>>, {}, NoNode, 0, <<>>)
Over(w)    == w.cur = NoNode /\ w.todo = <<>>

\* The next instruction of the block, if there is one.
Ahead(p, w) == w.cur # NoNode /\ w.pos < Len(p.code[w.cur])

Stride(p, w) ==
  IF w.cur = NoNode
  THEN IF Head(w.todo) \in w.visited THEN Way(w.edges, Tail(w.todo), w.visited, w.cur, w.pos, w.trail)
       ELSE Way(w.edges, Tail(w.todo), w.visited \union {Head(w.todo)}, Head(w.todo), w.pos, w.trail)
  ELSE IF w.pos < Len(p.code[w.cur])
       THEN Way(w.edges, w.todo, w.visited, w.cur, w.pos + 1, w.trail)
       ELSE Way(w.edges, w.edges[w.cur] \o w.todo, w.visited, NoNode, 0, Append(w.trail, w.cur))

\* The sizes behind the step from w.
Sized(p, w, z) ==
  IF Ahead(p, w) THEN SizesBehind(Info(p, {}), p.code[w.cur][w.pos + 1], z) ELSE z

LEMMA WayFields ==
  ASSUME NEW e, NEW t, NEW v, NEW k, NEW n, NEW tr, NEW w, w = Way(e, t, v, k, n, tr)
  PROVE  w.edges = e /\ w.todo = t /\ w.visited = v /\ w.cur = k /\ w.pos = n /\ w.trail = tr
  BY DEF Way

LEMMA WayNow ==
  ASSUME NEW w, w = NowWay
  PROVE  /\ w.edges = edges /\ w.todo = todo /\ w.visited = visited /\ w.cur = cur /\ w.pos = pos
         /\ w.trail = trail
         /\ WayOf(Now) = w
<1>1. PICK s : s = Now
  OBVIOUS
<1>2. WayOf(s) = w
  BY <1>1, NowFields DEF WayOf, NowWay
<1> QED
  BY <1>1, <1>2, WayFields DEF NowWay

\* Every step in a pass goes on with the walk.
LEMMA StrideNow ==
  ASSUME prog \in Program, WalkTypeOK, InPass, NEW w, w = NowWay
  PROVE  NowWay' = Stride(prog, w) /\ ~ Over(w)
<1>1. /\ w.edges = edges /\ w.todo = todo /\ w.visited = visited /\ w.cur = cur /\ w.pos = pos
      /\ w.trail = trail
  BY WayNow
<1>2. CASE SkipBlock
  <2>1. /\ cur = NoNode /\ todo # <<>> /\ Head(todo) \in visited /\ todo' = Tail(todo)
        /\ UNCHANGED <<edges, visited, cur, pos, trail>>
    BY <1>2 DEF SkipBlock, Return, passVars
  <2> QED
    BY <1>1, <2>1 DEF Stride, Over, NowWay
<1>3. CASE EnterForward \/ EnterBackward \/ EnterParameters
  <2>1. /\ cur = NoNode /\ todo # <<>> /\ Head(todo) \notin visited /\ todo' = Tail(todo)
        /\ visited' = visited \union {Head(todo)} /\ cur' = Head(todo)
        /\ UNCHANGED <<edges, pos, trail>>
    BY <1>3 DEF EnterForward, EnterBackward, EnterParameters, Enter, passVars
  <2> QED
    BY <1>1, <2>1 DEF Stride, Over, NowWay
<1>4. CASE ForwardInsn \/ BackwardInsn \/ ParameterInsn
  <2>1. /\ cur # NoNode /\ pos < Len(prog.code[cur]) /\ pos' = pos + 1
        /\ UNCHANGED <<edges, todo, visited, cur, trail>>
    BY <1>4 DEF ForwardInsn, BackwardInsn, ParameterInsn, More, CodeOf, walkVars
  <2> QED
    BY <1>1, <2>1 DEF Stride, Over, NowWay
<1>5. CASE LeaveForward \/ LeaveBackward \/ LeaveParameters
  <2>1. /\ cur # NoNode /\ pos = Len(prog.code[cur]) /\ pos' = 0 /\ cur' = NoNode
        /\ todo' = edges[cur] \o todo /\ trail' = Append(trail, cur) /\ UNCHANGED <<edges, visited>>
    BY <1>5 DEF LeaveForward, LeaveBackward, LeaveParameters, LeaveBlock, Leave, CodeOf
  <2>2. Len(prog.code[cur]) \in Nat
    BY <2>1, ProgramCode DEF CodeOf, WalkTypeOK
  <2> QED
    BY <1>1, <2>1, <2>2 DEF Stride, Over, NowWay
<1> QED
  BY <1>2, <1>3, <1>4, <1>5 DEF InPass

\* So does every step of a followed analysis that does not begin a pass.
LEMMA StrideFollow ==
  ASSUME NEW p, NEW c, NEW s, NEW H, ~ Over(WayOf(s))
  PROVE  /\ WayOf(Follow(p, c, s, H)) = Stride(p, WayOf(s))
         /\ Follow(p, c, s, H).phase = s.phase
<1>1. PICK w, f : w = WayOf(s) /\ f = Follow(p, c, s, H)
  OBVIOUS
<1>2. /\ w.edges = s.edges /\ w.todo = s.todo /\ w.visited = s.visited /\ w.cur = s.cur /\ w.pos = s.pos
      /\ w.trail = s.trail
  BY <1>1, WayFields DEF WayOf
<1>3. \A e, t, v, k, ph, n, ic, oc, nc, g, tr :
        WayOf(State(e, t, v, k, ph, n, ic, oc, nc, g, tr)) = Way(e, t, v, k, n, tr)
        /\ State(e, t, v, k, ph, n, ic, oc, nc, g, tr).phase = ph
  BY StateFields DEF WayOf
<1>4. CASE s.cur = NoNode /\ Head(s.todo) \in s.visited
  <2>1. f = SkipFrom(s)
    BY <1>1, <1>2, <1>4 DEF Follow, Over
  <2> QED
    BY <1>1, <1>2, <1>3, <1>4, <2>1 DEF SkipFrom, Stride
<1>5. CASE s.cur = NoNode /\ Head(s.todo) \notin s.visited
  <2>1. f = IF s.phase = "bwd" THEN EnterBackwardFrom(p, s, Head(s.todo)) ELSE EnterForwardFrom(p, s, Head(s.todo))
    BY <1>1, <1>2, <1>5 DEF Follow, Over
  <2>2. /\ WayOf(f) = Way(s.edges, Tail(s.todo), s.visited \union {Head(s.todo)}, Head(s.todo), s.pos, s.trail)
        /\ f.phase = s.phase
    BY <1>3, <2>1 DEF EnterForwardFrom, EnterBackwardFrom
  <2> QED
    BY <1>1, <1>2, <1>5, <2>2 DEF Stride
<1>6. CASE s.cur # NoNode /\ s.pos < Len(p.code[s.cur])
  <2>1. \E i, g : f = BackwardFrom(s, i, g) \/ f = ForwardFrom(s, g)
    BY <1>1, <1>6 DEF Follow
  <2>2. /\ WayOf(f) = Way(s.edges, s.todo, s.visited, s.cur, s.pos + 1, s.trail)
        /\ f.phase = s.phase
    BY <1>3, <2>1 DEF ForwardFrom, BackwardFrom
  <2> QED
    BY <1>1, <1>2, <1>6, <2>2 DEF Stride
<1>7. CASE s.cur # NoNode /\ ~ (s.pos < Len(p.code[s.cur]))
  <2>1. f = LeaveFrom(p, s)
    BY <1>1, <1>7 DEF Follow
  <2>2. /\ WayOf(f) = Way(s.edges, s.edges[s.cur] \o s.todo, s.visited, NoNode, 0, Append(s.trail, s.cur))
        /\ f.phase = s.phase
    BY <1>3, <2>1 DEF LeaveFrom
  <2> QED
    BY <1>1, <1>2, <1>7, <2>2 DEF Stride
<1> QED
  BY <1>4, <1>5, <1>6, <1>7

LEMMA SizedCovers ==
  ASSUME NEW p, NEW w, NEW z, DOMAIN z = RegName
  PROVE  Covers(z, Sized(p, w, z)) /\ DOMAIN Sized(p, w, z) = RegName
  BY CoversBehind, CoversSelf DEF Sized

\* What a call returns does not depend on the variables.
LEMMA BehindInfo ==
  ASSUME NEW p, NEW insn, NEW z, NEW H
  PROVE  SizesBehind(Info(p, H), insn, z) = SizesBehind(Info(p, {}), insn, z)
<1>1. Info(p, H).callee = Info(p, {}).callee
  BY DEF Info
<1>2. Targets(Info(p, H), insn) = Targets(Info(p, {}), insn)
  BY <1>1 DEF Targets
<1>3. ResultOf(Info(p, H), insn) = ResultOf(Info(p, {}), insn)
  BY <1>1, <1>2 DEF ResultOf
<1> QED
  BY <1>2, <1>3 DEF SizesBehind, Returned

\* The sizes a forward pass has noted, step by step.
LEMMA SizedNow ==
  ASSUME prog \in Program, WalkTypeOK, StoreOK, PlaceOK, InPass, phase \in {"fwd1", "fwd2"}, NEW w, w = NowWay
  PROVE  facts'.size = Sized(prog, w, facts.size)
<1>1. w.cur = cur /\ w.pos = pos
  BY WayNow
<1>2. IsFacts(facts) /\ DOMAIN facts.size = RegName
  BY DEF StoreOK, Shaped, IsFacts
<1>3. CASE ForwardInsn
  <2>1. PICK insn, p, d, on : /\ insn = CodeOf(cur)[pos + 1] /\ p = Debug /\ d = cfa[cur][pos + 1]
                              /\ on = (phase = "fwd2")
    OBVIOUS
  <2>2. facts' = Forward(p, Prepare(facts, insn), d, insn, on)
    BY <1>3, <2>1 DEF ForwardInsn
  <2>3. Formed(insn)
    <3>1. cur \in Node /\ pos + 1 \in 1 .. Len(CodeOf(cur))
      BY <1>3, ProgramCode DEF ForwardInsn, More, WalkTypeOK, PlaceOK
    <3> QED
      BY <2>1, <3>1, ProgramCode
  <2>4. PICK a : a = Prepare(facts, insn)
    OBVIOUS
  <2>5. Twins(a, a) /\ a.size = Wider(facts.size, OperandWidths(insn))
    BY <1>2, <2>4, PrepareTwins DEF Twins, Alike
  <2>6. SizedAlike(a, a, insn)
    BY DEF SizedAlike
  <2>7. facts'.size = SizesBehind(p, insn, facts.size)
    BY <2>2, <2>3, <2>4, <2>5, <2>6, ForwardTwins DEF SizesBehind
  <2>8. facts'.size = SizesBehind(Info(prog, {}), insn, facts.size)
    <3>1. p = Info(prog, hidden)
      BY <2>1 DEF Debug, Info
    <3> QED
      BY <2>7, <3>1, BehindInfo
  <2>9. Ahead(prog, w) /\ insn = prog.code[w.cur][w.pos + 1]
    BY <1>1, <1>3, <2>1 DEF ForwardInsn, More, CodeOf, Ahead
  <2> QED
    BY <2>8, <2>9 DEF Sized
<1>4. CASE SkipBlock \/ EnterForward \/ LeaveForward
  <2>1. ~ Ahead(prog, w)
    <3>1. Len(prog.code[cur]) \in Nat \/ cur = NoNode
      BY ProgramCode DEF CodeOf, WalkTypeOK
    <3> QED
      BY <1>1, <1>4, <3>1 DEF SkipBlock, Return, EnterForward, Enter, LeaveForward, LeaveBlock, Leave, Ahead, CodeOf
  <2>2. facts'.size = facts.size
    <3>1. CASE EnterForward
      <4>1. facts' = facts \/ \E base : facts' = [facts EXCEPT !.ctx = base]
        BY <3>1 DEF EnterForward
      <4> QED
        BY <1>2, <4>1, SizeWith
    <3> QED
      BY <1>4, <3>1 DEF SkipBlock, LeaveForward, passVars
  <2> QED
    BY <2>1, <2>2 DEF Sized
<1>5. ~ (EnterBackward \/ BackwardInsn \/ LeaveBackward \/ EnterParameters \/ ParameterInsn \/ LeaveParameters)
  BY DEF EnterBackward, BackwardInsn, LeaveBackward, EnterParameters, ParameterInsn, LeaveParameters
<1> QED
  BY <1>3, <1>4, <1>5 DEF InPass

\* No step forgets a size.
LEMMA SizeGrows ==
  ASSUME prog \in Program, WalkTypeOK, StoreOK, PlaceOK, InPass \/ StartPass
  PROVE  Covers(facts.size, facts'.size)
<1>1. IsFacts(facts) /\ DOMAIN facts.size = RegName
  BY DEF StoreOK, Shaped, IsFacts
<1>2. CASE StartPass
  BY <1>2, CoversSelf DEF StartPass, Pass
<1>3. CASE InPass /\ phase \in {"fwd1", "fwd2"}
  BY <1>1, <1>3, SizedNow, SizedCovers
<1>4. CASE BackwardInsn
  <2>1. PICK i, insn, p, a : /\ i = Len(CodeOf(cur)) - pos /\ insn = CodeOf(cur)[i] /\ p = Debug
                             /\ a = Prepare(facts, insn)
    OBVIOUS
  <2>2. facts' = Backward(p, a, insn)
    BY <1>4, <2>1 DEF BackwardInsn
  <2>3. IsFacts(a) /\ a.size = Wider(facts.size, OperandWidths(insn))
    BY <1>1, <2>1, PrepareTwins DEF Twins, Alike
  <2>4. Covers(facts.size, a.size) /\ DOMAIN a.size = RegName
    BY <1>1, <2>3, CoversWider
  <2>5. Covers(a.size, Backward(p, a, insn).size)
    BY <2>3, <2>4, BackwardSize
  <2> QED
    BY <2>2, <2>4, <2>5, CoversOn
<1>5. CASE EnterBackward
  <2>1. facts' = facts \/ \E base : facts' = [facts EXCEPT !.ctx = base]
    BY <1>5 DEF EnterBackward
  <2> QED
    BY <1>1, <2>1, SizeWith, CoversSelf
<1>6. CASE SkipBlock \/ LeaveBackward \/ EnterParameters \/ ParameterInsn \/ LeaveParameters
  BY <1>6, CoversSelf DEF SkipBlock, LeaveBackward, EnterParameters, ParameterInsn, LeaveParameters, passVars
<1>7. EnterForward \/ ForwardInsn \/ LeaveForward => phase \in {"fwd1", "fwd2"}
  BY DEF EnterForward, ForwardInsn, LeaveForward
<1> QED
  BY <1>2, <1>3, <1>4, <1>5, <1>6, <1>7 DEF InPass

-----------------------------------------------------------------------------
(***************************************************************************)
(* Two analyses on the same way in the last pass.                          *)
(***************************************************************************)
\* The blocks of the trail have their predecessors before them, and so has the
\* block that is being worked on.
InTurn(p, t) == \A i \in DOMAIN t : \A a \in PredsOf(p, t[i]) : \E j \in 1 .. i - 1 : t[j] = a
Ordered(p, w) == InTurn(p, w.trail) /\ (w.cur # NoNode => PredsOf(p, w.cur) \subseteq Elements(w.trail))

EndsEmpty(p, ic, oc) == \A b \in {p.entry, p.exit} : ic[b] = Empty /\ oc[b] = Empty

Sane(p, s) ==
  /\ IsFacts(s.facts) /\ DOMAIN s.facts.size = RegName
  /\ DOMAIN s.inC = Node /\ DOMAIN s.outC = Node /\ DOMAIN s.insnC = Node
  /\ \A b \in Node : DOMAIN s.insnC[b] = DOMAIN p.code[b]
  /\ EndsEmpty(p, s.inC, s.outC)

SaneWay(w) ==
  /\ w.edges \in Graph /\ w.todo \in Seq(Node) /\ w.trail \in Seq(Node)
  /\ w.cur \in Node \union {NoNode} /\ w.pos \in Nat
  /\ w.cur = NoNode => w.pos = 0
  /\ w.cur \notin Elements(w.trail) /\ Elements(w.trail) \subseteq w.visited

\* They know the same variables, and where the pass has been they have found
\* the same.
BesideAt(s, x, b, n) == \A i \in 1 .. n : s.insnC[b][i] = x.insnC[b][i]

Beside(p, s, x) ==
  /\ s.facts.known = x.facts.known
  /\ s.cur # NoNode /\ InnerOf(p, s.cur) => s.facts.ctx = x.facts.ctx /\ BesideAt(s, x, s.cur, s.pos)
  /\ \A b \in Elements(s.trail) : s.outC[b] = x.outC[b] /\ BesideAt(s, x, b, Len(p.code[b]))

LEMMA CodeFacts ==
  ASSUME NEW p \in Program, NEW b \in Node
  PROVE  /\ Len(p.code[b]) \in Nat /\ DOMAIN p.code[b] = 1 .. Len(p.code[b])
         /\ ~ InnerOf(p, b) => Len(p.code[b]) = 0
         /\ \A i \in 1 .. Len(p.code[b]) :
              /\ Formed(p.code[b][i])
              /\ \A k \in DOMAIN p.code[b][i].op :
                   IsReg(p.code[b][i].op[k]) => p.code[b][i].op[k].reg \in RegName
<1>1. Len(p.code[b]) \in Nat /\ DOMAIN p.code[b] = 1 .. Len(p.code[b])
  BY ProgramAssumption
<1>2. ASSUME NEW i \in 1 .. Len(p.code[b])
      PROVE  /\ InnerOf(p, b) /\ Formed(p.code[b][i])
             /\ \A k \in DOMAIN p.code[b][i].op :
                   IsReg(p.code[b][i].op[k]) => p.code[b][i].op[k].reg \in RegName
  <2>1. PICK insn : insn = p.code[b][i]
    OBVIOUS
  <2>2. /\ Len(insn.op) \in Nat /\ DOMAIN insn.op = 1 .. Len(insn.op)
        /\ Len(insn.op) >= Arity(insn.id)
        /\ \A k \in DOMAIN insn.op : IsReg(insn.op[k]) => insn.op[k].reg \in RegName
        /\ b \notin {p.entry, p.exit}
    BY <2>1, OperandAssumption
  <2>3. Arity(insn.id) \in {0, 1, 2}
    BY DEF Arity
  <2>4. Formed(insn)
    BY <2>2, <2>3 DEF Formed
  <2> QED
    BY <2>1, <2>2, <2>4 DEF InnerOf
<1> QED
  BY <1>1, <1>2

LEMMA JoinAlike ==
  ASSUME NEW p \in Program, NEW b \in Node, NEW f, NEW g, \A a \in PredsOf(p, b) : f[a] = g[a]
  PROVE  Join(p.preds[b], f) = Join(p.preds[b], g)
<1>1. p.preds[b] \in Seq(Node) /\ Elements(p.preds[b]) = PredsOf(p, b)
  BY BackwardAssumption DEF Graph
<1>2. PICK t : t = p.preds[b]
  OBVIOUS
<1>3. \A i \in DOMAIN t : f[t[i]] = g[t[i]]
  BY <1>1, <1>2 DEF Elements
<1>4. [i \in DOMAIN t |-> f[t[i]]] = [i \in DOMAIN t |-> g[t[i]]]
  BY <1>3
<1> QED
  BY <1>2, <1>4 DEF Join

LEMMA ElementsAppend ==
  ASSUME NEW t \in Seq(Node), NEW b \in Node
  PROVE  /\ Append(t, b) \in Seq(Node) /\ Elements(Append(t, b)) = Elements(t) \union {b}
<1>1. PICK u : u = Append(t, b)
  OBVIOUS
<1>2. Len(t) \in Nat /\ u \in Seq(Node) /\ Len(u) = Len(t) + 1 /\ \A i \in 1 .. Len(t) + 1 : u[i] = IF i = Len(t) + 1 THEN b ELSE t[i]
  BY <1>1
<1>3. Elements(u) \subseteq Elements(t) \union {b}
  BY <1>2 DEF Elements
<1>4. Elements(t) \subseteq Elements(u) /\ b \in Elements(u)
  BY <1>2 DEF Elements
<1> QED
  BY <1>1, <1>2, <1>3, <1>4

\* What is in order was in order a step before.
LEMMA OrderedBefore ==
  ASSUME NEW p, NEW w, SaneWay(w), Ordered(p, Stride(p, w))
  PROVE  Ordered(p, w)
<1>1. PICK u : u = Stride(p, w)
  OBVIOUS
<1>2. CASE w.cur = NoNode
  <2>1. u.trail = w.trail
    BY <1>1, <1>2, WayFields DEF Stride
  <2> QED
    BY <1>1, <1>2, <2>1 DEF Ordered
<1>3. CASE w.cur # NoNode /\ w.pos < Len(p.code[w.cur])
  <2>1. u.trail = w.trail /\ u.cur = w.cur
    BY <1>1, <1>3, WayFields DEF Stride
  <2> QED
    BY <1>1, <2>1 DEF Ordered
<1>4. CASE w.cur # NoNode /\ ~ (w.pos < Len(p.code[w.cur]))
  <2>1. u.trail = Append(w.trail, w.cur)
    <3>1. PICK t, r : t = w.edges[w.cur] \o w.todo /\ r = Append(w.trail, w.cur)
      OBVIOUS
    <3>2. u = Way(w.edges, t, w.visited, NoNode, 0, r)
      BY <1>1, <1>4, <3>1 DEF Stride
    <3>3. u.trail = r
      BY <3>2 DEF Way
    <3> QED
      BY <3>1, <3>3
  <2>2. PICK t, b : t = w.trail /\ b = w.cur
    OBVIOUS
  <2>3. t \in Seq(Node) /\ b \in Node /\ Len(t) \in Nat
    BY <1>4, <2>2 DEF SaneWay
  <2>4. PICK v : v = Append(t, b)
    OBVIOUS
  <2>5. /\ DOMAIN v = 1 .. Len(t) + 1 /\ DOMAIN t = 1 .. Len(t) /\ v[Len(t) + 1] = b
        /\ \A i \in 1 .. Len(t) : v[i] = t[i]
    BY <2>3, <2>4
  <2>6. InTurn(p, v)
    BY <1>1, <2>1, <2>2, <2>4 DEF Ordered
  <2>7. InTurn(p, t)
    BY <2>3, <2>5, <2>6 DEF InTurn
  <2>8. PredsOf(p, b) \subseteq Elements(t)
    <3>1. \A a \in PredsOf(p, v[Len(t) + 1]) : \E j \in 1 .. (Len(t) + 1) - 1 : v[j] = a
      BY <2>3, <2>5, <2>6 DEF InTurn
    <3> QED
      BY <2>3, <2>5, <3>1 DEF Elements
  <2> QED
    BY <2>2, <2>7, <2>8 DEF Ordered
<1> QED
  BY <1>2, <1>3, <1>4

\* One step of both keeps them alike.
LEMMA BesideSkip ==
  ASSUME NEW p, NEW s, NEW x, Beside(p, s, x), WayOf(s) = WayOf(x), s.cur = NoNode
  PROVE  Beside(p, SkipFrom(s), SkipFrom(x))
<1>1. PICK t, y : t = SkipFrom(s) /\ y = SkipFrom(x)
  OBVIOUS
<1>2. /\ t.cur = NoNode /\ t.trail = s.trail /\ t.facts = s.facts /\ t.outC = s.outC /\ t.insnC = s.insnC
      /\ y.facts = x.facts /\ y.outC = x.outC /\ y.insnC = x.insnC
  BY <1>1, StateFields DEF SkipFrom
<1> QED
  BY <1>1, <1>2 DEF Beside, BesideAt

LEMMA BesideEnter ==
  ASSUME NEW p \in Program, NEW s, NEW x, Beside(p, s, x), Sane(p, s), Sane(p, x), WayOf(s) = WayOf(x),
         NEW b \in Node, PredsOf(p, b) \subseteq Elements(s.trail), b \notin Elements(s.trail), s.pos = 0
  PROVE  Beside(p, EnterForwardFrom(p, s, b), EnterForwardFrom(p, x, b))
<1>1. PICK base : base = Join(p.preds[b], s.outC) /\ base = Join(p.preds[b], x.outC)
  <2>1. \A a \in PredsOf(p, b) : s.outC[a] = x.outC[a]
    BY DEF Beside
  <2> QED
    BY <2>1, JoinAlike
<1>2. PICK t, y : t = EnterForwardFrom(p, s, b) /\ y = EnterForwardFrom(p, x, b)
  OBVIOUS
<1>3. /\ t.cur = b /\ t.trail = s.trail /\ t.pos = s.pos /\ t.insnC = s.insnC
      /\ t.outC = (IF InnerOf(p, b) THEN s.outC ELSE [s.outC EXCEPT ![b] = s.inC[b]])
      /\ t.facts = (IF InnerOf(p, b) THEN [s.facts EXCEPT !.ctx = base] ELSE s.facts)
  <2>1. PICK n : n = State(s.edges, Tail(s.todo), s.visited \union {b}, b, s.phase, s.pos,
               IF InnerOf(p, b) THEN [s.inC EXCEPT ![b] = base] ELSE s.inC,
               IF InnerOf(p, b) THEN s.outC ELSE [s.outC EXCEPT ![b] = s.inC[b]],
               s.insnC,
               IF InnerOf(p, b) THEN [s.facts EXCEPT !.ctx = base] ELSE s.facts, s.trail)
    OBVIOUS
  <2>2. t = n
    BY <1>1, <1>2, <2>1 DEF EnterForwardFrom
  <2> QED
    BY <2>1, <2>2 DEF State
<1>4. /\ y.insnC = x.insnC
      /\ y.outC = (IF InnerOf(p, b) THEN x.outC ELSE [x.outC EXCEPT ![b] = x.inC[b]])
      /\ y.facts = (IF InnerOf(p, b) THEN [x.facts EXCEPT !.ctx = base] ELSE x.facts)
  <2>1. PICK n : n = State(x.edges, Tail(x.todo), x.visited \union {b}, b, x.phase, x.pos,
               IF InnerOf(p, b) THEN [x.inC EXCEPT ![b] = base] ELSE x.inC,
               IF InnerOf(p, b) THEN x.outC ELSE [x.outC EXCEPT ![b] = x.inC[b]],
               x.insnC,
               IF InnerOf(p, b) THEN [x.facts EXCEPT !.ctx = base] ELSE x.facts, x.trail)
    OBVIOUS
  <2>2. y = n
    BY <1>1, <1>2, <2>1 DEF EnterForwardFrom
  <2> QED
    BY <2>1, <2>2 DEF State
<1>5. /\ [s.facts EXCEPT !.ctx = base].known = s.facts.known
      /\ [x.facts EXCEPT !.ctx = base].known = x.facts.known
      /\ [s.facts EXCEPT !.ctx = base].ctx = base
      /\ [x.facts EXCEPT !.ctx = base].ctx = base
  <2>1. PICK f, g : f = s.facts /\ g = x.facts
    OBVIOUS
  <2>2. IsFacts(f) /\ IsFacts(g)
    BY <2>1 DEF Sane
  <2>3. /\ [f EXCEPT !.ctx = base] = [ctx |-> base, known |-> f.known, size |-> f.size]
        /\ [g EXCEPT !.ctx = base] = [ctx |-> base, known |-> g.known, size |-> g.size]
    BY <2>2 DEF IsFacts
  <2> QED
    BY <2>1, <2>3
<1>6. t.facts.known = y.facts.known
  <2>1. s.facts.known = x.facts.known
    BY DEF Beside
  <2>2. CASE InnerOf(p, b)
    BY <1>3, <1>4, <1>5, <2>1, <2>2
  <2>3. CASE ~ InnerOf(p, b)
    BY <1>3, <1>4, <2>1, <2>3
  <2> QED
    BY <2>2, <2>3
<1>7. InnerOf(p, b) => t.facts.ctx = y.facts.ctx
  BY <1>3, <1>4, <1>5
<1>8. BesideAt(t, y, b, t.pos)
  BY <1>3 DEF BesideAt
<1>9. ASSUME NEW a \in Elements(t.trail)
      PROVE  t.outC[a] = y.outC[a] /\ BesideAt(t, y, a, Len(p.code[a]))
  <2>1. s.outC[a] = x.outC[a] /\ BesideAt(s, x, a, Len(p.code[a])) /\ a # b
    BY <1>3, <1>9 DEF Beside
  <2>2. t.outC[a] = s.outC[a] /\ y.outC[a] = x.outC[a]
    BY <1>3, <1>4, <2>1
  <2> QED
    BY <1>3, <1>4, <2>1, <2>2 DEF BesideAt
<1> QED
  BY <1>2, <1>3, <1>6, <1>7, <1>8, <1>9 DEF Beside

LEMMA BesideInsn ==
  ASSUME NEW p \in Program, NEW s, NEW x, Beside(p, s, x), Sane(p, s), Sane(p, x), WayOf(s) = WayOf(x),
         NEW b \in Node, s.cur = b, s.pos \in Nat, s.pos < Len(p.code[b]), b \notin Elements(s.trail), InnerOf(p, b),
         x.cur = b, x.pos = s.pos, Elements(s.trail) \subseteq Node,
         NEW f, NEW g, f.ctx = g.ctx, f.known = g.known
  PROVE  Beside(p, ForwardFrom(s, f), ForwardFrom(x, g))
<1>1. PICK t, y, n : t = ForwardFrom(s, f) /\ y = ForwardFrom(x, g) /\ n = s.pos + 1
  OBVIOUS
<1>2. /\ t.cur = b /\ t.trail = s.trail /\ t.pos = n /\ t.outC = s.outC /\ t.facts = f
      /\ t.insnC = [s.insnC EXCEPT ![b][n] = f.ctx]
  BY <1>1, StateFields DEF ForwardFrom
<1>3. /\ y.outC = x.outC /\ y.facts = g
      /\ y.insnC = [x.insnC EXCEPT ![b][n] = g.ctx]
  BY <1>1, StateFields DEF ForwardFrom
<1>4. Len(p.code[b]) \in Nat /\ DOMAIN p.code[b] = 1 .. Len(p.code[b]) /\ n \in 1 .. Len(p.code[b])
  <2>1. Len(p.code[b]) \in Nat /\ DOMAIN p.code[b] = 1 .. Len(p.code[b])
    BY CodeFacts
  <2> QED
    BY <1>1, <2>1
<1>5. /\ DOMAIN s.insnC = Node /\ DOMAIN x.insnC = Node
      /\ DOMAIN s.insnC[b] = DOMAIN p.code[b] /\ DOMAIN x.insnC[b] = DOMAIN p.code[b]
  BY DEF Sane
<1>6. /\ \A i \in DOMAIN p.code[b] : t.insnC[b][i] = IF i = n THEN f.ctx ELSE s.insnC[b][i]
      /\ \A i \in DOMAIN p.code[b] : y.insnC[b][i] = IF i = n THEN g.ctx ELSE x.insnC[b][i]
  BY <1>2, <1>3, <1>4, <1>5
<1>7. BesideAt(t, y, b, n)
  <2>1. BesideAt(s, x, b, s.pos)
    BY NodeAssumption DEF Beside
  <2>2. ASSUME NEW i \in 1 .. n PROVE t.insnC[b][i] = y.insnC[b][i]
    <3>1. i \in DOMAIN p.code[b]
      BY <1>4
    <3>2. CASE i = n
      BY <1>6, <3>1, <3>2
    <3>3. CASE i # n
      <4>1. i \in 1 .. s.pos
        BY <1>1, <3>3
      <4> QED
        BY <1>6, <2>1, <3>1, <3>3, <4>1 DEF BesideAt
    <3> QED
      BY <3>2, <3>3
  <2> QED
    BY <2>2 DEF BesideAt
<1>8. ASSUME NEW a \in Elements(t.trail)
      PROVE  t.outC[a] = y.outC[a] /\ BesideAt(t, y, a, Len(p.code[a]))
  <2>1. a \in Node /\ a # b /\ s.outC[a] = x.outC[a] /\ BesideAt(s, x, a, Len(p.code[a]))
    BY <1>2, <1>8 DEF Beside
  <2>2. t.insnC[a] = s.insnC[a] /\ y.insnC[a] = x.insnC[a]
    BY <1>2, <1>3, <1>5, <2>1
  <2> QED
    BY <1>2, <1>3, <2>1, <2>2 DEF BesideAt
<1> QED
  BY <1>1, <1>2, <1>3, <1>7, <1>8 DEF Beside

LEMMA BesideLeave ==
  ASSUME NEW p \in Program, NEW s, NEW x, Beside(p, s, x), Sane(p, s), Sane(p, x),
         NEW b \in Node, s.cur = b, s.pos \in Nat, ~ (s.pos < Len(p.code[b])), b \notin Elements(s.trail),
         x.cur = b, x.phase = s.phase, s.phase # "bwd", s.trail \in Seq(Node), x.trail = s.trail
  PROVE  Beside(p, LeaveFrom(p, s), LeaveFrom(p, x))
<1>1. PICK t, y : t = LeaveFrom(p, s) /\ y = LeaveFrom(p, x)
  OBVIOUS
<1>2. /\ t.cur = NoNode /\ t.trail = Append(s.trail, b) /\ t.insnC = s.insnC /\ t.facts = s.facts
      /\ t.outC = IF InnerOf(p, b) THEN [s.outC EXCEPT ![b] = s.facts.ctx] ELSE s.outC
  <2>1. PICK n : n = State(s.edges, s.edges[b] \o s.todo, s.visited, NoNode, s.phase, 0, s.inC,
               IF InnerOf(p, b) THEN [s.outC EXCEPT ![b] = s.facts.ctx] ELSE s.outC,
               s.insnC, s.facts, Append(s.trail, b))
    OBVIOUS
  <2>2. t = n
    BY <1>1, <2>1 DEF LeaveFrom
  <2> QED
    BY <2>1, <2>2 DEF State
<1>3. /\ y.insnC = x.insnC /\ y.facts = x.facts
      /\ y.outC = IF InnerOf(p, b) THEN [x.outC EXCEPT ![b] = x.facts.ctx] ELSE x.outC
  <2>1. PICK n : n = State(x.edges, x.edges[b] \o x.todo, x.visited, NoNode, x.phase, 0, x.inC,
               IF InnerOf(p, b) THEN [x.outC EXCEPT ![b] = x.facts.ctx] ELSE x.outC,
               x.insnC, x.facts, Append(x.trail, b))
    OBVIOUS
  <2>2. y = n
    BY <1>1, <2>1 DEF LeaveFrom
  <2> QED
    BY <2>1, <2>2 DEF State
<1>4. Elements(t.trail) = Elements(s.trail) \union {b}
  BY <1>2, ElementsAppend
<1>5. b # NoNode
  BY NodeAssumption
<1>6. Len(p.code[b]) \in Nat /\ (~ InnerOf(p, b) => Len(p.code[b]) = 0)
  BY CodeFacts
<1>7. DOMAIN s.outC = Node /\ DOMAIN x.outC = Node
  BY DEF Sane
<1>8. BesideAt(t, y, b, Len(p.code[b])) /\ t.outC[b] = y.outC[b]
  <2>1. CASE InnerOf(p, b)
    <3>1. s.facts.ctx = x.facts.ctx /\ BesideAt(s, x, b, s.pos)
      BY <1>5, <2>1 DEF Beside
    <3>2. BesideAt(t, y, b, Len(p.code[b]))
      BY <1>2, <1>3, <1>6, <3>1 DEF BesideAt
    <3>3. t.outC[b] = s.facts.ctx /\ y.outC[b] = x.facts.ctx
      BY <1>2, <1>3, <1>7, <2>1
    <3> QED
      BY <3>1, <3>2, <3>3
  <2>2. CASE ~ InnerOf(p, b)
    <3>1. BesideAt(t, y, b, Len(p.code[b]))
      BY <1>6, <2>2 DEF BesideAt
    <3>2. s.outC[b] = Empty /\ x.outC[b] = Empty
      BY <2>2 DEF InnerOf, Sane, EndsEmpty
    <3> QED
      BY <1>2, <1>3, <2>2, <3>1, <3>2
  <2> QED
    BY <2>1, <2>2
<1>9. ASSUME NEW a \in Elements(s.trail)
      PROVE  t.outC[a] = y.outC[a] /\ BesideAt(t, y, a, Len(p.code[a]))
  <2>1. a # b /\ s.outC[a] = x.outC[a] /\ BesideAt(s, x, a, Len(p.code[a]))
    BY <1>9 DEF Beside
  <2>2. t.outC[a] = s.outC[a] /\ y.outC[a] = x.outC[a]
    BY <1>2, <1>3, <2>1
  <2> QED
    BY <1>2, <1>3, <2>1, <2>2 DEF BesideAt
<1> QED
  BY <1>1, <1>2, <1>3, <1>4, <1>8, <1>9 DEF Beside

LEMMA WayParts ==
  ASSUME NEW s, NEW w, w = WayOf(s)
  PROVE  /\ w.edges = s.edges /\ w.todo = s.todo /\ w.visited = s.visited /\ w.cur = s.cur /\ w.pos = s.pos
         /\ w.trail = s.trail
  BY DEF WayOf, Way

LEMMA BesideStep ==
  ASSUME NEW p \in Program, NEW c, NEW s, NEW x, NEW w, Sane(p, s), Sane(p, x), w = WayOf(s), w = WayOf(x),
         SaneWay(w), ~ Over(w), s.phase = "fwd2", x.phase = "fwd2", Beside(p, s, x),
         Ordered(p, Stride(p, w)), Covers(Sized(p, w, x.facts.size), s.facts.size)
  PROVE  Beside(p, Follow(p, c, s, {}), Follow(p, c, x, {}))
<1>1. /\ w.edges = s.edges /\ w.todo = s.todo /\ w.visited = s.visited /\ w.cur = s.cur /\ w.pos = s.pos
      /\ w.trail = s.trail
  BY WayParts
<1>2. /\ w.edges = x.edges /\ w.todo = x.todo /\ w.visited = x.visited /\ w.cur = x.cur /\ w.pos = x.pos
      /\ w.trail = x.trail
  BY WayParts
<1>3. PICK b : b = IF w.cur = NoNode THEN Head(w.todo) ELSE w.cur
  OBVIOUS
<1>4. b \in Node
  <2>1. w.cur = NoNode => w.todo \in Seq(Node) /\ w.todo # <<>>
    BY DEF SaneWay, Over
  <2> QED
    BY <1>3, <2>1 DEF SaneWay
<1>5. CASE w.cur = NoNode /\ b \in w.visited
  <2>1. Follow(p, c, s, {}) = SkipFrom(s) /\ Follow(p, c, x, {}) = SkipFrom(x)
    BY <1>1, <1>2, <1>3, <1>5 DEF Follow, Over
  <2> QED
    BY <1>1, <1>5, <2>1, BesideSkip
<1>6. CASE w.cur = NoNode /\ b \notin w.visited
  <2>1. Follow(p, c, s, {}) = EnterForwardFrom(p, s, b) /\ Follow(p, c, x, {}) = EnterForwardFrom(p, x, b)
    BY <1>1, <1>2, <1>3, <1>6 DEF Follow, Over
  <2>2. Stride(p, w).cur = b /\ Stride(p, w).trail = w.trail
    <3>1. Stride(p, w) = Way(w.edges, Tail(w.todo), w.visited \union {b}, b, w.pos, w.trail)
      BY <1>3, <1>6 DEF Stride
    <3> QED
      BY <3>1 DEF Way
  <2>3. b # NoNode
    BY <1>4, NodeAssumption
  <2>4. PredsOf(p, b) \subseteq Elements(s.trail)
    BY <1>1, <2>2, <2>3 DEF Ordered
  <2>5. b \notin Elements(s.trail) /\ s.pos = 0
    BY <1>1, <1>6 DEF SaneWay
  <2> QED
    BY <1>4, <2>1, <2>4, <2>5, BesideEnter
<1>7. CASE w.cur # NoNode /\ w.pos < Len(p.code[b])
  <2>1. PICK i, insn, d, on : /\ i = w.pos + 1 /\ insn = p.code[b][i] /\ d = c[b][i] /\ on = TRUE
    OBVIOUS
  <2>2. PICK f, g : /\ f = Forward(Info(p, {}), Prepare(s.facts, insn), d, insn, on)
                    /\ g = Forward(Info(p, {}), Prepare(x.facts, insn), d, insn, on)
    OBVIOUS
  <2>3. Follow(p, c, s, {}) = ForwardFrom(s, f)
    <3>1. Follow(p, c, s, {}) = ForwardFrom(s, ForwardFacts(p, c, s, {}))
      BY <1>1, <1>3, <1>7 DEF Follow
    <3>2. on = (s.phase = "fwd2")
      BY <2>1
    <3>3. ForwardFacts(p, c, s, {}) = f
      BY <1>1, <1>3, <1>7, <2>1, <2>2, <3>2 DEF ForwardFacts
    <3> QED
      BY <3>1, <3>3
  <2>4. Follow(p, c, x, {}) = ForwardFrom(x, g)
    <3>1. Follow(p, c, x, {}) = ForwardFrom(x, ForwardFacts(p, c, x, {}))
      BY <1>2, <1>3, <1>7 DEF Follow
    <3>2. on = (x.phase = "fwd2")
      BY <2>1
    <3>3. ForwardFacts(p, c, x, {}) = g
      BY <1>2, <1>3, <1>7, <2>1, <2>2, <3>2 DEF ForwardFacts
    <3> QED
      BY <3>1, <3>3
  <2>5. /\ InnerOf(p, b) /\ Formed(insn)
        /\ \A k \in DOMAIN insn.op : IsReg(insn.op[k]) => insn.op[k].reg \in RegName
    <3>1. Len(p.code[b]) \in Nat /\ i \in 1 .. Len(p.code[b])
      BY <1>4, <1>7, <2>1, CodeFacts DEF SaneWay
    <3> QED
      BY <1>4, <2>1, <3>1, CodeFacts
  <2>6. Twins(x.facts, s.facts)
    <3>1. s.facts.ctx = x.facts.ctx /\ s.facts.known = x.facts.known
      BY <1>1, <1>3, <1>7, <2>5 DEF Beside
    <3> QED
      BY <3>1 DEF Twins, Alike, Sane
  <2>7. Covers(SizesBehind(Info(p, {}), insn, x.facts.size), s.facts.size)
    BY <1>3, <1>7, <2>1 DEF Sized, Ahead
  <2>8. DOMAIN x.facts.size = RegName /\ DOMAIN s.facts.size = RegName
    BY DEF Sane
  <2>9. Twins(g, f)
    BY <2>2, <2>5, <2>6, <2>7, <2>8, StepTwins
  <2>10. f.ctx = g.ctx /\ f.known = g.known
    BY <2>9 DEF Twins, Alike
  <2>11. /\ s.cur = b /\ s.pos \in Nat /\ s.pos < Len(p.code[b]) /\ b \notin Elements(s.trail)
         /\ x.cur = b /\ x.pos = s.pos /\ Elements(s.trail) \subseteq Node
    <3>1. Elements(w.trail) \subseteq Node
      BY DEF SaneWay, Elements
    <3> QED
      BY <1>1, <1>2, <1>3, <1>7, <3>1 DEF SaneWay
  <2> QED
    BY <1>4, <2>3, <2>4, <2>5, <2>10, <2>11, BesideInsn
<1>8. CASE w.cur # NoNode /\ ~ (w.pos < Len(p.code[b]))
  <2>1. Follow(p, c, s, {}) = LeaveFrom(p, s) /\ Follow(p, c, x, {}) = LeaveFrom(p, x)
    BY <1>1, <1>2, <1>3, <1>8 DEF Follow
  <2>2. /\ s.cur = b /\ s.pos \in Nat /\ ~ (s.pos < Len(p.code[b])) /\ b \notin Elements(s.trail)
        /\ x.cur = b /\ s.trail \in Seq(Node) /\ x.trail = s.trail
    BY <1>1, <1>2, <1>3, <1>8 DEF SaneWay
  <2> QED
    BY <1>4, <2>1, <2>2, BesideLeave
<1> QED
  BY <1>5, <1>6, <1>7, <1>8

-----------------------------------------------------------------------------
(***************************************************************************)
(* The way of a pass from its first block, with the sizes a first pass     *)
(* notes on it, and the last pass of an analysis along it.                 *)
(***************************************************************************)
Line(p, l, n) ==
  /\ n \in Nat /\ l[0] = [way |-> Departs(p), size |-> NoFacts.size]
  /\ \A i \in 0 .. n : DOMAIN l[i].size = RegName
  /\ \A i \in 0 .. n - 1 : /\ ~ Over(l[i].way)
                           /\ l[i + 1] = [way |-> Stride(p, l[i].way), size |-> Sized(p, l[i].way, l[i].size)]
  /\ \A i \in 0 .. n : Covers(l[i].size, l[n].size)

\* All of it, k steps.
WholeLine(p, l, k) == Line(p, l, k) /\ Over(l[k].way)

LEMMA LineBegins ==
  ASSUME NEW p
  PROVE  \E l : Line(p, l, 0) /\ l[0] = [way |-> Departs(p), size |-> NoFacts.size]
<1>1. PICK e : e = [way |-> Departs(p), size |-> NoFacts.size]
  OBVIOUS
<1>2. PICK l : l = [i \in {0} |-> e]
  OBVIOUS
<1>3. e.size = NoFacts.size /\ DOMAIN NoFacts.size = RegName
  BY <1>1 DEF NoFacts
<1> QED
  BY <1>1, <1>2, <1>3, CoversSelf DEF Line

LEMMA LineGrows ==
  ASSUME NEW p, NEW l, NEW n, Line(p, l, n), ~ Over(l[n].way),
         NEW e, e = [way |-> Stride(p, l[n].way), size |-> Sized(p, l[n].way, l[n].size)]
  PROVE  \E g : Line(p, g, n + 1) /\ g[n + 1] = e
<1>1. n \in Nat /\ DOMAIN l[n].size = RegName
  BY DEF Line
<1>2. PICK g : g = [i \in 0 .. n + 1 |-> IF i = n + 1 THEN e ELSE l[i]]
  OBVIOUS
<1>3. g[n + 1] = e /\ \A i \in 0 .. n : g[i] = l[i]
  BY <1>1, <1>2
<1>4. g[0] = [way |-> Departs(p), size |-> NoFacts.size]
  BY <1>1, <1>3 DEF Line
<1>5. e.size = Sized(p, l[n].way, l[n].size) /\ Covers(l[n].size, e.size) /\ DOMAIN e.size = RegName
  BY <1>1, SizedCovers
<1>6. ASSUME NEW i \in 0 .. (n + 1) - 1
      PROVE  ~ Over(g[i].way) /\ g[i + 1] = [way |-> Stride(p, g[i].way), size |-> Sized(p, g[i].way, g[i].size)]
  <2>1. CASE i = n
    BY <1>1, <1>3, <2>1
  <2>2. CASE i # n
    <3>1. i \in 0 .. n - 1 /\ i + 1 \in 0 .. n /\ i \in 0 .. n
      BY <1>1, <2>2
    <3> QED
      BY <1>3, <3>1 DEF Line
  <2> QED
    BY <2>1, <2>2
<1>7. ASSUME NEW i \in 0 .. n + 1
      PROVE  Covers(g[i].size, g[n + 1].size) /\ DOMAIN g[i].size = RegName
  <2>1. CASE i = n + 1
    BY <1>3, <1>5, <2>1, CoversSelf
  <2>2. CASE i \in 0 .. n
    <3>1. Covers(l[i].size, l[n].size) /\ DOMAIN l[i].size = RegName
      BY <2>2 DEF Line
    <3> QED
      BY <1>3, <1>5, <2>2, <3>1, CoversOn
  <2> QED
    BY <1>1, <2>1, <2>2
<1>8. Line(p, g, n + 1)
  BY <1>1, <1>4, <1>6, <1>7 DEF Line
<1> QED
  BY <1>3, <1>8

\* g: n steps of the last pass along l.
Along(p, c, l, k, g, n) ==
  /\ n \in 0 .. k /\ g[0].facts.known = <<>>
  /\ \A j \in 0 .. n : /\ g[j].phase = "fwd2" /\ WayOf(g[j]) = l[j].way /\ Sane(p, g[j])
                       /\ Covers(l[k].size, g[j].facts.size)
  /\ \A j \in 0 .. n - 1 : g[j + 1] = Follow(p, c, g[j], {})

LEMMA LastBegins ==
  ASSUME NEW p, NEW c, NEW l, NEW k, Line(p, l, k), NEW s, s.phase = "fwd2", s.facts.known = <<>>,
         WayOf(s) = Departs(p), Sane(p, s), Covers(l[k].size, s.facts.size), NEW g, g[0] = s
  PROVE  Along(p, c, l, k, g, 0)
<1>1. k \in Nat /\ l[0].way = Departs(p)
  BY DEF Line
<1> QED
  BY <1>1 DEF Along

LEMMA LastGrows ==
  ASSUME NEW p, NEW c, NEW l, NEW k, WholeLine(p, l, k), NEW g, NEW n, Along(p, c, l, k, g, n), ~ Over(WayOf(g[n])),
         NEW s, s = Follow(p, c, g[n], {}), Sane(p, s), Covers(g[n].facts.size, s.facts.size)
  PROVE  \E h : Along(p, c, l, k, h, n + 1) /\ h[n + 1] = s
<1>1. k \in Nat /\ n \in 0 .. k
  BY DEF WholeLine, Line, Along
<1>2. n # k
  BY <1>1 DEF WholeLine, Along
<1>3. n + 1 \in 0 .. k /\ n \in 0 .. k - 1 /\ n \in 0 .. n
  BY <1>1, <1>2
<1>4. PICK h : h = [i \in 0 .. n + 1 |-> IF i = n + 1 THEN s ELSE g[i]]
  OBVIOUS
<1>5. h[n + 1] = s /\ \A i \in 0 .. n : h[i] = g[i]
  BY <1>1, <1>4
<1>6. /\ g[n].phase = "fwd2" /\ WayOf(g[n]) = l[n].way /\ Covers(l[k].size, g[n].facts.size)
  BY <1>3 DEF Along
<1>7. l[n + 1].way = Stride(p, l[n].way)
  <2>1. PICK e : e = [way |-> Stride(p, l[n].way), size |-> Sized(p, l[n].way, l[n].size)]
    OBVIOUS
  <2>2. l[n + 1] = e
    BY <1>3, <2>1 DEF WholeLine, Line
  <2> QED
    BY <2>1, <2>2
<1>8. WayOf(s) = l[n + 1].way /\ s.phase = "fwd2"
  BY <1>6, <1>7, StrideFollow
<1>9. Covers(l[k].size, s.facts.size)
  BY <1>6, CoversOn
<1>10. ASSUME NEW j \in 0 .. n + 1
       PROVE  /\ h[j].phase = "fwd2" /\ WayOf(h[j]) = l[j].way /\ Sane(p, h[j])
              /\ Covers(l[k].size, h[j].facts.size)
  <2>1. CASE j = n + 1
    BY <1>5, <1>8, <1>9, <2>1
  <2>2. CASE j \in 0 .. n
    BY <1>5, <2>2 DEF Along
  <2> QED
    BY <1>1, <2>1, <2>2
<1>11. ASSUME NEW j \in 0 .. (n + 1) - 1
       PROVE  h[j + 1] = Follow(p, c, h[j], {})
  <2>1. CASE j = n
    BY <1>1, <1>5, <2>1
  <2>2. CASE j # n
    <3>1. j \in 0 .. n - 1 /\ j + 1 \in 0 .. n /\ j \in 0 .. n
      BY <1>1, <2>2
    <3> QED
      BY <1>5, <3>1 DEF Along
  <2> QED
    BY <2>1, <2>2
<1>12. h[0].facts.known = <<>>
  BY <1>1, <1>5 DEF Along
<1> QED
  BY <1>3, <1>5, <1>10, <1>11, <1>12 DEF Along

-----------------------------------------------------------------------------
(***************************************************************************)
(* The last pass alone goes the way of the last pass of the first          *)
(* analysis.                                                               *)
(***************************************************************************)
\* The analysis made again is the last pass only.
LastOnly == again = "last pass"

\* The block being worked on is not done; the entry and the exit of a function
\* have no contexts; the analysis with the last pass only misses no variable.
SetOut ==
  /\ cur \notin Elements(trail)
  /\ EndsEmpty(prog, inC, outC)
  /\ LastOnly => hidden = {} /\ phase \in {"fwd2", "params"}

NowLight == [way |-> NowWay, size |-> facts.size]

\* The first analysis.
FirstOn ==
  /\ phase = "fwd1" => \E l, n : Line(prog, l, n) /\ l[n] = NowLight
  /\ phase = "bwd"  => \E l, k : WholeLine(prog, l, k) /\ Covers(l[k].size, facts.size)
  /\ phase = "fwd2" => \E l, k, g, n : WholeLine(prog, l, k) /\ Along(prog, cfa, l, k, g, n) /\ g[n] = Now
  /\ phase = "params" =>
       \E l, k, g : WholeLine(prog, l, k) /\ Along(prog, cfa, l, k, g, k)
                    /\ g[k].facts = facts /\ g[k].insnC = insnC

\* The analysis with the last pass only, beside the history of the first.
LastOn ==
  /\ phase = "fwd2" =>
       \E l, k, g, i :
         /\ WholeLine(prog, l, k) /\ Along(prog, cfa, l, k, g, k)
         /\ g[k].facts = saved.facts /\ g[k].insnC = saved.insnC
         /\ i \in 0 .. k /\ l[i] = NowLight
         /\ Ordered(prog, l[i].way) => Beside(prog, g[i], Now)
  /\ phase = "params" =>
       \E l, k, i :
         /\ WholeLine(prog, l, k) /\ i \in 0 .. k /\ l[i].way = NowWay
         /\ Ordered(prog, l[k].way) =>
              /\ saved.facts.known = facts.known
              /\ \A b \in Elements(l[k].way.trail) : \A m \in 1 .. Len(prog.code[b]) :
                   saved.insnC[b][m] = insnC[b][m]

DecideOK ==
  /\ SetOut
  /\ again = "first" => FirstOn
  /\ LastOnly => LastOn

LEMMA EndsInPass ==
  ASSUME prog \in Program, WalkTypeOK, StoreOK, PlaceOK, SetOut, InPass
  PROVE  EndsEmpty(prog, inC', outC')
<1>1. DOMAIN inC = Node /\ DOMAIN outC = Node /\ prog.entry \in Node /\ prog.exit \in Node
  BY ProgramAssumption, BackwardAssumption DEF StoreOK
<1>2. ASSUME NEW b, NEW t, Inner(b)
      PROVE  /\ EndsEmpty(prog, [inC EXCEPT ![b] = t], outC)
             /\ EndsEmpty(prog, inC, [outC EXCEPT ![b] = t])
  <2>1. b \notin {prog.entry, prog.exit}
    BY <1>2 DEF Inner
  <2> QED
    BY <1>1, <2>1 DEF SetOut, EndsEmpty
<1>3. ASSUME NEW b \in {prog.entry, prog.exit}
      PROVE  /\ EndsEmpty(prog, [inC EXCEPT ![b] = outC[b]], outC)
             /\ EndsEmpty(prog, inC, [outC EXCEPT ![b] = inC[b]])
  BY <1>1 DEF SetOut, EndsEmpty
<1>4. CASE UNCHANGED <<inC, outC>>
  BY <1>4 DEF SetOut
<1>5. CASE EnterForward
  <2>1. PICK b, base : b = Head(todo) /\ base = Join(prog.preds[b], outC)
    OBVIOUS
  <2>2. /\ inC' = IF Inner(b) THEN [inC EXCEPT ![b] = base] ELSE inC
        /\ outC' = IF Inner(b) THEN outC ELSE [outC EXCEPT ![b] = inC[b]]
    BY <1>5, <2>1 DEF EnterForward
  <2>3. CASE Inner(b)
    BY <1>2, <2>2, <2>3
  <2>4. CASE ~ Inner(b)
    BY <1>3, <2>2, <2>4 DEF Inner
  <2> QED
    BY <2>3, <2>4
<1>6. CASE EnterBackward
  <2>1. PICK b, base : b = Head(todo) /\ base = Join(prog.succs[b], inC)
    OBVIOUS
  <2>2. /\ inC' = IF Inner(b) THEN inC ELSE [inC EXCEPT ![b] = outC[b]]
        /\ outC' = IF Inner(b) THEN [outC EXCEPT ![b] = base] ELSE outC
    BY <1>6, <2>1 DEF EnterBackward
  <2>3. CASE Inner(b)
    BY <1>2, <2>2, <2>3
  <2>4. CASE ~ Inner(b)
    BY <1>3, <2>2, <2>4 DEF Inner
  <2> QED
    BY <2>3, <2>4
<1>7. CASE LeaveForward
  <2>1. inC' = inC /\ outC' = IF Inner(cur) THEN [outC EXCEPT ![cur] = facts.ctx] ELSE outC
    BY <1>7 DEF LeaveForward
  <2> QED
    BY <1>2, <1>4, <2>1
<1>8. CASE LeaveBackward
  <2>1. outC' = outC /\ inC' = IF Inner(cur) THEN [inC EXCEPT ![cur] = facts.ctx] ELSE inC
    BY <1>8 DEF LeaveBackward
  <2> QED
    BY <1>2, <1>4, <2>1
<1>9. CASE SkipBlock \/ ForwardInsn \/ BackwardInsn \/ EnterParameters \/ ParameterInsn \/ LeaveParameters
  BY <1>4, <1>9 DEF SkipBlock, ForwardInsn, BackwardInsn, EnterParameters, ParameterInsn, LeaveParameters, passVars
<1> QED
  BY <1>5, <1>6, <1>7, <1>8, <1>9 DEF InPass

LEMMA ApartInPass ==
  ASSUME prog \in Program, WalkTypeOK, PlaceOK, SetOut, InPass
  PROVE  cur' \notin Elements(trail')
<1>1. trail \in Seq(Node) /\ Elements(trail) \subseteq visited /\ cur \notin Elements(trail)
  BY DEF PlaceOK, SetOut
<1>2. CASE EnterForward \/ EnterBackward \/ EnterParameters
  <2>1. Head(todo) \notin visited /\ cur' = Head(todo) /\ trail' = trail
    BY <1>2 DEF EnterForward, EnterBackward, EnterParameters, Enter, passVars
  <2> QED
    BY <1>1, <2>1
<1>3. CASE LeaveForward \/ LeaveBackward \/ LeaveParameters
  <2>1. cur # NoNode /\ cur' = NoNode /\ trail' = Append(trail, cur)
    BY <1>3 DEF LeaveForward, LeaveBackward, LeaveParameters, LeaveBlock, Leave
  <2>2. cur \in Node
    BY <2>1 DEF WalkTypeOK
  <2>3. PICK t, b : t = trail /\ b = cur
    OBVIOUS
  <2>4. Append(t, b) \in Seq(Node)
    BY <1>1, <2>2, <2>3
  <2>5. trail' \in Seq(Node)
    BY <2>1, <2>3, <2>4
  <2>6. Elements(trail') \subseteq Node
    BY <2>5 DEF Elements
  <2> QED
    BY <2>1, <2>6, NodeAssumption
<1>4. CASE SkipBlock \/ ForwardInsn \/ BackwardInsn \/ ParameterInsn
  <2>1. cur' = cur /\ trail' = trail
    BY <1>4 DEF SkipBlock, Return, ForwardInsn, BackwardInsn, ParameterInsn, walkVars, passVars
  <2> QED
    BY <1>1, <2>1
<1> QED
  BY <1>2, <1>3, <1>4 DEF InPass

LEMMA ElementsNone == Elements(<<>>) = {}
  BY DEF Elements

LEMMA SetOutStep ==
  ASSUME Inv, ContextInv, SetOut, [InferNext]_inferVars
  PROVE  SetOut'
<1>1. prog \in Program /\ WalkTypeOK /\ StoreOK /\ PlaceOK
  BY DEF Inv, WalkInv, FrameInv, ContextInv
<1>2. CASE FrameNext /\ UNCHANGED passVars
  <2>1. phase \in {"cfa", "run"} /\ phase' \in {"cfa", "run"} /\ prog' = prog
    BY <1>2 DEF FrameNext, CFABlock, CFAInsn, CFALeave, CFAReturn, Run, Execute, Jump
  <2>2. trail' = <<>> /\ UNCHANGED <<inC, outC, again, hidden>>
    BY <1>1, <1>2, <2>1 DEF passVars, PlaceOK
  <2> QED
    BY <2>1, <2>2, ElementsNone DEF SetOut, LastOnly
<1>3. CASE InPass
  <2>1. UNCHANGED <<prog, phase, again, hidden>>
    BY <1>3, InPassWalks, HistoryFrame DEF frameVars
  <2> QED
    BY <1>1, <1>3, <2>1, EndsInPass, ApartInPass DEF SetOut, LastOnly
<1>4. CASE StartPass
  <2>1. /\ trail' = <<>> /\ UNCHANGED <<prog, inC, outC, again, hidden>>
        /\ phase = "fwd2" => phase' = "params"
        /\ phase # "params"
    BY <1>4 DEF StartPass, Pass
  <2> QED
    BY <2>1, ElementsNone DEF SetOut, LastOnly
<1>5. CASE Again
  <2>1. PICK what, hide, from : /\ MakeAgain(what, hide, from)
                                /\ what = "last pass" => hide = {} /\ from = "fwd2"
    <3>1. CASE MakeAgain("reduced", Redundant, "fwd1")
      <4>1. PICK w, h, f : w = "reduced" /\ h = Redundant /\ f = "fwd1"
        OBVIOUS
      <4>2. MakeAgain(w, h, f) /\ w # "last pass"
        BY <3>1, <4>1
      <4> QED
        BY <4>2
    <3>2. CASE MakeAgain("last pass", {}, "fwd2")
      <4>1. PICK w, h, f : w = "last pass" /\ h = {} /\ f = "fwd2"
        OBVIOUS
      <4>2. MakeAgain(w, h, f) /\ h = {} /\ f = "fwd2"
        BY <3>2, <4>1
      <4> QED
        BY <4>2
    <3> QED
      BY <1>5, <3>1, <3>2 DEF Again
  <2>2. /\ trail' = <<>> /\ prog' = prog /\ again' = what /\ hidden' = hide /\ phase' = from
        /\ inC' = [b \in Node |-> Empty] /\ outC' = [b \in Node |-> Empty]
    BY <2>1 DEF MakeAgain
  <2>3. prog.entry \in Node /\ prog.exit \in Node
    BY <1>1, ProgramAssumption, BackwardAssumption
  <2>4. EndsEmpty(prog, inC', outC')
    BY <2>2, <2>3 DEF EndsEmpty
  <2>5. cur' \notin Elements(trail')
    BY <2>2, ElementsNone
  <2>6. again' = "last pass" => hidden' = {} /\ phase' \in {"fwd2", "params"}
    BY <2>1, <2>2
  <2>7. EndsEmpty(prog, inC, outC)'
    BY <2>2, <2>4
  <2> QED
    BY <2>5, <2>6, <2>7 DEF SetOut, LastOnly
<1>6. CASE UNCHANGED inferVars
  BY <1>6 DEF SetOut, LastOnly, inferVars, walkVars, frameVars, passVars
<1> QED
  BY <1>2, <1>3, <1>4, <1>5, <1>6, NextKinds

LEMMA SaneNow ==
  ASSUME Inv, ContextInv, SetOut, NEW s, s = Now, NEW w, w = NowWay
  PROVE  Sane(prog, s) /\ SaneWay(w)
<1>1. prog \in Program /\ WalkTypeOK /\ StoreOK /\ PlaceOK
  BY DEF Inv, WalkInv, FrameInv, ContextInv
<1>2. /\ s.inC = inC /\ s.outC = outC /\ s.insnC = insnC /\ s.facts = facts
  BY NowFields
<1>3. /\ w.edges = edges /\ w.todo = todo /\ w.visited = visited /\ w.cur = cur /\ w.pos = pos
      /\ w.trail = trail
  BY WayNow
<1>4. IsFacts(facts) /\ DOMAIN facts.size = RegName
  BY <1>1 DEF StoreOK, Shaped, IsFacts
<1>5. /\ DOMAIN inC = Node /\ DOMAIN outC = Node /\ DOMAIN insnC = Node
      /\ \A b \in Node : DOMAIN insnC[b] = DOMAIN prog.code[b]
  BY <1>1 DEF StoreOK, InsnsOK, CodeOf
<1>6. Sane(prog, s)
  BY <1>2, <1>4, <1>5 DEF Sane, SetOut
<1>7. SaneWay(w)
  BY <1>1, <1>3 DEF SaneWay, WalkTypeOK, PlaceOK, SetOut
<1> QED
  BY <1>6, <1>7

\* So it is after a step.
LEMMA SaneStays == Inv /\ ContextInv /\ SetOut => Sane(prog, Now) /\ SaneWay(NowWay)
<1> SUFFICES ASSUME Inv, ContextInv, SetOut
             PROVE  Sane(prog, Now) /\ SaneWay(NowWay)
  OBVIOUS
<1>1. PICK s, w : s = Now /\ w = NowWay
  OBVIOUS
<1>2. Sane(prog, s) /\ SaneWay(w)
  BY <1>1, SaneNow
<1> QED
  BY <1>1, <1>2

LEMMA SaneNextly ==
  ASSUME Inv', ContextInv', SetOut', prog' = prog, NEW s, s = Now'
  PROVE  Sane(prog, s)
<1>1. Sane(prog, Now)'
  BY SaneStays, PTL
<1>2. Sane(prog', Now')
  BY <1>1
<1> QED
  BY <1>2

LEMMA WayNextly ==
  ASSUME NEW s, s = Now'
  PROVE  WayOf(s) = NowWay'
<1>1. /\ s.edges = edges' /\ s.todo = todo' /\ s.visited = visited' /\ s.cur = cur' /\ s.pos = pos'
      /\ s.trail = trail'
  BY StateFields DEF Now
<1> QED
  BY <1>1 DEF WayOf, NowWay

\* A new forward pass sets out where the first did.
LEMMA DepartsNow ==
  ASSUME prog' = prog, edges' = prog.succs, todo' = <<prog.entry>>, visited' = {}, cur' = NoNode,
         pos' = 0, trail' = <<>>
  PROVE  NowWay' = Departs(prog)
  BY DEF NowWay, Departs

LEMMA OverNow ==
  ASSUME StartPass
  PROVE  Over(NowWay)
<1>1. PICK w : w = NowWay
  OBVIOUS
<1>2. todo = <<>> /\ cur = NoNode
  BY DEF StartPass, Pass, Start
<1>3. w.cur = cur /\ w.todo = todo
  BY <1>1, WayNow
<1> QED
  BY <1>1, <1>2, <1>3 DEF Over

\* The first pass draws the line.
LEMMA FirstForward ==
  ASSUME Inv, ContextInv, FirstOn, phase = "fwd1", InPass \/ StartPass
  PROVE  FirstOn'
<1>1. prog \in Program /\ WalkTypeOK /\ StoreOK /\ PlaceOK /\ prog' = prog
  BY HistoryFrame DEF Inv, WalkInv, FrameInv, ContextInv
<1>2. PICK l, n : Line(prog, l, n) /\ l[n] = NowLight
  BY DEF FirstOn
<1>3. PICK w : w = NowWay
  OBVIOUS
<1>4. l[n].way = w /\ l[n].size = facts.size
  BY <1>2, <1>3 DEF NowLight
<1>5. CASE InPass
  <2>1. PICK e : e = [way |-> Stride(prog, w), size |-> Sized(prog, w, facts.size)]
    OBVIOUS
  <2>2. NowWay' = Stride(prog, w) /\ ~ Over(w)
    BY <1>1, <1>3, <1>5, StrideNow
  <2>3. facts'.size = Sized(prog, w, facts.size)
    BY <1>1, <1>3, <1>5, SizedNow
  <2>4. NowLight' = e
    BY <2>1, <2>2, <2>3 DEF NowLight
  <2>5. PICK g : Line(prog, g, n + 1) /\ g[n + 1] = e
    BY <1>2, <1>4, <2>1, <2>2, LineGrows
  <2>6. PICK m : m = n + 1
    OBVIOUS
  <2>7. Line(prog, g, m)' /\ g[m] = NowLight'
    BY <1>1, <2>4, <2>5, <2>6
  <2>8. phase' = "fwd1"
    BY <1>5, InPassWalks DEF frameVars
  <2> QED
    BY <2>7, <2>8 DEF FirstOn
<1>6. CASE StartPass
  <2>1. facts' = facts /\ phase' = "bwd"
    BY <1>6 DEF StartPass, Pass
  <2>2. WholeLine(prog, l, n)
    BY <1>2, <1>3, <1>4, <1>6, OverNow DEF WholeLine
  <2>3. Covers(l[n].size, facts'.size)
    BY <1>4, <2>1, CoversSelf
  <2>4. WholeLine(prog, l, n)' /\ Covers(l[n].size, facts.size)'
    BY <1>1, <2>2, <2>3
  <2> QED
    BY <2>1, <2>4 DEF FirstOn
<1> QED
  BY <1>5, <1>6

\* The backward pass forgets no size.
LEMMA FirstBackward ==
  ASSUME Inv, ContextInv, KnownOK, SetOut, SetOut', ContextInv', Inv', FirstOn, phase = "bwd", InPass \/ StartPass
  PROVE  FirstOn'
<1>1. prog \in Program /\ WalkTypeOK /\ StoreOK /\ PlaceOK /\ prog' = prog /\ cfa' = cfa
  BY HistoryFrame DEF Inv, WalkInv, FrameInv, ContextInv
<1>2. PICK l, k : WholeLine(prog, l, k) /\ Covers(l[k].size, facts.size)
  BY DEF FirstOn
<1>3. Covers(l[k].size, facts'.size)
  BY <1>1, <1>2, SizeGrows, CoversOn
<1>4. CASE InPass
  <2>1. WholeLine(prog, l, k)' /\ Covers(l[k].size, facts.size)'
    BY <1>1, <1>2, <1>3
  <2>2. phase' = "bwd"
    BY <1>4, InPassWalks DEF frameVars
  <2> QED
    BY <2>1, <2>2 DEF FirstOn
<1>5. CASE StartPass
  <2>1. /\ facts' = facts /\ phase' = "fwd2" /\ pos' = 0
        /\ edges' = prog.succs /\ todo' = <<prog.entry>> /\ visited' = {} /\ cur' = NoNode /\ trail' = <<>>
    BY <1>1, <1>5 DEF StartPass, Pass, Start, PlaceOK
  <2>2. NowWay' = Departs(prog)
    BY <1>1, <2>1, DepartsNow
  <2>3. PICK s : s = Now'
    OBVIOUS
  <2>4. s.phase = "fwd2" /\ s.facts = facts
    BY <2>1, <2>3, StateFields DEF Now
  <2>5. facts.known = <<>>
    BY DEF KnownOK
  <2>6. Sane(prog, s)
    BY <1>1, <2>3, SaneNextly
  <2>7. WayOf(s) = Departs(prog)
    BY <2>2, <2>3, WayNextly
  <2>8. PICK g : Along(prog, cfa, l, k, g, 0) /\ g[0] = s
    <3>1. Line(prog, l, k) /\ Covers(l[k].size, s.facts.size) /\ s.facts.known = <<>>
      BY <1>2, <2>4, <2>5 DEF WholeLine
    <3>2. PICK g : g[0] = s
      <4>1. [i \in {0} |-> s][0] = s
        OBVIOUS
      <4> QED
        BY <4>1
    <3> QED
      BY <2>4, <2>6, <2>7, <3>1, <3>2, LastBegins
  <2>9. PICK n : n = 0
    OBVIOUS
  <2>10. WholeLine(prog, l, k)' /\ Along(prog, cfa, l, k, g, n)' /\ g[n] = Now'
    BY <1>1, <1>2, <2>3, <2>8, <2>9
  <2> QED
    BY <2>1, <2>10 DEF FirstOn
<1> QED
  BY <1>4, <1>5

\* The last pass follows the line to its end.
LEMMA FirstLast ==
  ASSUME Inv, ContextInv, HistoryOK, SetOut, SetOut', ContextInv', Inv', FirstOn, again = "first",
         phase = "fwd2", InPass \/ StartPass
  PROVE  FirstOn'
<1>1. /\ prog \in Program /\ WalkTypeOK /\ StoreOK /\ PlaceOK /\ prog' = prog /\ cfa' = cfa
      /\ TypePass /\ hidden = {}
  BY HistoryFrame DEF Inv, WalkInv, FrameInv, ContextInv, TypePass, HistoryOK
<1>2. PICK l, k, g, n : WholeLine(prog, l, k) /\ Along(prog, cfa, l, k, g, n) /\ g[n] = Now
  BY DEF FirstOn
<1>3. PICK s, t, w : s = Now /\ t = Now' /\ w = NowWay
  OBVIOUS
<1>4. WayOf(s) = w /\ s.facts = facts /\ s.insnC = insnC /\ s.phase = phase
  BY <1>3, WayNow, NowFields
<1>5. t.facts = facts' /\ t.insnC = insnC' /\ t.phase = phase'
  BY <1>3, StateFields DEF Now
<1>6. n \in 0 .. k /\ WayOf(g[n]) = l[n].way /\ k \in Nat /\ n \in 0 .. n
  BY <1>2 DEF Along, WholeLine, Line
<1>7. l[n].way = w
  BY <1>2, <1>3, <1>4, <1>6
<1>8. CASE InPass
  <2>1. t = Follow(prog, cfa, g[n], {})
    BY <1>1, <1>2, <1>3, <1>8, FollowNow
  <2>2. ~ Over(WayOf(g[n]))
    BY <1>1, <1>2, <1>3, <1>4, <1>8, StrideNow
  <2>3. Sane(prog, t)
    BY <1>1, <1>3, SaneNextly
  <2>4. Covers(g[n].facts.size, t.facts.size)
    <3>1. Covers(facts.size, facts'.size)
      BY <1>1, <1>8, SizeGrows
    <3> QED
      BY <1>2, <1>3, <1>4, <1>5, <3>1
  <2>5. PICK h : Along(prog, cfa, l, k, h, n + 1) /\ h[n + 1] = t
    BY <1>2, <2>1, <2>2, <2>3, <2>4, LastGrows
  <2>6. PICK m : m = n + 1
    OBVIOUS
  <2>7. WholeLine(prog, l, k)' /\ Along(prog, cfa, l, k, h, m)' /\ h[m] = Now'
    BY <1>1, <1>2, <1>3, <2>5, <2>6
  <2>8. phase' = "fwd2"
    BY <1>8, InPassWalks DEF frameVars
  <2> QED
    BY <2>7, <2>8 DEF FirstOn
<1>9. CASE StartPass
  <2>1. phase' = "params" /\ facts' = facts /\ insnC' = insnC
    BY <1>9 DEF StartPass, Pass
  <2>2. Over(l[n].way)
    BY <1>3, <1>7, <1>9, OverNow
  <2>3. n = k
    <3>1. n \in 0 .. k - 1 => ~ Over(l[n].way)
      BY <1>2 DEF WholeLine, Line
    <3> QED
      BY <1>6, <2>2, <3>1
  <2>4. WholeLine(prog, l, k)' /\ Along(prog, cfa, l, k, g, k)'
    BY <1>1, <1>2, <2>3
  <2>5. g[k].facts = facts' /\ g[k].insnC = insnC'
    BY <1>2, <1>3, <1>4, <2>1, <2>3
  <2> QED
    BY <2>1, <2>4, <2>5 DEF FirstOn
<1> QED
  BY <1>8, <1>9

\* parameterInference changes no facts.
LEMMA ParametersKeep ==
  ASSUME InPass, phase = "params"
  PROVE  UNCHANGED <<prog, cfa, again, hidden, saved, phase, facts, insnC>>
<1>1. UNCHANGED <<prog, cfa, again, hidden, saved>>
  BY HistoryFrame
<1>2. UNCHANGED <<phase, facts, insnC>>
  BY DEF InPass, SkipBlock, EnterForward, ForwardInsn, LeaveForward, EnterBackward, BackwardInsn,
     LeaveBackward, EnterParameters, ParameterInsn, LeaveParameters, passVars, frameVars
<1> QED
  BY <1>1, <1>2

LEMMA FirstParams ==
  ASSUME FirstOn, phase = "params", InPass
  PROVE  FirstOn'
<1>1. UNCHANGED <<prog, cfa, phase, facts, insnC>>
  BY ParametersKeep
<1>2. PICK l, k, g : /\ WholeLine(prog, l, k) /\ Along(prog, cfa, l, k, g, k)
                     /\ g[k].facts = facts /\ g[k].insnC = insnC
  BY DEF FirstOn
<1>3. WholeLine(prog, l, k)' /\ Along(prog, cfa, l, k, g, k)'
  BY <1>1, <1>2
<1> QED
  BY <1>1, <1>2, <1>3 DEF FirstOn

\* The line begins where the first pass does.
LEMMA FirstBegins ==
  ASSUME HistoryOK, Pass("cfa", "fwd1", prog.succs, prog.entry)
  PROVE  again' = "first" /\ FirstOn'
<1>1. Fresh
  BY DEF Pass, HistoryOK
<1>2. /\ prog' = prog /\ phase' = "fwd1" /\ again' = "first" /\ facts' = NoFacts /\ pos' = 0
      /\ edges' = prog.succs /\ todo' = <<prog.entry>> /\ visited' = {} /\ cur' = NoNode /\ trail' = <<>>
  BY <1>1 DEF Pass, Start, Fresh
<1>3. NowWay' = Departs(prog)
  BY <1>2, DepartsNow
<1>4. PICK e : e = [way |-> Departs(prog), size |-> NoFacts.size]
  OBVIOUS
<1>5. NowLight' = e
  BY <1>2, <1>3, <1>4 DEF NowLight
<1>6. PICK l : Line(prog, l, 0) /\ l[0] = e
  BY <1>4, LineBegins
<1>7. PICK n : n = 0
  OBVIOUS
<1>8. Line(prog, l, n)' /\ l[n] = NowLight'
  BY <1>2, <1>5, <1>6, <1>7
<1> QED
  BY <1>2, <1>8 DEF FirstOn

\* On the line, the last pass alone stays beside the history of the first.
LEMMA LastInPass ==
  ASSUME Inv, ContextInv, SetOut, LastOn, hidden = {}, phase = "fwd2", InPass
  PROVE  LastOn'
<1>1. /\ prog \in Program /\ WalkTypeOK /\ StoreOK /\ PlaceOK /\ UNCHANGED <<prog, cfa, saved>>
      /\ TypePass
  BY HistoryFrame DEF Inv, WalkInv, FrameInv, ContextInv, TypePass
<1>2. PICK l, k, g, i :
        /\ WholeLine(prog, l, k) /\ Along(prog, cfa, l, k, g, k)
        /\ g[k].facts = saved.facts /\ g[k].insnC = saved.insnC
        /\ i \in 0 .. k /\ l[i] = NowLight
        /\ Ordered(prog, l[i].way) => Beside(prog, g[i], Now)
  BY DEF LastOn
<1>3. PICK x, t, w, s : x = Now /\ t = Now' /\ w = NowWay /\ s = g[i]
  OBVIOUS
<1>4. WayOf(x) = w /\ x.facts = facts /\ x.phase = phase
  BY <1>3, WayNow, NowFields
<1>5. l[i].way = w /\ l[i].size = facts.size
  <2>1. PICK d : d = [way |-> w, size |-> facts.size]
    OBVIOUS
  <2>2. l[i] = d
    BY <1>2, <1>3, <2>1 DEF NowLight
  <2> QED
    BY <2>1, <2>2
<1>6. NowWay' = Stride(prog, w) /\ ~ Over(w)
  BY <1>1, <1>3, StrideNow
<1>7. k \in Nat /\ i \in 0 .. k - 1 /\ i + 1 \in 0 .. k
  <2>1. k \in Nat /\ Over(l[k].way)
    BY <1>2 DEF WholeLine, Line
  <2>2. i # k
    BY <1>5, <1>6, <2>1
  <2>3. i \in 0 .. k
    BY <1>2
  <2> QED
    BY <2>1, <2>2, <2>3
<1>8. PICK e : e = [way |-> Stride(prog, w), size |-> Sized(prog, w, facts.size)]
  OBVIOUS
<1>9. l[i + 1] = e
  BY <1>2, <1>5, <1>7, <1>8 DEF WholeLine, Line
<1>10. NowLight' = e
  <2>1. facts'.size = Sized(prog, w, facts.size)
    BY <1>1, <1>3, SizedNow
  <2> QED
    BY <1>6, <1>8, <2>1 DEF NowLight
<1>11. /\ s.phase = "fwd2" /\ WayOf(s) = w /\ Sane(prog, s) /\ Covers(l[k].size, s.facts.size)
       /\ g[i + 1] = Follow(prog, cfa, s, {})
  BY <1>2, <1>3, <1>5, <1>7 DEF Along
<1>12. t = Follow(prog, cfa, x, {})
  BY <1>1, <1>3, FollowNow
<1>13. Sane(prog, x) /\ SaneWay(w)
  BY <1>3, SaneNow
<1>14. Covers(Sized(prog, w, x.facts.size), s.facts.size)
  <2>1. Covers(l[i + 1].size, l[k].size)
    <3>1. Line(prog, l, k)
      BY <1>2 DEF WholeLine
    <3>2. \A j \in 0 .. k : Covers(l[j].size, l[k].size)
      BY <3>1 DEF Line
    <3> QED
      BY <1>7, <3>2
  <2>2. l[i + 1].size = Sized(prog, w, facts.size)
    BY <1>8, <1>9
  <2> QED
    BY <1>4, <1>11, <2>1, <2>2, CoversOn
<1>15. ASSUME Ordered(prog, e.way)
       PROVE  Beside(prog, g[i + 1], t)
  <2>1. Ordered(prog, Stride(prog, w))
    BY <1>8, <1>15
  <2>2. Ordered(prog, w)
    BY <1>13, <2>1, OrderedBefore
  <2>3. Beside(prog, s, x)
    BY <1>2, <1>3, <1>5, <2>2
  <2>4. Beside(prog, Follow(prog, cfa, s, {}), Follow(prog, cfa, x, {}))
    BY <1>1, <1>4, <1>6, <1>11, <1>13, <1>14, <2>1, <2>3, BesideStep
  <2> QED
    BY <1>11, <1>12, <2>4
<1>16. PICK m : m = i + 1
  OBVIOUS
<1>17. /\ WholeLine(prog, l, k)' /\ Along(prog, cfa, l, k, g, k)'
       /\ g[k].facts = saved'.facts /\ g[k].insnC = saved'.insnC
       /\ m \in 0 .. k /\ l[m] = NowLight'
  BY <1>1, <1>2, <1>7, <1>9, <1>10, <1>16
<1>18. Ordered(prog', l[m].way) => Beside(prog', g[m], Now')
  BY <1>1, <1>3, <1>9, <1>15, <1>16
<1>19. phase' = "fwd2"
  BY InPassWalks DEF frameVars
<1> QED
  BY <1>17, <1>18, <1>19 DEF LastOn

\* At the end of the line they have found the same.
LEMMA LastEnds ==
  ASSUME Inv, ContextInv, LastOn, phase = "fwd2", StartPass
  PROVE  LastOn'
<1>1. PlaceOK /\ UNCHANGED <<prog, cfa, saved>>
  BY HistoryFrame DEF ContextInv
<1>2. PICK l, k, g, i :
        /\ WholeLine(prog, l, k) /\ Along(prog, cfa, l, k, g, k)
        /\ g[k].facts = saved.facts /\ g[k].insnC = saved.insnC
        /\ i \in 0 .. k /\ l[i] = NowLight
        /\ Ordered(prog, l[i].way) => Beside(prog, g[i], Now)
  BY DEF LastOn
<1>3. PICK x, w : x = Now /\ w = NowWay
  OBVIOUS
<1>4. x.facts = facts /\ x.insnC = insnC
  BY <1>3, NowFields
<1>5. l[i].way = w
  BY <1>2, <1>3 DEF NowLight
<1>6. i = k
  <2>1. i \in 0 .. k - 1 => ~ Over(l[i].way)
    BY <1>2 DEF WholeLine, Line
  <2>2. k \in Nat /\ Over(w)
    BY <1>2, <1>3, OverNow DEF WholeLine, Line
  <2> QED
    BY <1>2, <1>5, <2>1, <2>2
<1>7. /\ phase' = "params" /\ facts' = facts /\ insnC' = insnC /\ pos' = 0
      /\ edges' = prog.succs /\ todo' = <<prog.entry>> /\ visited' = {} /\ cur' = NoNode /\ trail' = <<>>
  BY <1>1 DEF StartPass, Pass, Start, PlaceOK
<1>8. NowWay' = Departs(prog)
  BY <1>1, <1>7, DepartsNow
<1>9. ASSUME Ordered(prog, l[k].way)
      PROVE  /\ saved.facts.known = facts.known
             /\ \A b \in Elements(l[k].way.trail) : \A m \in 1 .. Len(prog.code[b]) :
                  saved.insnC[b][m] = insnC[b][m]
  <2>1. Beside(prog, g[k], x)
    BY <1>2, <1>3, <1>6, <1>9
  <2>2. WayOf(g[k]) = l[k].way
    BY <1>2, <1>6 DEF Along
  <2>3. g[k].trail = l[k].way.trail
    BY <2>2, WayParts
  <2> QED
    BY <1>2, <1>4, <2>1, <2>3 DEF Beside, BesideAt
<1>10. k \in Nat /\ l[0].way = Departs(prog)
  BY <1>2 DEF WholeLine, Line
<1>11. PICK m : m = 0
  OBVIOUS
<1>12. WholeLine(prog, l, k)' /\ m \in 0 .. k /\ l[m].way = NowWay'
  BY <1>1, <1>2, <1>8, <1>10, <1>11
<1>13. /\ Ordered(prog', l[k].way) =>
            /\ saved'.facts.known = facts'.known
            /\ \A b \in Elements(l[k].way.trail) : \A j \in 1 .. Len(prog'.code[b]) :
                 saved'.insnC[b][j] = insnC'[b][j]
  BY <1>1, <1>7, <1>9
<1> QED
  BY <1>7, <1>12, <1>13 DEF LastOn

\* parameterInference walks the line once more.
LEMMA LastParams ==
  ASSUME Inv, LastOn, phase = "params", InPass
  PROVE  LastOn'
<1>1. prog \in Program /\ WalkTypeOK /\ UNCHANGED <<prog, saved, phase, facts, insnC>>
  BY ParametersKeep DEF Inv, WalkInv, FrameInv
<1>2. PICK l, k, i :
        /\ WholeLine(prog, l, k) /\ i \in 0 .. k /\ l[i].way = NowWay
        /\ Ordered(prog, l[k].way) =>
             /\ saved.facts.known = facts.known
             /\ \A b \in Elements(l[k].way.trail) : \A m \in 1 .. Len(prog.code[b]) :
                  saved.insnC[b][m] = insnC[b][m]
  BY DEF LastOn
<1>3. PICK w : w = NowWay
  OBVIOUS
<1>4. NowWay' = Stride(prog, w) /\ ~ Over(w)
  BY <1>1, <1>3, StrideNow
<1>5. k \in Nat /\ Over(l[k].way)
  BY <1>2 DEF WholeLine, Line
<1>6. i \in 0 .. k - 1 /\ i + 1 \in 0 .. k
  <2>1. i # k
    BY <1>2, <1>3, <1>4, <1>5
  <2> QED
    BY <1>2, <1>5, <2>1
<1>7. PICK e : e = [way |-> Stride(prog, w), size |-> Sized(prog, w, l[i].size)]
  OBVIOUS
<1>8. l[i + 1] = e
  BY <1>2, <1>3, <1>6, <1>7 DEF WholeLine, Line
<1>9. PICK m : m = i + 1
  OBVIOUS
<1>10. WholeLine(prog, l, k)' /\ m \in 0 .. k /\ l[m].way = NowWay'
  BY <1>1, <1>2, <1>4, <1>6, <1>7, <1>8, <1>9
<1>11. /\ Ordered(prog', l[k].way) =>
            /\ saved'.facts.known = facts'.known
            /\ \A b \in Elements(l[k].way.trail) : \A j \in 1 .. Len(prog'.code[b]) :
                 saved'.insnC[b][j] = insnC'[b][j]
  BY <1>1, <1>2
<1> QED
  BY <1>1, <1>10, <1>11 DEF LastOn

\* The analysis with the last pass only sets out where the first set out.
LEMMA LastBeginsAgain ==
  ASSUME ContextInv, FirstOn, NEW what, NEW hide, MakeAgain(what, hide, "fwd2")
  PROVE  LastOn'
<1>1. PICK l, k, g : /\ WholeLine(prog, l, k) /\ Along(prog, cfa, l, k, g, k)
                     /\ g[k].facts = facts /\ g[k].insnC = insnC
  <2>1. phase = "params"
    BY DEF MakeAgain
  <2> QED
    BY <2>1 DEF FirstOn
<1>2. PICK v : v = [insnC |-> insnC, facts |-> facts]
  OBVIOUS
<1>3. v.insnC = insnC /\ v.facts = facts
  BY <1>2
<1>4. /\ cur = NoNode /\ pos' = pos /\ prog' = prog /\ cfa' = cfa /\ phase' = "fwd2" /\ facts' = NoFacts
      /\ edges' = prog.succs /\ todo' = <<prog.entry>> /\ visited' = {} /\ cur' = NoNode /\ trail' = <<>>
      /\ saved' = v
  BY <1>2 DEF MakeAgain, Start
<1>5. pos' = 0
  BY <1>4 DEF ContextInv, PlaceOK
<1>6. NowWay' = Departs(prog)
  BY <1>4, <1>5, DepartsNow
<1>7. PICK e : e = [way |-> Departs(prog), size |-> NoFacts.size]
  OBVIOUS
<1>8. NowLight' = e
  BY <1>4, <1>6, <1>7 DEF NowLight
<1>9. k \in Nat /\ l[0] = e
  BY <1>1, <1>7 DEF WholeLine, Line
<1>10. PICK t : t = Now'
  OBVIOUS
<1>11. t.cur = NoNode /\ t.trail = <<>> /\ t.facts = NoFacts
  BY <1>4, <1>10, StateFields DEF Now
<1>12. Beside(prog, g[0], t)
  <2>1. g[0].facts.known = <<>> /\ WayOf(g[0]) = e.way
    BY <1>1, <1>9 DEF Along
  <2>2. e.way = Departs(prog) /\ Departs(prog).cur = NoNode /\ Departs(prog).trail = <<>>
    BY <1>7 DEF Departs, Way
  <2>3. g[0].cur = NoNode /\ g[0].trail = <<>>
    BY <2>1, <2>2, WayParts
  <2>4. NoFacts.known = <<>>
    BY DEF NoFacts
  <2> QED
    BY <1>11, <2>1, <2>3, <2>4, ElementsNone DEF Beside
<1>13. PICK m : m = 0
  OBVIOUS
<1>14. /\ WholeLine(prog, l, k)' /\ Along(prog, cfa, l, k, g, k)'
       /\ g[k].facts = saved'.facts /\ g[k].insnC = saved'.insnC
       /\ m \in 0 .. k /\ l[m] = NowLight'
  BY <1>1, <1>3, <1>4, <1>8, <1>9, <1>13
<1>15. Ordered(prog', l[m].way) => Beside(prog', g[m], Now')
  BY <1>4, <1>10, <1>12, <1>13
<1> QED
  BY <1>4, <1>14, <1>15 DEF LastOn

LEMMA DecideStarts == ASSUME InferInit PROVE DecideOK
<1>1. /\ phase = "cfa" /\ trail = <<>> /\ again = "first"
      /\ inC = [b \in Node |-> Empty] /\ outC = [b \in Node |-> Empty]
  BY DEF InferInit, FrameInit
<1>2. prog.entry \in Node /\ prog.exit \in Node
  <2>1. prog \in Program
    BY DEF InferInit, FrameInit
  <2> QED
    BY <2>1, ProgramAssumption, BackwardAssumption
<1>3. ~ LastOnly
  BY <1>1 DEF LastOnly
<1>4. SetOut
  BY <1>1, <1>2, <1>3, ElementsNone DEF SetOut, EndsEmpty
<1>5. FirstOn
  BY <1>1 DEF FirstOn
<1> QED
  BY <1>3, <1>4, <1>5 DEF DecideOK

\* Again keeps what is drawn of the first analysis.
LEMMA DecideAgain ==
  ASSUME ContextInv, DecideOK, Again, SetOut'
  PROVE  DecideOK'
<1>1. again = "first"
  BY DEF Again, MakeAgain
<1>2. FirstOn
  BY <1>1 DEF DecideOK
<1>3. CASE MakeAgain("reduced", Redundant, "fwd1")
  <2>1. again' = "reduced"
    BY <1>3 DEF MakeAgain
  <2>2. ~ LastOnly'
    BY <2>1 DEF LastOnly
  <2> QED
    BY <2>1, <2>2 DEF DecideOK
<1>4. CASE MakeAgain("last pass", {}, "fwd2")
  <2>1. again' = "last pass"
    BY <1>4 DEF MakeAgain
  <2>2. again' # "first"
    BY <2>1
  <2>3. PICK w, h : w = "last pass" /\ h = {}
    OBVIOUS
  <2>4. MakeAgain(w, h, "fwd2")
    BY <1>4, <2>3
  <2>5. LastOn'
    BY <1>2, <2>4, LastBeginsAgain
  <2> QED
    BY <2>2, <2>5 DEF DecideOK
<1> QED
  BY <1>3, <1>4 DEF Again

LEMMA DecideStep ==
  ASSUME Inv, Inv', ContextInv, ContextInv', KnownOK, HistoryOK, DecideOK, [InferNext]_inferVars
  PROVE  DecideOK'
<1>1. SetOut /\ SetOut'
  BY SetOutStep DEF DecideOK
<1>2. CASE FrameNext /\ UNCHANGED passVars
  <2>1. phase \in {"cfa", "run"} /\ phase' \in {"cfa", "run"} /\ again' = again
    BY <1>2 DEF FrameNext, CFABlock, CFAInsn, CFALeave, CFAReturn, Run, Execute, Jump, passVars
  <2>2. again = "first"
    BY <2>1 DEF HistoryOK, Fresh
  <2>3. ~ LastOnly' /\ FirstOn'
    BY <2>1, <2>2 DEF LastOnly, FirstOn
  <2> QED
    BY <1>1, <2>3 DEF DecideOK
<1>3. CASE Pass("cfa", "fwd1", prog.succs, prog.entry)
  <2>1. again' = "first" /\ FirstOn'
    BY <1>3, FirstBegins
  <2>2. ~ LastOnly'
    BY <2>1 DEF LastOnly
  <2> QED
    BY <1>1, <2>1, <2>2 DEF DecideOK
<1>4. CASE Again
  BY <1>1, <1>4, DecideAgain
<1>5. CASE UNCHANGED inferVars
  <2>1. UNCHANGED <<prog, cfa, again, saved, phase, facts, insnC, edges, todo, visited, cur, pos, trail, inC, outC>>
    BY <1>5 DEF inferVars, walkVars, frameVars, passVars
  <2>2. NowWay' = NowWay /\ Now' = Now
    BY <2>1 DEF NowWay, Now
  <2>3. NowLight' = NowLight
    BY <2>1, <2>2 DEF NowLight
  <2>4. (FirstOn => FirstOn') /\ (LastOn => LastOn') /\ (LastOnly' <=> LastOnly)
    BY <2>1, <2>2, <2>3 DEF FirstOn, LastOn, LastOnly
  <2> QED
    BY <1>1, <2>1, <2>4 DEF DecideOK
<1>6. CASE InPass \/ (StartPass /\ phase # "cfa")
  <2>1. /\ phase \in {"fwd1", "bwd", "fwd2", "params"} /\ UNCHANGED <<again, hidden>>
        /\ phase = "params" => InPass
    BY <1>6, InPassWalks, HistoryFrame DEF StartPass, Pass
  <2>2. InPass \/ StartPass
    BY <1>6
  <2>3. again = "first" => FirstOn'
    <3> SUFFICES ASSUME again = "first" PROVE FirstOn'
      OBVIOUS
    <3>1. FirstOn
      BY DEF DecideOK
    <3>2. CASE phase = "fwd1"
      BY <2>2, <3>1, <3>2, FirstForward
    <3>3. CASE phase = "bwd"
      BY <1>1, <2>2, <3>1, <3>3, FirstBackward
    <3>4. CASE phase = "fwd2"
      BY <1>1, <2>2, <3>1, <3>4, FirstLast
    <3>5. CASE phase = "params"
      BY <2>1, <3>1, <3>5, FirstParams
    <3> QED
      BY <2>1, <3>2, <3>3, <3>4, <3>5
  <2>4. LastOnly => LastOn'
    <3> SUFFICES ASSUME LastOnly PROVE LastOn'
      OBVIOUS
    <3>1. LastOn /\ hidden = {} /\ phase \in {"fwd2", "params"}
      BY <1>1 DEF DecideOK, SetOut
    <3>2. CASE phase = "fwd2" /\ InPass
      BY <1>1, <3>1, <3>2, LastInPass
    <3>3. CASE phase = "fwd2" /\ StartPass
      BY <3>1, <3>3, LastEnds
    <3>4. CASE phase = "params"
      BY <2>1, <3>1, <3>4, LastParams
    <3> QED
      BY <2>2, <3>1, <3>2, <3>3, <3>4
  <2>5. LastOnly' <=> LastOnly
    BY <2>1 DEF LastOnly
  <2> QED
    BY <1>1, <2>1, <2>3, <2>4, <2>5 DEF DecideOK
<1>7. StartPass => Pass("cfa", "fwd1", prog.succs, prog.entry) \/ phase # "cfa"
  BY DEF StartPass, Pass
<1>8. (FrameNext /\ UNCHANGED passVars) \/ InPass \/ StartPass \/ Again \/ UNCHANGED inferVars
  BY NextKinds
<1>9. InPass \/ StartPass => DecideOK'
  BY <1>3, <1>6, <1>7
<1> QED
  BY <1>2, <1>4, <1>5, <1>8, <1>9

\* At the end of the line the trail is all of it.
LEMMA DecideEnds ==
  ASSUME Inv, ContextInv, DecideOK, LastOnly, End, InOrder
  PROVE  /\ \A b \in Elements(trail) : \A i \in DOMAIN CodeOf(b) : saved.insnC[b][i] = insnC[b][i]
         /\ saved.facts.known = facts.known
<1>1. phase = "params" /\ cur = NoNode /\ todo = <<>> /\ prog \in Program
  BY DEF End, Finished, Inv, FrameInv
<1>2. PICK l, k, i :
        /\ WholeLine(prog, l, k) /\ i \in 0 .. k /\ l[i].way = NowWay
        /\ Ordered(prog, l[k].way) =>
             /\ saved.facts.known = facts.known
             /\ \A b \in Elements(l[k].way.trail) : \A m \in 1 .. Len(prog.code[b]) :
                  saved.insnC[b][m] = insnC[b][m]
  BY <1>1 DEF DecideOK, LastOn
<1>3. PICK w : w = NowWay
  OBVIOUS
<1>4. w.cur = NoNode /\ w.todo = <<>> /\ w.trail = trail
  BY <1>1, <1>3, WayNow
<1>5. i = k
  <2>1. i \in 0 .. k - 1 => ~ Over(l[i].way)
    BY <1>2 DEF WholeLine, Line
  <2>2. k \in Nat /\ Over(w)
    BY <1>2, <1>4 DEF WholeLine, Line, Over
  <2> QED
    BY <1>2, <1>3, <2>1, <2>2
<1>6. Ordered(prog, w)
  BY <1>4 DEF Ordered, InTurn, InOrder
<1>7. /\ saved.facts.known = facts.known
      /\ \A b \in Elements(trail) : \A m \in 1 .. Len(prog.code[b]) : saved.insnC[b][m] = insnC[b][m]
  BY <1>2, <1>3, <1>4, <1>5, <1>6
<1>8. \A b \in Elements(trail) : DOMAIN CodeOf(b) = 1 .. Len(prog.code[b])
  <2>1. Elements(trail) \subseteq Node
    BY DEF ContextInv, PlaceOK, Elements
  <2> QED
    BY <1>1, <2>1, ProgramAssumption DEF CodeOf
<1> QED
  BY <1>7, <1>8

\* Where the walk meets no block before one of its predecessors, an analysis of
\* which only the last pass is made finds at every instruction of the walk the
\* types the whole of it found there, and knows the same variables: it stays
\* beside the last pass of the first, on the line the first pass drew.
THEOREM LastPassIsEnough == Spec => []LastPassDecides
<1>1. InferInit => Inv /\ ContextInv /\ FramedOK /\ KnownOK /\ HistoryOK /\ DecideOK
  BY InvInit, ContextStarts, KnownStarts, HistoryStarts, DecideStarts
<1>2. Inv /\ ContextInv /\ FramedOK /\ KnownOK /\ HistoryOK /\ [InferNext]_inferVars =>
        Inv' /\ ContextInv' /\ FramedOK' /\ KnownOK' /\ HistoryOK'
  BY InvStep, ContextStep, FramedStep, KnownStep, HistoryStep
<1>3. Inv /\ ContextInv /\ FramedOK /\ KnownOK /\ HistoryOK /\ DecideOK /\ [InferNext]_inferVars => DecideOK'
  BY <1>2, DecideStep
<1>4. Inv /\ ContextInv /\ DecideOK => LastPassDecides
  BY DecideEnds DEF LastPassDecides, LastOnly
<1> QED
  BY <1>1, <1>2, <1>3, <1>4, PTL DEF Spec
=============================================================================
