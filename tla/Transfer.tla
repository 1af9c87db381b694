------------------------------ MODULE Transfer ------------------------------
(***************************************************************************)
(* What an instruction does to a context: forwardInferenceInStatement of   *)
(* lib/Core/ForwardAnalysis.cpp, backwardInferenceInStatement of           *)
(* lib/Core/BackwardAnalysis.cpp, and the look-ups of lib/Core/Analysis.cpp*)
(* they ask for types.                                                     *)
(*                                                                         *)
(* An analysis is a record: ctx, the context; known, the variables of the  *)
(* debug info it has used; size, what the operand factory has noted as the *)
(* size of each register (0: no operand of that register yet).  p is the   *)
(* function: vars (records [id, stack, off, type], its parameters first),  *)
(* hidden (ids of variables the debug info has lost), globals ([addr,      *)
(* type]) and callee (records [dyn, ret, params], by call target).         *)
(***************************************************************************)
EXTENDS Operands, FiniteSets

\* The size an operand has, for the factory that made it.
SizeOf(a, o) == IF IsReg(o) THEN a.size[o.reg] ELSE o.size

\* A register operand keeps the size of its first use.
Note(a, width) ==
  [a EXCEPT !.size = [r \in DOMAIN @ |-> IF r \in DOMAIN width /\ @[r] = 0 THEN width[r] ELSE @[r]]]

\* Instructions whose operands are made before anything else is done.
NamesOperands(insn) ==
  \/ insn.id \in {"movzx", "movsx", "movsxd", "mov", "lea", "cmp", "logic",
                  "setcc", "clobber", "fld", "fist", "call"}
  \/ insn.id \in {"add", "sub"} /\ ~Uses(insn, 1, "rsp") /\ ~IsImm(insn.op[2])

\* CBW, CWDE and CDQE make operands for their result and source with the right
\* sizes; here all of them are made at once.
Implicit(insn) == CASE insn.id = "cbw"  -> {"ax"}
                    [] insn.id = "cwde" -> {"ax", "al"}
                    [] insn.id = "cdqe" -> {"rax", "eax"}
                    [] OTHER -> {}

NoteOperands(a, insn) ==
  LET R == (IF NamesOperands(insn)
            THEN {insn.op[i].reg : i \in {j \in DOMAIN insn.op : IsReg(insn.op[j])}} ELSE {})
           \union Implicit(insn)
  IN Note(a, [r \in R |-> RegWidth(r)])

\* getRegOPByx86Reg, used where the ABI names the register: 8 bytes.
NoteABI(a, R) == Note(a, [r \in R |-> 8])

Set(a, o, t) == [a EXCEPT !.ctx = Put(@, o, t)]

-----------------------------------------------------------------------------
\* Look-ups.  A fact is a type and the variable it was read from.

Fact(t)  == [type |-> t, var |-> <<>>]
NoFact   == Fact(NoType)

\* Where o falls in a variable of type t that starts at base: the type found,
\* in the order of the memory model.  LEA wants a pointer to what is there, and
\* at the start of the variable to the variable itself.
Found(t, at, size, lea) ==
  LET mm    == MemoryModel(t)
      there == {i \in DOMAIN mm : mm[i][1] = at /\ (lea \/ mm[i][2].size = size)}
      first == FirstOf(mm, there, <<0, NoType>>)[2]
  IN IF lea /\ at = 0 THEN Pointer(t)
     ELSE IF lea /\ there # {} THEN Pointer(first) ELSE first

\* A variable found by its distance from the CFA.  For LEA the code compares
\* the displacement only; otherwise rbp has to be the frame pointer here.
StackHit(c, o, lea, v) ==
  IF /\ o.index = NoReg
     /\ lea \/ (c.frame /\ o.seg = NoReg)
  THEN Found(v.type, o.disp - c.rbp - v.off, o.size, lea) ELSE NoType

\* RIP-relative: the address is known.  Inside a global, LEA gives a pointer to
\* the whole of it.
GlobalHit(insn, o, lea, g) ==
  LET at == insn.next + o.disp - g.addr
      t  == Found(g.type, at, o.size, lea)
  IN IF lea /\ t # NoType THEN Pointer(g.type) ELSE t

\* getVTypeWithKnownVars
WithKnown(p, a, c, insn, o, lea) ==
  LET hitVars    == [i \in DOMAIN a.known |-> StackHit(c, o, lea, a.known[i])]
      hitGlobals == [i \in DOMAIN p.globals |-> GlobalHit(insn, o, lea, p.globals[i])]
      hits == IF ~IsMem(o) THEN <<>>
              ELSE IF o.base = "rip" /\ o.index = NoReg THEN hitGlobals
              ELSE IF o.base = "rbp" THEN hitVars ELSE <<>>
  IN Fact(FirstOf(hits, {i \in DOMAIN hits : hits[i] # NoType}, NoType))

\* Mutant: a variable that is used does not become known.
WithUnknownLost(p, a, c, o, lea, on) ==
  LET hits == [k \in DOMAIN p.vars |->
                 IF p.vars[k].stack /\ p.vars[k].id \notin p.hidden
                 THEN StackHit(c, o, lea, p.vars[k]) ELSE NoType]
  IN IF on /\ IsMem(o) /\ o.base = "rbp"
     THEN Fact(FirstOf(hits, {k \in DOMAIN hits : hits[k] # NoType}, NoType)) ELSE NoFact

\* getVTypeWithUnknownVars: the first parameter, then the first variable, not
\* used before.  It becomes known.
WithUnknown(p, a, c, o, lea, on) ==
  LET hits == [k \in DOMAIN p.vars |->
                 IF /\ p.vars[k].stack /\ p.vars[k].id \notin p.hidden
                    /\ \A i \in DOMAIN a.known : a.known[i].id # p.vars[k].id
                 THEN StackHit(c, o, lea, p.vars[k]) ELSE NoType]
      facts == [k \in DOMAIN hits |-> [type |-> hits[k], var |-> <<p.vars[k]>>]]
  IN IF on /\ IsMem(o) /\ o.base = "rbp"
     THEN FirstOf(facts, {k \in DOMAIN hits : hits[k] # NoType}, NoFact) ELSE NoFact

\* The first fact of a list, and the analysis once it has been looked up.
Choose1(facts) == FirstOf(facts, {i \in DOMAIN facts : facts[i].type # NoType}, NoFact)
Learn(a, f)    == [a EXCEPT !.known = @ \o f.var]

-----------------------------------------------------------------------------
\* Forward.

\* insnSemForwardOP2Src123Dst13: one type for both operands.
Src123Dst13(p, a, c, insn, on) ==
  LET o0 == insn.op[1]
      o1 == insn.op[2]
      f  == Choose1(<<WithKnown(p, a, c, insn, o1, FALSE), Fact(WithContext(a.ctx, o1)),
                      WithKnown(p, a, c, insn, o0, FALSE),
                      WithUnknown(p, a, c, o1, FALSE, on), WithUnknown(p, a, c, o0, FALSE, on)>>)
  IN IF IsImm(o1) THEN a
     ELSE IF f = NoFact THEN [a EXCEPT !.ctx = RemoveOP(@, o0)]
     ELSE Set(Set(Learn(a, f), o1, f.type), o0, f.type)

\* insnSemForwardOP2MOVFamily
ForwardMOV(p, a, c, insn, on) ==
  LET o0 == insn.op[1]
      o1 == insn.op[2]
      canary == /\ IsMem(o1) /\ o1.seg = "fs" /\ o1.base = NoReg
                /\ o1.index = NoReg /\ o1.disp = 40
      width(o) == IF IsReg(o) THEN RegWidth(o.reg) ELSE o.size
  IN CASE canary -> Set(Set(a, o0, UInt(8)), o1, UInt(8))
       [] IsImm(o1) -> Set(a, o0, SInt(width(o0)))
       [] ~canary /\ IsReg(o0) /\ IsGlobalMem(o1) ->
            LET t == IF IsXMMReg(o0) THEN Float(o1.size) ELSE SInt(width(o0))
            IN Set(Set(a, o0, t), o1, t)
       [] OTHER -> Src123Dst13(p, a, c, insn, on)

\* insnSemForwardOP2LOGICFamily
ForwardLOGIC(p, a, c, insn, on) ==
  IF IsReg(insn.op[1]) /\ IsImm(insn.op[2])
  THEN [a EXCEPT !.ctx = Insert(@, insn.op[1], UInt(SizeOf(a, insn.op[1])))]
  ELSE Src123Dst13(p, a, c, insn, on)

\* insnSemForwardOP2CMPFamily
ForwardCMP(p, a, c, insn, on) ==
  LET o0 == insn.op[1]
      o1 == insn.op[2]
  IN IF IsReg(o0) /\ IsImm(o1) /\ o1.val # 0
     THEN [a EXCEPT !.ctx = Insert(@, o0, SInt(SizeOf(a, o0)))]
     ELSE IF IsXMMReg(o0) /\ IsGlobalMem(o1)
     THEN LET b == [a EXCEPT !.ctx = Insert(@, o0, Float(o1.size))] IN Set(b, o1, b.ctx[o0])
     ELSE Src123Dst13(p, a, c, insn, on)

\* op0lambda and op1lambda: an integer is added to an integer; a pointer takes
\* an integer as its second operand, and is its first.
AddTo(a, o, other, t, otherOfPointer) ==
  IF IsIntegerType(t) THEN Set([a EXCEPT !.ctx = Insert(@, other, t)], o, t)
  ELSE IF IsPointerType(t) THEN Set([a EXCEPT !.ctx = Insert(@, other, otherOfPointer)], o, t)
  ELSE a

\* insnSemForwardOP2ADDSUBFamily
ForwardADDSUB(p, a, c, insn, on) ==
  LET o0 == insn.op[1]
      o1 == insn.op[2]
      fact(o) == Choose1(<<Fact(WithContext(a.ctx, o)), WithKnown(p, a, c, insn, o, FALSE),
                           WithUnknown(p, a, c, o, FALSE, on)>>)
      f0 == fact(o0)
      f1 == fact(o1)
  IN IF IsImm(o1) \/ o0 = Reg("rsp") THEN a
     ELSE IF f0 # NoFact THEN AddTo(Learn(a, f0), o0, o1, f0.type, SInt(SizeOf(a, o1)))
     ELSE IF f1 # NoFact THEN AddTo(Learn(a, f1), o1, o0, f1.type, f1.type)
     ELSE a

\* The type at the start of what a pointer points to becomes that of the memory
\* operand the address was taken of.
SetObject(a, o, ptr) ==
  LET t == FirstVType(ptr.obj, o.size)
  IN IF ptr.obj = Void \/ t = Void THEN a ELSE Set(a, o, t)

\* insnSemForwardOP2LEA.  Its first operand is a register, so the look-ups of
\* operand 0 among the variables find nothing.
ForwardLEA(p, a, c, insn, on) ==
  LET o0 == insn.op[1]
      o1 == insn.op[2]
      base == Reg(o1.base)
      sum  == /\ o1.index = NoReg /\ o1.seg = NoReg /\ base \in DOMAIN a.ctx
              /\ IsIntegerType(a.ctx[base])
      known == WithKnown(p, a, c, insn, o1, TRUE)
      inCtx == WithContext(a.ctx, o1)
      fresh == WithUnknown(p, a, c, o1, TRUE, on)
  IN CASE sum -> Set(Set(a, o0, [a.ctx[base] EXCEPT !.size = SizeOf(a, o0)]), o1, SInt(8))
       [] ~sum /\ known # NoFact -> SetObject(Set(a, o0, known.type), o1, known.type)
       [] ~sum /\ known = NoFact /\ inCtx # NoType -> Set(Set(a, o1, inCtx), o0, Pointer(inCtx))
       [] ~sum /\ known = NoFact /\ inCtx = NoType /\ fresh # NoFact ->
            SetObject(Set(Learn(a, fresh), o0, fresh.type), o1, fresh.type)
       [] OTHER -> [a EXCEPT !.ctx = RemoveOP(@, o0)]

\* insnSemForwardOP2MOVZX, MOVSX, MOVSXD
ForwardExtend(a, insn, signed) ==
  Set([a EXCEPT !.ctx = Insert(@, insn.op[2],
         IF insn.id = "movsxd" THEN SInt(4) ELSE IntegerType(signed, SizeOf(a, insn.op[2])))],
      insn.op[1], IF insn.id = "movsxd" THEN SInt(8) ELSE IntegerType(signed, SizeOf(a, insn.op[1])))

\* The registers a result of type t is returned in, and their types: the switch
\* on the base type, the pointer, the address of a large aggregate.
ReturnRegs(t) ==
  CASE t.tag = "base" /\ t.kind = "float" -> [r \in {"xmm0"} |-> t]
    [] t.tag = "base" /\ t.kind # "float" /\ t.size = 16 ->
         [r \in {"rax", "rdx"} |-> [t EXCEPT !.size = 8]]
    [] t.tag = "base" /\ t.kind # "float" /\ t.size < 16 ->
         [r \in {CHOOSE q \in {"al", "ax", "eax", "rax"} : RegWidth(q) = t.size} |-> t]
    [] t.tag = "pointer" -> [r \in {"rax"} |-> t]
    [] t.tag \in {"structure", "union"} /\ t.size > 128 -> [r \in {"rax"} |-> Pointer(t)]
    [] OTHER -> <<>>

Targets(p, insn) == IF IsImm(insn.op[1]) THEN {insn.op[1].val} \intersect DOMAIN p.callee ELSE {}

\* ctx.insert of registers and their types.
InsertRegs(a, regs) ==
  [NoteABI(a, DOMAIN regs) EXCEPT
     !.ctx = UnionContext(<<@, [o \in {Reg(r) : r \in DOMAIN regs} |-> regs[o.reg]]>>)]

\* insnSemForwardOP1Call
ForwardCall(p, a, insn) ==
  LET b == [a EXCEPT !.ctx = ClearCalled(@)]
      T == Targets(p, insn)
  IN IF T = {} THEN b ELSE InsertRegs(b, ReturnRegs(p.callee[CHOOSE t \in T : TRUE].ret))

\* The switch of forwardInferenceInStatement, by groups of instructions.
Widening   == {"cdq", "cbw", "cwde", "cdqe"}
X87        == {"clobber", "fld", "fist"}   \* clobber: fnstcw, movmskpd, bsf, ...
Arithmetic == {"cmp", "logic", "setcc", "add", "sub"}

ForwardWiden(a, insn) ==
  LET rax == {"al", "ax", "eax", "rax"}
  IN CASE insn.id = "cdq"  -> [a EXCEPT !.ctx = RemoveRegs(@, {"dl", "dx", "edx", "rdx"})]
       [] insn.id = "cbw"  -> [a EXCEPT !.ctx = Insert(RemoveReg(@, "ah"), Reg("ax"), SInt(2))]
       [] insn.id = "cwde" -> [a EXCEPT !.ctx = Insert(RemoveRegs(@, rax), Reg("ax"), SInt(2))]
       [] insn.id = "cdqe" -> [a EXCEPT !.ctx = Insert(RemoveRegs(@, rax), Reg("rax"), SInt(8))]

ForwardX87(a, insn) ==
  LET n == SizeOf(a, insn.op[1])
  IN CASE insn.id = "clobber" -> [a EXCEPT !.ctx = RemoveOP(@, insn.op[1])]
       [] insn.id = "fld"     -> Set(a, insn.op[1], Float(IF n = 10 THEN 8 ELSE n))
       [] insn.id = "fist"    -> Set(a, insn.op[1], SInt(n))

ForwardArithmetic(p, a, c, insn, on) ==
  CASE insn.id = "cmp"   -> ForwardCMP(p, a, c, insn, on)
    [] insn.id = "logic" -> ForwardLOGIC(p, a, c, insn, on)
    [] insn.id = "setcc" -> [a EXCEPT !.ctx = Insert(RemoveReg(@, insn.op[1].reg), insn.op[1], Bool)]
    [] insn.id \in {"add", "sub"} -> ForwardADDSUB(p, a, c, insn, on)

\* What both inferences do before their switch.
Prepare(a, insn) == NoteOperands([a EXCEPT !.ctx = RemoveReg(@, "rip")], insn)

Forward(p, a, c, insn, on) ==
  CASE insn.id = "call"  -> ForwardCall(p, a, insn)
    [] insn.id = "movzx" -> ForwardExtend(a, insn, FALSE)
    [] insn.id \in {"movsx", "movsxd"} -> ForwardExtend(a, insn, TRUE)
    [] insn.id = "mov"   -> ForwardMOV(p, a, c, insn, on)
    [] insn.id = "lea"   -> ForwardLEA(p, a, c, insn, on)
    [] insn.id \in Widening   -> ForwardWiden(a, insn)
    [] insn.id \in X87        -> ForwardX87(a, insn)
    [] insn.id \in Arithmetic -> ForwardArithmetic(p, a, c, insn, on)
    [] OTHER -> a       \* nop, jmp, ret, leave, push, pop, shl, mul, ...

-----------------------------------------------------------------------------
\* Backward: from the context behind an instruction to the one before it.
\* Nothing is looked up among the variables.

\* insnSemBackwardOP2EQ
BackwardEQ(a, insn) ==
  LET t0 == WithContext(a.ctx, insn.op[1])
      t1 == WithContext(a.ctx, insn.op[2])
      t  == IF t0 # NoType /\ t1 # NoType THEN UnionVType(t0, t1)
            ELSE IF t0 # NoType THEN t0 ELSE t1
  IN IF t = NoType THEN a ELSE Set(Set(a, insn.op[1], t), insn.op[2], t)

\* insnSemBackwardOP2Dst1: the source had the type of the destination.
BackwardDst1(a, insn) ==
  LET t == WithContext(a.ctx, insn.op[1])
      b == IF t = NoType THEN a ELSE Set(a, insn.op[2], t)
  IN [b EXCEPT !.ctx = RemoveOP(@, insn.op[1])]

\* insnSemBackwardOP2MOVFamily: a canary, an immediate or a global is no source
\* to give a type to, and then the destination keeps the type it had behind.
BackwardMOV(a, insn) ==
  LET o0 == insn.op[1]
      o1 == insn.op[2]
  IN IF \/ IsImm(o1) \/ (IsReg(o0) /\ IsGlobalMem(o1))
        \/ IsMem(o1) /\ o1.seg = "fs" /\ o1.base = NoReg /\ o1.index = NoReg /\ o1.disp = 40
     THEN a ELSE BackwardDst1(a, insn)

\* insnSemBackwardOP2LEA
BackwardLEA(a, insn) ==
  LET t == WithContext(a.ctx, insn.op[1])
      b == IF t # NoType THEN SetObject(a, insn.op[2], t) ELSE a
  IN IF t # NoType /\ ~IsPointerType(t) THEN a
     ELSE [b EXCEPT !.ctx = RemoveOP(@, insn.op[1])]

\* insnSemBackwardOP2ADDSUBFamily
BackwardADDSUB(a, insn) ==
  LET o0 == insn.op[1]
      o1 == insn.op[2]
      t0 == WithContext(a.ctx, o0)
      t1 == WithContext(a.ctx, o1)
  IN IF IsImm(o1) \/ o0 = Reg("rsp") THEN a
     ELSE IF t0 # NoType THEN AddTo(a, o0, o1, t0, SInt(SizeOf(a, o1)))
     ELSE IF t1 # NoType THEN AddTo(a, o1, o0, t1, t1)
     ELSE a

\* insnSemBackwardOP2LOGICFamily and CMPFamily: as forward, with BackwardEQ
\* where neither operand tells its type.
BackwardTest(a, insn) ==
  LET o0 == insn.op[1]
      o1 == insn.op[2]
      t  == IF insn.id = "logic" THEN UInt(SizeOf(a, o0)) ELSE SInt(SizeOf(a, o0))
  IN IF IsReg(o0) /\ IsImm(o1) /\ (insn.id = "logic" \/ o1.val # 0)
     THEN [a EXCEPT !.ctx = Insert(@, o0, t)]
     ELSE IF insn.id = "cmp" /\ IsXMMReg(o0) /\ IsGlobalMem(o1)
     THEN LET b == [a EXCEPT !.ctx = Insert(@, o0, Float(o1.size))] IN Set(b, o1, b.ctx[o0])
     ELSE BackwardEQ(a, insn)

\* The registers of the System V ABI the parameters of types ts are passed in:
\* <<register, type>>, one INTEGER or SSE register for each scalar.
IsIntegerClass(t) == t.size <= 8 /\ (IsPointerType(t) \/ t = Bool \/ IsIntegerType(t))
IsSSEClass(t)     == t.size <= 8 /\ IsFloatType(t)

IntegerClassRegisters ==
  <<<<"edi", "rdi">>, <<"esi", "rsi">>, <<"edx", "rdx">>,
    <<"ecx", "rcx">>, <<"r8d", "r8">>, <<"r9d", "r9">>>>
SSEClassRegisters == <<"xmm0", "xmm1", "xmm2", "xmm3", "xmm4", "xmm5", "xmm6", "xmm7">>

ParameterRegs(ts) ==
  LET integer == {i \in DOMAIN ts : IsIntegerClass(ts[i])}
      sse     == {i \in DOMAIN ts : IsSSEClass(ts[i])}
      nth(i, C) == Cardinality({j \in C : j <= i})
      reg(i) == IF i \in integer /\ nth(i, integer) <= Len(IntegerClassRegisters)
                THEN IntegerClassRegisters[nth(i, integer)][IF ts[i].size > 4 THEN 2 ELSE 1]
                ELSE IF i \in sse /\ nth(i, sse) <= Len(SSEClassRegisters)
                THEN SSEClassRegisters[nth(i, sse)] ELSE NoReg
  IN [i \in DOMAIN ts |-> <<reg(i), ts[i]>>]

\* ctx[reg] = type, one after the other: of one key the last stays.
SetRegs(a, regs) ==
  LET n == Len(regs)
      one(i) == [o \in {Reg(regs[i][1])} |-> regs[i][2]]
      ctxs(ctx) == [k \in 1 .. n + 1 |-> IF k <= n THEN one(n + 1 - k) ELSE ctx]
  IN [NoteABI(a, {regs[i][1] : i \in DOMAIN regs}) EXCEPT !.ctx = UnionContext(ctxs(@))]

\* insnSemBackwardOP1Call: the arguments of a library function.
BackwardCall(p, a, insn) ==
  LET b == [a EXCEPT !.ctx = ClearCalled(@)]
      T == {t \in Targets(p, insn) : p.callee[t].dyn}
  IN IF T = {} THEN b ELSE SetRegs(b, ParameterRegs(p.callee[CHOOSE t \in T : TRUE].params))

\* insnSemBackwardOP2MOVZX, MOVSX, MOVSXD: only the source is given a type.
BackwardExtend(a, insn, signed) ==
  Set(a, insn.op[2], IF insn.id = "movsxd" THEN SInt(4)
                     ELSE IntegerType(signed, SizeOf(a, insn.op[2])))

\* The switch of backwardInferenceInStatement.
BackwardWiden(a, insn) ==
  LET rax == {"al", "ax", "eax", "rax"}
  IN CASE insn.id = "cdq"  -> [a EXCEPT !.ctx = RemoveRegs(@, {"dl", "dx", "edx", "rdx"})]
       [] insn.id = "cbw"  -> [a EXCEPT !.ctx = RemoveRegs(@, rax)]
       [] insn.id = "cwde" -> [a EXCEPT !.ctx = Insert(RemoveRegs(@, rax), Reg("al"), SInt(1))]
       [] insn.id = "cdqe" -> [a EXCEPT !.ctx = Insert(RemoveRegs(@, rax), Reg("eax"), SInt(4))]

BackwardX87(a, insn) == [a EXCEPT !.ctx = RemoveOP(@, insn.op[1])]

BackwardArithmetic(a, insn) ==
  CASE insn.id \in {"cmp", "logic"} -> BackwardTest(a, insn)
    [] insn.id = "setcc" -> [a EXCEPT !.ctx = RemoveReg(@, insn.op[1].reg)]
    [] insn.id \in {"add", "sub"} -> BackwardADDSUB(a, insn)

Backward(p, a, insn) ==
  CASE insn.id = "call"  -> BackwardCall(p, a, insn)
    [] insn.id = "movzx" -> BackwardExtend(a, insn, FALSE)
    [] insn.id \in {"movsx", "movsxd"} -> BackwardExtend(a, insn, TRUE)
    [] insn.id = "mov"   -> BackwardMOV(a, insn)
    [] insn.id = "lea"   -> BackwardLEA(a, insn)
    [] insn.id \in Widening   -> BackwardWiden(a, insn)
    [] insn.id \in X87        -> BackwardX87(a, insn)
    [] insn.id \in Arithmetic -> BackwardArithmetic(a, insn)
    [] OTHER -> a
=============================================================================
