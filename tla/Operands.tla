------------------------------ MODULE Operands ------------------------------
(***************************************************************************)
(* What an analysis computes with: the operands of instructions            *)
(* (lib/Core/TIOperand.cpp), the types it gives them, the contexts that    *)
(* map operands to types, and the distance of rsp and rbp from the         *)
(* canonical frame address (CFA).                                          *)
(*                                                                         *)
(* An instruction is a record [id, op, next]: its family, its operands in  *)
(* order and the address behind it.  Mnemonics the code treats alike are   *)
(* one family.  A context is a function from a finite set of operands.     *)
(***************************************************************************)
EXTENDS Integers, Sequences, FiniteSets

\* The first element of s at a position in I.
FirstOf(s, I, default) ==
  IF I = {} THEN default ELSE s[CHOOSE i \in I : \A j \in I : i <= j]

\* X86_REG_INVALID.
NoReg == "none"

\* isCallingReg: the registers a callee preserves, with their parts.
CalleeSaved ==
  {"bl", "bx", "ebx", "rbx", "bp", "ebp", "rbp", "sp", "esp", "rsp",
   "r12d", "r12", "r13d", "r13", "r14d", "r14", "r15d", "r15"}

XmmReg == {"xmm0", "xmm1", "xmm2", "xmm3", "xmm4", "xmm5", "xmm6", "xmm7"}

\* Registers that are not 8 bytes wide (capstone's cs_x86_op.size).
RegWidth(r) ==
  CASE r \in {"al", "ah", "dl", "bl"}                        -> 1
    [] r \in {"ax", "dx", "bx", "bp", "sp"}                  -> 2
    [] r \in {"eax", "edx", "ebx", "edi", "esi", "ecx", "ebp", "esp",
              "r12d", "r13d", "r14d", "r15d"}                -> 4
    [] r \in XmmReg                                          -> 16
    [] OTHER                                                 -> 8

\* The factory compares a register by its number alone, an immediate and a
\* memory reference by size too: equal operands are one TIOperandRef.
Reg(r)    == [kind |-> "reg", reg |-> r]
Imm(v, n) == [kind |-> "imm", val |-> v, size |-> n]
Mem(s, b, i, d, n) ==
  [kind |-> "mem", seg |-> s, base |-> b, index |-> i, disp |-> d, size |-> n]

IsReg(o)       == o.kind = "reg"
IsMem(o)       == o.kind = "mem"
IsImm(o)       == o.kind = "imm"
IsXMMReg(o)    == IsReg(o) /\ o.reg \in XmmReg
IsGlobalMem(o) == IsMem(o) /\ o.base = "rip"
IsStackMem(o)  == IsMem(o) /\ o.base \in {"rsp", "rbp"}

\* The registers a memory operand depends on.
RegsOf(o) == IF IsReg(o) THEN {o.reg}
             ELSE IF IsMem(o) THEN {o.base, o.index, o.seg} \ {NoReg} ELSE {}

-----------------------------------------------------------------------------
\* Types.  A union the calculator makes has a name of its own; here it is its
\* memory model, so two unions of the same types are one value, and joining them
\* gives that value, where the calculator makes a third union of the same members.

NoType       == [tag |-> "null"]                     \* nullptr
Base(k, n)   == [tag |-> "base", kind |-> k, size |-> n]
Void         == [tag |-> "void", size |-> 0]
Bool         == Base("bool", 1)
SInt(n)      == Base("int", n)
UInt(n)      == Base("uint", n)
Float(n)     == Base("float", n)
Pointer(t)   == [tag |-> "pointer", obj |-> t, size |-> 8]
Aggregate(k, n, m) == [tag |-> k, size |-> n, mem |-> m]  \* m: <<pos, type>>s

IsIntegerType(t) == t.tag = "base" /\ t.kind \in {"int", "uint"}
IsFloatType(t)   == t.tag = "base" /\ t.kind = "float"
IsPointerType(t) == t.tag = "pointer"
IsAggregate(t)   == t.tag \in {"structure", "union", "array"}
HasMembers(t)    == IsAggregate(t) \/ t.tag = "newUnion"
IntegerType(signed, n) == IF signed THEN SInt(n) ELSE UInt(n)

\* A scalar's memory model is the scalar itself at 0; an integer of 16 bytes has
\* its halves.
MemoryModel(t) ==
  IF HasMembers(t) THEN t.mem
  ELSE IF IsIntegerType(t) /\ t.size = 16
       THEN <<<<0, Base(t.kind, 8)>>, <<8, Base(t.kind, 8)>>>>
       ELSE IF t.tag \in {"base", "pointer"} THEN <<<<0, t>>>> ELSE <<>>

\* What a type is in the union it becomes part of.
UnionPart(t) == IF HasMembers(t) THEN t.mem ELSE <<<<0, t>>>>

Max2(a, b) == IF a > b THEN a ELSE b

\* A std::set of <<position, type>>: by position, types at one position by their
\* addresses, which are not known here: some order.
ByOffset(S) ==
  CHOOSE s \in [1 .. Cardinality(S) -> S] :
    \A i, j \in DOMAIN s : i < j => s[i][1] <= s[j][1] /\ s[i] # s[j]

\* getUnionVType on types of contexts.  A scalar comes behind the members of a
\* union, unless it is one of them; those of two unions are put in order.  An
\* aggregate would end in FIG_UNREACH.
UnionVType(a, b) ==
  LET members(u) == {UnionPart(u)[i] : i \in DOMAIN UnionPart(u)}
      union(m)   == [tag |-> "newUnion", size |-> Max2(a.size, b.size), mem |-> m]
      add(u, t)  == IF <<0, t>> \in members(u) THEN u ELSE union(Append(UnionPart(u), <<0, t>>))
  IN IF a = b THEN a
     ELSE IF b.tag # "newUnion" THEN add(a, b)
     ELSE IF a.tag # "newUnion" THEN add(b, a)
     ELSE union(ByOffset(members(a) \union members(b)))

\* getFirstVTypeInMemoryModel: at offset 0 the first type of that size, else
\* the first; Void when there is none.
FirstVType(t, n) ==
  LET mm    == MemoryModel(t)
      at0   == {i \in DOMAIN mm : mm[i][1] = 0}
      sized == {i \in at0 : mm[i][2].size = n}
  IN FirstOf(mm, IF sized # {} THEN sized ELSE at0, <<0, Void>>)[2]

-----------------------------------------------------------------------------
\* Contexts.

Empty           == <<>>
Put(ctx, o, t)  == [x \in DOMAIN ctx \union {o} |-> IF x = o THEN t ELSE ctx[x]]  \* ctx[o] = t
Insert(ctx, o, t) == IF o \in DOMAIN ctx THEN ctx ELSE Put(ctx, o, t)
Keep(ctx, S)    == [o \in S \intersect DOMAIN ctx |-> ctx[o]]

\* insnSemRemoveReg: the register and the memory operands that use it.  Its
\* wider and narrower names stay.
RemoveReg(ctx, r) ==
  Keep(ctx, {o \in DOMAIN ctx : r \notin RegsOf(o)})
RemoveRegs(ctx, R) ==
  Keep(ctx, {o \in DOMAIN ctx : RegsOf(o) \intersect R = {}})

\* insnSemRemoveOP
RemoveOP(ctx, o) ==
  IF IsReg(o) THEN RemoveReg(ctx, o.reg) ELSE Keep(ctx, DOMAIN ctx \ {o})

\* clearCalledOP: what a call leaves.  The segment is not looked at.
ClearCalled(ctx) ==
  LET invalidOrCalling(r) == r = NoReg \/ r \in CalleeSaved
  IN Keep(ctx, {o \in DOMAIN ctx :
       /\ IsReg(o) => o.reg \in CalleeSaved
       /\ IsMem(o) => invalidOrCalling(o.base) /\ invalidOrCalling(o.index)})

\* unionTIContext of one context after the other: under a key that exists the
\* union type is computed and insert() keeps the old type.
UnionContext(ctxs) ==
  [o \in UNION {DOMAIN ctxs[i] : i \in DOMAIN ctxs} |->
     FirstOf(ctxs, {i \in DOMAIN ctxs : o \in DOMAIN ctxs[i]}, Empty)[o]]

\* Mutant: what the base register points to, whole.
WithContextWhole(ctx, o) ==
  IF o \in DOMAIN ctx THEN ctx[o]
  ELSE IF ~IsMem(o) \/ Reg(o.base) \notin DOMAIN ctx THEN NoType
  ELSE IF IsPointerType(ctx[Reg(o.base)]) THEN ctx[Reg(o.base)].obj ELSE NoType

\* getVTypeWithContext: the operand itself, or what its base register points
\* to.  Neither the width of the access nor, for a scalar, its offset count.
WithContext(ctx, o) ==
  IF o \in DOMAIN ctx THEN ctx[o]
  ELSE IF ~IsMem(o) \/ Reg(o.base) \notin DOMAIN ctx THEN NoType
  ELSE LET t == ctx[Reg(o.base)] IN
    IF ~IsPointerType(t) THEN NoType
    ELSE IF t.obj.tag \in {"pointer", "base"} THEN t.obj
    ELSE LET mm == MemoryModel(t.obj)
             at == {i \in DOMAIN mm : mm[i][1] = o.disp}
         IN IF /\ HasMembers(t.obj) /\ o.seg = NoReg /\ o.index = NoReg
               /\ o.disp < t.obj.size
            THEN FirstOf(mm, at, <<0, NoType>>)[2] ELSE NoType

-----------------------------------------------------------------------------
\* The frame: CFA - rsp is c.rsp; CFA - rbp is c.rbp when c.frame holds.

InitCFA == [rsp |-> 8, rbp |-> 0, frame |-> FALSE]

Uses(insn, i, r) == Len(insn.op) >= i /\ insn.op[i] = Reg(r)

\* initializeCFAForInsn: the frame behind an instruction.
InsnCFA(c, insn) ==
  CASE insn.id = "push" -> [c EXCEPT !.rsp = @ + 8]
    [] insn.id = "mov" /\ Uses(insn, 1, "rbp") /\ Uses(insn, 2, "rsp") ->
         [c EXCEPT !.rbp = c.rsp, !.frame = TRUE]
    [] insn.id = "leave" -> [c EXCEPT !.rsp = c.rbp - 8, !.frame = FALSE]
    [] insn.id = "pop" ->
         [c EXCEPT !.rsp = @ - 8, !.frame = @ /\ ~Uses(insn, 1, "rbp")]
    [] insn.id = "ret" -> [c EXCEPT !.rsp = @ - 8]
    [] insn.id = "sub" /\ Uses(insn, 1, "rsp") /\ IsImm(insn.op[2]) ->
         [c EXCEPT !.rsp = @ + insn.op[2].val]
    [] insn.id = "add" /\ Uses(insn, 1, "rsp") /\ IsImm(insn.op[2]) ->
         [c EXCEPT !.rsp = @ - insn.op[2].val]
    [] OTHER -> c
=============================================================================
