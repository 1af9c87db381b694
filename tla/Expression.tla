----------------------------- MODULE Expression -----------------------------
(***************************************************************************)
(* DWARF expressions: DWARFExprParser reads the operations of a block, a   *)
(* DWARFOP knows how its operands are read and, in a table of its own, how *)
(* they are written (lib/DWARF/DWARFOP.cpp).                               *)
(*                                                                         *)
(* An operation is a record [operation, operands, block]; an operand keeps *)
(* its value and the number of bytes it was read from.  operation is the   *)
(* number that dwarf.h gives it: 0x03 is DW_OP_addr.                       *)
(***************************************************************************)
EXTENDS Buffer

\* How an operand is read or written.
Unsigned(n) == [kind |-> "u", n |-> n]
Signed(n)   == [kind |-> "i", n |-> n]
Uleb == [kind |-> "uleb", n |-> 0]
Sleb == [kind |-> "sleb", n |-> 0]
Unknown == <<[kind |-> "panic", n |-> 0]>>    \* FIG_PANIC
IsUnknown(kinds) == kinds = Unknown

Wide(bits) == IF bits = 64 THEN 8 ELSE 4

\* DW_OP_addr, deref, const1u ... const8s, constu, consts
ReadLiterals(op, addressSize) ==
  CASE op = 3  -> <<Unsigned(IF addressSize = 8 THEN 8 ELSE 4)>>
    [] op = 6  -> <<>>
    [] op \in {8, 10, 12, 14} -> <<Unsigned(2 ^ ((op - 8) \div 2))>>
    [] op \in {9, 11, 13, 15} -> <<Signed(2 ^ ((op - 9) \div 2))>>
    [] op = 16 -> <<Uleb>>
    [] op = 17 -> <<Sleb>>

\* dup ... ne and skip: of these pick, plus_uconst, bra and skip have operands.
ReadStackOps(op) ==
  CASE op = 21 -> <<Unsigned(1)>>
    [] op = 35 -> <<Uleb>>
    [] op \in {40, 47} -> <<Signed(2)>>
    [] OTHER -> <<>>

\* Mutant: the operand of DW_OP_fbreg is read as an unsigned number.
ReadRegistersUnsigned(op) ==
  CASE op \in 112 .. 143 -> <<Sleb>>
    [] op \in {144, 145} -> <<Uleb>>
    [] op = 146 -> <<Uleb, Sleb>>

\* breg0 ... breg31, regx, fbreg, bregx
ReadRegisters(op) ==
  CASE op \in 112 .. 143 \union {145} -> <<Sleb>>
    [] op = 144 -> <<Uleb>>
    [] op = 146 -> <<Uleb, Sleb>>

\* piece, deref_size, xderef_size, nop, push_object_address, call2, call4,
\* call_ref, form_tls_address, call_frame_cfa, bit_piece
ReadPieces(op, bits) ==
  CASE op = 147 -> <<Uleb>>
    [] op \in {148, 149} -> <<Unsigned(1)>>
    [] op \in {150, 151, 155, 156} -> <<>>
    [] op = 152 -> <<Unsigned(2)>>
    [] op = 153 -> <<Unsigned(4)>>
    [] op = 154 -> <<Unsigned(Wide(bits))>>
    [] op = 157 -> <<Uleb, Uleb>>

\* implicit_value, stack_value, implicit_pointer, addrx, constx, entry_value,
\* const_type, regval_type, deref_type, xderef_type, convert, reinterpret
ReadTyped(op, bits) ==
  CASE op \in {158, 161, 162, 163, 168, 169} -> <<Uleb>>
    [] op = 159 -> <<>>
    [] op = 160 -> <<Unsigned(Wide(bits)), Sleb>>
    [] op = 164 -> <<Uleb, Unsigned(1)>>
    [] op = 165 -> <<Uleb, Uleb>>
    [] op \in {166, 167} -> <<Unsigned(1), Uleb>>

\* The GNU operations; those of other vendors are not supported.
ReadExtensions(op, bits) ==
  CASE op = 240 -> <<>>                                \* uninit
    [] op = 242 -> <<Unsigned(Wide(bits)), Sleb>>      \* implicit_pointer
    [] op \in {243, 247, 249} -> <<Uleb>>              \* entry_value, convert, ...
    [] op = 244 -> <<Uleb, Unsigned(1)>>               \* const_type
    [] op = 245 -> <<Uleb, Uleb>>                      \* regval_type
    [] op = 246 -> <<Unsigned(1), Uleb>>               \* deref_type
    [] op = 250 -> <<Unsigned(4)>>                     \* parameter_ref
    [] OTHER -> Unknown

\* The switch of DWARFOP::init.
ReadKinds(op, bits, addressSize) ==
  CASE op \in {3, 6} \union 8 .. 17 -> ReadLiterals(op, addressSize)
    [] op \in 18 .. 47   -> ReadStackOps(op)
    [] op \in 48 .. 111  -> <<>>            \* lit0 ... lit31, reg0 ... reg31
    [] op \in 112 .. 146 -> ReadRegisters(op)
    [] op \in 147 .. 157 -> ReadPieces(op, bits)
    [] op \in 158 .. 169 -> ReadTyped(op, bits)
    [] OTHER -> ReadExtensions(op, bits)

\* The number of bytes that follow the operands: an operand says so.
BlockSize(op, operands) ==
  CASE op \in {158, 163, 243} -> operands[1].value
    [] op \in {164, 244}      -> operands[2].value
    [] OTHER -> 0

Operand(b, o, kind) ==
  LET n == IF kind.kind \in {"uleb", "sleb"} THEN LebLength(b, o) ELSE kind.n
  IN [size |-> n,
      value |-> CASE kind.kind = "u"    -> ReadU(b, o, n)
                  [] kind.kind = "i"    -> ReadI(b, o, n)
                  [] kind.kind = "uleb" -> ULeb(b, o)
                  [] kind.kind = "sleb" -> SLeb(b, o)]

SizeOfOperands(operands) ==
  CASE Len(operands) = 0 -> 0
    [] Len(operands) = 1 -> operands[1].size
    [] Len(operands) = 2 -> operands[1].size + operands[2].size

SizeOfOp(op) == 1 + SizeOfOperands(op.operands) + Len(op.block)

\* DWARFOP::init on an operation that is supported.
ReadOp(b, o, bits, addressSize) ==
  LET op    == Byte(b, o)
      kinds == ReadKinds(op, bits, addressSize)
      first == [i \in 1 .. (IF kinds = <<>> THEN 0 ELSE 1) |-> Operand(b, o + 1, kinds[1])]
      all   == IF Len(kinds) < 2 THEN first
               ELSE Append(first, Operand(b, o + 1 + first[1].size, kinds[2]))
  IN [operation |-> op, operands |-> all,
      block |-> Bytes(b, o + 1 + SizeOfOperands(all), BlockSize(op, all))]

\* DWARFExprParser::init: operations until the size is used up.  The result
\* ends with NoOp where the tool panics.
NoOp == [operation |-> -1, operands |-> <<>>, block |-> <<>>]
ReadExpr(b, bits, addressSize) ==
  LET f[o \in Nat] ==
        IF o >= Len(b) THEN <<>>
        ELSE IF IsUnknown(ReadKinds(Byte(b, o), bits, addressSize)) THEN <<NoOp>>
        ELSE LET op == ReadOp(b, o, bits, addressSize) IN <<op>> \o f[o + SizeOfOp(op)]
  IN f[0]

-----------------------------------------------------------------------------
\* DWARFOP::write has the same groups, and the sizes that were read.

Fixed(size) == Unsigned(size)
Address(size) == Fixed(IF size = 8 THEN 8 ELSE 4)

WriteLiterals(op, size) ==
  CASE op = 3  -> <<Address(size[1])>>
    [] op = 6  -> <<>>
    [] op \in {8, 9}   -> <<Fixed(1)>>
    [] op \in {10, 11} -> <<Fixed(2)>>
    [] op \in {12, 13} -> <<Fixed(4)>>
    [] op \in {14, 15} -> <<Fixed(8)>>
    [] op = 16 -> <<Uleb>>
    [] op = 17 -> <<Sleb>>

WriteStackOps(op) ==
  CASE op = 21 -> <<Fixed(1)>>
    [] op = 35 -> <<Uleb>>
    [] op \in {40, 47} -> <<Fixed(2)>>
    [] OTHER -> <<>>

WriteRegisters(op) ==
  CASE op = 144 -> <<Uleb>>
    [] op = 146 -> <<Uleb, Sleb>>
    [] OTHER    -> <<Sleb>>

WritePieces(op, size) ==
  CASE op = 147 -> <<Uleb>>
    [] op \in {148, 149} -> <<Fixed(1)>>
    [] op = 152 -> <<Fixed(2)>>
    [] op = 153 -> <<Fixed(4)>>
    [] op = 154 -> <<Address(size[1])>>
    [] op = 157 -> <<Uleb, Uleb>>
    [] OTHER    -> <<>>

WriteTyped(op, size) ==
  CASE op = 159 -> <<>>
    [] op = 160 -> <<Address(size[1]), Sleb>>
    [] op = 164 -> <<Uleb, Fixed(1)>>
    [] op = 165 -> <<Uleb, Uleb>>
    [] op \in {166, 167} -> <<Fixed(1), Uleb>>
    [] OTHER -> <<Uleb>>

WriteExtensions(op, size) ==
  CASE op = 242 -> <<Address(size[1]), Sleb>>
    [] op \in {243, 247, 249} -> <<Uleb>>
    [] op = 244 -> <<Uleb, Fixed(1)>>
    [] op = 245 -> <<Uleb, Uleb>>
    [] op = 246 -> <<Fixed(1), Uleb>>
    [] op = 250 -> <<Fixed(4)>>
    [] OTHER    -> <<>>

WriteKinds(op, size) ==
  CASE op \in 3 .. 17    -> WriteLiterals(op, size)
    [] op \in 18 .. 47   -> WriteStackOps(op)
    [] op \in 48 .. 111  -> <<>>
    [] op \in 112 .. 146 -> WriteRegisters(op)
    [] op \in 147 .. 157 -> WritePieces(op, size)
    [] op \in 158 .. 169 -> WriteTyped(op, size)
    [] OTHER -> WriteExtensions(op, size)

PutOperand(operand, kind) ==
  CASE kind.kind = "u"    -> Put[kind.n][operand.value]
    [] kind.kind = "uleb" -> FixULeb[operand.size][operand.value]
    [] kind.kind = "sleb" -> FixSLeb[operand.size][operand.value]

\* Each operand of the record is put with its kind, then the block.
WriteOp(op) ==
  LET kinds == WriteKinds(op.operation, [i \in DOMAIN op.operands |-> op.operands[i].size])
      put(i) == IF i \in DOMAIN kinds THEN PutOperand(op.operands[i], kinds[i]) ELSE <<>>
  IN <<op.operation>> \o put(1) \o put(2) \o op.block

\* DWARFExprParser::write
WriteExpr(ops) ==
  LET f[i \in 0 .. Len(ops)] == IF i = 0 THEN <<>> ELSE f[i - 1] \o WriteOp(ops[i])
  IN f[Len(ops)]
=============================================================================
