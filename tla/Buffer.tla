------------------------------- MODULE Buffer -------------------------------
(***************************************************************************)
(* Numbers in a section (lib/Utils/Buffer.cpp).  A section is a sequence   *)
(* of bytes, an offset counts from 0.  What is behind the section reads as *)
(* 0 here; no property lets a reader get there.                            *)
(*                                                                         *)
(* Values are below 2^31, so no shift passes the 64 bits of the code's     *)
(* integers; the code checks the number of bytes in debug builds only.     *)
(***************************************************************************)
EXTENDS Integers, Sequences

Byte(b, o) == IF o < Len(b) THEN b[o + 1] ELSE 0
Bytes(b, o, n) == [i \in 1 .. n |-> Byte(b, o + i - 1)]

\* read_u8, u16, u24, u32, u64: the lowest byte first.
ReadU(b, o, n) ==
  LET f[i \in 0 .. n] == IF i = 0 THEN 0 ELSE 256 * f[i - 1] + Byte(b, o + n - i)
  IN f[n]

\* read_i8, i16, i32, i64: the highest byte has the sign.
ReadI(b, o, n) ==
  LET top == Byte(b, o + n - 1)
      f[i \in 1 .. n] == IF i = 1 THEN IF top > 127 THEN top - 256 ELSE top
                         ELSE 256 * f[i - 1] + Byte(b, o + n - i)
  IN f[n]

\* write_u8, i8, ...: the n lowest bytes, by division that rounds down.
Put[n \in Nat] ==
  [v \in Int |-> IF n = 0 THEN <<>> ELSE <<v % 256>> \o Put[n - 1][v \div 256]]

\* read_string: the bytes up to the zero, and it.
StringLength(b, o) ==
  LET f[n \in Nat] == IF Byte(b, o + n - 1) = 0 THEN n ELSE f[n + 1] IN f[1]

-----------------------------------------------------------------------------
\* LEB128.

\* __get_length_leb128: the bytes up to one with its high bit clear.
LebLength(b, o) ==
  LET f[n \in Nat] == IF Byte(b, o + n - 1) < 128 THEN n ELSE f[n + 1] IN f[1]

\* read_leb128u
ULeb(b, o) ==
  LET n == LebLength(b, o)
      f[i \in 0 .. n] == IF i = 0 THEN 0 ELSE 128 * f[i - 1] + (Byte(b, o + n - i) % 128)
  IN f[n]

\* read_leb128s: bit 6 of the last byte is the sign.
SLeb(b, o) ==
  LET n   == LebLength(b, o)
      top == Byte(b, o + n - 1) % 128
      f[i \in 1 .. n] == IF i = 1 THEN IF top > 63 THEN top - 128 ELSE top
                         ELSE 128 * f[i - 1] + (Byte(b, o + n - i) % 128)
  IN f[n]

\* write_leb128u, write_leb128s and their lengths: groups of seven bits until
\* what is left says nothing more.
PutULeb[v \in Nat] ==
  IF v < 128 THEN <<v>> ELSE <<(v % 128) + 128>> \o PutULeb[v \div 128]
ULebLength[v \in Nat] == IF v < 128 THEN 1 ELSE 1 + ULebLength[v \div 128]

SignOnly(v) == (v \div 128 = 0 /\ v % 128 < 64) \/ (v \div 128 = -1 /\ v % 128 > 63)

PutSLeb[v \in Int] ==
  IF SignOnly(v) THEN <<v % 128>> ELSE <<(v % 128) + 128>> \o PutSLeb[v \div 128]

SLebLength[v \in Int] == IF SignOnly(v) THEN 1 ELSE 1 + SLebLength[v \div 128]

\* No byte: write_leb128u_fixed_length panics when the length is too small.
TooSmall == -1

\* write_leb128u_fixed_length, write_leb128s_fixed_length: in n bytes.
FixULeb[n \in Nat] ==
  [v \in Nat |-> IF n > 1 THEN <<(v % 128) + 128>> \o FixULeb[n - 1][v \div 128]
                 ELSE IF v < 128 THEN <<v>> ELSE <<TooSmall>>]
FixSLeb[n \in Nat] ==
  [v \in Int |-> IF n > 1 THEN <<(v % 128) + 128>> \o FixSLeb[n - 1][v \div 128]
                 ELSE IF SignOnly(v) THEN <<v % 128>> ELSE <<TooSmall>>]
=============================================================================
