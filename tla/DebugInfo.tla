------------------------------ MODULE DebugInfo ------------------------------
(***************************************************************************)
(* .debug_abbrev, .debug_info and .debug_loclists, read byte by byte and   *)
(* written back (lib/DWARF).  AbbrevObject reads the lists of              *)
(* abbreviations, InfoObject the units and their trees of DIEs,            *)
(* LoclistsObject the headers of the location lists; DWARFExprParser reads *)
(* the blocks of form exprloc.                                             *)
(*                                                                         *)
(* A list of abbreviations is a sequence that ends with the null item; an  *)
(* item ends with the null entry.  The tree of a unit is the sequence of   *)
(* its DIEs in the order of the bytes, null DIEs included, each with its   *)
(* depth.                                                                  *)
(***************************************************************************)
EXTENDS Expression

CONSTANTS Inputs    \* the sections that are read: records with the fields
                    \* abbrev, info and loclists, sequences of bytes
ASSUME InputsAssumption ==
  \A in \in Inputs : \A s \in {in.abbrev, in.info, in.loclists} :
    s \in Seq(0 .. 255)

VARIABLES
  input,     \* the file
  phase,     \* what is read or written; "panic" and "undefined" end the tool
  off,       \* the offset in the section
  lists,     \* abbrevlistMap: the offset of a list -> its items
  list,      \* the list that is read: where it begins, its items so far
  units,     \* compilationUnits: their headers, each with its DIEs
  open,      \* the DIEs whose children are being read
  locs,      \* the headers of the location lists
  exprs,     \* <<unit, DIE, attribute>> -> the operations of the block
  out        \* what is written: abbrev, info

vars == <<input, phase, off, lists, list, units, open, locs, exprs, out>>

Abbrev == input.abbrev
Info == input.info

-----------------------------------------------------------------------------
\* Abbreviations.

ImplicitConst == 33
ExprLoc == 24

\* An entry and the offset behind it.
ReadEntry(b, o) ==
  LET form_at  == o + LebLength(b, o)
      const_at == form_at + LebLength(b, form_at)
      form     == ULeb(b, form_at)
  IN IF form = ImplicitConst
     THEN [entry |-> [at |-> ULeb(b, o), form |-> form, const |-> SLeb(b, const_at)],
           next  |-> const_at + LebLength(b, const_at)]
     ELSE [entry |-> [at |-> ULeb(b, o), form |-> form, const |-> 0], next |-> const_at]

IsNullEntry(e) == e.at = 0 /\ e.form = 0

\* The entries from o to the null entry, each with the offset behind it.
ReadEntries(b, o) ==
  LET f[p \in Nat] ==
        LET e == ReadEntry(b, p)
        IN IF IsNullEntry(e.entry) THEN <<e>> ELSE <<e>> \o f[e.next]
  IN f[o]

NullItem == [number |-> 0, tag |-> 0, children |-> FALSE, entries |-> <<>>]

\* An item and the offset behind it; of a null item the number alone is read.
ReadItem(b, o) ==
  LET number == ULeb(b, o)
      tag_at == o + LebLength(b, o)
      has_at == tag_at + LebLength(b, tag_at)
      read   == ReadEntries(b, has_at + 1)
  IN IF number = 0 THEN [item |-> NullItem, next |-> tag_at]
     ELSE [item |-> [number |-> number, tag |-> ULeb(b, tag_at),
                     children |-> Byte(b, has_at) # 0,
                     entries |-> [i \in DOMAIN read |-> read[i].entry]],
           next |-> read[Len(read)].next]

PutEntry(e) ==
  PutULeb[e.at] \o PutULeb[e.form] \o (IF e.form = ImplicitConst THEN PutSLeb[e.const] ELSE <<>>)

Joined(s, Op(_)) ==
  LET f[i \in 0 .. Len(s)] == IF i = 0 THEN <<>> ELSE f[i - 1] \o Op(s[i]) IN f[Len(s)]
Added(s, Op(_)) ==
  LET f[i \in 0 .. Len(s)] == IF i = 0 THEN 0 ELSE f[i - 1] + Op(s[i]) IN f[Len(s)]

PutItem(item) ==
  IF item.number = 0 THEN <<0>>
  ELSE PutULeb[item.number] \o PutULeb[item.tag]
         \o <<IF item.children THEN 1 ELSE 0>> \o Joined(item.entries, PutEntry)

\* Mutant: the size leaves out the constant of an implicit_const.
EntrySizePlain(e) == ULebLength[e.at] + ULebLength[e.form]
EntrySize(e) ==
  ULebLength[e.at] + ULebLength[e.form]
    + (IF e.form = ImplicitConst THEN SLebLength[e.const] ELSE 0)
ItemSize(item) ==
  IF item.number = 0 THEN 1
  ELSE ULebLength[item.number] + ULebLength[item.tag] + 1 + Added(item.entries, EntrySize)
ListSize(items) == Added(items, ItemSize)

-----------------------------------------------------------------------------
\* Attributes.

NoLength == -1    \* FIG_PANIC

\* The forms of a size of their own.
FixedLength(form) ==
  CASE form \in {25, 33} -> 0                          \* flag_present, implicit_const
    [] form \in {11, 12, 17, 37, 41} -> 1              \* data1, flag, ref1, ...
    [] form \in {5, 18, 38, 42} -> 2
    [] form \in {39, 43} -> 3
    [] form \in {6, 19, 28, 40, 44} -> 4
    [] form \in {7, 20, 32, 36} -> 8
    [] form = 30 -> 16
    [] OTHER -> NoLength

\* get_length_abbrev_entry in a unit u
AttrLength(b, o, form, u) ==
  LET f[k \in Nat, p \in Nat] ==
        CASE k \in {14, 16, 23, 29, 31} -> Wide(u.bits)                \* strp, ...
          [] k \in {13, 15, 21, 26, 27, 34, 35} -> LebLength(b, p)    \* sdata, ...
          [] k \in {9, ExprLoc} -> ULeb(b, p) + LebLength(b, p)
          [] k = 1  -> u.addressSize
          [] k = 8  -> StringLength(b, p)
          [] k = 10 -> ReadU(b, p, 1) + 1
          [] k = 3  -> ReadU(b, p, 2) + 2
          [] k = 4  -> ReadU(b, p, 4) + 4
          [] k = 22 -> LET n == LebLength(b, p)                        \* indirect
                           m == f[ULeb(b, p), p + n]
                       IN IF m = NoLength THEN NoLength ELSE n + m
          [] OTHER -> FixedLength(k)
  IN f[form, o]

\* The attributes of a DIE: one for each entry but the null one; fewer where
\* the tool panics.
ReadAttrs(b, o, entries, u) ==
  LET f[i \in 1 .. Len(entries), p \in Nat] ==
        IF IsNullEntry(entries[i]) THEN <<>>
        ELSE LET n == AttrLength(b, p, entries[i].form, u)
             IN IF n = NoLength THEN <<>>
                ELSE <<[offset |-> p, bytes |-> Bytes(b, p, n)]>> \o f[i + 1, p + n]
  IN IF entries = <<>> THEN <<>> ELSE f[1, o]

SizeOfAttrs(attrs) == Added(attrs, LAMBDA a : Len(a.bytes))

-----------------------------------------------------------------------------
\* Headers of units.

Escape == <<255, 255, 255, 255>>
IsWide(b, o) == Bytes(b, o, 4) = Escape
LengthSize(bits) == IF bits = 64 THEN 12 ELSE 4

\* What follows the header of version 5: dwoId; typeSignature and typeOffset.
ExtraWords(unit_type) ==
  CASE unit_type \in {4, 5, 6} -> 1 [] unit_type = 2 -> 2 [] OTHER -> 0

\* init_unit_header: the version is 4 or 5.
ReadHeader(b, o, module) ==
  LET bits    == IF IsWide(b, o) THEN 64 ELSE 32
      v       == o + LengthSize(bits)
      version == ReadU(b, v, 2)
      type    == IF version = 5 THEN Byte(b, v + 2) ELSE 0
      size_at == IF version = 5 THEN v + 3 ELSE v + 2 + Wide(bits)
      abbr_at == IF version = 5 THEN v + 4 ELSE v + 2
      words   == IF version = 5 THEN ExtraWords(type) ELSE 0
      words_at == v + 4 + Wide(bits)
  IN [offset |-> o, module |-> module, bits |-> bits, version |-> version,
      length |-> IF bits = 64 THEN ReadU(b, o + 4, 8) ELSE ReadU(b, o, 4),
      unit_type |-> type, addressSize |-> Byte(b, size_at),
      abbrevOffset |-> ReadU(b, abbr_at, Wide(bits)),
      words |-> [i \in 1 .. words |-> Bytes(b, words_at + 8 * (i - 1), 8)],
      loclists_base |-> 0, dies |-> <<>>]

\* get_unit_header_size
HeaderSize(u) ==
  IF u.version = 4 THEN IF u.bits = 32 THEN 11 ELSE 23
  ELSE (IF u.bits = 32 THEN 12 ELSE 24) + 8 * ExtraWords(u.unit_type)

PutHeader(u) ==
  (IF u.bits = 64 THEN Escape \o Put[8][u.length] ELSE Put[4][u.length])
    \o Put[2][u.version]
    \o (IF u.version = 4 THEN Put[Wide(u.bits)][u.abbrevOffset] \o <<u.addressSize>>
        ELSE <<u.unit_type, u.addressSize>> \o Put[Wide(u.bits)][u.abbrevOffset])
    \o Joined(u.words, LAMBDA w : w)

DIESize(die) == ULebLength[die.number] + SizeOfAttrs(die.attrs)
PutDIE(die) == PutULeb[die.number] \o Joined(die.attrs, LAMBDA a : a.bytes)
UnitSize(u) == HeaderSize(u) + Added(u.dies, DIESize)
PutUnit(u) == PutHeader(u) \o Joined(u.dies, PutDIE)

AbbrevSize == LET f[o \in 0 .. Len(Abbrev)] ==
                    (IF o \in DOMAIN lists THEN ListSize(lists[o]) ELSE 0)
                      + (IF o = Len(Abbrev) THEN 0 ELSE f[o + 1])
              IN f[0]
InfoSize == Added(units, UnitSize)

-----------------------------------------------------------------------------
Init ==
  /\ input \in Inputs
  /\ phase = "abbrev" /\ off = 0
  /\ lists = <<>> /\ list = [offset |-> 0, items |-> <<>>]
  /\ units = <<>> /\ open = 0 /\ locs = <<>> /\ exprs = <<>>
  /\ out = [abbrev |-> <<>>, info |-> <<>>]

\* AbbrevObject::init and the constructor of AbbrevList: an item; the null
\* item ends the list.  A list that does not end is read from what follows
\* the section.
ReadAbbrevItem ==
  /\ phase = "abbrev" /\ off < Len(Abbrev)
  /\ \E r \in {ReadItem(Abbrev, off)} :
     LET items == Append(list.items, r.item)
     IN /\ off' = r.next
        /\ IF r.item.number = 0
           THEN /\ lists' = [o \in DOMAIN lists \union {list.offset} |->
                               IF o \in DOMAIN lists THEN lists[o] ELSE items]
                /\ list' = [offset |-> r.next, items |-> <<>>]
           ELSE /\ list' = [list EXCEPT !.items = items]
                /\ UNCHANGED lists
        /\ phase' = IF r.next > Len(Abbrev)
                      \/ (r.next = Len(Abbrev) /\ r.item.number # 0)
                    THEN "undefined" ELSE phase
  /\ UNCHANGED <<input, units, open, locs, exprs, out>>

AbbrevsRead ==
  /\ phase = "abbrev" /\ off >= Len(Abbrev)
  /\ phase' = "unit" /\ off' = 0
  /\ UNCHANGED <<input, lists, list, units, open, locs, exprs, out>>

\* Mutant: whatever is left is a unit.
MoreUnitsAny == Len(Info) > off
MoreUnits == Len(Info) - off >= 12

\* InfoObject::init and the constructor of CompilationUnit: the header.
ReadUnit ==
  /\ phase = "unit" /\ MoreUnits
  /\ \E u \in {ReadHeader(Info, off, Len(units) + 1)} :
        IF u.version \in {4, 5} /\ u.abbrevOffset \in DOMAIN lists
        THEN /\ units' = Append(units, u) /\ phase' = "die"
             /\ off' = off + HeaderSize(u)
        ELSE phase' = "panic" /\ UNCHANGED <<units, off>>
  /\ open' = 0
  /\ UNCHANGED <<input, lists, list, locs, exprs, out>>

UnitsRead ==
  /\ phase = "unit" /\ ~MoreUnits
  /\ phase' = "loclists" /\ off' = 0
  /\ UNCHANGED <<input, lists, list, units, open, locs, exprs, out>>

Unit == units[Len(units)]
WithDIE(die) == [units EXCEPT ![Len(units)].dies = Append(@, die)]

\* Mutant: the offset of a DIE is taken behind its number.
InnerOffsetBehind(o) == o + LebLength(Info, o) - Unit.offset
InnerOffset(o) == o - Unit.offset

\* InfoEntry::init of a DIE without a number: the children of its parent end.
ReadNullDIE ==
  /\ phase = "die" /\ ULeb(Info, off) = 0
  /\ units' = WithDIE([inner |-> InnerOffset(off), depth |-> open, number |-> 0,
                       item |-> NullItem, attrs |-> <<>>])
  /\ off' = off + LebLength(Info, off)
  /\ open' = IF open = 0 THEN 0 ELSE open - 1
  /\ phase' = IF open <= 1 THEN "end" ELSE phase
  /\ UNCHANGED <<input, lists, list, locs, exprs, out>>

\* get_abbrev_item_by_number takes the number for a position.  The position
\* behind the last item is that of the null item, whose tag and has_children
\* nobody wrote.
ItemsAt(items, number) ==
  IF number < Len(items) THEN {items[number]}
  ELSE IF number = Len(items)
       THEN {[NullItem EXCEPT !.children = c] : c \in BOOLEAN} ELSE {}

\* InfoEntry::init
ReadDIE ==
  /\ phase = "die" /\ ULeb(Info, off) # 0
  /\ LET number == ULeb(Info, off)
         start  == off + LebLength(Info, off)
         items  == lists[Unit.abbrevOffset]
     IN \/ /\ ItemsAt(items, number) = {}
           /\ phase' = "panic" /\ UNCHANGED <<units, off, open>>
        \/ \E item \in ItemsAt(items, number) :
           \E attrs \in {ReadAttrs(Info, start, item.entries, Unit)} :
             LET die   == [inner |-> InnerOffset(off), depth |-> open,
                           number |-> number, item |-> item, attrs |-> attrs]
             IN IF item.entries # <<>> /\ Len(attrs) < Len(item.entries) - 1
                THEN phase' = "panic" /\ UNCHANGED <<units, off, open>>
                ELSE /\ units' = WithDIE(die)
                     /\ off' = start + SizeOfAttrs(attrs)
                     /\ open' = IF item.children THEN open + 1 ELSE open
                     /\ phase' = IF open' = 0 THEN "end" ELSE phase
  /\ UNCHANGED <<input, lists, list, locs, exprs, out>>

\* The end of the constructor: loclists_base of the root, whose null entry
\* ends the search, and the offset that the length of the unit says.
EndUnit ==
  /\ phase = "end"
  /\ LET root  == Unit.dies[1]
         bases == {i \in DOMAIN root.attrs : root.item.entries[i].at = 140
                                              /\ root.item.entries[i].form = 23}
         first == CHOOSE i \in bases : \A j \in bases : i <= j
     IN IF root.item.entries = <<>>
        THEN phase' = "undefined" /\ UNCHANGED <<units, off>>
        ELSE /\ units' = IF bases = {} THEN units
                         ELSE [units EXCEPT ![Len(units)].loclists_base =
                                 ReadU(root.attrs[first].bytes, 0, Wide(Unit.bits))]
             /\ off' = Unit.offset + Unit.length + LengthSize(Unit.bits)
             /\ phase' = "unit"
  /\ UNCHANGED <<input, lists, list, open, locs, exprs, out>>

\* LoclistsObject::init and LoclistsList::init: the header, and the array of
\* offsets behind it.
ReadLoclists ==
  /\ phase = "loclists" /\ off < Len(input.loclists)
  /\ LET b    == input.loclists
         bits == IF IsWide(b, off) THEN 64 ELSE 32
         v    == off + LengthSize(bits)
         length == IF bits = 64 THEN ReadU(b, off + 4, 8) ELSE ReadU(b, off, 4)
         count  == ReadU(b, v + 4, 4)
     IN IF Byte(b, v + 2) \notin {4, 8}
        THEN phase' = "panic" /\ UNCHANGED <<locs, off>>
        ELSE /\ locs' = Append(locs,
                  [base |-> v + 8, bits |-> bits, addressSize |-> Byte(b, v + 2),
                   offsets |-> [i \in 1 .. count |->
                                  ReadU(b, v + 8 + Wide(bits) * (i - 1), Wide(bits))]])
             /\ off' = off + length + LengthSize(bits)
             /\ UNCHANGED phase
  /\ UNCHANGED <<input, lists, list, units, open, exprs, out>>

LoclistsRead ==
  /\ phase = "loclists" /\ off >= Len(input.loclists)
  /\ phase' = "exprs"
  /\ UNCHANGED <<input, off, lists, list, units, open, locs, exprs, out>>

-----------------------------------------------------------------------------
\* The blocks that hold expressions, by unit, DIE and attribute.
Blocks ==
  UNION {UNION {{<<u, d, a>> : a \in {i \in DOMAIN units[u].dies[d].attrs :
                                        units[u].dies[d].item.entries[i].form = ExprLoc}}
                : d \in DOMAIN units[u].dies} : u \in DOMAIN units}

BlockOf(k) ==
  LET bytes == units[k[1]].dies[k[2]].attrs[k[3]].bytes
  IN Bytes(bytes, LebLength(bytes, 0), ULeb(bytes, 0))

\* DWARFExprParser reads a block when the variable is collected; it gives up on
\* addresses of other sizes than 4 and 8 bytes, also where the block has none.
ReadBlock ==
  /\ phase = "exprs"
  /\ \E k \in Blocks \ DOMAIN exprs :
       /\ \A j \in Blocks \ DOMAIN exprs :
            j[1] > k[1] \/ (j[1] = k[1] /\ (j[2] > k[2] \/ (j[2] = k[2] /\ j[3] >= k[3])))
       /\ \E ops \in {ReadExpr(BlockOf(k), units[k[1]].bits, units[k[1]].addressSize)} :
             IF \/ units[k[1]].addressSize \notin {4, 8}
                \/ ops # <<>> /\ ops[Len(ops)] = NoOp
             THEN phase' = "panic" /\ UNCHANGED exprs
             ELSE /\ exprs' = [j \in DOMAIN exprs \union {k} |->
                                 IF j = k THEN ops ELSE exprs[j]]
                  /\ UNCHANGED phase
  /\ UNCHANGED <<input, off, lists, list, units, open, locs, out>>

BlocksRead ==
  /\ phase = "exprs" /\ Blocks \subseteq DOMAIN exprs
  /\ phase' = "write" /\ off' = 0
  /\ UNCHANGED <<input, lists, list, units, open, locs, exprs, out>>

\* AbbrevObject::write: the lists in the order of the map, that of the keys;
\* InfoObject::write: the units.
Write ==
  /\ phase = "write"
  /\ out' = [abbrev |-> LET f[o \in 0 .. Len(Abbrev)] ==
                              (IF o \in DOMAIN lists THEN Joined(lists[o], PutItem) ELSE <<>>)
                                \o (IF o = Len(Abbrev) THEN <<>> ELSE f[o + 1])
                        IN f[0],
             info |-> Joined(units, PutUnit)]
  /\ phase' = "done"
  /\ UNCHANGED <<input, off, lists, list, units, open, locs, exprs>>

Ended == phase \in {"done", "panic", "undefined"} /\ UNCHANGED vars

Next == ReadAbbrevItem \/ AbbrevsRead \/ ReadUnit \/ UnitsRead \/ ReadNullDIE \/ ReadDIE
          \/ EndUnit \/ ReadLoclists \/ LoclistsRead \/ ReadBlock \/ BlocksRead \/ Write
          \/ Ended

\* The tool runs to its end: one thread reads the file.
Spec == Init /\ [][Next]_vars /\ WF_vars(Next)
=============================================================================
