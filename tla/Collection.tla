----------------------------- MODULE Collection -----------------------------
(***************************************************************************)
(* The functions and variables of a program are collected twice from the   *)
(* DIEs: by DIReducerContext for the type inference (initAbsVarInfo,       *)
(* initAbsFuncInfo, initGlobalVars, initFuncDesc, initCustomFuncMap), and  *)
(* by the linker for the output (recursiveCollect).  Two recursions over   *)
(* the same tree, written apart, must agree on what they found.            *)
(*                                                                         *)
(* A unit is a sequence of DIEs in preorder; DIE 1 is the root.  A DIE     *)
(* names its parent.  Its attributes are a sequence of records             *)
(* [at, form, value]; the value of a location is a record of the kind of   *)
(* its expression and a number.  An offset in a unit is the DIE's number.  *)
(***************************************************************************)
EXTENDS Integers, Sequences, FiniteSets

CONSTANTS Programs,   \* sequences of units [offset, types, dies]
          Redundant   \* the sets of variables the inference may call redundant

Elements(s) == {s[i] : i \in DOMAIN s}
IsSeq(s) == s \in Seq(Elements(s))

\* Attributes of a DIE: no two have the same name, an address or a size is no
\* negative number, and a type, being the offset of a DIE in its unit, is not 0.
WellFormedAttributes(attrs) ==
  /\ IsSeq(attrs)
  /\ \A i, j \in DOMAIN attrs : attrs[i].at = attrs[j].at => i = j
  /\ \A i \in DOMAIN attrs : attrs[i].at \in {"low_pc", "high_pc"} => attrs[i].value \in Nat
  /\ \A i \in DOMAIN attrs : attrs[i].at = "type" => attrs[i].value # 0

\* The DIEs of a unit as InfoParser reads them, a parent before its children.
WellFormed(unit) ==
  /\ unit.offset \in Nat
  /\ IsSeq(unit.dies) /\ unit.dies # <<>>
  /\ \A d \in DOMAIN unit.dies :
       /\ WellFormedAttributes(unit.dies[d].attrs)
       /\ d > 1 => unit.dies[d].parent \in 1 .. d - 1

ASSUME ProgramsAssumption ==
  \A p \in Programs : IsSeq(p) /\ p # <<>> /\ \A u \in DOMAIN p : WellFormed(p[u])

VARIABLES
  program, redundant,
  phase,       \* which of the collections runs
  at,          \* the DIE it visits: <<unit, DIE>>
  absVars,     \* absVarsInfo: global offset -> name and type
  absFuncs,    \* absFuncsInfo
  globals,     \* globalVars
  funcs,       \* funcDataBase: for each unit, low_pc -> function
  custom,      \* customFuncMap: low_pc -> function
  functionCells, globalCells    \* of the linker

vars == <<program, redundant, phase, at, absVars, absFuncs, globals, funcs, custom,
          functionCells, globalCells>>

Die == program[at[1]].dies[at[2]]

\* TopEntry.children of initGlobalVarsInCompilationUnit
FirstLevel(u, d) == program[u].dies[d].parent = 1

\* Mutant: the linker visits the children of every DIE.
CollectedDeep(u, d) == d > 1
\* recursiveCollect visits the children of a DIE of depth 0 only.
Collected(u, d) == program[u].dies[d].parent = 1

-----------------------------------------------------------------------------
\* Attributes.

Indices(attrs, names) == {i \in DOMAIN attrs : attrs[i].at \in names}
Has(die, names) == Indices(die.attrs, names) # {}

\* A loop over the attributes assigns a value; the last one stays.
Value(attrs, names, default) ==
  LET is == Indices(attrs, names)
  IN IF is = {} THEN default
     ELSE attrs[CHOOSE i \in is : \A j \in is : j <= i].value

\* get_dw_at_...: another form is FIG_PANIC.
KnownForms(name) ==
  CASE name \in {"name", "linkage_name"} -> {"strp", "string"}
    [] name \in {"type", "abstract_origin", "specification"} -> {"ref4", "ref8"}
    [] name = "low_pc"   -> {"addr", "data4"}
    [] name = "high_pc"  -> {"data4", "data8"}
    [] name = "location" -> {"exprloc"}

Unreadable(attrs, names) == \E i \in Indices(attrs, names) : attrs[i].form \notin KnownForms(attrs[i].at)

Origin == {"abstract_origin", "specification"}
Names == {"name", "linkage_name"}

\* isVariableAbbrev and isParameterAbbrev
IsObject(die, tag) ==
  /\ die.tag = tag /\ Has(die, {"location"})
  /\ Has(die, {"name"} \union Origin) /\ Has(die, {"type"} \union Origin)
IsVariable(die) == IsObject(die, "variable")
IsParameter(die) == IsObject(die, "formal_parameter")

\* isAbsVarAbbrev
IsAbsVar(die) ==
  die.tag \in {"variable", "formal_parameter"} /\ Has(die, {"type"}) /\ ~Has(die, {"location"})

\* isFuncAbbrev, isAbsFuncAbbrev
IsFunc(die) ==
  /\ die.tag = "subprogram" /\ Has(die, {"low_pc"}) /\ Has(die, {"high_pc"})
  /\ Has(die, Names \union {"specification"})
IsAbsFunc(die) ==
  /\ die.tag = "subprogram" /\ ~Has(die, {"low_pc"}) /\ ~Has(die, {"high_pc"})
  /\ Has(die, Names)

-----------------------------------------------------------------------------
\* Offset of a DIE in .debug_info; 0 is none.
GlobalOffset(u, d) == program[u].offset + d
OriginOf(u, attrs) ==
  IF Indices(attrs, Origin) = {} THEN 0 ELSE GlobalOffset(u, Value(attrs, Origin, 0))

NoType == 0
Unset == [name |-> "", type |-> NoType]
TypeKnown(u, t) == t \in program[u].types

\* The name and the type of a variable: those of the abstract variable
\* replace its own.
Described(u, attrs) ==
  IF OriginOf(u, attrs) # 0 THEN absVars[OriginOf(u, attrs)]
  ELSE [name |-> Value(attrs, {"name"}, ""), type |-> Value(attrs, {"type"}, NoType)]

\* Where the reading of name, type, origin and location gives up.
Undescribed(u, attrs) ==
  \/ Unreadable(attrs, {"type", "location"} \union Origin)
  \/ \E i \in Indices(attrs, {"type"}) : ~TypeKnown(u, attrs[i].value)
  \/ /\ OriginOf(u, attrs) # 0
     /\ \/ OriginOf(u, attrs) \notin DOMAIN absVars
        \/ ~TypeKnown(u, absVars[OriginOf(u, attrs)].type)

-----------------------------------------------------------------------------
\* Variables of a function: its children, and those of its lexical blocks.

\* d is visited from the function f.
InScope(u, f, d) ==
  LET dies == program[u].dies
      up[x \in DOMAIN dies] ==
        IF x = f THEN TRUE
        ELSE x > f /\ dies[x].tag = "lexical_block" /\ up[dies[x].parent]
  IN d > f /\ up[dies[d].parent]

\* Mutant: a block does not inherit a range.
BlockRangeOwn(attrs, outer) ==
  [low |-> Value(attrs, {"low_pc"}, 0), length |-> Value(attrs, {"high_pc"}, 0)]

\* recursiveCollectFuncSpec hands down a block's start and length; an
\* attribute that is missing leaves the outer one.
BlockRange(attrs, outer) ==
  [low |-> Value(attrs, {"low_pc"}, outer.low), length |-> Value(attrs, {"high_pc"}, outer.length)]

\* fillFuncDescInInfoEntry hands down a block's start and end.
BlockBounds(attrs, outer) ==
  LET low == Value(attrs, {"low_pc"}, outer.low)
  IN [low |-> low, high |-> low + Value(attrs, {"high_pc"}, outer.high - outer.low)]

\* What the parent of d hands down, where Inner is applied at each block.
Handed(u, f, d, outermost, Inner(_, _)) ==
  LET dies == program[u].dies
      h[x \in DOMAIN dies] ==
        IF x <= f THEN outermost ELSE Inner(dies[x].attrs, h[dies[x].parent])
  IN h[dies[d].parent]

Ordered(S) == LET f[n \in 0 .. Cardinality(S)] ==
                    IF n = 0 THEN <<>>
                    ELSE Append(f[n - 1], CHOOSE x \in S : Cardinality({y \in S : y < x}) = n - 1)
              IN f[Cardinality(S)]

Blocks(u, f) == {d \in DOMAIN program[u].dies :
                   InScope(u, f, d) /\ program[u].dies[d].tag = "lexical_block"}
Objects(u, f, Is(_)) == {d \in DOMAIN program[u].dies : InScope(u, f, d) /\ Is(program[u].dies[d])}
IsEither(die) == IsVariable(die) \/ IsParameter(die)

\* The address of a variable, from its expression of one operation, or of
\* DW_OP_fbreg and DW_OP_deref; registers are counted backwards, in 16 bits.
Located == {"fbreg", "breg6", "breg7", "fbreg_deref", "addr", "reg"}
Address(location) ==
  CASE location.kind = "fbreg" -> <<"stack", location.n>>
    [] location.kind \in {"breg6", "breg7"} -> <<"stack", location.n + 8>>
    [] location.kind = "fbreg_deref" -> <<"global", 7>>
    [] location.kind = "addr" -> <<"global", location.n>>
    [] location.kind = "reg" -> <<"reg", (-location.n) % 65536>>

\* fillFuncDescInInfoEntry of a variable or parameter d of the function f
Var(u, f, d, bounds) ==
  LET die == program[u].dies[d]
      b   == Handed(u, f, d, bounds, BlockBounds)
  IN [varId |-> GlobalOffset(u, d), isParameter |-> IsParameter(die),
      name |-> Described(u, die.attrs).name, type |-> Described(u, die.attrs).type,
      addr |-> Address(Value(die.attrs, {"location"}, 0)), low |-> b.low, high |-> b.high]

BadVar(u, attrs) ==
  \/ Undescribed(u, attrs) \/ Unreadable(attrs, {"name"})
  \/ \E i \in Indices(attrs, {"location"}) : attrs[i].value.kind \notin Located

-----------------------------------------------------------------------------
\* A collection visits the DIEs of all units in order, then the next begins.
AtLast == at[2] = Len(program[at[1]].dies)
Advance(next) ==
  IF ~AtLast THEN at' = <<at[1], at[2] + 1>> /\ UNCHANGED phase
  ELSE IF at[1] < Len(program) THEN at' = <<at[1] + 1, 1>> /\ UNCHANGED phase
  ELSE at' = <<1, 1>> /\ phase' = next
Panic == phase' = "panic" /\ UNCHANGED at

Inserted(map, k, v) == [x \in DOMAIN map \union {k} |-> IF x \in DOMAIN map THEN map[x] ELSE v]

Init ==
  /\ program \in Programs
  /\ redundant \in Redundant
  /\ phase = "absvars" /\ at = <<1, 1>>
  /\ absVars = <<>> /\ absFuncs = <<>> /\ globals = <<>>
  /\ funcs = [u \in DOMAIN program |-> <<>>] /\ custom = <<>>
  /\ functionCells = <<>> /\ globalCells = <<>>

\* initAbsVarInfoInInfoEntry
AbsVar ==
  /\ phase = "absvars"
  /\ IF ~IsAbsVar(Die) THEN UNCHANGED absVars /\ Advance("absfuncs")
     ELSE IF Unreadable(Die.attrs, {"type", "name"}) THEN UNCHANGED absVars /\ Panic
     ELSE /\ absVars' = Inserted(absVars, GlobalOffset(at[1], at[2]),
                                 [name |-> Value(Die.attrs, {"name"}, "unnamedVariable"),
                                  type |-> Value(Die.attrs, {"type"}, NoType)])
          /\ Advance("absfuncs")
  /\ UNCHANGED <<program, redundant, absFuncs, globals, funcs, custom, functionCells, globalCells>>

\* initAbsFuncInfoInInfoEntry
AbsFunc ==
  /\ phase = "absfuncs"
  /\ IF ~IsAbsFunc(Die) THEN UNCHANGED absFuncs /\ Advance("globals")
     ELSE IF Unreadable(Die.attrs, {"type"} \union Names) THEN UNCHANGED absFuncs /\ Panic
     ELSE /\ absFuncs' = Inserted(absFuncs, GlobalOffset(at[1], at[2]),
                                  [name |-> Value(Die.attrs, Names, ""),
                                   type |-> Value(Die.attrs, {"type"}, NoType)])
          /\ Advance("globals")
  /\ UNCHANGED <<program, redundant, absVars, globals, funcs, custom, functionCells, globalCells>>

\* The attributes of a global variable that initGlobalVars looks at: the loop
\* ends with the location.
UpToLocation(attrs) ==
  LET is == Indices(attrs, {"location"})
  IN SubSeq(attrs, 1, CHOOSE i \in is : \A j \in is : i <= j)

\* initGlobalVarsInCompilationUnit: children of the root that are variables.
GlobalVar ==
  /\ phase = "globals"
  /\ IF ~(FirstLevel(at[1], at[2]) /\ IsVariable(Die)) THEN UNCHANGED globals /\ Advance("funcs")
     ELSE LET attrs == UpToLocation(Die.attrs)
          IN IF \/ Undescribed(at[1], attrs) \/ Unreadable(attrs, {"name"})
                \/ Value(attrs, {"location"}, 0).kind # "addr"
             THEN UNCHANGED globals /\ Panic
             ELSE /\ globals' = Append(globals,
                       [die |-> at, name |-> Described(at[1], attrs).name,
                        type |-> Described(at[1], attrs).type,
                        addr |-> Address(Value(attrs, {"location"}, 0))])
                  /\ Advance("funcs")
  /\ UNCHANGED <<program, redundant, absVars, absFuncs, funcs, custom, functionCells, globalCells>>

\* The name and the return type of a function, its own or the declaration's.
Declared(u, attrs) ==
  IF Indices(attrs, {"specification"}) # {}
  THEN absFuncs[GlobalOffset(u, Value(attrs, {"specification"}, 0))]
  ELSE [name |-> Value(attrs, Names, ""), type |-> Value(attrs, {"type"}, NoType)]

BadFunc(u, d) ==
  LET attrs == program[u].dies[d].attrs
      spec  == GlobalOffset(u, Value(attrs, {"specification"}, 0))
  IN \/ Unreadable(attrs, {"low_pc", "high_pc", "type", "specification"} \union Names)
     \/ Has(program[u].dies[d], {"specification"}) /\ spec \notin DOMAIN absFuncs
     \/ Declared(u, attrs).type # NoType /\ ~TypeKnown(u, Declared(u, attrs).type)
     \/ \E b \in Blocks(u, d) : Unreadable(program[u].dies[b].attrs, {"low_pc", "high_pc"})
     \/ \E v \in Objects(u, d, IsEither) : BadVar(u, program[u].dies[v].attrs)

\* initFuncDescInInfoEntry of the function d
Func(u, d) ==
  LET attrs  == program[u].dies[d].attrs
      low    == Value(attrs, {"low_pc"}, 0)
      size   == Value(attrs, {"high_pc"}, 0)
      bounds == [low |-> low, high |-> low + size]
      list(Is(_)) == LET ds == Ordered(Objects(u, d, Is))
                     IN [i \in DOMAIN ds |-> Var(u, d, ds[i], bounds)]
  IN [die |-> <<u, d>>, low |-> low, high |-> low + size, name |-> Declared(u, attrs).name,
      type |-> Declared(u, attrs).type, parameters |-> list(IsParameter), variables |-> list(IsVariable)]

\* Every function of a unit, whatever holds it; low_pc 0 is no address.
FuncDesc ==
  /\ phase = "funcs"
  /\ IF ~IsFunc(Die) THEN UNCHANGED funcs /\ Advance("custom")
     ELSE IF BadFunc(at[1], at[2]) THEN UNCHANGED funcs /\ Panic
     ELSE \E f \in {Func(at[1], at[2])} :
             /\ funcs' = IF f.low = 0 THEN funcs
                         ELSE [funcs EXCEPT ![at[1]] = Inserted(@, f.low, f)]
             /\ Advance("custom")
  /\ UNCHANGED <<program, redundant, absVars, absFuncs, globals, custom, functionCells, globalCells>>

\* initCustomFuncMap: of several functions at an address the first unit's.
CustomFuncs ==
  /\ phase = "custom"
  /\ custom' = [a \in UNION {DOMAIN funcs[u] : u \in DOMAIN funcs} |->
                  funcs[CHOOSE u \in DOMAIN funcs :
                          a \in DOMAIN funcs[u] /\ \A w \in DOMAIN funcs : a \in DOMAIN funcs[w] => u <= w][a]]
  /\ phase' = "link"
  /\ UNCHANGED <<program, redundant, at, absVars, absFuncs, globals, funcs, functionCells, globalCells>>

-----------------------------------------------------------------------------
\* The linker.

\* recursiveCollectFuncSpec of a variable or parameter
VarCell(u, f, d, range) ==
  LET die == program[u].dies[d]
      r   == Handed(u, f, d, range, BlockRange)
  IN [varId |-> GlobalOffset(u, d), isParameter |-> IsParameter(die),
      type |-> Described(u, die.attrs).type, location |-> Value(die.attrs, {"location"}, 0),
      low |-> r.low, length |-> r.length]

\* recursiveCollect of a function
FunctionCell(u, d) ==
  LET attrs == program[u].dies[d].attrs
      range == [low |-> Value(attrs, {"low_pc"}, 0), length |-> Value(attrs, {"high_pc"}, 0)]
      kept(Is(_)) == LET ds == Ordered({v \in Objects(u, d, Is) : GlobalOffset(u, v) \notin redundant})
                     IN [i \in DOMAIN ds |-> VarCell(u, d, ds[i], range)]
  IN [die |-> <<u, d>>, address |-> range.low, size |-> range.length,
      type |-> Value(attrs, {"type"}, NoType), args |-> kept(IsParameter), varCells |-> kept(IsVariable)]

\* Mutant: a block must say where it begins.
BadCellsWithoutStart(u, d) ==
  \E b \in Blocks(u, d) : ~Has(program[u].dies[b], {"low_pc"})

\* Where recursiveCollectFuncSpec gives up: it reads what it keeps.
BadCells(u, d) ==
  LET dies == program[u].dies
  IN \/ Unreadable(dies[d].attrs, {"low_pc", "high_pc", "type"})
     \/ \E i \in Indices(dies[d].attrs, {"type"}) : ~TypeKnown(u, dies[d].attrs[i].value)
     \/ \E b \in Blocks(u, d) : Unreadable(dies[b].attrs, {"low_pc", "high_pc"})
     \/ \E v \in Objects(u, d, IsEither) :
          GlobalOffset(u, v) \notin redundant /\ Undescribed(u, dies[v].attrs)

\* recursiveCollect: the root, of its children the functions and variables.
Collect ==
  /\ phase = "link"
  /\ LET u == at[1] d == at[2]
     IN IF ~Collected(u, d) THEN UNCHANGED <<functionCells, globalCells>> /\ Advance("done")
        ELSE IF (IsFunc(Die) /\ BadCells(u, d)) \/ (IsVariable(Die) /\ Undescribed(u, Die.attrs))
        THEN UNCHANGED <<functionCells, globalCells>> /\ Panic
        ELSE /\ \E cells \in {IF IsFunc(Die) THEN <<FunctionCell(u, d)>> ELSE <<>>} :
                  functionCells' = functionCells \o cells
             /\ globalCells' = IF IsVariable(Die)
                               THEN Append(globalCells,
                                      [die |-> at, type |-> Described(u, Die.attrs).type,
                                       location |-> Value(Die.attrs, {"location"}, 0)])
                               ELSE globalCells
             /\ Advance("done")
  /\ UNCHANGED <<program, redundant, absVars, absFuncs, globals, funcs, custom>>

Ended == phase \in {"done", "panic"} /\ UNCHANGED vars

Next == AbsVar \/ AbsFunc \/ GlobalVar \/ FuncDesc \/ CustomFuncs \/ Collect \/ Ended

Spec == Init /\ [][Next]_vars /\ WF_vars(Next)

-----------------------------------------------------------------------------
Done == phase = "done"
AnalysedAt(die) == {f \in {funcs[die[1]][low] : low \in DOMAIN funcs[die[1]]} : f.die = die}

\* The cell and the analysed function have the same variables in the same
\* order: the linker left out those that are redundant and no other, and each
\* has the type and the range in both.
SameVars(cells, analysed) ==
  \E to \in [DOMAIN cells -> DOMAIN analysed] :
    /\ \A i, j \in DOMAIN cells : i < j => to[i] < to[j]
    /\ {to[i] : i \in DOMAIN cells} = {j \in DOMAIN analysed : analysed[j].varId \notin redundant}
    /\ \A i \in DOMAIN cells :
         /\ cells[i].varId = analysed[to[i]].varId /\ cells[i].type = analysed[to[i]].type
         /\ cells[i].isParameter = analysed[to[i]].isParameter
         /\ cells[i].low = analysed[to[i]].low
         /\ cells[i].low + cells[i].length = analysed[to[i]].high

\* What the inference analysed of a function and what the linker emits of it
\* agree, its return type too unless a declaration gives it; a function of the
\* top level is emitted once, and what is emitted was analysed unless it has
\* no address or that of another function of its unit (initFuncDescInInfoEntry
\* against recursiveCollect).
SameFunctions ==
  Done =>
    /\ \A i \in DOMAIN functionCells :
         LET c == functionCells[i]
         IN /\ AnalysedAt(c.die) = {} => c.address = 0 \/ c.address \in DOMAIN funcs[c.die[1]]
            /\ \A f \in AnalysedAt(c.die) :
                 /\ f.low = c.address /\ f.high = c.address + c.size
                 /\ SameVars(c.args, f.parameters) /\ SameVars(c.varCells, f.variables)
                 /\ \/ f.type = c.type
                    \/ Has(program[c.die[1]].dies[c.die[2]], {"specification"})
    /\ \A u \in DOMAIN funcs : \A low \in DOMAIN funcs[u] :
         FirstLevel(u, funcs[u][low].die[2]) =>
           Cardinality({i \in DOMAIN functionCells : functionCells[i].die = funcs[u][low].die}) = 1

\* The global variables of the inference and of the linker are the same DIEs
\* with the same types, where no attribute that tells the type follows the
\* location (initGlobalVarsInCompilationUnit leaves its loop there).
TypeBeforeLocation(attrs) ==
  Indices(attrs, {"type"} \union Origin) = Indices(UpToLocation(attrs), {"type"} \union Origin)
SameGlobals ==
  Done =>
    /\ Len(globals) = Len(globalCells)
    /\ \A i \in DOMAIN globals :
         /\ globals[i].die = globalCells[i].die
         /\ TypeBeforeLocation(program[globals[i].die[1]].dies[globals[i].die[2]].attrs) =>
              globals[i].type = globalCells[i].type

\* A variable belongs to one function, by which the inference decides about
\* it, and no function of another unit hides it from its callers' table
\* unless the two share the address (initCustomFuncMap).
OwnedOnce ==
  Done =>
    /\ \A u \in DOMAIN funcs : \A a, b \in DOMAIN funcs[u] :
         LET ids(f) == {f.parameters[i].varId : i \in DOMAIN f.parameters}
                         \union {f.variables[i].varId : i \in DOMAIN f.variables}
         IN a # b => ids(funcs[u][a]) \intersect ids(funcs[u][b]) = {}
    /\ \A u \in DOMAIN funcs : \A a \in DOMAIN funcs[u] :
         custom[a] = funcs[u][a] \/ \E w \in 1 .. u - 1 : a \in DOMAIN funcs[w]

\* Inference and linker agree about the functions and their variables.
FunctionsAgree == SameFunctions /\ OwnedOnce

\* What the linker reads of a DIE and the inference does not: the type of a
\* function that a declaration describes, and what follows the location of a
\* global variable.
ReadsMore(u, d) ==
  LET die == program[u].dies[d]
  IN \/ IsFunc(die) /\ Has(die, {"specification"}) /\ Has(die, {"type"})
     \/ IsVariable(die) /\ ~TypeBeforeLocation(die.attrs)

\* Once the inference has its input, the linker gives up on no DIE of which it
\* reads only what was readable before (recursiveCollect after initSPA).
LinkerReadsOn == [][phase = "link" /\ phase' = "panic" => ReadsMore(at[1], at[2])]_vars
=============================================================================
