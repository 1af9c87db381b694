# A TLA+ development of DIReducer

DIReducer reads an ELF file with DWARF debug information, infers which types a
variable could be given by its use in the machine code, and writes a reduced
debug section in which every type occurs once. This directory holds TLA+
modules that model its parts, TLC configurations that check them on small
instances, and TLAPS proofs of the properties that hold for every instance.

## 1. Inventory

The tool is one process. `DIReducerContext` (tools/DIReducer/Context.cpp) runs
the stages one after the other; only the type inference is concurrent.

| part | state | operations | hard because | correct when |
|---|---|---|---|---|
| DWARF reader and writer (lib/DWARF) | trees of `InfoEntry`, abbreviation lists, headers of location lists | read and write `.debug_info`, `.debug_abbrev`; read `.debug_loclists` | forms and children are known only from abbreviations; sizes are computed before writing | what was read is what the file has; what is written is what was read |
| DWARF expressions (DWARFOP.cpp) | operations of a block | read, write | two tables over all operations, of width and sign | operands have the values that are in the file |
| LEB128 and buffers (Utils/Buffer.cpp) | an offset | read, write, length | signs, last byte | read and written alike |
| resolution of types (Context.cpp 1068-1330, 1683-1852) | `gTypeInfo` and `vTypeInfo` databases per compilation unit | translate DIEs, resolve typedefs and qualifiers, connect members | cyclic graphs, copies of types in progress | every reference of a resolved type is resolved |
| VTypeFactory (lib/CFG/TypeFactory.cpp) | process-wide set of `VType` | build types from the database | recursion over the same cyclic graph; shared by all threads | one object for each ident |
| collection (Context.cpp 1333-1681; Linker.cpp 353-511) | global variables, functions by address, cells | two recursions over the same DIEs | written apart, read in different ways | both find the same variables |
| control flow graph (lib/CFG) | functions, blocks, statements, edges | split code into blocks, connect them, join by calls | jumps back into decoded code, jump tables without length | blocks partition the code, edges are its flow |
| an analysis (lib/Core) | contexts of each block, known variables, frames | five walks over the blocks; transfer functions; joins; matching of parameters | loops, order of predecessors, contexts of earlier passes | frames hold on every path; results depend only on the function |
| type pool (lib/Core/TypeCalculator.cpp) | `ptrType` cache in each shared `VType`; types made by each analysis | pointer to a type, union of types, destruction | shared memory without a lock | caches are right; nobody holds a deleted type |
| `executeTypeInference` (Context.cpp 129-171) | thread pool, vector of analyses, progress counter | post, run, join, match, destroy | interleavings; lifetime across threads | results are complete when they are used |
| linker: types (Linker.cpp 96-274, 513-604) | `typeCellVec`, `typeNameMap`, `typeVecMap`, counters | merge the types of all units by name | recursion that changes the tables it reads | every ident maps to a cell that stands for it |
| linker: layout (Linker.cpp 309-351, the `getInfoEntry` functions) | offsets of the type cells, the tree of the output | compute offsets, build DIEs, write | offsets come from objects other than those written | references resolve; the output can be read |
| ELF input and output, library signatures, configuration, JSON and dot output | | | I/O | |

Interaction: the reader fills the databases; the resolution connects them; the
factory builds `VType`s from them, once, before any thread exists; the collection
and the control flow graphs give each analysis its function; the analyses
of all functions run in parallel on the shared types, each with its own
TypeCalculator; the main thread joins them, matches the calls and frees them;
the linker merges the *database* (not the `VType`s), collects the DIEs of the
input and lays out the output, which `dump` puts in the ELF file. The linker would
leave out the variables an analysis calls redundant, but the lines that hand them
over are commented out at this commit (Context.cpp 173-184): `redundantVarIdSet`
is empty. `Collection` lets the set be anything, `Inference` checks that what
`getRedundantVarIdSet` would return is right.

The complete lists of parts and of hazards, each with its source line, are in
PROJECT.json.

## 2. Modules

| module | models | kind |
|---|---|---|
| `TypeCalculator` | the type pool, one action for each access of shared memory | component |
| `TypeInference` | `executeTypeInference`: main thread, workers, mutex, join; extends `TypeCalculator` | composition |
| `AnalysisPhases` | what the caller relies on: run once, match after all, delete after all matched | abstract specification |
| `BlockWalk` | the recursive walk that every pass of an analysis makes | abstract specification |
| `Operands` | operands, types, contexts, the frame: what an analysis computes with | operators |
| `StackFrame` | the frame pass, next to the machine that runs the function; extends `BlockWalk`, `Operands` | component |
| `Transfer` | what each instruction family does to a context, forwards and backwards | operators |
| `Inference` | the passes of one analysis, one after the other; implements `BlockWalk` | composition |
| `AsmCFG` | blocks, edges, jump tables, joining by calls | component |
| `TypeResolution` | `initVTypeInfo` and its recursion: DIEs to resolved types | component |
| `TypeCells` | merging of types by name, with the recursion's stack explicit | component |
| `TypeMerging` | resolution of a unit's types, then the merging of what it computed | composition |
| `Collection` | the collection for the inference, then that of the linker, on the same DIEs | composition |
| `InfoLayout` | offsets, DIEs, header and write of the output unit | component |
| `Buffer`, `Expression` | numbers in a section; operations of an expression | operators |
| `DebugInfo` | the sections read byte by byte and written again | component |
| `TypeInferenceProofs`, `TypeCellsProofs`, `TypeMergingProofs`, `InferenceProofs`, `AsmCFGProofs`, `CollectionProofs`, `InfoLayoutProofs` | theorems about the module of that name; `TypeMergingProofs` about `TypeResolution` too, `InferenceProofs` about `StackFrame` and `BlockWalk`, `TypeInferenceProofs` about `AnalysisPhases` | proofs |
| `FoldFacts` | lemmas about folds, sums over sets and flattened sequences | proofs |
| `MC...` | instances for TLC, and what the instance's data tell right from wrong | |

### TypeCalculator and TypeInference

Every `VType` has an optional `ptrType`, the pointer type to it. The types of the
factory are shared by all analyses, so that `getPointerVType` tests, reads and
writes these optionals from several threads without a lock. In the documented
build (plain `cmake ..`, no optimisation) `optional::emplace` is a call that
resets the flag, constructs the payload and sets the flag: three stores, the
actions `CacheReset`, `CacheStore`, `CacheEngage`. `has_value()` and `value()` are
three reads, `CacheHit`, and `CacheValue` and `CacheLoad`: `value()` tests the flag
again and throws when it has been reset meanwhile, which ends the process
(`aborted`), and else loads the payload. `getUniqueID` is a load
(`CallUnion`) and a store (`MakeUnion`) of a static counter.

| variable | code |
|---|---|
| `engaged`, `cached` | flag and payload of `VType::ptrType` |
| `refType`, `members`, `name` | detail, members and name of a type made by a calculator |
| `live` | allocated addresses; a freed address may be allocated again |
| `typeSet` | `TypeCalculator::typeSet` |
| `held` | the types made by calculators that occur in the analysis's contexts |
| `pc`, `obj`, `ptr`, `uidReg`, `ops` | where a worker stands and its locals; `ops` counts its requests |
| `phase`, `posted`, `started`, `current` | main thread, task queue |
| `mutex`, `curIndex`, `printed` | `analysisMutex` and the verbose progress line |

What the transfer functions of an analysis compute is not modelled here: an
analysis asks for the pointer type of any type it knows and for the union of any
two, in any order, at most `MaxOps` times. A union whose insertion in a context is
a no-op (`unionTIContext`, Analysis.cpp 707) is made and not held (`keep`). The
progress line is the one of the verbose mode; in the quiet mode the critical
section is empty. Memory is sequentially consistent: the code has data races, and
the interleavings of single loads and stores are the outcomes considered.

With two or more threads three properties one may expect do **not** hold: there can
be two pointer types to one object type (`OnePointerPerObject`), two unions with
one number (`UnionNamesUnique`), and `value()` can throw (`NoBadAccess`). No text
of the repository claims them for several threads, so they are stated for
`--single-thread` only, where they hold (`SingleThreaded`, run `pool_single`, and a theorem for
any number of functions and types). What holds for any number of threads is that an engaged cache is right and alive, that held types
live until the destruction, and that a type which the debug info gave a pointer
type is never given another.

### BlockWalk, StackFrame, Transfer, Inference

One analysis (`TIAnalysis::run`) is five passes over the blocks of a function, and
every pass has one shape, that of `BlockWalk`: a recursion that marks a block, works
on it and calls itself for its successors. The call stack is the sequence `todo`.

| variable | code |
|---|---|
| `edges`, `root`, `todo`, `visited`, `cur` | the graph and its root, the calls pending, `snVisited`, the block in work |
| `prog`, `phase` | the function, the pass |
| `cfa`, `carry` | `blockInsnCFA`, the frame handed to each pending call |
| `mach` | not the tool's: a run of the function's code |
| `inC`, `outC`, `insnC` | `inBlockContexts`, `outBlockContexts`, `blockInsnContexts` |
| `facts` | the running context, `knownVars`, the register sizes of `OPFactory` |
| `inferred` | parameters marked `isInfered` |
| `again`, `hidden`, `saved`, `trail` | not the tool's: a second analysis to compare with, the order of the blocks |

`StackFrame` notes before each instruction how far `rsp` and `rbp` are from the
canonical frame address, on the first path that reaches a block, and has a machine
beside it that runs the same code over any path. `FrameExact` says that the two
agree wherever the machine stands. It holds for *balanced* functions (`Balanced`):
all paths agree on the frame, as in compiled code.

`Transfer` has `forwardInferenceInStatement` and `backwardInferenceInStatement` with
all they call. Mnemonics the code treats alike are one family of instructions. A
type is its structure; a union the calculator makes is its memory model, and that of two
unions has the members of both by offset, those at one offset in some order
(`ByOffset`), as addresses decide there. Two unions that look the same are one value. The
memory model of a 16-byte integer is its halves. The backward pass takes a register for
each parameter of a library function without asking whether there is one left
(BackwardAnalysis.cpp 665-681); what is behind its tables is undefined, and
`LibraryAssumption` says that signatures have at most six parameters of the INTEGER class
and eight of the SSE class. An
operand's size counts for immediates and memory only, as in `OPFactory`; the size of
a register is that of its first use (`facts.size`).

`Inference` runs the passes. Each is one walk, whatever "iterative execution" in
the code's names may suggest: none is repeated until nothing changes, so a join may
read what an earlier pass left. `LastPassDecides` says when it does not matter: if
the last walk meets no block before a predecessor, that pass alone finds the same
types in the blocks of the walk (dead code, which no walk comes to, keeps what the
backward pass found there). The order of a block's predecessors comes from a hash table: any order; a block
is twice among them when both edges of a jump lead to it.
`RedundantIsRedundant` compares with an analysis of the function without the
variables that `getRedundantVarIdSet` names.

What one may find surprising, and the model has: the first of two joined types
stays (Analysis.cpp 707); an assignment to a register leaves the types of its wider
and narrower names (Analysis.cpp 292); the frame role of `rbp` is not looked at for
`lea`; the width of an access does not count behind a pointer (Analysis.cpp 517).

### AsmCFG

The graph of a function is built in four steps, the phases of the module: `heads`
collects the addresses where a block begins, `fill` deals out the instructions,
`edges` connects the blocks, `link` (initProgramCFG) joins the graphs of all
functions by calls. Instructions are what the builder tells apart; a jump table is
the words at its address, of which only the first belong to the switch. A head
inside an instruction makes an empty block, whose last statement is read: the
outcome is undefined (phase `undefined`), and `UndefinedByOverlap` says that
nothing else leads there. The blocks of a table are met in any order.

Two things the tool does not see, which the properties name: a table is read up to
the first word that is no instruction strictly inside the function, so that a case
at the last instruction ends it early (`Readable`) and words behind it may be taken
for cases (`FlowSound`); and a switch whose LEA, ADD and JMP are not in one block
has no edges (`Recognised`).

### TypeResolution

`initVTypeInfo` gives each type DIE of a unit a `VTypeInfo`, in which typedefs and
qualifiers have become copies of what they stand for. `initVTypeInfoRecursion`
visits the types depth first; a call for a type that has been entered returns at
once, whether its own call is over or not. The module makes the recursion's stack
explicit, so that it says which types are complete when they are read.

| variable | code |
|---|---|
| `dies` | the DIEs of the unit (`gTypeInfo`); chosen in `Init`, never changed |
| `vTypeInfo` | the database of `VTypeInfo` |
| `todo` | what the last loop of `initVTypeInfo` has yet to visit, in any order (`unordered_map`) |
| `snVisited` | the set of that name |
| `at`, `stack` | the next step (call, return, panic) and the calls in progress |

Each call is `Visited`, `Leaf` (nothing nested), `Descend` or `GiveUp` (`FATAL`); each
return of a nested call `DerivedBack` (pointer, array, function), `AliasBack` (typedef,
qualifier) or `MemberBack` (structure, union). A name is what it begins with and the
decorations added to it, each with its array's bound; an anonymous aggregate is
named after its ident, which stands for its unique number. Tags that the code
treats alike are one kind. Sizes are left out: nothing here depends on them. An
array has a subrange: without one the code reads a bound that it has not
initialised. Of several subranges the last one gives the bound.

What a cycle does: a typedef that is reached from within its own structure copies
the members resolved until then (Context.cpp 1793), and a typedef of an array
that is in progress copies a null element (Context.cpp 1782), on which the factory
panics. `TargetsAgree` says that this is all: a type that is not on a cycle with its target
agrees with it for good, and so does a pointer to a structure even on a cycle,
because a structure is named before the recursion starts.

`TypeMerging` hands what the resolution computed to `TypeCells` when it is done. Its
inputs are the units in which no alias is read while in progress (`Timely`); what
happens in the rest is said above. The linker sees names only, so `NamesTell`
is what it relies on: types of one name are alike. That holds within what a name
can say: two structures of one name in different scopes or namespaces are merged,
and so is a structure that has the name of a base type, in the code as in the
model, and the inputs have none (`WellNamed`). Both conditions are on the DIEs alone,
`UnitsAssumption` of the module.

### TypeCells

`recursiveInitType` walks the graph of `VTypeInfo` of each unit. Calls that return
at once are the actions `Known` (the name has a cell), `Preset` (a cell of
`initBaseType`), `VoidOrFunction`, `VoidPointer`; the calls that recurse push a frame
(`DerivedCall`, `AggregateCall`) and go on when the nested call returns
(`DerivedReturn`, `MemberReturn`). Types are idents, 0 is `nullptr`; `unordered_map` is
visited in any order. Input: every graph that has no cycle made of pointers and
arrays alone (`WellFounded`; C cannot name such a type, and the code would recurse
for ever).

`typecells_bits` expects a violation, the finding of PROJECT.json: the size of a
bit field is emitted as its offset. Three more facts that the properties exempt: a
union returns `typeCellVec.back()`, which is the cell of one of its members when
they made cells (Linker.cpp 267); the number of elements of an array is emitted as
its upper bound (Context.cpp 1211, TypeCell.cpp 146); an incomplete structure seen
before its definition in another unit stays `void` where it was used. The attributes
of a type replaced by a preset cell are counted as redundant whether or not the type
occurs again.

### Collection

DIEs are collected twice: `AbsVar`, `AbsFunc`, `GlobalVar`, `FuncDesc`, `CustomFuncs` are
the five loops of `DIReducerContext` before the inference, `Collect` is the linker's
recursion. Each visits the DIEs of all units in preorder; a DIE names its parent and
has a sequence of attributes, each with its form. What the code panics on ends the
model (`panic`). The properties compare what the two found. Where they differ, in the
code as in the model: the linker takes no return type from a declaration
(`DW_AT_specification`) but reads the type such a function has itself; the inference
reads nothing of a global variable behind its location (`ReadsMore` names these two); functions in namespaces and in functions are analysed and not emitted; a
function at address 0 is emitted and not analysed.

### Buffer, Expression, DebugInfo

`DebugInfo` reads a file byte by byte: lists of abbreviations (`ReadAbbrevItem`), units
(`ReadUnit`), DIEs with the lengths of all forms (`ReadDIE`, `ReadNullDIE`), the headers
of location lists, the blocks of expressions (`ReadBlock`); then it writes the
abbreviations and the units (`Write`). `Expression` has for each operation how its
operands are read and, separately, how they are written, as the two switches of
DWARFOP.cpp. The second is reached only from calls that are commented out (Context.cpp
1000-1065); locations of variables are read by the first. An abbreviation's code is taken as its position, as in
AbbrevList.cpp 20. Undefined behaviour (a root DIE without entries) ends the model in
phase `undefined`. The input of the runs is written by an encoder of its own
(`MCDebugInfo`), with numbers of more bytes than they need, too.

### InfoLayout

A DIE is a flat sequence of fields in the order of `InfoEntry::write`. The first
loop of `initDstInfoObject` (`Place`) gives each type cell an offset from the size of
a DIE it builds and drops; the later loops (`EmitTypes`, `EmitFunctions`,
`EmitGlobals`) build all DIEs again; `Close` adds the end item and the length;
`WriteHeader`, `WriteTop`, `WriteChild` advance the writer's offset. Contents are
abstracted to what the properties tell apart: offsets, LEB128 numbers, ranges and
the identity of variables. `Limit` is 2^32, the values of the 4-byte forms.

## 3. Runs

| run | instance | shows |
|---|---|---|
| `pool_race` | 2 functions, 2 threads, 2 requests each, 4 addresses, a scalar and a structure with a factory pointer | caches, lifetimes, clean end under all interleavings |
| `pool_phases` | 3 functions, 2 threads, fair scheduler | refinement of `AnalysisPhases`, barrier; the inference ends |
| `pool_single` | 2 functions, 1 thread, a second scalar | the three properties of the single-threaded mode; a union of unions is flat |
| `inference` | seven graphs (two branches, both branches to one block, a loop, an endless loop, a loop with two entries, dead code behind a call that does not return) with bodies out of 15 snippets of the instruction families of `Transfer`, the predecessors of each block in every order | walks, frames, contexts, passes, parameters |
| `cfg` | every function of four instructions out of jumps (back, forward, to the last instruction, behind the function, into an instruction), calls and returns; switches with three tables and what is behind them; computed gotos; pairs of functions that call each other | blocks, edges, calls |
| `resolution` | every unit of 3 types in which each cycle passes a structure or union, structures of up to two members; unspecified types, several subranges, bounds at the limit, dangling references | completeness, agreement with targets, no late writes, in any order of visits and on any cycle; the recursion ends or the tool gives up |
| `typecells` | every graph of at most 3 named types of one unit (1085 databases), two databases of several units that share names | maps and cells stand for the types; completeness, stability, termination |
| `typecells_bits` | a structure with a bit field | the finding |
| `merging` | every timely unit of 3 types | each DIE gets the cell of what it stands for |
| `collection` | two units: an abstract variable, declarations, functions with parameters, blocks, nested functions, a namespace, global variables, in every combination of the forms given to each; thirteen refused ones; a set of redundant variables | both collections agree |
| `layout` | programs with all kinds of types and scopes, all header forms | references, length, readability, scopes |
| `dwarf` | units of versions 4 and 5, of 32 and 64 bits, of types 1, 2, 4 and 6, two in a file; a value of each form; five shapes of trees; one or more operations of each kind of operand, addresses of 8 and 4 bytes; rests, long numbers, location lists; what is refused | trees, sizes, expressions |

`JoinedInTheEnd`, `PassesEnd` and `CollectionsEnd` are conjunctions of an action
property and an end; `Faithful`, `OperandsSound`, `KnownExact`, `BlocksExact`, `FlowExact`
and others are conjunctions of named invariants, in their modules.

Bounds and why they are enough. In the resolution three types make every shape of
cycle between a structure, a reference and an alias, with the entry at any of them;
the theorems below hold for any number. A race for a cache needs two threads, one object
type and two requests; a third request of the same thread finds the cache of the
first. Four addresses are all that two analyses can allocate with two requests
each, so that no behaviour is cut. Three types are the least with a cycle through a
structure and a pointer that also holds a type which is not on the cycle. In
`layout` LEB128 lengths of one and two bytes, and each kind of scope, occur. Four
instructions of two bytes are the least that have an instruction before, in, and
behind a block that a jump splits. Six blocks, two of them the entry and the exit,
make a join, a loop and a loop with two entries; the walks and the frames are proved
for any graph. A DIE has at most two levels below it in `dwarf`, which is the least for
which the end of one list is not the end of the tree. Numbers stay below 2^31, the
integers of TLC: that a shift passes 64 bits is not modelled.

Fairness: the kernel schedules every thread that can run, and every holder of the
mutex releases it without waiting for anything, so that a waiting thread gets it
(`Fairness` in TypeInference; weak fairness of the main thread, of the queue and of
each worker). The other components run in one thread that nothing interrupts: weak
fairness of the next-state relation, in `Inference` of the steps of the tool, not of
the machine beside it nor of the analysis made again.

Deadlock is not checked where the model stops when the program does (`inference`: an
analysis that is over, or a machine at the end of the function; `cfg`: the graphs are
built, or the outcome is undefined).

## 4. Proofs

`TypeInferenceProofs` proves for every
number of functions and threads, every finite or infinite set of types and addresses,
and any factory whose pointer cache is right (`FactoryAssumption`):

| theorem | property |
|---|---|
| `TypeCorrect` | `TypeOK` |
| `CachesSound` | `CacheSound` |
| `HeldTypesLive` | `HeldLive` |
| `ResultsAreFrozen` | `ResultsFrozen` |
| `FactoryPointersKept` | `FactoryCacheKept` |
| `ProgressCounts` | `ProgressInOrder` |
| `EndsClean` | `CleanEnd` |
| `PhasesImplemented` | `ImplementsPhases`: the pool implements `AnalysisPhases` |
| `SingleThreadSafe`, which assumes `NThread = 1` | `SingleThreaded` |

The argument for the first four is one inductive invariant, `IInv`. `CacheSound` is
not inductive: a thread that sets the flag must know the payload is right,
although another thread may have written the payload after it did. So `StoresSound`
says that between the second and the third store the payload is *a* pointer type
to the object, whichever thread stored it, and `CallsSound` that the type a thread
is about to store points to its object and is alive. A flag that is reset harms
nobody. Allocation takes an address that is not live, and nothing is freed while a
worker runs (`AllDone`, `InOrder`), so no sound pointer changes its target. A
destructor resets the cache of the object type of what it deletes, which is the
only cache that can name it. `Kept` strengthens `FactoryCacheKept` by: no thread is
between the test and the stores for such a type. `Turns` relates the mutex, the
place of its holder and the counter to the lines printed. `Ends` says that each living
type is in the set of the calculator that made it, that the destruction has emptied the
sets in order, and that a cache which the factory left empty names a type of a
calculator or none; so the last destructor leaves nothing behind.

The refinement maps the place of an analysis to a stage and the types it holds to its
result (`Stages`). `AtFirst` (nothing is matched before the join) and `AllDone` of `IInv`
give the guards of `Match` and `Delete`; lemma `Holds` shows that a step of a calculator
only adds to what its own analysis holds, which is a step `Work`.

With one thread the invariant is `Solo`. At most one analysis is at work (`Alone`), so what
it has seen engaged stays so (`Steady`), a living pointer type is in the cache of its
object type or about to be put there by the analysis that made it (`Pointers`), and
the counter in the register is the counter in memory (`Names`). `Unions` says that a union
lists types that live: an address that is used again is not in any old list.

The first part of `TypeMergingProofs` proves of `TypeResolution`, for every set of well-formed units (`InputsAssumption`),
of any size and with any cycles, and any strings as names (`TextAssumption`):

| theorem | property |
|---|---|
| `TypeCorrect` | `TypeOK` |
| `NoLateWrites` | `FinishedStays` |
| `OwnTypesComplete` | `OwnComplete` |
| `MembersPrefix` | `MembersArePrefix` |
| `TargetsAgreement` | `TargetsAgree` |

The inductive invariant, `Inv`, ties the stack to the tables: a type not entered is
as it was (`Untouched`), a type in progress is as `Descend` left it but for the members
appended since (`Waiting`), and each type of the stack waits for the one above it
(`Control`). Lemma `Effect` turns a step into what it writes: nothing, a type entered,
a member, or the result of a call; the theorems need only that. `TargetsAgree` needs
two facts more. `Path`: the stack is a path in the graph of types, so that a target in
progress comes back to the type that reads it. `Kept`: the name of a structure never
changes, so that what was read of it in progress stays right. `Agreement` then tells
for each finished type why it agrees for good.

`TypeCellsProofs` proves for every set of well-formed databases (`DatabaseAssumption`), of any
number of units and types, and for any order in which the types of a unit are visited:

| theorem | property |
|---|---|
| `TypeCorrect` | `TypeOK` |
| `AllMapped` | `MapComplete`, a conjunct of `Faithful` |
| `FaithfulTypes`, which assumes `NamesTell` | `Faithful` |
| `RedundantOnce` | `RedundantSum` |
| `NumbersStay` | `NeverRemapped` |

The invariant, `Inv`, has the recursion's stack in it. `Frames`: the cell of a structure
in progress is its own, no other frame has it, and it lacks a member, so that the return
for a member never goes past the last one. `Accounted`: an ident that is not mapped is
still to be visited, is being called, or has a frame; at the end there is none of these.
Both need that no step takes an ident out of a map: `insert` keeps what is there
(`Inserted`, `Mapped`, `Created`).

`FaithfulTypes` says what a cell stands for. The linker compares names and nothing
else, so it needs that types of one name are alike: `NamesTell`, an assumption of the
theorem. The code relies on it without a test (typeNameMap, Linker.cpp 112);
`MergingTold` below proves it of what the resolution computes of a unit.
The strengthening is `Meaning`. A cell is named after an entry and is of its kind (`Named`,
`Sourced`), a name leads to its cell, a structure's to its only one (`Once`), and an ident to a cell
that suits its type (`MapFaithful`). What a frame waits for is what is being called or
returned (`Chain`), so that references (`References`) and members (`Growing`, `Grown`) are
cells that suit what the entry refers to. The hard part is that a pointer met while
its own call is in progress is made a second time. `Twins` says that the recursion
below it then repeats, name by name, what it did before, until it comes to a structure,
whose name is in the table; since every cycle has one, there are at most
two cells of a pointer or an array (`AtMostTwo`). `RedundantOnce` is the invariant
`Counted`: the sum is over the idents in `redundantTypes`, and each is added when it
enters that set.

The rest of `TypeMergingProofs` proves of `TypeResolution` and `TypeCells` in a row, for every set of units that are `Timely` and
`WellNamed` (`UnitsAssumption`):

| theorem | property |
|---|---|
| `NamesTold` | `NamesTell` |
| `MergingTold` | `MergeTold`: what is merged meets the assumption of `FaithfulTypes` |
| `TypesKept` | `TypesEmitted` |

The names are told apart in the end because each type is either no copy, and then as its
DIE says, or a copy of such a type (`Telling`). An alias copies from a target
whose call is over: `Path` would make a target in progress a cycle that `Timely` excludes.
By `TargetsAgree` the name of a pointer, array or function is made of the name
that its target has in the end, and a name so made differs from every other in
what it was made of (`Decorated`) and from every name that the source gives (`Undecorated`).
`AccountedAlways` shows that the recursion leaves no type out.

`TypesKept` joins the two components. When the resolution is over, its result is one of
the databases that `TypeCells` takes (`DatabaseFormed`): members have been visited
(`ListedAlways`), an array refers to a type (`ArraysRefer`), and no types consist of pointers
and arrays alone (`GroundedAlways`: a pointer that refers to a type still in progress
refers to a structure or union, since the unit is `Timely`). So the module is
an instance of `TypeCellsProofs` (`Merging`), whose lemmas on one step are cited and
give its invariant for the second half of the run (`MergingAlways`). What a cell stands for there
is a matter of names, and the names have been told apart: `StandsFor` follows aliases to
the DIE, and `Emits` carries what suits one type of a name over to every DIE of
that name. Two facts on cells are needed beyond `FaithfulTypes`: the cells of
`initBaseType` are of no structure (`Presets`), and a structure with a cell of its own
has members (`Filled`), so that a declaration is only ever the void cell.

`InferenceProofs` proves for any functions, with any graph of any number of blocks and any
code and debug info:

| theorem | property |
|---|---|
| `WalksExact` | `WalkExact` of `BlockWalk`: passes over any graphs from any roots |
| `PassesWalk` | `EveryPassWalks`, the safety half of `PassesEnd` |
| `PassesExact` | `WalkExact` of the passes of an analysis |
| `FramesExact` | `FrameExact` |
| `ParametersInferred` | `InferredByCaller` |
| `ContextsKeepTypes` | `OperandsSound` |
| `KnownIsExact` | `KnownExact` |
| `LastPassIsEnough` | `LastPassDecides` |

It assumes of the functions that they are balanced and their stack is moved by constants
(`ProgramAssumption`), that the reversed graph is the graph reversed (`BackwardAssumption`), and
that each instruction has the operands of its family (`OperandAssumption`: the code panics
otherwise), in registers of `RegName`, and none is in the entry or the exit, which the builder
adds as blocks of no instructions; of the debug info that its variables and signatures have types of one set
`Type` (`DebugAssumption`), in which the memory models hold scalars only
(`TypeAssumption`), as TypeFactory.cpp makes them: the memory model of a structure is
that of its members moved to their places, down to the base types and pointers. A library
function has scalar parameters (`DebugAssumption`), because the code panics at any
other (BackwardAnalysis.cpp 683).

A walk is exact because what it has marked leads to what it has marked or has still to
call (`Frontier`), and because every closed set with the root holds all it has marked
(`Within`). A frame is that of every run because a balanced function has one frame before each
instruction (`depth`), which the pass carries along and the machine has too (`Carried`,
`Noted`, `MachineInv`).

`ContextsKeepTypes` is the statement about all the transfer functions: whatever instructions
come in whatever order over whatever debug info, no context holds a type at which the joins
would end in `FIG_UNREACH` (TypeCalculator.cpp 113). That a context has no structure
is not inductive: what is behind a pointer is looked up in the memory model of the object type,
so it matters what that is made of, and what its pointers point to, to any depth. Types of
infinite depth can be had from the debug info (a list), so `Tame` says it without
recursion: the type is in *some* set that is closed under what its types point to and are made
of (`ClosedTypes`). `Sound` types are tame and no aggregate. Every look-up in a tame type
yields a sound one or nothing (`SoundFound`, `SoundFirst`), a union of two sound types is sound
(`SoundUnion`), and each transfer function keeps contexts sound
(`ForwardGood`, `BackwardGood`). The rest is about places: an RIP-relative operand means
another address at another instruction, so no context may carry it on. `Prepare` removes it at
each instruction, and after that only operands of the instruction itself are entered
(`Fine`); so what the last pass left in a block is the instruction's own (`Owned`), and by
`WalkExact` that holds of every block the parameters' pass comes to.

`KnownIsExact` is about two analyses of one function. That a known variable is accessed
(`KnownOK`) needs that its block has frames, which holds because the frames are noted of a set
of blocks that is closed under the edges (`FramedOK`). That the redundant variables are
redundant compares runs: a step of the first three passes is a function `Follow` of the state and
of the variables that are missing (`FollowNow`), so the first analysis has a `History`, the
sequence of its states, and the invariant `HistoryOK` says that the analysis made again is in a state of
that history. It stays there because a step which learns none of the missing variables
is the same step without them (`SameFollow`; `Near` says it of each place a variable is looked for),
and what any step of the history learned was known at its end (`KnownGrows`).

`LastPassIsEnough` compares runs too, but these two do not go the same way: the
analysis of which only the last pass is made has read no context of the passes before and noted
no size. Their walks are the same, since a walk depends on the graph alone. So the first
pass draws a line (`Line`): the places it comes to and, at each, the sizes of registers noted so
far. The last pass of the first analysis goes along it with at least the sizes of
its end (`Along`), because no step forgets a size (`SizeGrows`); the last pass alone goes along
it with just the sizes of the place it has come to (`NowLight`). The heart is `StepTwins`: from
the same context, one instruction gives the same context if the wider sizes cover those
behind the instruction, for the operands of the instruction have been noted by then on both sides
and no other size is read. `Beside` is what two states have in common step by step: the variables known, the
context of the block being done, and all that was found in the blocks already done. A join is
the same on both sides if the predecessors have been done (`Ordered`), which is what
`InOrder` asks for. `DecideOK` is the invariant. It was found to need the blocks of the walk in the
statement: of a block that no path comes to, the backward pass leaves what the last pass
never overwrites.

`AsmCFGProofs` proves for every set of programs, with any number of functions,
instructions, jump tables and calls, and every order in which hash tables yield the
functions and the blocks:

| theorem | property |
|---|---|
| `BlocksAreExact` | `BlocksExact` |
| `EdgesAreFlow` | `FlowExact` |
| `StopsByOverlap` | `UndefinedByOverlap` |
| `LinkingKeepsFlow` | `LinkKeepsFlow`, the action property of `JoinedInTheEnd` |

It assumes that the instructions of a function are one or more, each beginning where
the one before it ends, as a disassembler finds them, and that memory has words
wherever the code looks for a jump table (`ProgramAssumption`); that addresses are
numbers below `MaxAddr` (`AddressAssumption`); that an empty optional is no block
(`NoBlockAssumption`). Targets of jumps, words of tables and displacements are any
numbers: a jump may leave the function or enter an instruction.

The inductive invariant is `CFGInv`. `HeadsKnown`: the heads are the first instruction
and what the instructions passed so far make heads. `Filling`: in the graph being built
the statements dealt out so far are split among the blocks, each of which holds the
run of instructions from its head up to the next head, so that `next` and `end` follow
from the code. `Laid` says the same of a graph whose instructions are all dealt out, and
keeps it while other graphs are built; it gives `Partition`. `Flows` ties the edges of a
block that was met to its last instruction, and says that a block not yet met has none;
by `Laid` that instruction is the one before the next head, which gives `FlowComplete`
and `FlowSound`; `StraightLine` follows because what an instruction may go to has
been made a head, unless it is a switch the builder does not recognise.
`EdgesMirrored` is inductive by itself once an edge is known to be pushed at both ends:
`Leaving` and `Reaching` of what is appended are taken apart by the lemmas about
flattened sequences. `Stopped`: the block with no statement is a head
in the range of the function at which no instruction begins, so that it lies in one, and only a
direct jump makes such a head, since a table's words are looked up first. `high_pc` is
the *beginning* of the last instruction; were it its end, a jump behind the function
would make a head too, and the proof would fail there, as the mutant does in TLC.

`InfoLayoutProofs` proves for all programs of any number of cells, functions, parameters,
variables and globals:

| theorem | property |
|---|---|
| `ReferencesResolve` | `RefsResolve` |
| `UnitDecodable` | `Decodable` |
| `ScopesKept` | `VariablesScoped` |

It assumes `ProgramsAssumption`: cells have the kinds and fields that `initTypeCells`
makes, what refers to a type refers to a cell, and the variables of one function differ
(an id stands for the DIE a variable comes from, which the collection visits once). The argument: the size of a DIE
is that of its shape, which does not depend on the offsets (`InfoEntry` replaces
contents, not sizes); `Place` and `EmitTypes` go through the same cells in the same
order, so that the offset which the first loop gives to a cell (`Placing`) is where the
writer stands when it comes to that child (`Built`, `Starting`). So the offset put into a
reference *before* its target is emitted is right. References are compared modulo
`Limit`, since the form has 4 bytes. `Decodable` needs of each shape
that its abbreviation tells its fields, and that children and end items are balanced;
the shapes are proved to be so one by one and the unit as a whole by the lemmas of
`FoldFacts` on flattened sequences.

`ScopesKept` goes the same way. `Scoped(d, outer, W)` says of a part `d` of a DIE, wherever it
stands below a scope of the range `outer`, that it writes the variables `W`, each once and in
its range, and that the blocks it opens it also closes. That is kept by concatenation as long
as no id occurs on both sides (`ScopedBoth`), so that it remains to look at a variable, a block
(`BlockScoped`, where the range around its variables becomes its own), and the blocks
together: the order of the map has each range once and leaves none out (`EachOnce`), which is
why no variable is lost or written twice.

`CollectionProofs` proves for every program, of any number of units and DIEs nested in any
way, and any set of redundant variables:

| theorem | property |
|---|---|
| `Invariant` | `IInv`, the inductive invariant |
| `GlobalsAgreement` | `SameGlobals` |
| `FunctionsAgreement` | `FunctionsAgree` |
| `LinkerReads` | `LinkerReadsOn`, the action property of `CollectionsEnd` |

It assumes `ProgramsAssumption`, what InfoParser and DWARF give: a unit has a root, a
parent comes before its children, no two attributes of a DIE have one name, addresses
and sizes are not negative, and a reference to a type is not 0, since it is an offset
behind the unit's header. Lists of attributes, tags, forms, and what refers to what
are arbitrary; most programs so allowed end in `panic`.

The two recursions never see each other's lists, so the invariant ties each of them to the
DIEs. A collection has passed the places before `at` (`Seen`); its list has an entry
for each place of its kind passed, in their order (`Lists`), and the entry is what the DIE
says (`GlobalsListed`, `FuncsListed`, `CustomFilled`, `CellsListed`). Two lists of the same
places in the same order agree entry by entry (`SameLists`). What is read of a DIE depends
on the declarations, which are complete before the first function is read, so nothing
that was listed changes its meaning (`SameDescribed`, `SameFunc`).

Within a function the two recursions hand down different things, a start and an end
or a start and a length: `SameRanges` proves by induction over the DIEs that they name the same
range. That recursive definitions have the value they say is itself proved
(`ScopeExists`, `HandedExists`), and so is the order of the variables (`NthFacts`,
`OrderedFacts`). `SameVarsHold` maps the variables that the linker keeps, in order, to those that
the inference has. A variable belongs to one function (`ScopeOfOne`), since the way up
from it passes lexical blocks only.

`LinkerReadsOn` was first stated without `ReadsMore`, and no proof went through: a function
with a declaration that has a type of its own, which the inference does not read, and a
variable whose unknown type is behind its location stop the linker after the whole
inference has run. Both are among the refused programs of `collection`.

Sums and flattened sequences are recursive functions, and the induction theorems of the
library cannot be used here, since they take a predicate as a parameter. `FoldFacts`
does without them: it takes the set of counterexamples, which has a
least element because the order of the naturals is well-founded. So facts about folds
are theorems here; it is the length of such proofs, not their possibility, that leaves
the following to TLC.

Only model-checked: termination (liveness is out of the prover's reach), the end of the
collections among it, and the properties of `DebugInfo`, which compare what is read with a
tree defined recursively.

## 5. Not modelled

- The construction of `VType`s from the database (TypeFactory.cpp): the analyses take
  the types as given, with their memory models.
- `fix_offset`, `fix_reference_*`, the writers of fixed length that they call, the entries
  of location lists: their calls are commented out (Context.cpp 1000-1065). Line tables
  and the call graph: `init_line` and `initCG` are never called.
- ELF input and output, library signatures: reading and copying of files.
- Tables of names, logging, configuration, JSON and dot output. Vendored headers.
- Undefined behaviour beyond what is said above: the end of a section that is not
  terminated, shifts past 64 bits (Buffer.cpp 109), more parameters than registers
  (BackwardAnalysis.cpp 672), a module number of more than 16 bits, sizes of structures
  and addresses truncated on output (TypeCell.cpp 157, FunctionCell.cpp 36).

## 6. Plan

What is left, by worth:

1. The construction of the factory's types, composed with `TypeResolution`.
2. The layout of the output file in `dump`.
