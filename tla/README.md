# resurg: a TLA+ development of the compiler and its runtime

Resurg is a language whose compiler (`src/`) emits C11 that is linked with a
runtime library (`runtime/`); a language server (`tools/rsg-lsp`) uses the
compiler's front end. This directory holds TLA+ modules that model the parts of
it with state or with algorithms that are easy to get wrong, TLC
configurations that check them on small instances, and proofs that TLAPS checks
for every value of the constants.

- [The system](#the-system): its parts, their state, what is hard in each
- [The modules](#the-modules): which models what, and how it corresponds to the code
- [The runs](#the-runs): what is checked, within which bounds, under which fairness
- [The proofs](#the-proofs): what is proved, from what, and how
- [Known divergences](#known-divergences): what the code does not do as its documents say
- [What is not modelled](#what-is-not-modelled), and [the plan](#the-plan)

Paths are relative to the repository's root.

## The system

The compiler is a sequence of passes over one compilation unit, driven by
`src/driver/pipeline.c`: lex, parse, resolve (names, types, imported modules),
check, monomorphise, lower to HIR (with constant folding and escape analysis),
emit C. It runs in one thread and shares one `Sema` between the passes. The C it
emits calls the runtime: a garbage collector, panics and their recovery, and a
library of strings, slices, maps, files. The language server keeps a table of
open documents and runs the front end on each change.

| Component | State | Operations | Interacts with |
|---|---|---|---|
| Garbage collector (`runtime/rsg_gc.c`) | sorted array of blocks, marks, threshold, registered roots, worklist | `rsg_heap_alloc`, `rsg_gc_collect`, `rsg_gc_add_root`, `rsg_gc_remove_root` | the emitted program's stack, registers and statics, which it scans |
| Slices, heap cells (`runtime/rsg_slice.c`, `emit_expr.c`) | words of blocks | allocate, sub-slice, load, store | collector |
| Panic (`runtime/rsg_panic.c`) | stack of `setjmp` frames, flag, message | push, pop, panic, recover, repanic | emitted prologues and epilogues, which must balance it |
| Emitted control flow (`emit_file.c`, `emit_stmt.c`) | per activation: frame, defer flags | call, return, defer, cleanup | panic |
| Hash table (`src/core/hash_table.c`) | slots, count, capacity | insert, lookup, remove, resize | every symbol table of the compiler; the runtime's copy |
| Module graph (`src/core/module_graph.c`) | nodes, edges both ways, dirty marks, order | add, add_dep, topo_sort, mark_dirty, dirty_set | none yet: nothing calls it |
| Type parameter scopes (`sema_generic.c`, `resolve_type.c`, `check_generic_call.c`) | one table of names in scope | push/pop, alias binding, inference | hash table; recursion of the passes |
| Escape analysis (`src/pass/lower/hir_escape.c`) | addresses, taints, promotions of a function | collect, mark, promote | collector, through the cells it introduces |
| Monomorphisation (`src/pass/mono/mono.c`) | worklist of instances, depth | instantiate | checker, which queues instances while the worklist is walked; type parameter scopes |
| Name resolution, modules (`src/pass/resolve/`) | tables of functions, types, pacts, templates, symbols; current module | declare, load, import, look up, instantiate, enforce pacts | files, hash table; the checker, through the methods it instantiates |
| Checker (`src/pass/check/`) | types of expressions, current module and function | syntax-directed | all of the above |
| Lexer, parser (`src/pass/lex/`, `src/pass/parse/`) | position, tokens of the string being handed out; position, pending documentation, flags | next token; recursive descent with speculation | driver, language server |
| Lowering, constant folding | HIR under construction | syntax-directed | checker's tables |
| Driver (`src/driver/`) | the pass reached, error count | run passes | all passes |
| Language server (`tools/rsg-lsp/`) | documents with their text, symbol index and tokens; shutdown flag | open, change, save, close; definition, hover, references, symbols, tokens; shutdown, exit | front end; the editor, over two pipes |
| Arena, buffers, diagnostics (`src/core/`) | chunks, lengths | allocate, append | all |
| Runtime library (`rsg_str.c`, `rsg_sort.c`, ...) | values | pure | collector |

What is hard to get right here is seldom concurrency, since each program is
single-threaded and only the language server talks to another. It is state that outlives the code that set it up: marks and
sorted indexes across collections, global flags that user code may change
between being set and being read, one global scope saved and restored by nested
instantiations, tombstones that a counter forgets, an address that leaves the
frame it points into; and the interleaving of the emitted program's steps with
those of the runtime. `PROJECT.json` lists these hazards, each at its line, with
the properties that would catch it.

What makes each component correct:

- collector: nothing reachable is freed, nothing unreachable is kept but for the
  conservative scan, the index both searches rely on stays sorted, no mark
  survives, allocation does not thrash, and collections end;
- panic: the frame stack matches the activations that have one, a panic goes on
  until a `catch_panic` catches it, defers run once in reverse order, and the
  message is that of the panic caught;
- hash table: it is a map, and each call returns;
- lexer and parser: what is written is what is read, whatever the layout; what is
  accepted has been read in full; documentation goes to the declaration below it;
  both end on every text;
- names and modules: a call reaches a function that declarations and imports, as
  written, give its name, and never another module's private one;
- generics: an instance is its template with the arguments for the parameters,
  substituted at once; it has all the methods that extensions give it; its
  arguments satisfy what its parameters ask for; it is emitted once;
- pacts: what conforms to a pact has all that the pact and those above it ask for;
- module graph: the two directions of edges agree, dirtiness reaches all
  importers, the order lists every module once;
- escape analysis: no returned pointer dangles, and only what is returned moves;
- language server: what it holds and what the editor shows follow the editor's
  buffers, each request gets one answer, for the text it was asked about, and the
  process ends with its editor.

## The modules

Each definition that models code has a row in `PROJECT.json` under `map`, with
the lines it stands for. An operator introduced by a comment "Mutant:" is a
plausible mistake in the definition below it; no specification uses it.
Substituting it must violate the property that `mutants` pairs it with.

### `GcHeap`: what a collected heap promises

The program's side: slots on the stack (`Locals`) and in C statics (`Statics`)
that hold addresses, blocks with contents, moves, loads, stores, interior
pointers (`Advance`, from `rsg_slice_sub` and `&a[i]`), registration of statics,
allocation, and an action `Reclaim` that may free any block no root reaches.
There is no collector in it. `Reachable` is the least set of blocks closed under
"a root, or a word of a block in the set, points into it". `NoDangling` is what a
program relies on. Memory is a range of word addresses: sizes, headers and
interior addresses are numbers, since the collector compares them.

### `RsgGc`: the collector

`rsg_gc.c`, with one action per step of a collection: `StartMark` (roots to
scan), `MarkValue` (one word: `gc_mark_value`), `Trace` (pop one object),
`SweepKeep`/`SweepFree` (one object, compacting in place), `Finish` (new
threshold), and `HeapAlloc`, `Malloc` for `rsg_heap_alloc` before and after its
collection. The two binary searches are given by what they compute, the split
point; the proofs show that it exists and is right. The roots are the list of
`g_gc_roots` with its repetitions and its swap-with-last removal; `Registrations`
counts them, and is the refinement mapping to `registered` of `GcHeap`.

The program moves only while `pc = "run"`: the collector runs inside an
allocation of the same thread. `GENERATED = TRUE` is the program that cgen
emits, which uses its statics and registers none; `FALSE` is a program that
uses a static only while it is registered. `malloc` may return any vacant address; that it
keeps headers apart is `Vacant`. An empty block has no word for a pointer to
lie in; the program's slot then holds a pointer that resolves to nothing, which
is NULL here. One-past-the-end pointers of empty sub-slices are not formed,
since nothing is read through them.

### `RsgPanic`: panics, defers and `catch_panic`

The runtime's frame stack together with the control flow that cgen emits for
functions with defers and for `catch_panic`: `Enter` and `Call` (prologue,
`setjmp`), `Defer` (a defer statement sets its flag), `Return` (pop and go to the
cleanup), `RunDefer`/`EndDefer` (the cleanup in reverse order of the text),
`Panic` (`longjmp` to the top frame, or exit), `Repanic`, `LeaveFn`,
`ClosureReturns`, `Recover`. Histories record what caused the current panic and
what ran. Four constants open what a defer body may do: `DEFER_LOOPS` (a defer
inside a loop), `DEFER_PANICS`, `DEFER_CATCHES`, `DEFER_RETURNS`.

### `HashMap` and `HashTable`

`HashMap` is a map from keys to values whose calls have a start and an end.
`HashTable` is `hash_table.c` with one action per probe, tombstones, and a
rehash of the whole table; it implements `HashMap`. The code masks a hash with
`capacity - 1`; capacities are powers of two, so this is `%`. Hashes are a
constant function, chosen to collide.

### `ModuleGraph`

`module_graph.c`, with Kahn's loop and the recursive marking one iteration at a
time. `LATE_EDGES` admits an import of a module that is dirty already.

### `EscapeAnalysis`

`hir_escape.c` on every body that can be written with a few statements, then a
run of the body that results: pointers to the stack, to the heap cells of
promoted `&x`, or to elsewhere. What the pointers point to has no content. `COPY_DECLS` admits declarations that copy a
pointer, `REASSIGN` pointers that are given an address twice. `MAX_ADDR` is
`EA_MAX_ADDR`.

### `LspSymbols` and `LspServer`

`LspSymbols` is what the server computes from a text: `Compile`
(`compile_diagnostics`, with its early exits), the order in which the symbol
index lists a declaration's entries, the search for the entry that a name at a
line stands for, the walk over declarations and methods that collects semantic
tokens, their order and their differences. A text is given by what the front end
finds in it: the word on each line, and its declarations as the passes leave the
tree, with the positions that each body uses. That tree has a body more than once
where a generic declaration has instances (`mono.c:24` and `98`) and where an `ext`
block takes over a default method of a pact (`resolve_ext.c:160`); the front end
itself is not modelled here. The
loops of the server are recursive functions of the round (`FindSymbolAt`, and
`Keep` of `Lists`, which copies some elements of a list and serves `ModuleGraph`
too); `qsort` is given by what it returns, the tokens in the order of
`lsp_sem_token_cmp`, those at one position as often as they were.

`LspServer` composes these with the server's loop and with an editor at the
other end of two bounded pipes. Every handler is one action that reads one
message and writes at most one, which blocks while the pipe is full, exactly as
the loop does; the loop does not read meanwhile. The editor sends without
waiting for answers: opens, changes, saves with and without text, closes, and
all five requests about documents that are open or not. It may die at any time,
at times in the middle of a message. `shown`, `buffers` and `pending` are the
editor's; they say what it believes, and the properties compare them with the
server's store and answers. The editor keeps to the protocol: `initialize` is
first, requests about documents come before `shutdown`, `exit` after its answer.
The server serves other orders too, without the errors that the protocol
prescribes, and ignores unknown requests; no property depends on that.

### `Tokens`, `Lexer`, `ParserBase`, `Parser`, `Frontend`: from text to tree

The scanner and the parser, from the characters of a text to declarations.
`Lexer` takes the record of the scanner and gives it back with a token, as
`lex_next` does: comments and documentation, numbers with the special case of
`1..2`, strings whose interpolated blocks are scanned in place and queued in
`pending`. `Parser` has one operator for each `parse_*` function; `ItemList` and
`Loop` stand for the two forms of loops, and `Parse`, the one point through which
they recur, dispatches on the name of the construct, the heads, type parameters
and where clauses of declarations included. A loop that comes round to the token it started
from sets `hung`, which is what a parser that never ends is here. Error recovery,
lookahead, the speculation on `<` and the flag `no_struct_lit` are as in the code.
`Frontend` is the driver: one action for each token scanned, `StartParse`
(`stage_lex` fails on error tokens only), one for each declaration, `FinishParse`.
Literals keep their text, an escape is cut off and not decoded, and messages are
counted.

`Grammar` is the other direction and no part of the compiler: it writes a syntax
tree down as tokens, with the fewest parentheses that the precedence table of
the repository's README allows. The properties compare the two.

### `Names`, `Imports`, `Passes`, `Sema`: from tree to instances

The passes resolve, check and mono. They share one state, the record that
`Names` describes (`struct Sema`), and call each other: resolving a type may
instantiate a template, which checks the bodies of its extension methods, which
resolves types. So an operator of `Imports` or `Passes` takes the record and
returns the one it leaves, and `Do` in `Passes` is the one point through which the
passes recur.

- `Names`: the tables and the look up in them, with the retry under the current
  module's name (`module_fallback_lookup`); how types are printed and mangled;
  binding and restoring of type parameters.
- `Imports`: what a `use` brings into the tables, with `super`, `self`, renaming,
  re-export and wildcards, which copy entries under further names; what a pact
  asks for, with the pacts above it.
- `Passes`: resolution of written types, aliases and defaults; instantiation of
  structs, enums, extensions and functions; inference; bounds, where clauses and
  constraints; calls by name, by path, of methods, of methods of slices; bodies;
  and the registration of declarations: embedded fields, extensions, conformance
  to pacts, with defaults.
- `Sema`: the passes, one declaration at a time, in the order of
  `register_all_decls` and `register_module_decl`; modules in the file, next to it
  or in the library; the worklist of `mono.c`, which grows while it is walked.

Of a body its calls are kept, in the order in which the checker meets them. A
generic function's body is checked where `mono.c` checks it: in the name of the
module that was checked last.

`Denotes` says what a text means without those tables: which functions a name can
mean, by a closure over declarations and imports; what a type is, by
substitution at once; what a pact asks for, by reachability. The properties compare
the tables, and the histories `calls` (where each call went) and `made` (which
instances exist), with it.

`Worklist` is the queue of instances by itself, without saying which bodies ask
for what: mono takes one after the other, leaves out what has the name of an
earlier one, and the bodies of the others may add to the end. `Sema` implements it
(`ImplementsWorklist`, with `insts` for the queue), so that what is proved of
every such queue is true of the passes, which are out of the prover's reach.

The model was compared with the compiler itself: each program of the run
`sema`, printed as Resurg source and compiled, is accepted by the compiler exactly
if the model accepts it.

### The proof modules

`GcHeap_proofs`, `RsgGc_proofs`, `RsgPanic_proofs`, `HashTable_proofs`,
`ModuleGraph_proofs`, `EscapeAnalysis_proofs`, `LspServer_proofs` and
`Worklist_proofs` each extend the module they are named after.

## The runs

| Run | Instance | Shows |
|---|---|---|
| `gc` | 5 words, header of 1, blocks of 0 to 2 words, 1 local slot, 1 static, 2 registrations, threshold 2 | `NoDangling`, `SortedIndex`, `MarkedIsReachable`, `NoStaleMark`, `RoomAfterCollect`, `ImplementsHeap` (refinement), `CollectEnds` |
| `gc_generated` | one static, never registered | `UsableResolve` fails |
| `panic` | 2 defers per function, 4 activations, 2 messages, defer bodies that fall through | `FramesMatchCalls`, `CauseIsReported`, `DefersRunLifo`, `PanicGoesOn` |
| `hash_table` | 4 keys, 2 values, 4 growing to 8 slots, colliding hashes | `ProbeChains`, `CountIsKeys`, `ImplementsMap`, `SearchEndsAtEmpty` |
| `hash_table_tombstones` | keys with hashes spread over the slots | `CallsReturn` fails |
| `module_graph` | 3 modules, all graphs | `EdgesMirrored`, `DirtyPropagated`, `OrderIndexed`, `CallsEnd` |
| `escape` | all bodies of up to 5 statements, 2 pointers, 2 locals | `NoDanglingReturn`, `PromotedIsReturned` |
| `lsp` | 2 documents, 3 texts, 4 messages, pipes of 2 and 1 messages | `NothingLost`, `DocumentsCurrent`, `DiagnosticsCurrent`, `AnswersMatch`, `EveryRequestAnswered`, `ServerEnds` |
| `frontend` | 197 programs in two spellings, 8 with strings and comments, 18 broken texts, 1270 with a token left out | `ScansBack`, `ReadsBack`, `AcceptedIsRead`, `DocsAttached`, `NeverHangs` |
| `frontend_hang` | an attribute before a method of an ext block | `NeverHangs` fails |
| `sema` | 6932 programs | `PrivateHidden`, `CallsMean`, `SubstitutedAtOnce`, `InstancesExtended`, `PactsKept`, `BoundsKept`, `EmittedOnce`, `ImplementsWorklist` (refinement) |
| `sema_private` | the same programs | `PrivateByDefault` fails |

Why the bounds are enough. `gc`: chains and cycles of blocks, empty blocks,
interior pointers, garbage between live blocks, a sweep that compacts, a second
collection after a threshold change, and a static registered twice and removed
once all occur; longer chains and several statics do not fit, and are covered by
the proofs. `panic`: an activation that
catches, one that is unwound with defers, one that calls during its defers, and
one below. `hash_table`: growth needs the table three quarters full,
and chains that wrap round the end and pass tombstones occur with four keys.
`module_graph`: three modules have all the cycles and diamonds
that matter for marking; a diamond with four is a repetition of the same merge.
`escape`: declaration, assignment, return and one more link of a chain.
`lsp`: four messages hold open, change, close and open again, or two edits with a
request between them in the pipe; a pipe of one and a pipe of two messages are
both full at times. The cursor is on line 3, where the first text has a name with
entries of the library and two of its own, the second a name with an entry of the
library above and one of its own below, the third a type. In the first text an
`ext` block takes over a method of a pact, so its tokens come out of order and one
of them twice.
`frontend`: every production of the grammar is in a program, with each pair of
operator levels in both groupings, each operand under each prefix and postfix
operator, and each statement, type and declaration next to another of its kind,
where a flag or a comment that is left behind would show; each token of the
declarations is left out once. Two kinds of texts are left out and said where
they are (`ReadOtherwise`): the colon of a public field, and the brace of an
import list. `sema`: the families are products: modules a, b and a.c with each
form of import, renaming, re-export and wildcard, each call, functions before and
after modules, modules in files and in the library, nested and twice; generic
types within each other, whose parameters have the same names in both orders,
with one or two extensions, and every pair of thirteen calls; pacts above each
other, conformance with each set of own methods, and each form of bound. `Steps`
is four, more than any chain of imports or pacts in them.

Two runs are symmetric in their model values (messages in `panic`, pointers and
locals in `escape`); both check safety only. `CHECK_DEADLOCK FALSE` stands where
the program may stop: the collector aborts when out of memory, a process exits
on an uncaught panic, a body returns, the language server exits, and the front end
is done with its text. `sema` checks for deadlock: the passes never get stuck, since
`Stop`, the only step that changes nothing, is for programs accepted or
rejected.

Fairness. Everything is one thread that keeps running, so a step of a loop that
is enabled is taken: `WF` of the collector's steps in `RsgGc`, of the table's own
steps in `HashTable`, of the sort's and the marking's steps in `ModuleGraph`, of the
server's step in `LspServer`. Nothing forces the program above them to call
anything. The one assumption about another process is that the editor reads its
end of the pipe (`WF` of `Receive`), without which no server could go on; it is not
assumed to send, to shut the server down or to live. Since it sends at most
`MAX_SENT` messages, `EveryRequestAnswered` can say that a time comes when no
request waits. `frontend` needs no fairness: that the parser does not end shows in
`hung`. `Sema` has none: each of its steps does a whole declaration, so what it
could add is that the worklist ends, and that is not so (see below).

## The proofs

`GcHeap_proofs` proves of the abstract heap, for any size of memory, sizes of
blocks and sets of slots:

- `LayoutHolds`: types, and blocks that never overlap one another's words or
  headers;
- `NoDanglingHolds`: nothing the program can get at dangles, if no static is
  used unregistered (`~ GENERATED`).

The second is not inductive through `Reachable`, a least fixed point that every
store changes. The proof replaces it with `Sound(S)`, some set of blocks that
every root word and every word inside points into, or to nothing. `NoDangling`
holds exactly if such a set exists (`SoundEnough`, `ReachableSound`); each step
then exhibits one: the same set for a step of the program, with the new block
for an allocation, and the reachable blocks, none of which is freed, for `Reclaim`.

`RsgGc_proofs` proves of the collector, from `GcAssumption` alone:

- `Refinement`: `Spec => ImplementsHeap`, each step of the collector is one of
  `GcHeap` or none;
- `TypesHold`, `SortedIndexHolds`, `MarkedIsReachableHolds`, `NoStaleMarkHolds`,
  `RoomHolds`, and `NoDanglingHolds` (through the refinement).

These are the safety properties that the run `gc` checks, and the types. Three
theorems say how a collection ends:

- `CollectionEnds`: each of its steps leaves less to mark, to trace, to scan or to
  sweep, in this order;
- `WorklistBounded`: the worklist, which grows in the middle of an allocation, never
  holds more than there are objects;
- `CollectionExact`: the blocks that are left are the reachable ones, of what is reachable
  then. Nothing live is lost, and no garbage is still there, cyclic or not.

The inductive invariant `Inv` has one conjunct per concern: types; the layout of
the heap; `Index`, which says that the entries of the array that count (in a
sweep, those kept so far and those ahead of the read cursor, with stale ones in
between) list the blocks in ascending order; `Marks`, which says in the mark phase that
every root and every word of a scanned block is waiting to be scanned or points
to marked blocks (the tricolour invariant) and that only reachable blocks are
marked, and in the sweep that the kept and the still marked blocks form a closed
set; `Pending`, which carries the room below the threshold to `malloc`. Without
the sweep's closed set one cannot see that an unmarked block is unreachable,
since some marks have been cleared by then. The searches rest on
`SplitAbove` and `SplitAtOrAbove` (the split point exists, by the least element
of a set of naturals) and yield `FindCorrect` and `InsertCorrect`; the root list
rests on `AppendRegisters` and `OverwriteUnregisters`, which count entries.
`Inv` was checked by TLC before it was proved.

`RsgPanic_proofs` proves of panics, for any number of defers, messages and nested
activations:

| theorem | what a defer body must not do |
|---|---|
| `TypesHold`, `FramesMatchCallsHolds`, `CauseIsReportedHolds` | return |
| `PanicGoesOnHolds`, `PanickingMeansUnwindingHolds` | return; run because of a panic and raise one of its own, even a caught one |
| `DefersRunLifoHolds` | return; be left by a panic; moreover no defer stands inside a loop |

The first three thus hold of more programs than the run `panic` covers. The
conditions are not idle: with `DEFER_RETURNS` TLC finds `FramesMatchCalls` violated,
with `DEFER_CATCHES` `PanicGoesOn`, with `DEFER_LOOPS` or `DEFER_PANICS`
`DefersRunLifo`. The inductive invariant has four parts. `Stack` says that the frames
are, in ascending order, those of the activations inside their regions (`Matches`),
that only the newest activation can be at its label or just caught (`Shaped`), and
what the fields of one activation say of one another. `Reported` adds that while the
flag is set, the message is that by which the newest unwound activation was reached;
`PanicState`, that there is only one such activation, and none when the flag is
clear. `Lifo` says, for each activation, that the defers that have run are the last
ones of those reached and that the position of the cleanup separates them from the
others (`InOrder`); and `NoEscape`, without which a repanic could pass over a defer
body: between a defer body and a function above it that was unwound to, a
`catch_panic` is open. The
lemmas are about sequences before and after a step (`Pushed`, `Shorter`, `CutAt`),
so that each is stated once for the actions that share the effect. All parts
were checked by TLC before they were proved.

`HashTable_proofs` proves of the hash table, for any set of keys, any hash
and any initial capacity: `TypeCorrect`, `ProbeChainsHolds`, `CountIsKeysHolds` and
`Refinement`, that it implements `HashMap`. The inductive invariant says of a
table that its keys are distinct and their chains whole (`Table`); `Finding`, that the
slots a search has passed hold neither its key nor an empty slot, so that a
key is absent if an empty slot is met and an insertion makes none occur twice;
`Rehashing`, that the new table holds
exactly the entries below the cursor (`Copied`), which makes the swap at the end
change nothing. The arithmetic of the probe is in lemmas about `Step` and
`Distance` round the end of the table. `CallsAdvance` says that a search comes closer to
every empty slot with each one it passes, and a rehash to the last slot;
`RoomWithoutRemovals`, that as long as nothing is removed there is an empty slot
whenever a search runs, in tables of four slots or more (the code starts with 16). The
calls that do not return, in `hash_table_tombstones`, thus need removals.

`ModuleGraph_proofs` proves, for any set of modules and of imports between them:
`TypeCorrect`, `EdgesMirroredHolds`, `OrderIndexedHolds`, and `DirtyPropagatedHolds`
if no import of a dirty module is added (`~ LATE_EDGES`; with it TLC finds the property
violated). `Sorting` says of Kahn's loop that the order and the queue together
list distinct modules that nothing imports, and no other module, so that an order as long as the graph
lists each module once. That is the case only of a graph without imports:
`SortsUnconnected` says that `mod_graph_topo_sort` succeeds on those and on no other.
`CallsAdvance` says that each round of the loop leaves fewer modules for it, and each
step of the marking strictly fewer of finitely many visits to a module's importers
(`MarkLeft`), however the imports go round. `Walking` says of the marking that the
importers of a dirty module are dirty, unless a frame of that module is still on
the stack, and then those it has passed; when the stack is empty, the dirty set is closed, and so holds the
least closed set, `Importers`.

`EscapeAnalysis_proofs` proves `TypeCorrect` and `PromotedIsReturnedHolds` of every body
and every capacity of the tables, and `NoDanglingReturnHolds` under `Plain`: no
declaration copies a pointer, none is given a value twice, and the tables hold
every statement. TLC finds `NoDanglingReturn` violated without any one of the three.
`StraightInv` relates the run to the analysis: a pointer into the frame is tainted
with an `&x` that is not promoted (`StackTainted`), while marking has promoted all that the
returned pointer is tainted with.
`PromotedIsReturned` is about copies: `Carriers` of a statement are those that its
`&x` can get to through copies, and the return must be one of them. `Reached` carries
it along the pass: each entry of the taint map is of a pointer that a carrier of the
entry's `&x`, among the statements collected so far, has set.

`LspServer_proofs` proves all the safety properties of the run `lsp`, for any texts,
documents, lines, capacities and number of messages, from `LspAssumption` and
`SymbolsAssumption`, which say that texts and the library have the shape described
above, and that `NONE` is no text and no entry: `DocumentsCurrentHolds`,
`DiagnosticsCurrentHolds`, `AnswersMatchHolds`, `NothingLostHolds` and `TypesHold`. The properties speak of
empty pipes and of the moment of asking; the inductive forms speak of what is under
way. `Saw(k)` is the text that the editor had when it sent the message at place `k` of
the pipe: what the last edit in front of `k` says, or else what the server
holds. `StoreInv` says that a save carries that text, and that the text `Saw` at the end
of the pipe is the editor's. `ShownInv` says the same of diagnostics: the last
ones in the output, or else the ones shown, are of the text in the store.
`AnswerInv` says that each request waits with the text `Saw` at its place, that
its number is on its way once, as a request or as a response, and that a response was computed from a
document of its text. `PipeInv` has the capacities. `NothingLostHolds` adds the converse,
that a request that waits is under way, and that the server ends only when it was told
to and nothing waits. Two facts follow that a deadlock of the two
pipes would contradict: while a request waits, the editor has something to read, or the
server has a message and room for its answer (`UnblockedHolds`); and whatever the server
does or the editor reads, there is less to come (`DrainsHolds`).

From there to `AnswersMatch` is the correctness of what is computed. The search is
compared with `Nearest`, a definition without a loop, by the invariant `Closest` of
its rounds; `Keep` returns the chosen elements in their order (`KeepFacts`); a
sorted list of the same tokens exists, each as often (`SortingExists`, which sorts
the places of a list so that equal positions stay apart), sorting what was sorted
already counts the same (`RearrangedTwice`), and decoding inverts `Deltas`. The
prover has no induction over data, as the theorem that gives it takes an
operator; these lemmas use the least counterexample instead, whose existence the
library states for sets (`Reaches`), and a recursive function is shown to exist
by building it round by round (`Iterated`).

`Worklist_proofs` proves of the queue of instances, of any length and whatever the bodies
ask for: `AllEmittedOnceHolds`, that when mono is over every name that was asked for is in
the program once, and is what was asked for first under that name; and
`RoundsAdvanceHold`, that a round adds a name that was not there or only shortens the
queue. So mono can go on for ever only by ever new names, as `deep` below makes it
do, and no check of a depth stops it. `WorkInv` says that what has been seen is in the program
under its name (`Covered`), that no name is there twice (`Distinct`), and that what
is there is the first of its name (`First`).

Model-checked only: liveness (`CollectEnds`, `SearchEndsAtEmpty`, `CallsEnd`,
`EveryRequestAnswered`, `ServerEnds`), which is beyond the prover. What it rests on is
proved, that every step leaves less to do (`CollectionEnds`, `CallsAdvance` of table and graph,
`DrainsHolds`); what is left to TLC is that the steps are taken. Model-checked only, too, are
the properties of `frontend` and `sema`, that `Sema` implements `Worklist` included. The parser and the passes are recursions over syntax trees, in
`RECURSIVE` operators: the prover cannot reason about those, and what they compute
is an induction over the tree. `Do` of `Passes` could not be a recursive function
either, since the states of the passes that it takes are in no set that the
model bounds.

## Known divergences

Runs marked "fails" above are disagreements between the code and what its
documents, comments or tests say, listed under `findings` with the lines:

- statics that cgen emits are not roots of the collector;
- tombstones can fill the hash table, and a search then does not return;
- an attribute in front of a method of an ext block, and the parser never ends;
- after a module, the rest of the file is checked in the module's name, and may
  call its private functions.

What follows was confirmed with the compiler while its answers were compared with
the model's, or seen while reading. Where the model covers it, it does as the
code does, and the properties are stated so that they speak of the rest.

Names and modules: a call in a module to its own `f` goes to the root's `f` if
there is one, which is why `CallsMean` lets a call go to what the root may mean
(`resolve_type.c:9`); an import in a module is one of the whole program;
private structs can be imported; generic types and aliases
cannot be imported at all; `super` names what is registered before the module
only, so neither a later sibling nor a function of the root; `use superb::k` is
taken for `use super` (`resolve_module.c:416`); a second module of the same name is
dropped, and so is an empty one in braces, for a file; a wildcard import inserts
into the table it walks, and can lose names when that grows.

Generics: the body of a generic function is checked in the module that was
checked last, and resolves names there; `fn deep<T>(x: T) { deep(W<T> { v = x }) }`
is instantiated without end (the guard of `mono.c:44` reads a counter that is zero);
an instance that a signature asks for before extensions are registered has none
of their methods; a method of an extension of slices cannot call a later one; names
of instances can coincide (`f<A_B, C>` and `f<A, B_C>`, or equal private templates
of two modules); a default that names an earlier parameter is an unknown type; an
alias binds its parameters one after the other and removes them afterwards.

Pacts: the default of a lower pact for a method that a higher one requires is
not used; defaults are not added to enums and primitives; a default method added
to two types belongs to the last; cyclic pacts end in a stack overflow; an
extension of an unknown type is accepted.

Text: an import list without its brace never ends either (`parse_decl.c:533`);
documentation is lost after `mod name` without a body and after a top-level `if`,
and that of a field is dropped (`README.md:1144`); the type arguments of a super
pact are dropped, and so is the `pub` of an embedded field; strings within the
blocks of a string reset the queue of tokens; `x = match ...` is rejected.

Other: a defer that catches a panic ends the panic that ran it (`README.md:351`,
`DEFER_CATCHES` below); a pointer declared as a copy of a tainted one is not
tainted (`hir_escape.c:154`, `COPY_DECLS`); the definition of a library name is
answered as a place in the document that uses it (`lsp_server.c:838`); the tokens
of a default method that an `ext` block takes over, and those of a generic
declaration with instances, are sent again, as differences of (0, 0)
(`lsp_semtokens.c:274-279`, `lsp_server.c:1109`), and the instances are in the
outline under their mangled names; a promoted `&x` is a heap cell with a copy of
`x`, so later writes to `x` and through the pointer go to different places
(`emit_expr.c:526`).

The constants named above open more, which the passing runs leave closed:
`DEFER_LOOPS` violates `DefersRunLifo` (one flag per defer statement, however
often it is reached); `DEFER_PANICS` too (the frame is gone, the remaining defers
are skipped); `DEFER_RETURNS` violates `FramesMatchCalls` (the cleanup starts
over and pops the caller's frame); `DEFER_CATCHES` violates `PanicGoesOn`;
`LATE_EDGES` violates `DirtyPropagated`; `COPY_DECLS`, `REASSIGN`, and a `MAX_ADDR` below the
number of addresses, violate `NoDanglingReturn`. `mod_graph_topo_sort` refuses
every graph with an edge, acyclic or not, because its loop decrements the counts
of the other direction; `ModuleGraph` models it so, and `SortsUnconnected` proves it.

## What is not modelled

`PROJECT.json` gives the reason per component. In short: the emission of text,
lowering, data types and dumps (`src/repr`), thin wrappers of libc (`rsg_io`,
`rsg_fs`, `rsg_os`, `rsg_time`), and what is still in the plan. In the components
that are modelled: growth of arrays by `realloc`, lengths and bounds checks of
slices, memory exhaustion while panicking, values of locals across `setjmp`,
freeing of a hash table, returns in nested blocks and contents of variables in
escape analysis, malformed messages and document versions in the language server,
values of literals and positions in the front end. In the passes: operators,
statements, struct literals and field access, patterns, closures, the promotion of
numbers, tuple-struct constructors, bare variants, discriminants, imports of
values, and the two library files that every program starts with.

## The plan

In this order, the most state first:

1. `MatchCheck`: exhaustiveness against a reference definition; the statements and
   literals of the checker; `Lowering` of match, loops and closures.
2. `ConstFold` against the runtime's arithmetic, of fixed width, and the
   algorithms of `rsg_sort.c`, `rsg_str.c`, `rsg_path.c` against definitions.
3. Constructors, discriminants and values in `Passes`.
4. `Arena` and buffers: growth at the limits.

Compositions to add: `Frontend` under `Sema`, `RsgPanic` over `RsgGc` (what a
frame keeps alive).

Theorems to add: of the prefix paths and lookups in `Names` and `Imports`, which need no
recursion; that the server's answers follow the order of the requests.
