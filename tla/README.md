# Verification of pawn-analysis

TLA+ models of pawn-analysis, checked with TLC on small instances and proved
about, for every value of their constants, with TLAPS. The models are
translated from the Go source; `PROJECT.json` maps each definition to its lines.

- [The system](#the-system)
- [The models](#the-models)
- [What the runs check](#what-the-runs-check)
- [What is proved](#what-is-proved)
- [What the models leave out](#what-the-models-leave-out)
- [Findings](#findings)
- [Plan](#plan)

To check: `tlc -workers 2 -config Snapshot_race.cfg MCSnapshot` (and so on, one
configuration per run; the module of each is in the table of runs),
`tlapm SnapshotProofs.tla` (likewise `PreprocessorProofs.tla`,
`FunctionFactsProofs.tla`, `ConstantValuesProofs.tla`, `FunctionCachesProofs.tla`,
`MacroExpansionProofs.tla`, `ControlFlowProofs.tla` and `SymbolTableProofs.tla`, the
last of which takes about ten minutes).

## The system

pawn-analysis is a library that editors and command-line tools call. A host
holds a *snapshot* (package `query`): an immutable set of versioned documents.
It derives a new snapshot for each edit and asks snapshots, from any number of
goroutines, for the analysis of a document or of a workspace. An analysis
(`analysis.go`) preprocesses a text (`preprocess`), parses the original and the
expanded tokens (the external module pawn-parser), builds symbol tables
(`symbol`) and checks names, tags, states and control flow (`sema`, `cfg`).
Nearly every stage can take over the result of an earlier analysis. That is
where most of the difficulty is: the program promises the results of a clean
analysis and produces most of them from caches.

Nothing is persisted and no message is sent. Concurrency exists in two places:
goroutines that share a snapshot (and through it the results of its ancestors),
and runs of the preprocessor that share a token cache.

| Component | State it keeps | Operations | What is hard | What makes it correct |
|---|---|---|---|---|
| Snapshots, `query/` | documents; caches of results, of completed results, of reuse candidates and of workspace indexes, behind a mutex | `New`, `Update`, `Analyze`, `AnalyzeDocuments` | lookups and publications are separate critical sections with a long analysis between; entries flow from snapshot to snapshot; cancellation between documents | an answer is what a clean analysis of the same snapshot finds; all callers share one published result |
| Pipeline, `analysis.go` | none of its own: it combines a previous `Result` with a new text | `AnalyzeContext`, `CompleteContext` | which parts of the previous result an edit leaves valid | as above |
| Preprocessor, `preprocess/engine.go`, `directives.go`, `includes.go` | frames with stacks of conditionals, macro table, include stack, limits, recorded branches, includes and tokens | one handler per directive, recursion per include | unmatched, nested and interleaved conditionals; cyclic includes; cut-off and cancelled runs | a line is passed on exactly if all branches around it are selected; recursion is bounded; a cut-off is reported |
| Macro expansion, `preprocess/expand.go`, `pattern.go` | hide sets, depth, output | `expandRun`, argument and pattern matching | recursion through other macros and arguments | expansion ends; a macro is not expanded inside itself |
| `#if` expressions, `preprocess/ifexpr.go` | a position | an evaluator | precedence, division by zero | the value C would give |
| Reuse of a run, `preprocess/reuse.go` | none | `ReuseCompatible…`, `ReuseTrivia…` | offsets on the border of an edit | shifted ranges are the ranges of a clean run |
| Token cache, `preprocess/tokencache.go` | tokens of the last content of each file, behind a mutex | `tokenizeContext` | two runs miss at once, for different contents | tokens are those of the content asked for |
| Symbol tables, `symbol/` | scopes, symbols, references, stable identities | `build`, `Lookup`, `LookupCallable`, `PatchReference` | lookups by use and by patch | a patched table equals a rebuilt one |
| Cached checks, `sema/names.go`, `tags.go`, `controlflow.go` | per function: what was found for its body | `Check…Cached` | what a result depends on besides the body | a reused result equals a fresh one |
| Function facts, `sema/function_facts.go` | per function: reads, writes, mutated parameters, completeness | `ResolveFunctionFacts` | a fixpoint in map order with in-place updates | it ends, with a result that does not depend on the order |
| Constants, `sema/constant.go`, `constant_order.go` | values found, constants being evaluated | `resolveConstants` | cycles, arbitrary start | as above |
| State automata, `sema/states.go` | one pass over a tree | `checkStates` | little | (not modelled) |
| Control-flow graphs, `cfg/cfg.go` | blocks and edges | `build` | edges of nested and constant statements | an executable statement is reachable |
| Parser and lexer | external | | | an input here |

## The models

### Snapshot, CleanAnalysis

`Snapshot.tla` models package `query`. Its variables are the fields of every
snapshot (`docs`, `cache`, `complete`, `prior`, `priorComplete`, `workspace`)
and the locals of every goroutine inside the package (`pc`, `call`, `todo`,
`prepared`, `resolver`, `files`). An action is one critical section of
`Snapshot.mu` with the lock-free code next to it; that code reads only fields
that never change once a snapshot is built. `Update` derives a snapshot.
`Begin`, `Start` or `Missing` enter a query. `PrepareHit` and `PrepareMiss` are
one document of the first loop: found in the cache, or analysed outside the
lock; a publication is a step of its own, so that another goroutine can come
first. `Resolver` and the steps after it look up, build and store the workspace
index and complete each document. A goroutine can be cancelled wherever the
code looks at its context.

The analysis of a text is reduced to what the caches could confuse: its
exported declarations, the names it refers to, the identity of its symbol
table, whether the table was taken over, and a constant local to a function.
`AnalyzeContext` and `Complete` transcribe, at that level, which parts of a
previous result are reused and on what evidence.

`CleanAnalysis.tla` is the promise: documents, requests and answers, no cache.
`Snapshot` implements it under the mapping `AnswerOf` (`Clean == INSTANCE ...`);
both the run `snapshot_race` and the theorem `Refinement` show this.

Assumptions, stated as `ASSUME`: an edit classified as compatible keeps the
exports, and one that keeps the symbol table keeps the references too
(`CompatibleAssumption`, `StableAssumption`). This is what `preprocess/reuse.go`
and the patched symbol tables have to establish; `PreprocessReuse` and
`SymbolTable` are about that. Hashes are taken as injective. The host sets a non-empty
`Revision` with a fixed name resolver.

### Preprocessor

`Preprocessor.tla` models one run of `engine.run`. `frames` is the Go call stack
of `run` and `handleInclude`; a frame holds its file and its stack of
conditionals (`condFrame`). The other variables are the engine's fields. One
action handles one line: text (`emitActive`), each directive, and for `#include`
one action per outcome; `Enter` is the call of `run` for an included file,
`Leave` its return with the record appended afterwards. `Cancel` is a poll that
sees a cancelled context. File contents are chosen line by line while they are
read, so every content that the bound `MayRead` allows is covered, and a file that
is read twice may differ, as a resolver is free to answer.

A position is a line number and a line of text one token. A condition is true,
false, beyond evaluation, or the question whether a macro is defined. Diagnostics
that change nothing else are one kind. A macro expands to one token, or exceeds
the depth limit.

`BranchesTellTheView` is about every file read, during the run and after it: a line of
text was passed on exactly if all the recorded branches around it are active. A branch
that nothing closes keeps the empty body it was opened with; the property takes it as
being around all the lines after it, which is how a caller has to read it (see "Seen
while modelling").

### FunctionFacts

`FunctionFacts.tla` models `sema/function_facts.go`. A program gives each function
a source, reduced to what facts are collected from: its parameters, references to
variables, calls with the variables passed as arguments, and three flags (it is
native or forward; nothing in it is beyond the analysis; it has state).
`Direct` is `buildFunctionFacts`. `result`, `todo`, `changed` and `done` are the
state of `ResolveFunctionFactsWithResolver`: `Visit(f)` is one iteration of the
loop over the map, which Go may order in any way and differently in each pass;
it updates `result` in place, so that later visits of the pass see it. `NextPass`
and `Return` are the test of `changed`. `External` is the host's resolver.

What the facts should be is defined without any order: `Has` is the least
relation that holds a function's direct effects and what arrives through its
calls; `Doubtful` is the least set of functions that cannot be known completely.
Both are written as "in every closed set", so that theorems can be stated about
them. Facts of functions that are *not* complete do depend on the order (the
effects of an incomplete callee are not taken over, and it may become incomplete
before or after the visit of its caller); the code gives no meaning to them, and
no property claims one. The list `Calls`, which is not propagated, is left out.

### ConstantValues

`ConstantValues.tla` models `sema/constant.go` and `constant_order.go`. The
recursion `value(id)` is a stack of frames, one for each constant being evaluated,
with the answers its expression has got so far; `Begin` is an iteration of the loop
over the map of candidates, in any order, `Ask` a call of `value` that answers at
once or goes one level down, `Finish` a return, which keeps a known value and
forgets that the constant was being evaluated. `Cancel` makes every later answer
unknown, and `Return` gives the values or only the error. What the values should be
is defined without an order, by the least relation closed under what follows from a
declaration. `OutOfOrder` is the second pass, which reports constants used too early.
`CyclesAreReported` relates the two: when the recursion meets a constant under evaluation,
one of the uses on just this cycle, from that constant to the one asking, is reported.

The integers and the operators are parameters. Subexpressions without a name of
their own stand as constants used once: the evaluator treats both alike except for
keeping their value.

### ControlFlow

`ControlFlow.tla` models `cfg/cfg.go` and the reports of `sema/controlflow.go`. The
builder is a recursive function from statements to fragments, as `statement` is in
the code, with one operator for each method; only it decides on edges, exits,
`break`s and `continue`s. A body is written statement by statement (`Write`), its
graph is built (`Build`), and it is then executed (`Execute`), each condition of
unknown value going either way. Execution follows a meaning of the statements that
is defined without the graph (`First`, `After`, `Steps`), so the properties compare
two descriptions. `ExecutionFollowsGraph` includes the step into the body: it leads to the
graph's entry or, where there is no block, ends at once, which the graph does not count as
falling through. `Regular`, under which the further steps are compared, excludes bodies in
which the builder loses the way (`LosesTheWay`, an empty block in a `do` or an `if`, stated in
terms of the source) and labels inside other statements. A `switch` tests no values: any clause may be taken.

### SymbolTable

`SymbolTable.tla` models `symbol/`. A text is the sequence of events that the
builder's walk meets: declarations, uses, and the beginnings and ends of functions
and blocks. It is written event by event, built in one of the three modes (`Build`),
and then uses are renamed one at a time (`Patch`, which is `PatchReference` with the
guards of `patchedOriginalSymbols`). `Walk` follows `walk`: `Declare` decides on
owners and redeclarations, `WalkUse` resolves with what the table has so far, and
`Resolved` is the second look with the whole file. A variadic function has -1 as its
largest number of arguments, as in the code. `Meaning` says by position in the
text what a use refers to; no table occurs in it.

### FunctionCaches

`FunctionCaches.tla` models the caches of name checks, tag checks and graphs
(`sema/names.go`, `tags.go`, `controlflow.go`) over a sequence of edits. A file has
functions (name, parameter, body), constants with values, names that its own
directives make known, and blank lines before it; `revision` is what other files
make known. `Complete` is one analysis: it takes over what the keys allow, shifts
it to the present positions and checks the rest afresh. Between analyses, one or
more edits change a function, insert or remove one, change a constant, a directive
or a blank line, or the revision; two edits in a row without an analysis are an
analysis that was cancelled. IDs of functions follow their name and their place
among functions of that name, as the stable IDs of `symbol/` do, so that an inserted
function moves the IDs of the later ones. A fresh check of a body is a value that
tells what it depends on, and the properties compare what is kept with it.

### MacroExpansion

`MacroExpansion.tla` models `preprocess/expand.go` and `pattern.go` for a line of
active text and a table of macros that stays as it is. A body token that looks like
a parameter (`Parameters`) and is none of its macro is dropped, as the code drops it. `levels` is the Go call stack
of `expandRun`, each call with its tokens, the one it is at, and its hidden macros;
while there is none, `emitActive` reads the line (`Emit`, `Invoke`, `Unterminated`).
`Expand` starts a replacement one level down, `Output` passes a token on, `Return`
ends a call, `Cancel` is a poll. `Collected` and `Matches` say what `collectArgs` and
`matchPattern` find, by the first fitting delimiter outside of brackets instead of a
scan. A token has an origin: the place in the source it comes from and the macros
it was wrapped for. `Preprocessor` sees an expansion as one token.

### PreprocessReuse

`PreprocessReuse.tla` models `preprocess/reuse.go` on texts that are sequences of
characters: this is the one module about offsets, so positions are kept as they
are. `Run` is a clean run restricted to object-like macros: tokens, macros, the
words that macros replace, diagnostics. `EditText` edits the text anywhere;
`Analyze` tries the reuse of unchanged layout, then that of a compatible edit, then
runs afresh, as `AnalyzeContext` does. The edit is the one that the host names or
the one that the comparison of both texts finds. Lines may be continued, and a
`#define` that ends its line takes its name from the next word, as in
`handleDefine`. The variable `strayed` is a history, which no action reads: a reused
edit since the last clean run touched some lines of a `#define` and not the one it
begins on. `ReusedIsClean` is stated for runs that have not strayed, since a record that
has is known to differ (see "Seen while modelling").

Operators commented "a slip" are not part of the behaviour: each is a plausible
error in one definition, used to check that a property notices it.

## What the runs check

| Run | Module | Instance | Properties |
|---|---|---|---|
| `snapshot_race` | `MCSnapshot` | 2 goroutines, 2 documents, 4 texts, 2 snapshots, 3 calls | `TypeOK`; `AnswersAreShared`; `PublishedStays`; `ImplementsClean` (refinement) |
| `snapshot_generations` | `MCSnapshot` | 1 goroutine, 2 documents that refer to each other, or 1 and a missing one, 2 texts, 3 snapshots, 3 versions, 3 calls, 2 option sets | `CachesMatchDocuments`, `AnswersAreClean`, `ReuseIsJustified` |
| `snapshot_constants` | `MCSnapshot` | 1 document, 2 texts that differ in a literal | `ConstantsAreClean`: violated, see Findings |
| `preprocessor` | `MCPreprocessor` | a file of 5 lines with conditionals and a text after them, or 3 files of 2 lines each that include each other, themselves or a missing file; conditional and include limit 2, output limit 1, 1 macro | `TypeOK`, `IncludesBounded`, `FilesAccounted`, `TruncatedIsReported`, `SelectedThroughout`, `OneBranchSelected`, `BranchesTellTheView` |
| `function_facts` | `MCFunctionFacts` | all 729 programs of 3 functions from a menu of sources, 1 global, 1 parameter each, 1 external function known and 1 unknown, in every order | `TypeOK`, `FactsAreExact`, `Terminates` |
| `constant_values` | `MCConstantValues` | 1536 programs of 4 constants of one-bit values, from every start | `TypeOK`, `ValuesAreExact`, `RecursionEnds`, `CyclesAreReported` |
| `control_flow` | `MCControlFlow` | all bodies of 5 statements and blocks, all conditions known and unknown | `TypeOK`, `ExecutionFollowsGraph`, `GraphFollowsExecution`, `WarnedIsNeverExecuted` |
| `symbol_table` | `MCSymbolTable` | all texts of 5 events over 2 names and 5 signatures, 3 modes, any number of patches | `TypeOK`, `UsesAreResolved`, `RedeclarationsAreReported`, `PatchedIsClean` |
| `function_caches` | `MCFunctionCaches` | files of 2 functions and 1 constant, 2 edits between analyses, any number of analyses | `TypeOK`, `NamesAreClean`, `TagsAreClean`, `FlowsAreClean` |
| `function_caches_directives` | `MCFunctionCaches` | the same with 1 edit | `ReportsAreClean`: violated, see Findings |
| `preprocess_reuse` | `MCPreprocessReuse` | all texts of 3 characters and 1350 of three lines (two definitions, or a definition and uses, after a word or not), with newlines plain or continued, all edits within these texts that remove any part and insert a character or nothing, one after the other | `ReusedIsClean` |
| `macro_expansion` | `MCMacroExpansion` | lines of up to 6 tokens, 60 tables of 3 macros that use themselves, each other and parameters, their own or not, depth limit 2, output limit 6 | `TypeOK`, `NamesAreExpanded`, `DepthIsJustified`, `SourceAccounted`, `Ends` |

Why the bounds suffice. A race in `query` takes two goroutines that miss the
same key; a third only repeats the second. Confusing generations takes an entry
that survives two updates, hence three snapshots; confusing documents or
resolvers takes two documents that import each other. Options matter by being
equal, or one the indexing form of the other: two values. The texts are chosen
so that each pair is related in one of the ways the code distinguishes (same
table, same preprocessing only, neither).

For conditionals five lines hold an `#if`/`#elseif`/`#else`/`#endif` with a line
between, or one conditional in a branch of another; a text after them shows what they
have selected. An include cycle is refused at
the limit, so three files (the root and two inclusions, of itself or of another)
exercise every outcome. Every limit is small enough to be exceeded. The two menus
are not mixed: an included file's conditionals are in the second one, with the
tests of macros that guard a file against being read twice. `#error` and its like, which
only report, stand before the first inclusion.

Three functions give every shape of call graph that matters to the fixpoint:
recursion, mutual recursion, a cycle with an entry or an exit, a chain whose end
becomes incomplete late. The menu has a native function, a writer of a reference
parameter, a reader with state, and callers that pass a parameter on, pass a
global, lose an argument or call what only the host knows or nobody knows.

Four constants hold a cycle of two or three with an entry and an exit, a `?:` whose
branches lie on a cycle or not, an enum member that continues after an unknown one,
and a division by zero. Five statements hold a loop in a loop or a branch with a
jump and a statement after it, dead or alive; a block counts as one. Five events
hold two declarations of a name in different scopes, a use between or after them,
or a forward, a definition, an overload and two uses. Two functions of equal
name, of a body that uses the name and is worth keeping or one too small, suffice to confuse IDs, and the second edit undoes, moves or hides what the first
did. Three characters hold every neighbourhood of an edit; the texts of
three lines add what lies away from it: a definition and its uses shifted by an edit
before them, an edit of the word after a use, a second definition that is another or the
same, a definition whose name or body stands on the next line (the edits that stray). The
theorem covers all texts and insertions.
Six tokens hold a call with two arguments, or a call in an argument; three macros make
chains longer than the limit of the depth, through bodies and through arguments.

Symmetry: goroutines are interchangeable in `snapshot_race`, names in
`symbol_table` and letters in `preprocess_reuse`, whose properties are all safety properties. `CHECK_DEADLOCK FALSE`
is said where all runs end (a host stops asking, a file ends, a body is executed,
and the bounds stop what would go on); `function_caches` and `preprocess_reuse`,
where there is always another edit or analysis, do check for deadlock.

Fairness: `FunctionFacts` assumes weak fairness of its next step, `MacroExpansion`
of its steps other than `Cancel`, which nobody has to do. One goroutine
runs the loop, takes no lock and waits for nothing, so it is scheduled again
whenever it can step. `Terminates` then rests on the facts being monotone and
finite, `Ends` on the hidden macros being more at every level. The other
specifications state no fairness, because no liveness property of theirs is
checked. Termination of the engine and of the evaluator of constants
would hold by the bounds of the models. Its substance, bounded recursion, is the
invariants `IncludesBounded` and `RecursionEnds`.

Each property has a mutant in `PROJECT.json`: a mapped definition and the slip
that replaces it, under which TLC reports the property violated.

## What is proved

`SnapshotProofs.tla` (every number of goroutines, documents, texts, option sets
and snapshots): `TypeCorrectness`, `CachesAlwaysMatch`, `ReuseAlwaysJustified`,
`AnswersAlwaysClean`, `AnswersAlwaysShared`, `PublishedAlwaysStays` and
`Refinement`. None of the invariants is inductive alone. `TypeInv` adds to
`TypeOK` where in `AnalyzeDocuments` a goroutine is and which documents it has
results for by then. `ContentInv` adds what a result in any cache, candidate map
or local must say: an entry for a document and version says what a clean
analysis of that text says, its tables export what the text exports, and a
completed result shares the table of the prepared one. That last part makes the
reuse of names sound: the evidence `CompleteContext` uses was gathered against
another map than the one it takes the names from, and `ContentInv` says that
the two agree whenever both exist. The refinement follows step by step: a step
that returns maps to `Answer` or `Fail`, every other one to a stuttering step.

`PreprocessorProofs.tla` (every set of files, lines, macros and limits):
`TypesCorrect`, `SelectedEverywhere`, `IncludesStayBounded` and
`TruncationReported`. The inductive invariant `Inv` adds to `TypeOK` that
`includeStack` counts the frames of each file (without it the type of the count
could be lost when a file is left), that there is room for the token that
exceeds the output limit only before the limit is exceeded, and `Nested`: a
conditional that is or may become selected stands inside selected ones (`Chained`), and a file is being read only from selected lines.
`TruncationReported` has its own invariant `Reported`, which ties the flag of the
shared warning to the diagnostics.

Its second part goes on from there: `FilesAreAccounted`, `OneBranchIsSelected` and `BranchesTellView` relate records that are made at different
times. The first needs that the frames read files in the order in which these were
opened (`Increasing`), the second that each conditional on a stack knows its last branch
and whether one was selected (`Linked`), the third that no branch speaks of lines not
read yet (`Behind`) and that of the files being read exactly the open branches have no body
(`OnlyOpen`); a file that has been left changes no more, so what its branches tell stays true
in the result. These hold in runs within their limits only: the `#else` of a
conditional nested too deeply closes a branch that is not its own (see
"Seen while modelling"), so the third property is stated for such runs.

`FunctionFactsProofs.tla` (every set of functions, every program and host):
`TypesCorrect` and `FactsAlwaysExact`. `FactsAreExact` speaks of the end, so the
invariant `Inv` says what holds on the way: facts stay between the direct ones
(`Above`) and the effects that reach the function (`Below`), a function is given
up only for a reason (`Excused`), and while a pass has changed nothing the
functions it visited need no change (`Settled`). In the end all are settled; the
facts of complete functions are then a closed relation and the incomplete
functions a closed set, so the least ones of the definitions lie below them. The
order of visits appears nowhere in this argument, which is the point.

`ConstantValuesProofs.tla` (every program, every set of values and operators):
`TypesCorrect`, `RecursionIsBounded`, `CyclesReported` and `ValuesExact`. The invariant
says of the stack that each frame evaluates what the one below it asked for and that no
constant is on it twice (`Calls`, `Visited`), so that the recursion is no deeper than
there are constants, and of every value kept that the least relation has it (`Sound`).
The hard part is an unknown answer, which may only mean that the evaluation came upon a
constant under evaluation. `Justified` says what it does mean: the name has no value that
can be derived without the constants on the stack. A derivation that needs itself is none,
so when the outermost call returns unknown, its constant has no value at all (`Complete`).
`CyclesReported` rests on `Descending`: from one frame to a later one the constants stand
earlier and earlier in the file, or a use between the two is reported. A cycle cannot only
descend, so one of its own uses is reported.

`FunctionCachesProofs.tla` (every sequence of edits, any sizes and bounds):
`TypesCorrect`, `NamesStayClean`, `TagsStayClean` and `FlowsStayClean`. The properties
speak of the moment after an analysis. The invariant has two halves: whatever the file has
become, what a cache holds is right for the key it has (`NamesKeyed`, `TagsKeyed`,
`FlowsKeyed`); and just after an analysis there is one check for each function, at its
present place (`Made`). Each check carries with it what the keys leave out, the directives
of the file and a parameter that hides a constant, and the properties are stated for the
checks for which these are as they were.

`MacroExpansionProofs.tla` (every line, table and limit): `TypesCorrect`,
`MacrosAreExpanded`, `DepthIsBounded` and `SourceIsAccounted`. `NamesAreExpanded` is about
the output and says nothing of tokens still to be read; what makes it true is `Leads`:
where an object-like macro is hidden, every macro among the tokens of the level is one
that it leads to, since tokens come from bodies or, by way of arguments, from the level
above. A macro that meets its own name while hidden therefore leads to itself. `Nested`
counts the hidden macros, and `Follow`, `Sourced` and `Complete` relate the output and the
recorded invocations to what has been read of the line.

`SymbolTableProofs.tla` (texts of any length, every set of names and signatures):
`TypesCorrect`, `UsesMeanText`, `RedeclarationsReported` and `PatchesAreClean`. The
builder goes over a text once, so this is an induction over its events. `WalkedRight` says
what the builder has after the first `k` of them: its scopes are the functions and blocks
that have begun (`ScopesRight`), its stack those around `k` (`StackRight`), and its
symbols, owners, uses and reports are those of the text so far (`ContentsRight`). What it
rests on is that the chain of scopes finds what the nesting of the text has (`ResolveIs`),
and that a new declaration goes together with the earlier ones exactly if `declare`, which
looks at the owner only, does not report it (`TogetherNext`). The last needs the whole
order of forwards, definitions and functions for states. A patched table is compared with
the build of an edited text: texts that differ in the name of one use have tables that
differ in that use only (`BuiltAlike`). The inductive invariant `Inv` therefore holds
after patches to any name, settled or not: the table is the clean one, with the patched
uses resolved by their names alone. Where a name is settled that is its meaning
(`SettledMeaning`).

`ControlFlowProofs.tla` (bodies of any size and nesting): `TypesCorrect`,
`StepsFollowGraph`, `GraphIsFollowed` and `WarnedNeverExecuted`. The builder and the meaning
of the statements are two recursions over the body, and they run in opposite directions: a
fragment is put together from its parts, while what comes after a statement depends on what
stands around it. `Right(n)` is what joins them, proved of each statement from its parts:
the edges of its fragment are steps, and its exits go on to what comes after it (`Follows`);
its open `break`s and `continue`s have no loop around them inside of it (`Leaves`); and what
can be executed in it has an edge for every step, or is such a way out (`Covers`). The builder
drops code on purpose, behind dead code and in branches that a known condition excludes, so
`Covers` speaks of what is not cut off (`Live`). The invariant `Inv` then says that what is
executed is reachable and never cut off; that needs that the reachable blocks are closed under
edges, which is proved of the breadth-first definition with a count of the blocks. For
`GraphIsFollowed` no program is excluded, nor for the first step in `StepsFollowGraph`; its
other steps and `WarnedNeverExecuted` are stated, as the run checks them, under `Regular`
(see "Seen while modelling").

The last part of `PreprocessorProofs.tla` is about `PreprocessReuse` (every text, every
edit): `UntouchedRangesKeepText`, a
range that the edit leaves alone has, after `ShiftRange`, the characters it had
before (from the lemma `SplicedCharacters`, which follows each character through an
edit), and `ShiftKeepsOrder`, shifting never swaps two offsets, so a shifted range
does not end before it begins. The proof shows where an offset at the border of an
insertion goes: it stays, so a token that ends there would grow, and that is why
`touchesMacro` has to ask the tokens next to an edit, too.

`ReuseStaysClean` proves `ReusedIsClean` for texts and insertions of any length and any
sequence of edits, continued lines included and without a hypothesis. The inductive
invariant is that the record is `Run` of the text until an edit strays. The step compares two runs. Both kinds of
edit leave two texts that agree before the edit and, moved, behind it (`Alike`; `SplicedAlike`
for the edit that the host names, `ComparedAlike` for the one the comparison finds). `Alike` and
`Apart`, which adds that `DirectiveRange` accepts the edit on both sides, are symmetric, so
what is shown to be kept is also shown to be all there is: each lemma is used once in either
direction. If the texts are `Apart`
and the edit does not stray, it touches whole lines, and none with a directive on it
(`DirectiveAway`). A directive is then on one side of the edit with the rest of its line
(`DirectiveAside`, `RestMoves`). If nothing follows on the line, its name is the next word,
which is on the same side too: the directive would otherwise be the last token before the
edit, which is the third way to stray (`NextMoves`). So operands move with their directive
(`OperandsMove`). From there it follows that names, definitions, the last definition of each
name, redefinitions, malformed directives and, because nothing that touches the edit is named
as a macro is (`Untouched`, from `touchesMacro`), invocations are those of the old text, moved
(`RunMoves`). For the reuse of unchanged layout, texts that differ in blanks only have the same
run (`SameLayoutRun`).

The theorems rest on the assumptions named in the modules and on nothing else.

Recursive functions are reasoned about with two lemmas, `Least` (a set of numbers has a
least one) and `Induction` (a set that has 0 and with each number the next has all),
which state induction for a set instead of a formula. With them, that a recursive function
exists and what it returns is proved where a theorem needs it: the argument lists,
pattern matches and replacements of `MacroExpansion`, the positions of `FunctionCaches`, the
chains of scopes and the walk of `SymbolTable`, and in `ControlFlow` the fragments, the
surroundings and what comes next.

Only model-checked: the liveness properties `Terminates` and `Ends`, which are beyond the
proof system, as are `ENABLED` and definitions with `RECURSIVE`. Every other property that
a passing run checks is proved.

## What the models leave out

- Parsing and lexing are another repository's; a syntax tree is an input.
- In `MacroExpansion`: captures that form new tokens with their neighbours
  (`substituteText`), kinds of brackets, invocations over several lines, and the
  warning about the number of arguments.
- The evaluator of `#if` expressions, which has no state.
- The token cache, whose answers carry the hash of what was asked for.
- State automata (`sema/states.go`), one pass that nothing is reused from.
- In `SymbolTable`: operators, tags, spans mapped through includes, span indexes,
  and `RebaseParenthesized`.
- In `PreprocessReuse`: function-like macros, other directives, comments. The
  expanded source of a reused run and the offsets of the tokens of a macro's body
  are not moved by the code and are not part of the record compared.
- Memory visibility. Actions are critical sections, which is right for what the
  mutex guards; the one assignment to a table that may already be published
  (`analysis.go:303`) is listed as a hazard.
- The text of conditions, macro bodies and messages, where no property is about
  it. Tracing, which has no influence on results.

## Findings

1. `snapshot_constants`: a workspace query after a literal edit keeps the
   previous version's local constants. `changedFunctionHasConstants`
   (`analysis.go:628`) answers "no" when it knows no edit, and package `query`
   never gives it one; `docs/architecture.md:60` promises reuse of constants only
   "when the edited function has no local constant declarations".
2. `function_caches_directives`: the key of a kept name check (`names.go:53`) does not
   change with the `#define` and `#include` lines of the file itself, from which the
   resolver answers, too. When such a line comes or goes, an unchanged function keeps
   its old reports; `docs/architecture.md:91` promises a clean run for what cannot be
   classified safely.

### Seen while modelling

Differences in rare programs, which the properties exclude by a named premise; they
are behaviour of the models that no run reports:

- `ControlFlow`, `LosesTheWay`: a branch of an `if` that is an empty block loses its
  way out (`cfg.go:298`, `branch`), and so does an empty body of a `do`, so a statement
  after it may be taken for unreachable although it is executed, and a missing return
  behind it goes unnoticed. `LabelsOutermost`: a label nested in dead code
  is reachable by a jump, but not what follows the statement around it.
- `ControlFlow`, `ExecutionFollowsGraph`: an empty body (`Float:f() {}`) has no block, so
  no entry and no exit, and does not count as falling through (`cfg.go:85`, `cfg.go:96`).
  Execution runs through it at once, and that a return is missing goes unnoticed
  (`sema/controlflow.go:183`).
- `Preprocessor`, `Unclosed`: a conditional left open at the end of its file is
  diagnosed (one left by `#endinput` is not), but its last branch is published with the empty body it was opened with
  (`directives.go:367`, given an end only in `directives.go:383`). `engine.go:80` promises that
  callers can reconstruct the views from the branches; they can, if they read a branch
  with an empty body as one that reaches to the end of what was read.
- `FunctionCaches`, `FlowsAreClean`: a parameter renamed so that it hides a constant
  keeps the graph that was built with the constant's value.
- `SymbolTable`, `Settled`: a patched call is resolved by name, a call in a clean build
  by its arguments, and a use that a clean build resolves to the file scope before a
  local is declared is resolved to that local by the patch.
- `PreprocessReuse`, `strayed`: an edit on a continued line of a `#define` keeps the old
  body of the macro, because `directiveRange` (`reuse.go:207`) looks for `#` on the lines
  changed only, although `docs/architecture.md:84` says that macro definitions rebuild
  preprocessing. The same goes for a bare `#define`, which takes its name from the next line
  (`directives.go:97`), when that line is edited. `AnalyzeContext` uses this
  result when the definition stands inside a function; elsewhere
  `reusableLocalEdit` turns it down.
- `MacroExpansion`, `Unterminated`: an invocation in the source without `)` takes the
  rest of the text with it; one in a replacement is passed on as it is. More arguments
  than parameters are joined in the source only (`Fitted`). Beyond the depth limit
  `expandRun` means to pass its tokens on, but it has set `truncated` before, so that
  `appendOut` drops them.
- A conditional nested beyond the limit has no branch of its own, but its `#else` or
  `#elseif` closes branch 0 again (`directives.go:303`), which `engine.go:80` says
  preserves its extent. `BranchesTellTheView` is stated for runs within their limits.

## Plan

Done: all modules with their runs; proofs of `Snapshot`, `Preprocessor`, `FunctionFacts`,
`ConstantValues`, `SymbolTable`, `FunctionCaches`, `MacroExpansion`, `ControlFlow` and
`PreprocessReuse`.

Next: `RebaseParenthesized` and the span indexes in `SymbolTable`; `#if` expressions.
