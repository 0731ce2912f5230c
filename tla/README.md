# A verification project for tsgolint

tsgolint is a linter for TypeScript written in Go.  It lets typescript-go parse
and type-check a project and runs some forty type-aware rules over its files.
This directory holds TLA+ specifications of the parts of tsgolint whose
behaviour is more than a sequence of calls: TLC model-checks them on small
instances (`*.cfg`), and TLAPS proves theorems about them for any instance
(`*Proofs.tla`).  `PROJECT.json` ties it together: for each definition the source
lines it stands for, for each run its properties, for each property a mutation
of a definition that breaks it, and the list of hazards the properties are for.

Contents: 1. the system; 2. the modules; 3. the runs; 4. fairness; 5. the proofs;
6. what disagrees with the documentation; 7. what is not modelled; 8. the plan.

## 1. The system

| component | source | state | operations |
|---|---|---|---|
| command line | `cmd/tsgolint/main.go` `runMain` | flags, the program, the list of files, `errorsCount` | parse flags, create the program, select and sort files, start the reporter, lint, print the summary |
| lint pipeline | `internal/linter/linter.go` `RunLinter`; the reporter goroutine in `main.go` | the queue of files, one table of listeners per worker, the channel of diagnostics, a buffered writer | take a file, run the rules, call listeners, report, print, flush |
| syntax tree walk | `linter.go` `childVisitor`, `patternVisitor`; `internal/rule/rule.go` listener kinds | the recursion; for a node six possible listener kinds | visit a node as a value or as an assignment target |
| diagnostic printer | `main.go` `printDiagnostic` | positions of the box, of each line's text and of the highlighted range | scan the box, print its lines |
| source code fixer | `internal/linter/source_code_fixer.go` `ApplyRuleFixes` | the output so far, the end of the last fix | sort, apply or put off each diagnostic's fixes |
| directory visitor | `patches/0001` (put into typescript-go's `ReadDirectory`) | the channel of jobs, an atomic counter, each worker's results | visit a directory, hand out its subdirectories |
| checker pool | `patches/0002` | the checkers of a program | one per CPU, or one |
| rule tester | `internal/rule_tester/rule_tester.go` | the code being fixed | lint and fix until nothing is left to fix, at most ten times |
| overlay file system | `internal/utils/overlay_vfs.go` | virtual files over a real file system | read, list, walk |
| program creation | `internal/utils/create_program.go` | none | read the tsconfig, create and bind the program |
| unsafe assignment of any | `internal/utils/ts_eslint.go` `isUnsafeAssignmentWorker` | the set of visited pairs of types | compare two types, and the arguments of two instances of a generic type |
| rule utilities | `internal/utils/*.go` | none | recursion over types and symbols |
| rules | `internal/rules/*` | for some, a stack of scopes per file | listeners |
| shim generator, shims | `tools/gen_shims`, `shim/` | none | expose typescript-go's internals |

How they interact.  `runMain` creates the program; typescript-go lists the
project's files through `ReadDirectory` (the directory visitor), on the overlay
file system in tests and on the real one otherwise.  `runMain` sorts the files
longest first, starts the reporter goroutine, and calls `RunLinter`.  That puts
the files in a channel and starts a worker per checker of the pool.  A worker
takes a file, calls each rule's `Run`, which returns listeners (closures over
that file), enters them in its table by kind, walks the syntax tree and calls
the listeners of each node.  A listener that finds something calls a report
function, which ends in a send on the bounded channel of diagnostics.  The
reporter receives, counts and prints into a buffered writer.  When all workers
have returned, `runMain` closes the channel and waits for the reporter, which
flushes; then it prints the summary.  The rule tester uses the same `RunLinter`
with a callback of its own and feeds the diagnostics to the fixer.

What is hard, and what makes each component correct:

* *Pipeline.*  Four kinds of goroutines over two channels, a counter shared
  without a lock, deferred calls whose order matters.  Each file is linted by one
  worker; nobody sends on the closed channel; no diagnostic is lost, doubled,
  moved to another file or out of its file's order when the channel is full;
  the summary is printed last and counts exactly what was printed; the command
  ends.
* *Walk.*  Two mutually recursive visitors hand over to each other.  Rules
  depend on properly nested enter and exit calls, on each node being visited
  once and on a target being told from a value.
* *Printer.*  Index arithmetic over positions, lines and columns, with state
  carried from line to line.  The box shows the right lines and underlines the
  range and nothing else.
* *Fixer.*  The diagnostics come in any order, the sort is not stable, fixes touch
  and overlap.  The output is the text with some diagnostics' fixes made in full;
  the others are returned for the next pass.
* *Rules.*  Most keep nothing between two nodes: they walk through a type or a
  syntax tree around a node and decide.  What is hard there are the recursions
  over types that contain themselves, the way up through parents, and the fixes,
  which are put together from fragments for many forms of a node.  A rule reports
  what its message says and nothing else; a fix keeps the meaning, and applied until
  nothing is left to fix it ends.  Where a rule cannot know, the property says so.
* *Overlay file system.*  Four operations, each with its own loop over the files in
  memory, agree about what exists; concurrent callers, who append to slices that a
  cache shares among them, do not see each other's entries or lose their own.
* *Shim generator.*  A request is met or reported; what is written compiles and
  reads the fields that it names.
* *Directory visitor.*  Workers that both consume and produce jobs over one
  bounded channel, and terminate by an atomic counter.  Every file is found
  once, no send or close follows the close, nobody waits for ever.

## 2. The modules

| module | models | abstractions |
|---|---|---|
| `LintPipeline` | `RunLinter`, and `runMain` from the sort of the files to the summary line | a file's tree is the sequence of kinds its walk announces; a rule is the kinds it listens to and the places where it reports |
| `LintPromise` | nothing in particular: what the command promises about its output | shown diagnostics are a set |
| `LintPipelineProofs` | theorems about `LintPipeline` and its refinement of `LintPromise` | |
| `DirVisitor` | the Go code patch 0001 adds | patterns are what they decide on each entry |
| `DirVisitorProofs` | theorems about `DirVisitor` | |
| `MCDirVisitor` | an instance, and the Go code patch 0001 removes, as a recursive operator | the same |
| `AstWalk` | the two visitors, `runListeners`, the functions of `rule.go` on kinds | the kinds the visitors tell apart, and four others |
| `AstWalkProofs` | theorems about `AstWalk` | |
| `FunctionNodes` | what the rules about functions see of a program, on top of `AstWalk` | parentheses are left out |
| `RequireAwait` | the rule require-await, on top of `FunctionNodes` | the checker's answers are attributes of nodes |
| `ReturnAwait` | the rule return-await, on top of `FunctionNodes` | the same |
| `AwaitRules` | one walk with both rules listening | |
| `AwaitRulesProofs` | theorems about `AwaitRules` | |
| `UnsafeAssignment` | `IsUnsafeAssignment` and its worker | a type is any, unknown, another type without arguments, or an instance of a generic type |
| `UnsafeAssignmentProofs` | theorems about `UnsafeAssignment` | |
| `UnsafeArgument` | the rule no-unsafe-argument: what is compared with what | types are only told apart |
| `RuleFixes` | `ApplyRuleFixes` | texts are sequences of characters, a replacement is one element |
| `RuleFixesProofs` | theorems about `RuleFixes` | |
| `CodeBox` | `printDiagnostic` after the heading | a byte is a space, a line break or a part of one, another character or half of one |
| `OverlayFS` | the overlay file system | a path is its names; the two lists of entries are one; slices are array and length |
| `SingleCalls` | `UnsafeArgument`, `RuleFixes`, `CodeBox`, `OverlayFS`, a behaviour being one call of one of them (of the overlay, calls at the same time) | |
| `SingleCallsProofs` | theorems about `SingleCalls`: no-unsafe-argument, the fixer from `RuleFixesProofs`, the box, the overlay | |
| `FloatingPromises` | the rule no-floating-promises, with its suggestions | expressions are trees over a dozen kinds, an expression has one of seven values; thenables, and which types are allowed, are data |
| `BooleanLiteralCompare` | no-unnecessary-boolean-literal-compare | the other operand's type is the set of its parts |
| `DuplicateConstituents` | no-duplicate-type-constituents | a union is its tokens; a name is its type |
| `RedundantConstituents` | no-redundant-type-constituents | two primitives with literals stand for four |
| `BaseToString` | no-base-to-string | types are nodes of a graph |
| `SwitchExhaustiveness` | switch-exhaustiveness-check | values are their literal types |
| `UnsafeTargets` | no-unsafe-assignment: targets and object literals | the comparison of two types is data (`UnsafeAssignment`) |
| `UnsafeReturn` | no-unsafe-return, `DiscriminateAnyType` with its set of visited types, `TypeRecurser` | a promise is the only thenable |
| `NoMisusedPromises` | no-misused-promises | a type is the sets of what its signatures return |
| `VoidExpressions` | no-confusing-void-expression | the way up from the expression, and from a return statement |
| `TypeAssertions` | no-unnecessary-type-assertion | types are sets of parts, with two types undefined |
| `PlusOperands` | restrict-plus-operands | types are sets of parts without literals |
| `UnboundMethod` | unbound-method | the way up from the access |
| `PromiseFunctions` | promise-function-async | a type is any, a promise, another one, or made of these |
| `CatchCallbacks` | use-unknown-in-catch-callback-variable | a parameter is the tokens that the fix sees |
| `Spreads` | no-misused-spread | ten kinds of types |
| `ShimGenerator` | `tools/gen_shims` | an object is what of it the generator asks for; a request is well formed or not |
| `TypeRules` | `FloatingPromises` and the seventeen modules below it, a behaviour being one call (or run) | |
| `Induction` | nothing: induction and recursion over numbers, for the proofs | |
| `MCSingleCalls` | the constants of the small instances of `SingleCalls` and of `UnsafeAssignment`, and a specification of which a behaviour is one of either (`CallSpec`) | |
| `MCRules` | the same of `TypeRules` and `AwaitRules` (`AllSpec`) | |
| the other `MC...` | the constants of the small instances | |

### LintPipeline

A variable or an index per piece of Go state: `queue` and `diagnosticsChan` are
the channels (`Append` sends, `Head`/`Tail` receive), `registered` the tables of
listeners, `buffer` the `bufio.Writer`, `stdout` what it has written.  `mainPc`,
`wpc` and `rpc` say where each goroutine is; `file`, `rule`, `node` and
`listener` are a worker's loop variables.  An action is a step between two
points at which a goroutine can see or change what others see:

* main: `StartReporter`, `FillQueue` (one send per step), `CloseQueue`,
  `SpawnWorker(c)`, `CloseChan` (after `wg.RunAndWait`), `PrintSummary` (after
  `wg.Wait`);
* worker: `TakeFile`/`WorkerExit` (the two ways `range queue` goes on),
  `RunRule` (a rule's `Run`, its listeners entered in the table), `CallListener`,
  `NextNode`, `FinishFile` (`clear(registeredListeners)`);
* reporter: `PrintDiagnostic` (count, print, and flush or not), `FlushWriter`,
  `ReporterDone` (the two deferred calls, last in first out).

With `-singleThreaded` the work group runs the queued functions only in
`RunAndWait`: `MayRun`.  The checker pool then has one checker (patch 0002), which
`CheckersAssumption` states.  `SortedFiles` is every order the unstable sort can
leave the files in.

A rule's report is a *send or block*: `Report` is enabled only when the channel
has room, so `RunRule` and `CallListener` wait as the goroutine does.  One
call reports at most once in the model; the code lets a listener report several
times, which is the same as several listeners of that rule in a row.

`LintPromise` is the abstract specification: a set of diagnostics shown that
only grows within the expected set, then one verdict, the number of all of them.
`KeepsPromise` substitutes what has reached standard output and the summary line.

### DirVisitor, MCDirVisitor

Each worker has a stack of frames, since a worker that finds the channel full
visits the directory itself by a recursive call.  A frame is where the call is
(`visited`: directory listed; `counted`: new jobs added to the counter;
`handOut`: own job counted off, jobs being handed out), its results and its
remaining jobs.  The two atomic operations on the counter are two actions
(`CountNewJobs`, `CountDone`): other workers run in between.  `SendJob` and
`VisitInline` are the two clauses of the `select`; since only one of them can be
ready, its choice is determined.  `MCDirVisitor` also gives what the replaced
code returns, which the patches' README says is unchanged.

### AstWalk

The Go recursion is an agenda: the sequence of visits and of listener calls still
to do.  `Visit` replaces a visit by what the visitor's body does (its listener
calls around the visits of its children), `RunListeners` performs a call and
records it in `events`.  `ChildVisitor` and `PatternVisitor` are the two
functions, in source order.  `InPattern` reads off the tree, following the comment
in `RunLinter`, whether a node is an assignment target.  The constant `Nodes` is the
nodes there are; of them the model assumes what the parser guarantees: kinds are
below 1000, where the offsets of `rule.go` begin (`NodesAssumption`), and the kinds the
visitors take apart by position have the children the parser gives them
(`ArityAssumption`).

### FunctionNodes, RequireAwait, ReturnAwait, AwaitRules

Two rules that keep a stack of the functions the walk is in.  `FunctionNodes`, on top
of `AstWalk`, adds to a node the field `is`, the set of what the rules ask the checker
about it, and says which kinds of nodes stand where: what the parser guarantees about
functions, try statements and statements (`FunctionsAssumption`, `TryAssumption`,
`StatementsAssumption`), and that the type of a literal is no promise
(`LiteralsAssumption`).  The modules of the two rules extend it, and `AwaitRules`
puts them together as `RunLinter` does: a step of the walk is a step of either rule.  A
listener is an action that takes place with the `RunListeners` step that calls it
(`Calls(kind)`), so the rules see the calls the two visitors really make.
`RequireAwait` has on its stack the record the code keeps (`hasAwait`, `isAsyncYield`,
the function's flags) and reports in `functionsReported`.  `ReturnAwait` (reports in
`returnsReported`) also climbs the tree from a returned expression: to the try statement
around it and from there to the next one (`AffectsExplicitErrorHandling`), and from
container to container in search of using declarations.

What the two rules report is compared, at the end of a walk, with a reading of the
tree that has no stack: the functions of which nothing directly inside needs the
`async`; the expressions that are returned, with the question "does more of this
function run afterwards?".  It is about the functions that the walk gets to see
(`Visited`): the name of a property of a target is not visited, and a function in it is
not linted.  Two readings are forced by the code and worth knowing: an await in the
computed name of a method counts for the method, and `"Always"` asks for an await also
in an arrow function that is not async.

### UnsafeAssignment, UnsafeArgument

`isUnsafeAssignmentWorker` calls itself for the arguments of generic types, which
may contain the type they started from.  The recursion is modelled as it runs:
`calls` is the stack of the calls that wait for another one, each with its loop's
index; `CheckAny`, `AlreadyVisited`, `NotComparable` and `CompareArguments` are the
ways a call can go, `NextArgument` and `LeaveLoop` the loop.  What the code leaves
out when it comes back to a pair (it answers "not unsafe" for one whose own answer
may still be open) is what `VerdictIsRight` is about.  The exception for the
expression `new Map()`, whose arguments are not compared, is `emptyMap`.

`UnsafeArgument` goes through the arguments of a call with the cursor of
`functionSignature`: an action for each kind of argument, one for each element
of a spread tuple.  Its reference, `Declared(Place(a, e))`, computes the place of a
value from the arguments before it and looks up the declaration, with no cursor.
A spread of an array is of unknown length, and the code does not move the cursor
for it; so nothing is claimed about what follows one.  A rest parameter whose
type is a tuple goes on with its last type.

### FloatingPromises

`IsUnhandledPromise` is the function of that name on expression trees.  Its reference
is `Outcomes`: what evaluating an expression can end in, and whether a promise
is dropped on the way.  The types the rule asks for are the values an expression
can have, so that what the rule sees and what happens come from one definition.
Applying a suggestion gives another statement to check; `Before` says what an
operator written before an expression applies to.  The condition of a conditional
expression is left out: the rule does not look at it.

Three things the rule cannot tell are named in `TypesMislead` and
`ReportMeansLost`.  What it does not see by design is in no property: a promise
dropped within an expression whose own type is no promise's, as in `p && 1`.

### SingleCalls, TypeRules

Two modules put together what is called by itself.  `SingleCalls` has four state
machines, instances of modules that share no variable, of which a behaviour runs
one; the variables of the others stay "idle".  In `TypeRules` a rule (but
`FloatingPromises`, which has a state machine too) is a module
of operators over one node, without variables: `TypeInit` takes one rule and one
node from the instance's set, an action per listener calls its operator, and
`report` is what it reported.  Where one call is not all there is, more actions
follow: `FixUnion` makes the fixes that were reported and has the union linted again,
as the rule tester's loop does; `AppendEntry` and `CallAgain` interleave two callers
of `GetAccessibleEntries`.  A property of `TypeRules` compares `report` with a
reference that is not the rule's algorithm: the values that an expression can have,
the text after the fixes, what JavaScript assigns, what overloads accept.

* `BooleanLiteralCompare`: `Fixes` are the fragments put before, after and in place of
  the comparison; `SameMeaning` evaluates the result for each value of the operand.
* `DuplicateConstituents`: `CheckDuplicate` is the recursion with its set of types
  seen, `RemovedTokens` the operator and the constituent it takes out.  The reference
  is the sequence of tokens itself.
* `RedundantConstituents`: an alias hides its parts and boolean is true and false, as the
  checker has it.  A report is true if the set of values stays the same without the part.
* `BaseToString`: the recursion with its set of visited types; `CanBeDefault` is the
  fixpoint over the graph.
* `SwitchExhaustiveness`: the three verdicts, against the values that reach each case.
  The values of `"a" & { brand: ... }` are those of `"a"`; what the comment in the code says
  of such a type is `DefaultOfNonLiteralsIsKept`, which a run of its own refutes.
* `UnsafeTargets`, `UnsafeReturn`: where any gets.  `UnsafeReturn` follows
  `DiscriminateAnyType` with the visited set that all calls share, and only takes returns
  that compile (`Assignable`).  Of an object literal every property must be reported that
  gets an unsafe value; those after one that is given an assignment are the exception, since
  the loop returns there.
* `NoMisusedPromises`: the conditions with the set of nodes seen; the arguments of up to
  three overloads with the two lists of indices; the five places; the heritage types.  The
  properties say exactly when a comma is reported twice, and by how many overloads those
  without result must outnumber those with a promise for an argument to be reported.
* `VoidExpressions`: the way up, each step named with the part of the ancestor.  The
  reference does not look at the rule's lists of ancestors: it evaluates what becomes of two
  different values on the way up (`Seen`), and an expression is to be reported when the
  program can tell them apart (`ValueMatters`).  A fix is judged by what the function does
  after it, in the statements and the branch around the return (`Ends`, `EndsAround`).
* `TypeAssertions`: with and without exactOptionalPropertyTypes.
* `UnboundMethod`: safe uses by the way up, on which `??` is no logical operator, as in
  `ast.IsLogicalBinaryOperator`; symbols and their `this` parameter; destructured methods in
  value and pattern type.  The reference follows the value to where it is kept, called or
  only looked at (`EndOf`).
* `PromiseFunctions`, `CatchCallbacks`, `Spreads`: decision and text of fix or
  suggestion, as tokens.
* `ShimGenerator`: `Run` goes through a list of packages and stops at the first that cannot
  be done: with status 0 for a request that is not JSON, else with status 1, be it that a
  request is unmet, that fields are requested of what does not have them, or that the file
  cannot be created.  Imports get aliases as names are met; a structure is mirrored field by
  field.

### RuleFixes

One action per turn of a loop: `Partition` (set apart the diagnostics without
fixes, sort each one's fixes, sort the diagnostics; any result the comparison
functions allow), `Skip`, `StartApplying`, `ApplyFix`, `NextDiagnostic`,
`Return`.  Slicing backwards, which panics in Go, is the place "panic".
What a caller must see to is in `ProperInput`: ranges within the text, and no
diagnostic whose own fixes overlap (on those the code does panic).
`TextsToldApart` is the model's: the replacement texts are told apart, so that a
property can say where each of them went.

### CodeBox

The two passes over the box, byte by byte (a `range` over a string steps over
whole characters) and line by line.  `LineMap` has at each index the start of a line that so
many lines precede; a line starts behind a newline, a carriage return that no newline
follows, and the separators U+2028 and U+2029.  The first pass counts newlines only, so
that after another break in the box it is a line behind the map (`IsCounted`,
`LoneBreakInBox`); what the box shows from there on is not claimed to be right, only that its
slices are cut in order.  Reading past `lineMap`, and slicing backwards, is the place "panic".
`Init` takes any text of the instance and any range a rule can report: it starts
at a character that is no space and ends behind one.

### OverlayFS

`Ask` puts all the questions about one path of one file system, in which files in memory
may be on disk as well, as the fixtures of the rule tester are (`rule_tester.go:61-66`).  What
`GetAccessibleEntries` answers is a list: what the file system below lists, once each, and what
is appended for each file in memory, in the order of the map.  `ViewsAgree` says what the
four operations agree about, and that an entry is listed twice just when two files are in
it of which one is in memory.

Callers of `GetAccessibleEntries` get a slice from the cache below and append to it, one element at
a time (`AppendEntry`, for any number of callers): an append writes into the array of the
cache if there is room, which the other callers' slices share, and takes an array of its own
if there is none.  A directory with a cache has at most one file in memory
(`OverlayAssumption`): the program keeps one, a configuration (`main.go:289-292`), and the rule
tester one, the code.  With two, callers that append in another
order would overwrite each other's entry.

## 3. The runs

| run | question | bounds |
|---|---|---|
| `pipeline_parallel` | do all interleavings of two workers, reporter and main keep the promises of section 1? | 3 files, two of equal length; 2 rules sharing a kind; 6 places with a report, one on a node the rule does not listen to; channel of 2 |
| `pipeline_single` | with one thread, is the output file by file, longest first? | the same, one worker, channel of 1 |
| `visitor` | counter, close, termination of the directory visitor; is every file found once? | 2 workers, 2 base paths, channel of 2, a depth limit that cuts off a level |
| `visitor_unpatched` | does the patched visitor return what the old one did? (no) | 2 workers, 2 base paths, channel of 2 |
| `walk_documented` | is every documented target announced as one? (no) | the trees of `rules` |
| `single_calls` | no-unsafe-argument: is each value compared with its own parameter?; fixer: is the output the fixed text, and is every other diagnostic returned for a reason?; box: right lines, right underlining; unsafe assignment: is the verdict right for types that contain each other?; do the last three return?; is the overlay one file system? | up to 3 arguments of 9 forms, up to 2 parameters and 6 forms of rest parameter; all triples of diagnostics, the first two with up to two fixes, text of 2 characters; all texts of up to 5 lines of 3 forms, and of up to 4 lines with any breaks, all ranges, boxes of up to 4 lines; all programs with two types that may be instances of a generic type with one or two arguments; two files on disk and two in memory, the same or others, among six paths; two callers, two entries on disk, one of them or another in memory, caches with room for none, one or two more |
| `codebox_lastline` | does `printDiagnostic` never panic? (it does) | the texts of `single_calls` |
| `rules` | the walk: nesting, each node once, targets are targets; require-await: are the functions without need of their `async` reported, and no others?; return-await: is what should (not) be awaited reported, for each option?; do sixteen rules report what they promise, and do their fixes keep what they should? (for no-floating-promises: does no floating promise pass, is a report right, does a suggestion help?); are shims complete, and do they work? | below |
| `floating_handled` | is a handled promise never reported? (it is, in parentheses) | the expressions of `rules` |
| `comma_parts` | is every part of a comma expression checked? (not in parentheses within another expression) | the expressions of `rules` |
| `switch_intersection` | is a default case never superfluous with a type that has a part that is no literal? (it is said to be, for `"a" & {...}`) | the switches of `rules` |
| `async_export` | is a function that is to be async async after the fix? (not after `export`) | the functions of `rules` |

`single_calls` and `rules` put state machines together that share nothing: a behaviour of
`CallSpec` is one of `SingleCalls` (`CallsSpec`) or one of `UnsafeAssignment` (`Spec`), and a
behaviour of `AllSpec` one of `TypeRules` (`TypeSpec`) or one of `AwaitRules` (`RulesSpec`).  What
the other one describes has returned, or has yet to begin, and does not move.

The bounds of the walk in `rules` (`MCAwaitRules`): all trees from two rounds of construction
over nine kinds; for require-await, a function around one statement, or around a nested
function with a statement before or after it; for return-await, six returned expressions in
up to one layer, two in up to two layers of try, catch, finally, using, blocks and nested
functions; either rule sees all of them.

The bounds of the other rules, by module (`MCTypeRules`):
all comparisons of sets of up to six parts with either literal; unions of up to three
constituents, nested up to two levels, with and without a leading bar; two or three
constituents of fifteen forms; all graphs of three types of each kind over types
without parts; switches over up to three union parts with up to two cases and a
default; patterns of two levels over types of two levels, three properties; condition
trees of depth three; two overloads with up to two parameters and each rest form, three with
up to two parameters or an array; every
place, annotation and pair of eight function types; two members and two heritage types;
ways up of two steps that pass a value on and one that does not; types of up to four
parts for assertions; one or two packages with up to two
objects and up to two fields, their requests in JSON or not; sums of types with up to two parts; returned types of
depth three with up to two signatures; types of depth three over any, promise and another one;
parameters of every form and expressions of depth two; spreads of unions of two
parts, each of up to two types; and for no-floating-promises some 14,000 expressions in
up to three layers, under each option.

Why the bounds are enough to meet the interesting cases.  Two workers are the
least that can compete for a file, and three files the least with which a worker
takes a second file while the other still has its first; a channel of two places
and five expected diagnostics make workers block on it, one at the head of a
file and one in its middle.  In the visitor, a channel as small as the number of
base paths makes both clauses of the `select` occur, also in recursive calls, and
the root has enough subdirectories for both workers to hold jobs while the
channel is full: without the inline visit they would wait for each other.  The
trees hold each handover between the two visitors and each composition of two of
them.  Three diagnostics are the least with which one is put off because of
another that itself follows an applied one; two characters allow ranges that
are empty, touch, overlap, nest, or take up the text.  The programs of
the two rules hold each kind of statement the rule looks at, directly in a function
and with a nested function before or after it (the least that shows a scope not
pushed, not dropped or mixed up), and each part of a try statement within each
other.  Two types that contain each other, and each itself, are the least with which a pair
is met again while its answer is open, and with two arguments another argument
follows.  Three arguments allow one before and one after an open tuple, of
two elements, with which it can straddle the last parameter and the rest.
The expressions hold each kind of operand in each place of each operator, which is
what the recursion distinguishes; a third layer is a method call, an operator
or an assignment around those.  Five lines give boxes with a line to spare on
both sides, and boxes that are refused for their size (the 13 lines of the code
are `BoxLines`, 4 here; ranges over more lines differ only in more middle lines).

For the rules of `TypeRules`, a level of nesting more than a recursion tells apart is
what counts: a nested part within a nested part, a repetition within a group within
a union, a type that contains itself by way of another one, an ancestor that passes
a value on to one that passes it on.  Two heritage types, two callers
and two packages are the least with which one hides the other; three overloads the least
with which an index stays in a list that it should be taken out of.

Deadlock checking is off in all runs, since all of these programs end; that
they end where they should is `Terminates`, `Returns`, `CallsReturn`;
the walks' properties speak of the end of the walk, and those of `TypeRules` of the
state after the call.

Most properties of the two composed modules are conjunctions by theme (say, the three
ways in which a rule calls something unnecessary); the parts are definitions of their
own, each with a comment, and stand before them.

The properties are commented where they are defined.  For each one
`PROJECT.json` names a mutation of the model, of the kind a slip in the code
would be (a missing `close`, the deferred calls swapped, a table not cleared, a
single new job not counted, `>=` for `>`), under which the run fails.  The
mutated definitions stand before the ones they replace, marked "Mutant".

## 4. Fairness

`LintPipeline` and `DirVisitor` assume weak fairness of each goroutine's steps
taken together: the Go scheduler runs every goroutine that can run, and a
goroutine blocked in a channel operation is resumed when the operation can
proceed.  Weak fairness is enough because no goroutine is disabled by
others' steps while it can proceed, with one exception: a worker that waits to
send on a full channel, or to receive with others waiting too, can be overtaken.
Liveness does not rest on any one of them getting through: whoever does makes
progress, and the work is finite.  `UnsafeAssignment` and
the procedures of `SingleCalls` are sequential: weak fairness of their next-state
relations (`Next`, `CallsNext`, and `CallNext` of the two together) says that a running
function goes on.  `TypeRules` and `AwaitRules` state no liveness and no fairness.

## 5. The proofs

`LintPipelineProofs` proves nine theorems for every finite set of files, every
list of rules, every nonempty finite set of checkers and every capacity of the
channel (the named assumptions of `LintPipeline`; TLC checks them on the
instances).  The first four are about the steps of the goroutines:

* `TypeCorrect`: `Spec => []TypeOK`, and with it that the channel never holds
  more than its capacity.  `TypeOK` is inductive as it stands; it includes that a
  worker has a file just when it is linting.
* `NeverSendsOnClosedChannel`: `Spec => []NoSendAfterClose`.  The invariant
  `CloseInv` adds why: a worker only ends when the queue is closed and empty, and
  the queue, once closed, is not filled again; so when the last worker has ended
  it is empty still.
* `FilesAreNotShared`: `Spec => []OneWorkerPerFile`.  That no two workers have the
  same file is not inductive: it takes the position of each file.  `QueueInv` says
  that `files` has no repetition, that the queue is the part of `files` between
  what has been taken and what has been filled in, and that what a worker has
  comes from the part taken, different workers' from different places.
* `DiagnosticsNameTheirFile`: `Spec => []DiagnosticNamesItsFile`.  `FileInv` adds
  that every listener in a worker's table was made for the worker's current file,
  and that the table is empty between two files (`TableInv`): this is where
  `clear(registeredListeners)` matters.

Its second half builds on these, under the same assumptions, and is about what
comes out.  `LintInv` adds to the invariants above:

* `OutputInv`: what has been reported so far (written, buffered or in the channel) is
  exactly the expected diagnostics whose place in the walk of their file has been
  passed.  `Due` says where that is: the file has been received, and the worker that
  has it, if one still does, is past that node and rule.
* `OrderInv`: of one file, the reported diagnostics follow the walk.  For a new
  diagnostic to come last, all others of its file must be due before it, which
  `OutputInv` says.
* `TablesExact`: the table of a worker has exactly the listeners of the rules it has
  run on this file, in their order; without it a listener could be missing.
* `EndInv`: the counter is the number of diagnostics written or buffered, and the
  reporter only ends with the channel closed and nothing in it or in the buffer.

From it follow:

* `FileOrderIsKept`: `Spec => []FileOrderKept`, in every interleaving of the workers.
* `SummaryIsExact`: `Spec => []SummaryIsLastAndExact`.  When main prints the summary
  all files are received and no worker has one, so all diagnostics are due: they are
  exactly what is written, and a diagnostic is not written twice since its place
  is strictly ordered.
* `ImplementsPromise`: `Spec => Promise!Safety`.  Under the refinement mapping the
  initial states are `LintPromise`'s; a flush is `Show`, `PrintSummary` is `Conclude`,
  every other step is a stutter.
* `EndingKeepsPromise`: with `Terminates`, which is liveness and TLC's, all of
  `KeepsPromise` follows.
* `SingleThreadedIsOrdered`: `Spec => []SingleThreadedOrder`.  `SingleInv` adds that what
  has been reported follows the list of files, and that the one worker is at the
  file received last.

`UnsafeAssignmentProofs` proves four theorems for every finite set of types, and any
generic types and programs over them (the assumptions of `UnsafeAssignment`; a program
has finitely many types because the checker bounds instantiation):

* `TypeCorrect`: `Spec => []TypeOK`.
* `RecursionIsBounded`: `Spec => []NoCallWaitsForItself`.  The pairs of the waiting
  calls are among those visited, which `CallsAreVisited` adds.
* `VerdictIsLeastFixpoint`: the verdict is "unsafe" just when every set of pairs that
  has the assignment in it and is closed under going to arguments has an unsafe
  pair in it.  One direction is `LooksWhereItShould`: the worker only looks at
  pairs that are in every closed set.  The other is `ClosedSoFar`: as long as
  nothing unsafe has been found, the visited pairs and what is being looked at are
  closed, but for the arguments that waiting calls have not come to; when no call
  waits, they are a closed set without an unsafe pair.
* `VerdictIsCorrect`: `Spec => []VerdictIsRight`.  The reference definition takes one
  level of arguments after the other (`PairsWithin`) up to a number of levels.  By
  induction every level is in each closed set; and since a finite set cannot keep
  growing, the last level is closed.

`DirVisitorProofs` proves three theorems for every tree of directories, every nonempty
list of base paths that fits into the channel, every number of workers and every
capacity (the assumptions of `DirVisitor`):

* `CounterIsRight`: `Spec => []CounterInv`.  The counter the workers share is, in every
  state after the start, the number of jobs somebody still has to do something about:
  those in the channel, one per call that has not been counted off, and the new jobs of
  a call from when they are counted until they are handed out.  `CounterInv` is
  inductive; besides the counter it says that no worker begins before the start and
  that a closed channel means a counter at zero.
* `ClosedForGood`: `Spec => []NoSendAfterClose`.  With the counter at zero no job is
  outstanding, so no call has one to send, and none will count one off and close the
  channel again.

The jobs are counted as a set of tokens (`Outstanding`), one per job, named by the worker,
the position of its call in the stack and a number.  The proof says of each action how
the counts of the calls change (`JobTaken`, `NewJobsCounted`, `DoneCounted`, `JobSent`,
`VisitedInline`, `CallReturned`), and one lemma (`CountChanged`) how the number of
tokens changes when one count does.

The third says that no file is lost or doubled:

* `EveryFileIsFoundOnce`: `Spec => []EveryFileOnce`.  The invariant `FilesInv` accounts
  for every file that is to be found: its directory lies at or below a job in the
  channel, a directory that a call has before it, or the file is in the results of a
  call or of a worker; and in one of these only.  Each action moves a file from one
  place to the next.  At the end there is no job and no call, so every file is in the
  results.  `TreeAssumption` says why no two jobs lead to one file: a directory is
  listed in one place, base paths in none, and a file in one.

`AstWalkProofs` proves three theorems for every set of trees (the four assumptions of
`AstWalk`):

* `CallsAreNested`: `Spec => []CallsNest`.
* `NodesAreVisitedOnce`: `Spec => []EveryNodeOnce`.
* `TargetsAreRight`: `Spec => []TargetsAreTargets`.

They are about what the calls are when the walk is done (and, for targets, all along), and
follow from one invariant about the walk under way, `WalkInv`: the calls made, followed by the visits and calls still on the agenda
(`Course`), are those of a walk (`Walked`).  That is: calls nest, none occurs twice and
what is yet to be visited has nothing else at or below its path (`Tidy`); every item
has the path of its node, is a call the visitors make for a node of that kind (`KindsOf`),
and is a target only if the tree says so (`ItemFits`); every
node below the file has been called for, is yet to be visited, or is the name of a
property of a target or below one (`Reached`); a literal called for is announced one way
(`Announced`).  `RunListeners` moves an item from the agenda to the events and leaves
`Course` as it is.  `Visit` puts a block in the place of one visit: `PatternVisitorHandles` and
`ChildVisitorHandles` say of the two visitors what blocks they make (`IsBlock`,
`Handles`), and `VisitKeepsWalked` that putting such a block in its place keeps `Walked`,
whatever the block.

`AwaitRulesProofs` proves two theorems for every set of trees (the assumptions of `AstWalk`
and `FunctionNodes`):

* `FunctionReportsFit`: `RulesSpec => []FunctionsReportedAreRight`.
* `ReturnReportsFit`: `RulesSpec => []ReturnsReportedAreRight`.

By `WalkInv` calls nest, so the functions entered and not left when a listener is called
(`Open`) are the functions around the node, and those below a node have been left before
it is (`LeavingCalls`).  The inductive invariants are `WalkingInv` of the walk, and on top
of it:

* `StackInv`: the scopes are those of the open functions, each within the next one.  From
  it, that the scope on top when a listener is called is that of the function the node
  is directly in (`TopOwns`), that an exit listener finds the scope of the function it is
  called for (`TopIsLeft`), and the number of the scopes (`StackCounts`).
* `RequireInv`: a scope knows whether something visited directly in its function awaits,
  or yields a promise (`ScopeFits`); of the functions left, those are reported that nothing
  directly in them needs to be async.  A function is judged when it is left, so that
  nothing directly in it is visited later (`InNoLeftFunction`) is what keeps the second part.
* `ReturnInv`: reported is what should be of the nodes returned where the walk has been
  (`Judged`, `Verdict`).

That a verdict of return-await is right is a matter of the tree alone, once its scope is
known to be that of the node's function.  `ErrorHandlingIs`: the recursion from try
statement to try statement finds one between node and function that goes on after the
part the node is in (`Tries`), and only then; `TryAssumption` says what parts there are.
`DisposesInFunction`: the containers around the node have a using declaration before it
just when a block between node and function has; the body of a function is no container
of its own, so its declarations are found at the function (`ContainedBody`).  `ReturnStands`:
a return statement is in a function with a block for its body (by `StatementsAssumption`,
from the statement outwards), which the rule takes for granted when it looks at the body's
locals; from an arrow function's body to what it returns there are only conditional
expressions (`ReturnedFrom`).

`RuleFixesProofs` proves two theorems for every text and any finite number of
diagnostics with `ProperInput` (the assumption `InputsAssumption`):

* `FixerNeverPanics`: `Spec => [](pc # "panic")`: no slice of the code goes backwards.
* `FixesAreMade`: `Spec => [](OutputIsFixedCode /\ NoDiagnosticIsLost /\ PutOffForAReason)`.

All three properties are about the state at the end; `IInv` says what is so on the way:

* `QueueInv`: the diagnostics to come are ordered by their first fix, and none starts
  before an applied one.  This is why one applied diagnostic is enough to tell whether
  the next one overlaps: the last fix made ends last of all.
* `ShareInv`: each diagnostic is to come, or applied, or returned, and only one of these.
* `PutOffInv`: a diagnostic returned starts within an applied one, and not before it.
* `ApplyInv`: the fixes made do not overlap and end at `lastFixEnd`, one of them there;
  those of the current diagnostic that are to come follow it, one behind the other.  That
  sorting makes them so (`SortedFixesAreChained`) takes `ProperInput`; an empty range at the
  start of another one is why ends are compared, too.
* `OutputInv`: what is written is the text up to `lastFixEnd` with the fixes made (`Written`,
  the conjuncts of `OutputIsFixedCode` for a part of the text).  `SliceIsWritten` and
  `TextIsWritten` say that writing the text between two fixes, and a fix, keeps this.

`SingleCallsProofs` proves five theorems about `CallsSpec`, of which the run `single_calls`
checks an instance.

* `FixedCodeIsCorrect`: `CallsSpec => []FixedCodeIsRight`.  It takes an instance of
  `RuleFixesProofs`, whose step lemmas are about single steps and so hold for the steps of
  `SingleCalls`, the other procedures leaving the fixer's variables alone.
* `ArgumentsAreRight`: `CallsSpec => []ArgumentsMeetTheirParameters`, for every set of calls
  with `CallsAssumption`: sequences of parameters and arguments of any length, only the last
  parameter a rest parameter, a plain argument of one type.
* `BoxIsRight`: `CallsSpec => []BoxShowsRange`, for every set of texts with
  `SourcesAssumption` (a text is shorter than `math.MaxInt`, and the second byte of a
  character follows the first), with line breaks of any kind, any range a rule can report and
  any limit to the lines of a box.
* `PanicIsConfined`: only a range that ends on the file's last line, or a line break in the
  box that is no newline, makes `printDiagnostic` panic (the run `codebox_lastline` shows that
  a range of the first kind does).
* `OverlayIsRight`: `CallsSpec => []OverlayIsOneFileSystem`, for all file systems and paths,
  with any files in memory, on disk or not, any number of callers, and any cache with
  `OverlayAssumption`.

`ArgumentsMeetTheirParameters` says of what was compared that it is right, not why the
cursor is.  `ArgumentsInv` adds that (`ParameterInv`): the index of the next parameter is the
number of values before the current one, as long as that number is known, and
`hasConsumedArguments` says whether a tuple of variable length came before.  For a spread
whose length is unknown the code does not move the index, so the first half is claimed only
without one.  `NextIsDeclared` shows that `getNextParameterType` then returns the declared
type of the place, for each kind of rest parameter.  The count grows by one with each
value (`ValueStep`, `TupleElementStep`), which is about the cardinality of the set of the values
before.  `ComparedInv` is the property for the values passed so far.

`BoxShowsRange` is about the end of `printDiagnostic` only.  `BoxIInv` says what holds on the
way there:

* `BoxInv`: the lines of the map follow each other without a gap (`LineMapIs`,
  `LineFacts`: the map is a choice of the n-th start, shown to exist by counting), and the
  range is within the box.
* `ScanInv`, of the first pass.  As long as all lines have been counted (`Clear`), the byte it
  is at is in the line it counts (`Within`);
  `lineIndentCalculated` says whether some of the line's text has been passed, and
  `lastNonSpaceIndex` where the last of it ends (`Seen`); starts, ends and the least
  indentation are right for all lines passed (`Found`).  The line's newline and the end of the
  box must come when the count says so (`CharIsIn`), or the arrays would be filled at the
  wrong places; of a character of two bytes only the first is seen.  From a break that is not
  counted on the pass is behind the line it counts (`Lost`): what it has found for the lines
  before stays right, and the indentation stays at most theirs (`Scanned`).
* `PrintInv`, of the second pass: `diagnosticHighlightActive` is set exactly on the lines
  behind the one on which the range begins, up to the one on which it ends, and each line
  printed shows its text, underlined where it has the range (`Shown`; `Printed` and
  `Underlined` are about one line).

`ViewsAgree` is about a list put together from two in any order: `ListIs` says what stands at
each place of it, `OncePerEntry` when two places have the same.  `FilesOfAnEntry` is the step
from an entry to the files that make it one.

`EntriesAreComplete` is about callers that are done.  `EntriesInv` says of each caller that it
has appended nothing, or the one file in memory: to an array of its own, or behind the cached
part of the shared array, where all that another caller can have written is the same file
(`CallerIs`), so that the cached part stays what it was (`CacheInv`).

`Induction` has what these proofs need of induction.  The library's theorems are about
any predicate, which no installed prover can give a value; these are about sets and
functions.  `SetInduction`: a set with zero and, with a number, the next has all numbers;
from the well-foundedness of the order.  `RecursionDefines`: a function that follows a step
exists.  A recursive function of the model (`PairsWithin`, `NodeAt`, `InPattern`,
`PathsOfLength`, the concatenation `FlattenSeq`) is shown to satisfy its equation by a
function that does.

Each proof has one lemma for the initial state, one for the step with a case
per action, and one that the inductive invariant implies the property; the
theorem combines them by temporal logic.

Only model-checked: everything about `TypeRules`; and all liveness, which is out of the
prover's reach (as are the properties that a run shows violated, which are no
theorems).  Most modules of `TypeRules` follow the recursion of the rules with recursive
operators, about which this prover cannot reason; their inputs are small enough for
TLC to take all of them.

## 6. Disagreements with the documentation

* `visitor_unpatched`: `patches/README.md:3` says that the patches "do not change
  the behavior of typescript-go".  Patch 0001 changes the order of the files
  `ReadDirectory` returns: the old code went depth first and grouped by include
  pattern, the new one concatenates what each worker found.
* `walk_documented`: the comment in `RunLinter` (`linter.go:104-116`) lists the
  places from which a literal is an assignment target.  The initializer of a
  for-of loop, and the left side of an assignment that stands inside a target
  (a default value's place), are visited as values.
* `codebox_lastline`: `printDiagnostic` guards the access to the next line's
  start by `line == len(lineMap)` (`main.go:179` and `184`), which never holds; on
  the last line of a file it reads past the end of `lineMap`.

* `floating_handled`: the message of no-floating-promises
  (`no_floating_promises.go:22`) asks for a call to `.catch` with a handler.
  The rule skips parentheses around the whole statement only (line 376), so
  `a && (p.catch(f))` is reported all the same.

* `comma_parts`: the comment in no-floating-promises (`no_floating_promises.go:274-276`) says
  that the parts of a comma expression are all checked.  Parentheses are skipped around the
  whole statement only (376): in `(p, 1), 2` and `void (p, 1)` the promise `p` is dropped
  without a report.  `NoPromiseFloats`, which `rules` checks, names this exception (`unseen`).

* `switch_intersection`: the comment in switch-exhaustiveness-check
  (`switch_exhaustiveness_check.go:72-80`) says that `"foo" & { bar: 1 }` contains types that
  are no literals, and that default cases are never superfluous then.  The code takes a part
  with a literal in it for literal (85-87), and reports the default.  `ReportsAreRight`, which
  `rules` checks, goes by the values of the type, which are those of `"foo"`.

* `async_export`: promise-function-async demands that functions that return promises
  be async (`promise_function_async.go:13`); its fix for `export function f(): Promise<void>`
  inserts `async` before the node, whose text begins with its modifiers
  (`promise_function_async.go:131`): `async export function f` is no program.

What follows was met while modelling.  Where a property would fail for it, the property
says exactly where it does (an exception stated as "iff"), so that a change of the code shows;
no run is kept for it.

* no-misused-promises: the lists of argument indices hold an index several times,
  and only the first is deleted (461-466): with two overloads without result before one with a
  promise, an argument of a call that was resolved to one of the first two is reported, although "a promise-returning function is valid" there, as the comment has it
  (364-365); `VoidsOutnumber` says for which overloads.  `ParenthesizedType` is missing among the
  kinds that may be a function type (616-672), so that `let f: (() => void) = g` is passed over.
  A comma whose right side is a promise is
  reported as a condition wherever it stands (738-741), and twice in a condition in parentheses,
  against the comment at 231, "prevent checking the same node multiple times".
* no-duplicate-type-constituents: a nested union that repeats itself loses a constituent.
* no-unsafe-assignment: an initializer that assigns ends the loop over an object literal's
  properties, `return` for `continue` (435-443): those that follow are not checked.
* no-confusing-void-expression: the fix that moves a returned expression before the return
  (258-276) does not ask `canFix` as the other two do: `return a || f()` becomes
  `a || f(); return;`, which returns undefined in place of `a`.
* no-unnecessary-boolean-literal-compare: that a nullable boolean has no other parts
  (3 in the comment at 92-97) is not tested: `true | null | string` is taken for one.
* no-unsafe-return: a function that is not async may return `Promise<any>` (117-119);
  unions with any in an array or a promise are passed over.
* restrict-plus-operands: `1n + true` is not reported, nor a RegExp with a union that has
  number in it.
* unbound-method: a first parameter `this` without annotation is dereferenced as nil (151);
  `(a.b || c)()` is passed over, although the comment (98-99) asks for a parent that is a
  safe usage and the call loses the object; `if (a.b ?? c)` is reported, since `??` is none of
  the operators that are looked through (104), and so is `do ... while (a.b)`.
* use-unknown-in-catch-callback-variable: with a parameter `this` first, it is that one
  whose annotation is replaced (162); a rest parameter of an empty tuple type panics (82).
* no-misused-spread: weak maps are taken for maps (`isMap`), and `Object.fromEntries`
  does not take them.
* promise-function-async: the flag that the comment at 119 speaks of has opposite effects
  on unions and on bases.
* `NeedsToBeAwaited` (`ts_eslint.go:56-81`): an unconstrained type parameter may have to be
  awaited, but a union with one in it need not.
* no-misused-promises panics on a `return` outside of functions (685-687).
* `printDiagnostic` counts newlines (`main.go:133`) while the line map also has a line behind a
  lone carriage return, U+2028 and U+2029: behind one of these in the box the lines shown are
  cut at the wrong places, and the underlining with them.  `BoxShowsLines` and
  `RangeIsUnderlined` are claimed for the lines before it.
  A line that ends in a character of several bytes is cut in it, since the index of its first
  byte plus one is taken for its end (150).
* `OverlayVFS.GetAccessibleEntries` lists a file that is on disk and in memory twice, and a
  directory once for each file in memory in it (68, 70).
* `gen_shims`: a field that points to a structure that is not exported is mirrored as that
  structure itself, without the pointer (`main.go:292`), so that the accessors of the fields
  behind one larger than a pointer read the wrong place; a requested structure that is
  missing is not reported; a request file that cannot be parsed ends the run with
  status 0 (65-70), the packages behind it without a file.

Seen and not counted as a disagreement: `patternVisitor` visits only the value of
a property of a target, so that computed names there are not linted (stated as
the exception in `EveryNodeOnce`); the exit status is 0 also when errors were found.

## 7. What is not modelled

* typescript-go itself: parser, checker, module resolution, `ReadDirectory`
  around the visitor.
* Twenty-one rules, most of which ask the checker one question about a node and report: await-thenable,
  no-array-delete, no-for-in-array, no-implied-eval, no-meaningless-void-operator, no-mixed-enums,
  no-unnecessary-template-expression, no-unnecessary-type-arguments, no-unsafe-call,
  no-unsafe-enum-comparison, no-unsafe-member-access, no-unsafe-type-assertion,
  no-unsafe-unary-minus, non-nullable-type-assertion-style, only-throw-error,
  prefer-promise-reject-errors, prefer-reduce-type-parameter, prefer-return-this-type,
  related-getter-setter-pairs, require-array-sort-compare, restrict-template-expressions.  A model
  of one question would be its source again.
* Of modelled rules: the listeners of array literals and attributes in no-unsafe-assignment, the
  spread of promises in no-misused-promises, the text of the suggestion that adds missing
  cases, and how types are printed.
* In `RequireAwait`, parentheses and the text of the reports; in `ReturnAwait`,
  parentheses, and loops whose head declares variables with using.
* The rule tester (test code; its loop of passes is `FixUnion` for the one rule whose fixes
  need several); the phases of the command line before the sort; `CreateProgram`: a sequence
  of calls with an early return after each.
* Wording, layout and colours of the output; profiling, tracing.
* The shims themselves, which are generated.

## 8. What could follow

* Proofs about the modules of `TypeRules`, with recursive functions in place of the
  recursive operators.
* The rules of section 7 that keep scopes, in the manner of `RequireAwait`.
