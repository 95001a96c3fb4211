# Verification of open-maple

open-maple (`src/src/*.go`) runs the Maple package DifferentialThomas: a
tree-walking interpreter for a subset of Maple, which leaves the algebra to a
Sage process (`src/cas/sage_server.py`) over a pair of pipes. This directory
holds TLA+ models of its parts, TLC configurations that check them on small
instances, and proofs that the TLA+ proof system checks for all instances.

## The system

| Component | Code | State it keeps | Operations | What is hard |
|---|---|---|---|---|
| Backend client | `sage_cas.go` 1-760 | process, its pipes, `dead`, `generation`, `clearEpoch`, `pendingFree`, per handle `id`, `gen`, `epoch`, value | `Call`, `roundtrip`, `send`, `materialize`, `ClearCache`, `Close`, finalizers | death and restart of the process, timeouts, resending, the collector's goroutine |
| Server | `sage_server.py` | `CACHE`, `_NEXT_REF` | 50 ops, `materialize`, `clear` | state lost at a restart, ids issued again, operands rewritten as text |
| Sanitizer and decoder | `sage_cas.go` 760-1570 | two maps between names | `collect`, `sanitizeExpr`, `decodeResult` | two atoms under one name, round trips inside an encoding |
| Statements and control | `interp.go`, `eval_control.go` | scope, history (`%`), statement position | blocks, loops, `try`, signals | signals are Go errors and cross every evaluator function |
| Names and scopes | `interp.go` 359-621, `env.go` | globals, a scope per call, closures' environments | `lookup`, `store`, `storeAt` | write-through chains, environments that shadow globals |
| Procedures | `proc_eval.go` | remember tables, by-reference parameters | `callProcWB`, `bindParams`, `argWritebacks`, `captureEnv` | state put back on every way out; cached results |
| Binders | `specialforms.go` | the variable of `seq`, `add`, `mul` | `iterateBinder`, `assigned` | deferred restore |
| Arithmetic | `eval_ops.go` | none | `arithAdd`, `evalAddChain`, `simplifySum`, ... | two paths that must agree |
| Values | `value.go`, `print.go`, `native_poly.go`, `types.go` | none (tables are mutable) | order, sets, printing, normal forms, types | a total order, text that is read back |
| Builtins | `builtins.go` | none | about 150 functions | many small cases, mostly pure |
| Front end | `tokenizer.go`, `parser.go`, `expr.go`, `proc.go` | position | a Pratt parser | precedences |
| Loader, save, read | `loader.go`, `save_read.go` | files, the public names | load a package, write and read statements | failing half-way |
| Verifier | `verify/*.py` | none | checks a decomposition with Sage | mathematics, not control |

The interpreter calls the backend for every operation it cannot do itself
(`casArith`, the CAS builtins). A result comes back as a handle, `SageRef`, an id
in the server's cache; it is passed on as `{"ref": id}` and turned into a value
only when something looks at it (`concrete`, `materialize`). The Go collector
tells when a handle is gone (`scheduleFree`), and the next request sends the free.
`ExecProgram` may empty the whole cache between two statements, after reading the
handles that globals and the history reach. Handles live in variables, in scopes,
in closures and in remember tables, so that a restart of the server concerns
them all.

Nothing in the interpreter runs concurrently except the collector's finalizers
and the goroutine that reads an answer; the process can die at any time, start
with an empty cache and issue the same ids again.

## Modules

### The handles: `SageRefs`, `HandleStore`, `SageRefsStore`

`SageRefs` is the core: the backend, the server and the handles.

* Server: `cache` maps ids to expressions, `nextRef` counts. `Handle` is one turn
  of `_main_loop`: operands are resolved, the answer and the new id are made, or
  entries are dropped, or the request is refused. `Crash` is the death of the
  process, at any time (external).
* Client: `EncodeOp` encodes the operands (`Live` decides between a reference and
  the text of the expression: `encodeArg`), `EnsureStarted`, `Flush`, `SendFails`
  with the resend for a request without references, `ResendFails` and `Decode` are
  the steps of `Call` and `roundtrip` in the order of the code. `Materialize` is
  the read of a handle, including its bare id. `Drain` and `ClearCache` are what
  `ExecProgram` does between statements in its two modes.
* Objects: `Bind` and `Drop` make a handle reachable or not for the program,
  `OperandDies` and `Finalize` are the collector. Unreachability and
  finalization are separate steps because the runtime separates them.

Expressions are members of a set; an op returns any of them and the ghost
variables record what it computed with and what a handle stands for. The algebra
and the text of an expression are left out.

`HandleStore` is the abstract promise: a set of handles, each standing for one
expression, that are issued and read; a restart may lose them. `SageRefsStore`
maps the detailed state to it (`ImplementsStore`).

### Remember tables: `Remember`

`Remember` extends `SageRefs` with one procedure under `option remember` and its
table. The key is made from the id (`rememberKey`). `CallHit`, `CallMiss`, `Return` and
`Raise` are the paths of `callProcWB`, between which everything of `SageRefs` may
happen.

### The pipes: `SageWire`, `CallService`

`SageWire` looks at the same client from below: processes with a pipe in and a pipe
out, and the goroutines of `send`. What a request carries is left out. `Goroutine(g)`
is `s.stdin.Write` and `s.stdout.ReadBytes`: it goes on after its timer has fired,
reads the field `s.stdout` only when its write is done, and may then share a
`bufio.Reader` with the goroutine of a later request (a line may come out broken).
`EnsureStarted`, `Flush`, `FlushEnds`, `SendOp`, `SendAnswered`, `SendFails` and
`SendFailsAgain` are `Call` and `roundtrip`; a flush that fails only marks the process dead,
and a second failure that is no timeout does not even do that. `Serve` is the loop of the
server, `Die` its death at any time, and `bounded` the setting of the two timeouts,
chosen once. `CallService` is the promise: a call gets the answer to its own request or an
error, and a request with references is computed at most once, any other at most twice.

### The names of requests: `Naming`, `MCNaming`

The tables of `newSanitizer`: `Collect` goes through the operands before anything is
sent, `Encode` once more as they are printed, and a handle keeps the table of its
request, which a later request with it takes over. `Clear` materializes every handle, whose
next use is then by text. An answer has every generator of its operands.

### Control: `Control`

The stack `frames` holds the evaluator functions that do something when a signal
passes: `callProcWB` (stages: binding, default value, body), `evalLoop`, `evalTry`
(three stages), `iterateBinder`, and those that swallow errors. `sig` is the Go
error on its way. `scope` is named by its call, and an entry of the history by the
activation whose statement made it: that is all the properties need. The program
is arbitrary: at every step the innermost construct begins or ends something or
raises. A panic ends the process, because nothing recovers.

### Names: `Scopes`

`globals`, a stack of `scopes` with what `env.go` keeps in one, the active `binders` and
the environments of closures. Tables and procedures are objects a name refers
to; the contents of a table do not matter. `LookupIn`, `Store` (with the chain of
`storeAt`), `Evaluated` (a name that refers to a table evaluates to itself) and
`Resolve` are the functions of `interp.go`; `Free` is what a name means that is not local.
An argument of a call is a name or another expression, and may have any number of values:
`Items` says which plain values are sequences, and `Spread` flattens one. `Bound` binds values by
position after flattening and `Wired` the write-through targets by argument node, as the code
does. A scope is named by its depth: a target always is in a scope of a caller,
which is still active.

### Tables and lists: `Tables`, `ValueStore`

`Tables` is the heap: tables, and the arrays of lists and sets, which a Go slice shares
with every copy of it. Its actions are the assignments of the interpreter, to a name, an
index, an element of a list and an element of an element, with `table`, `copy`, `subsop` and
a procedure that remembers its result on the right. Objects that nothing refers to are
collected within the step, and their numbers used again. `ValueStore` has values that are
trees, with tables as the only references. A stack overflow (`copy` of a table that holds
itself) ends the process.

### Files: `Session`

`save`, `read`, `with` and the load of a package, over the names of a session. The text of
a save is a list of statements; a crash or a full disk may cut the last one off. A load may fail
before or after the file that defines the name `with` looks for. `Restart` keeps only
the file.

### The front end: `Lexer`, `Parser`, `Frontend`

`Lexer` is the tokenizer by classes of characters, with a `line` that is typed one character at a
time; `Parser` the Pratt parser and one operator per statement. Both are functions of a text.
`Frontend` puts both together: `tree` is wrapped in one construct after another, or `text` is typed
by tokens, or the `line` of `Lexer` by characters. Its reference for the parser is `Text`, which writes a tree with the
parentheses that the order of operators calls for which the comments of `expr.go` give; it does not
use the parser's own table.

### Values and algebra: `Values`, `Arith`, `Printer`, `Rebalance`, `NativePoly`, `ValueOrder`, `Builtins`, `Algebra`

Pure functions, each module on top of the one before; only `Algebra` has a state.

* `Values`: numbers, atoms (a name, an indexed name or an applied function),
  sums, products, powers. `Meaning` is the reference: the rational number a value
  is at a point, by its definition, with `Undef` where it has none.
* `Arith`: `simplifySum`, `simplifyProd`, the operators, `evalAddChain` and the
  pairwise fold it stands for. An operator may also answer an error, or panic
  (`0^(-1)`), which ends the expression.
* `Printer`: both printers, by tokens, and the part of the Pratt parser that reads
  operators, with its binding powers.
* `Rebalance`: what the server does to the text of an operand (`rebalance`): it is cut
  at its outer operators and put together as a balanced tree.
* `NativePoly`: the normal form as a function from monomials (bags of names) to
  coefficients, with expand, degree, coeff, content and gcd.
* `ValueOrder`: `compareValues` (its normal-form branch, its type order, its
  comparison of texts), the sort, `makeSet` and the set operators.
* `Builtins`: `op`, `nops`, `subsop`, `map`, `has`, `subs`, `type` and `whattype`,
  also the answers that are given for a live handle without its value (`HandleTypes`).
* `Algebra`: a stack of operands on which the evaluator works, as `eval` does on
  an operator tree: every action is one node. Each value carries what the
  expression means at two points, computed apart from the values. No action
  looks below its operands, so a property of one value looks at stacks of one and
  a property of two at stacks of two: every value, pair and triple within the
  bounds is met there.

## Runs

| Run | Instance | Shows |
|---|---|---|
| `handles_faults` | 2 expressions, deaths, failed starts, timeouts, one restart, a remembering procedure, per-handle freeing | what survives faults: an op computes with the expressions its handles stand for, a handle is read right until a restart, an entry is lost only to a stale free, none is orphaned, the pair implements `HandleStore` |
| `handles_coarse` | no faults, whole-cache clears | without faults every read is right, a live handle keeps its entry, a remembered answer is right |
| `wire` | 2 calls, 2 processes, one flush, every setting of the timers | a call is answered with its own answer or fails, whatever is left on the pipes (`ImplementsService`), and it ends (`CallEnds`) |
| `naming` | 7 atoms, 3 requests | the ring of a request covers what it sends, and atoms come back under their own names |
| `control` | three nested constructs | scope and history restored on all paths, signals find their construct, `finally` runs once |
| `scopes` | two names, one table, a sequence of two values, two calls, one binder, one closure, three of these active at a time | parameters are bound to the names of their arguments, write-through, restore of loop variables, no other name is touched, a closure reads what its maker reads |
| `tables` | two names, three objects of one slot | an assignment shows in one place, though arrays are shared; no list or set is part of itself, even after `x[1] := x` |
| `session` | two names and the package's, saves of up to two | the file is one save, reading it restores it, `with` answers for a whole package |
| `frontend` | trees of depth 3, texts of 4 tokens, lines of 5 of 16 characters | written trees are read back, an accepted text keeps its operands, tokens do not depend on what stands beside them |
| `algebra` | expressions of up to 5 nodes, 3 operands, 7 leaves | simplification and expansion keep the meaning, a chain is its fold, a request means what was meant, the normal form is one, degree and coefficients rebuild, gcd divides, equality and sets agree, types tell which operands there are, `subs` replaces all pairs at once |
| `stale_read` | one restart | **violated**: a handle of an earlier process is read as another expression |
| `saved_changes` | as `algebra` | **violated**: `(-1)^x` and `(x^2)^(-1)` are saved as texts that read as other values |

Bounds. The handle runs need one restart to have two processes with equal ids,
two expressions to tell a wrong read, and two handles at once to have an operand
besides a stale one. Two calls on the pipes are what a late answer needs: one that was
given up and one that may take its line; two processes and one flush give a late writer
and a late reader beside them. The seven atoms of `naming` are two jets of one
function, an index that reads like another (`-1`, `neg1`), and names that come to the flat
names of jets; three requests are a handle, its use, and the use of that.

`MaxDepth = 3` puts a construct
between two others of every kind (a call in a loop in a call). Two calls and two
names give a chain of two write-throughs and a name that is local in one and
global in the other. The plain value of the `scopes` run is a sequence of the table twice; a plain
value that is no sequence differs only as an argument, where the model has names and the table for
one value. A procedure that is called in the `scopes` run has one parameter or local
(`MaxLocals`); with two names that leaves the other one to the environment and the globals.
`WiredToItsArgument` looks at every call that could be made in a state, of two parameters with
two arguments of up to two values (`MaxArgs`, `MaxItems`). `MaxActive = 3` counts calls, binders and closures
together: any three of the four that the other bounds allow. A request of `naming` has one or two operands
(`MaxOperands`): a handle before an atom, behind it, or two handles.
Names are interchangeable there and in `tables` and `session`, so symmetry is sound.
Three objects in `tables` are a list in a list in a table, a table in two lists, or a copy
beside its original. In `frontend` depth 3 has an operator in an operator in a statement with
every pair of constructs nested; the operators are one of each binding power and those
the code treats apart. Where the header of `expr.go` contradicts its constants (`HeaderOrder` below),
trees have parentheses. Four tokens put a stray word, a separator or an operator between two
operands and beside them. The longest thing the tokenizer looks ahead for has four characters
(`1e-1`); the five of a line put one beside it.

The seven operands of `algebra` are two names, an applied function (an atom that
is no polynomial), infinity, -1, 1/2 and a sum with a power: each is a case of its own
in the code. Five nodes give every operator on operands that are compound
themselves, and three operands at a time are what a chain with two
signs and the set operators need. `Fresh` is a name no operand has, to be put in by `subs`.
`MaxPower` and `MaxExponent` keep numbers small; where a
meaning would need a larger power it counts as undefined, and so does a division
by zero. Two points tell values apart (one coordinate is negative); they are
evidence, not a proof, that two meanings are equal.

Preconditions name what the code does not do. `NoBareNumber`: no power has a
negative or fractional number as its base, or a fraction as its exponent, since
no printer writes the parentheses it needs (`saved_changes`); values that compare by
text (`EqualMeansTheSame`, `SubsReplaces`) inherit it. `HidesInfinity`: a sum that holds
infinity beside other terms, which arithmetic would have absorbed. expand builds it, since it
takes infinity for a name. `Opens`: `has` and `subs` would look into an applied function, whose
arguments the model has not. In `NamesComeBack` names are ordinary (no infix `_DT_`, integer
indices) or handles come before atoms; in `ReadRestores` the saved value was no procedure and
its symbols are still free (`Durable`); in `ExportedMeansLoaded` no load failed after the file
that `with` looks for.

A stale id of an earlier process does harm in two more places than `stale_read`
shows: the queue of ids to free (`LiveEntryKept`) and the remember keys (`HitIsOwn`)
fail after a restart as well; without faults they hold, as `handles_coarse` checks and
the proofs show, and `LostOnlyToStaleFree` and `WrongHitNeedsRestart` say how far
the harm goes with faults.

`WriteReachesCaller` excepts the names a closure has from its environment
(`FromEnvironment`): the code writes the global and reads the environment, even for a name that
is declared global (`DeclaredGlobalIsGlobal`). `ClosureReadsAsMaker` excepts a local that has no
value when the closure is made. `LiveEntryKept` is about handles a request would name: one that only
a closure or a remember table kept over a clear is not (`NoneStranded`).

Deadlock is not checked where the system may stop: in `algebra`, `naming` and `frontend` when
the bound is reached, and in `wire` after the last call.

Fairness. `CallEnds` assumes weak fairness of the steps of a call (the interpreter's
goroutine is scheduled, and its timer fires), of the goroutine it waits for, and, only where
no op has a timer, of the server, which answers what it reads or dies. Both
timeouts are unbounded by default (`sage_cas.go`), so that this case matters. Nothing is assumed
of the program, the collector, crashes, or goroutines that were given up. With exactly one
timer the property does not hold and is not claimed: the goroutine of an op that timed out may
take the answer of an op that has no timer.

## Where the code differs from its texts

Two disagreements are runs (`stale_read`, `saved_changes`). Others, found while
modelling, have a definition in the modules but no run:

* `OperandsSurviveFlush` (`SageRefs`): an operand may be collected, and its id freed, after
  it was encoded and before its request is sent.
* `LoopSignalStaysInCall` (`Control`): a `break` outside a loop leaves its procedure.
* `DeclaredGlobalIsGlobal` (`Scopes`, with two locals): a declared global is read from the
  environment of a closure; `isGlobal` is never read.
* `TargetsAreParallel` (`Scopes`, with two locals): in `f(s, a)`, where `s` holds `1,2` and `a` a table, the
  second parameter is bound to 2, and by reference to `a`; so it is after an argument of no value. `proc_eval.go`
  264 and 311 call the targets parallel to the flattened arguments; 277-279 knows of sequences and says that the
  package passes none.
* `NoneStranded` (`SageRefs`, in the mode of `handles_coarse`): `interp.go` 193-195 says that a clear strands no
  handle that is still referenced; one that a closure or a remember table keeps is stranded.
* `HeaderOrder` (`Frontend`): the header of `expr.go` (16-25) has the sign, `::` and `$` bind tighter than `^` and
  `@`; the constants have them looser, so that `a^b::c` is `(a^b)::c` and `-a^b` is `-(a^b)`. For the sign the
  comment at 51-53 says what the constants do, and the trees of the run follow it.
* `OrderIsTransitive` (`Algebra`): `x < f(x) < x^2-1 < x`.
* `PathologicalNamesComeBack` (`Naming`): a handle that is no first operand brings names that an
  atom of the request may have taken, against `sage_cas.go` 1164-1167.
* `UseIsRead` (`Frontend`): `use ... in` is never read (`parser.go` 598), as `in` is taken for an
  operator.

And some the models reproduce:

* Pipes: both timeouts default to none, while STATUS.md 365 speaks of 1 h and 120 s.
* Parser: a bare `do ... od` inside a block is an error, and so is `(a := b)`; a default value takes
  the parameters after it along; `option remember, system` becomes one child, in which
  `remember` is not recognised; a stray closing word is read as a name; statements need no separator;
  `end` may be followed by the word of another construct; the parameters of a `module(a)` are
  skipped; `&op` is read as a name.
* Tables: `copy` of a cyclic table exhausts the stack; a set under `copy` shares its tables; `x[1] := x`
  for an unassigned `x` makes a table that holds itself; a remember hit returns the object of the
  earlier call.
* Files: the save of a procedure writes its name to itself (against `save_read.go` 47-48); the
  name of a package's procedure is written without back quotes and reads as a quotient; an empty
  value makes a file that does not parse; a write that was cut off may leave a text
  that reads without error; a half-loaded package counts as loaded.
* Builtins: `nops(1/2)` is 1 while `op` gives two operands, and `subsop` on a fraction does nothing;
  `subs` leaves a power of numbers as it is; a set of types is refused for a parameter and accepted by
  `type`; a handle of a product with infinity would not be of type infinity, while the value is; `has` compares
  up to algebra and `subs` up to form; `u + w - w` is not simplified before `subs`, against the comment
  there.

## Proofs

All proofs are for every value of the constants: any number of expressions, handles, restarts,
calls, processes, frames, scopes, names, statements, requests, operands, objects, elements of a
list and characters of a line. The assumptions are those named in the modules: bounds are naturals
and modes Booleans, a process can be started at least once, there is a default to be bound, the
guard of the package is no ordinary name, indeterminates are made of words, and no sequence
is an item of one. `Induction` has
what the proofs about recursive functions share.
The library states induction for an operator, which the provers cannot instantiate; here it is
about sets, from the library's facts on injections between finite sets (were n missing from a set
closed under successor, the successor would be an injection of what is below n into itself
that misses 0). With it the recursive functions of `Scopes`, `Session`, `Naming`, `Lexer` and `Tables` are
reasoned about: a function with the equations exists, going up (`CanStep`) or down from the end of a
text (`CanDescend`), and what each step keeps, the last value has.

* `Handles_proofs`: `TypeCorrect`; `OpsResolveOwn`, an op computes with what its handles stand
  for; `ReadsOwnInGeneration`, a read is right unless a restart lies between. Typing alone is not
  inductive: `TypeInv` adds that a start is left whenever one may be needed (`Budget`) and that
  whatever Go was given has an id (`Handed`). `SafeInv` adds that ids are unique in a generation
  and below the counter (`IdInv`), that an entry a handle of the running generation names is its
  own (`CacheInv`), the same for a handle that is still in an answer (`NewInv`), and that an
  operand of an older generation meets an empty slot, as a request with operands is not sent twice
  (`ArgInv`): without the last part the resend after a restart would compute with entries of the
  new process. The second half is about what happens to entries. `EntriesLostOnlyToStaleFrees`
  needs that only collected handles are queued (`EntryInv`); `NoEntryOrphaned` that an entry
  stands at the id of its handle and that an answer is lost only by a server that is given up
  (`OrphanInv`). `OneServer` says that one process serves the whole run when nothing fails; with
  it follow `ReadsOwnWithoutFaults` and `LiveEntriesKeptWithoutFaults`. Above them stand
  `StoreImplemented`, initial states map to initial states and every step to a step of
  `HandleStore` or a stutter, under `SafeInv`; and for the remember table `MemoInv`, an id used as
  a key is the id of the argument it was used for: `WrongHitsNeedRestarts` and, without faults,
  `HitsOwnWithoutFaults`.
* `SageWire_proofs`: `WireTypes` (types; no run repeats it) and
  `CallsGetTheirAnswers`, the refinement of `CallService`. The invariant says who may have a line
  of whom. A process in use that was not given up owes at most one line, to the goroutine the
  interpreter waits for (`CleanInv`): that is why a late answer cannot be taken for another
  call's, the process being given up on a timeout. While a call is with a process, only its own
  lines come from it (`OwnInv`). A process is sent the op of a call once at most (`UniqueInv`),
  and what holds it or computed it is counted by the tries made (`CountInv`): a request with
  references is computed once at most, any other twice.
* `Control_proofs`: `StackIsSound`, `CallerIsRestored`, `SignalReachesItsTarget` and
  `FinallyHasRunOnce`. Each frame saved the scope and the entries of the history that the activation
  below it had, and the variables of the interpreter are those of the innermost activation
  (`Sound` of every frame). Neither is visible in one frame: the invariant names, for each height, the
  innermost activation and the innermost open scope below.
* `Scopes_proofs`: `ScopesAreSound` (types), `LocalsOfCallersAreKept`, `WritesReachTheCaller`,
  `BindersAreRestored`, `ClosuresReadAsMakers` and `ArgumentsAreWired`. The key is that a write-through
  target is further out than its parameter (`OutwardInv`), which makes the recursion of `Written` end
  and keeps a write out of the scopes between; the variable of a binder had the value of the environment
  (`BinderInv`), and only names that are local have a value in a scope (`HomeInv`), so that a copy of the
  locals hides no name of the environment. `ArgumentsAreWired` is about any arguments: up to the first one of
  other than one value, flattening leaves every value at the place of its node.
* `Tables_proofs`: `HeapIsSound`, `ListsAreTrees` and `AssignmentsShowOnce`, the refinement of
  `ValueStore`. The invariant: whatever is referred to exists, and among any lists and sets there
  is one that refers to none of them. A step writes the slots of one table, which `ValueStore`
  shows, or objects taken from those nobody refers to. In a copy an occurrence refers to deeper
  ones only, which are finitely many as the copy ended; a new list refers to what was there before
  it. Trees end at tables: two heaps that agree on a set of objects closed under what lists refer
  to, but for the slots of tables, give the same trees (`TreesAgree`), by induction over the
  depth. A tree is cut at the depth of all objects, which no tree exceeds as no list holds itself.
  The run has one slot to a table and one element to a list; the proof has any number, and with it
  the indexed assignments that change one slot among others.
* `Texts_proofs`, files: `SessionIsSound`, `FileHoldsOneSave`, `WithLoadsThePackage`,
  `ReadsGiveBack`. Every file on the disk is sound: a whole save or one cut short (`TextInv`). The
  exported names imply a load that succeeded, and a load that is marked done is complete or was
  broken off (`GuardInv`). What a read leaves follows by induction over the statements of the
  file.
* `Texts_proofs`, lines: `TokensAreApart`. What the tokenizer reads from a place on depends only
  on the characters from there on (`TokensShift`, by induction from the end of the line), and a
  token set apart by spaces is read as the same token (`StandsAlone`, by the class of its first
  character). Nothing is assumed of the characters or the length of the line; `LineSpec` is what
  `Frontend` does to the line.
* `Naming_proofs`: `RingsAreComplete` and `NamesRoundTrip`. A table never takes a name from an
  indeterminate that has it (`Registry`, `Keeps`), as one of the numbers up to the size of the
  table is free: there are more of them than names in the table. Then a first operand that is a
  handle finds its names unchanged. For the other operands it takes ordinary indeterminates, whose
  tables have flat names only (`FlatInv`): two tables with the same name have the same
  indeterminate there, since the infix tells where the head ends (`FlatInjective`).

Only model-checked: `CallEnds` (liveness is out of the prover's reach), the properties of `Algebra`
and the two of the parser, `ReadsWhatIsWritten` and `NothingLost` (their values are trees, and the functions on them RECURSIVE operators, which the prover
does not take), and every violated property.

## What is not modelled

The algebra of the server, and the shapes of its answers (`decodeResult`: lists, matrices, pairs);
floats, lists, boolean operators and live handles as operands of arithmetic; numer, denom, and
degree in several variables; the builtins that are one loop over a list (select, zip, sort, cat) and
those that compute with numbers or print; the layout of lprint; the exports of a module; tracing; the
first REPL and the command line; the verifier, which checks mathematics. `PROJECT.json` lists every
component with the reason.

Ids are natural numbers without a width: Python's are unbounded and Go's are 64
bits, far beyond any run.

## Plan

1. `SageRefs`, `HandleStore`, `SageRefsStore`, `Remember`: done, proved.
2. `Control`, `Scopes`, `SageWire`, `Naming`, `Session`: done, proved.
3. `Tables`, `Lexer`: done, proved.
4. `Parser`, values, algebra and builtins: done, checked. Left: boolean operators and relations, lists as
   operands, the decoding of answers.
