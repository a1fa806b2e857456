# Kint in TLA+

Kint finds integer overflows in C programs that have been compiled to LLVM
bitcode.  This directory holds TLA+ modules that model its analyses, TLC
configurations that check them on small programs, and proofs, checked by TLAPS,
about the models.  Lines are given as `File.cc:n` for files of `src/src`.

## The system

Kint is three programs that read and write bitcode files.

`intglobal` loads every file of a program (each in an `LLVMContext` of its own),
annotates the loads, stores and arguments with identifiers (`AnnotationPass`), and
runs three whole-program analyses one after the other under one driver,
`IterativeModulePass::run`.  They meet only in `GlobalContext`, whose maps are
keyed by strings such as `var.x`, `arg.f.0`, `ret.f`, `struct.s.1`.  The annotated
modules are printed over the files they were read from.

`intck` is a pipeline of LLVM passes over one file.  It rewrites overflow checks
(`OverflowIdiom`), inserts calls of `int.sat` with the condition under which an
operation overflows (`IntRewrite`), simplifies overflow intrinsics
(`OverflowSimplify`), does the same for sizes passed to library calls (`IntLibcalls`),
merges loads (`LoadRewrite`) and at last asks an SMT solver about each `int.sat` (`IntSat`, with
`ValueGen`, `PathGen` and the solver bindings).

`cmpck` looks for comparisons that are always true or always false (`CmpTautology` by
LLVM's scalar evolution, `CmpSat` and `CmpOverflow` with the same solver; the script runs
the first).

| Component | State | Operations | Talks to | What makes it right |
|---|---|---|---|---|
| Identifiers (`Annotation.h`) | none | `getVarId`, `getArgId`, `getRetId`, `getStructId` | keys of every map of `GlobalContext` | the same object has the same identifier in each module |
| Driver (`IntGlobal.cc`) | loop counters, `changed` | `run` | calls the three passes | stops when, and only when, nothing changes |
| `CallGraphPass` | `FuncPtrs`, `Funcs`, `Callees` | `doInitialization`, `doModulePass`, `doFinalization` | writes `Callees` for the other two | least fixpoint of the assignments of function pointers |
| `TaintPass` | `GTS`, `VTS` | the same, `checkTaintSource`, `getTaint` | reads `Callees`; marks instructions | marks what derives from a source and nothing else |
| `RangePass` | `IntRanges`, `FuncVRMs`, `Changes` | the same, `unionRange`, `getRange` | reads `Callees` and the source marks | ranges include every value; the sweeps end |
| main, writeback | files, `Modules` | load, `doWriteback` | files | files survive; marks are complete |
| `AnnotationPass` | metadata | `annotateArguments`, `annotateLoadStore`, `annotateTaintSource`, `annotateSink` | identifiers for the three passes | one identifier per variable and field in every module; a second run changes nothing |
| `IntSat` | `ReportedBugs` | `check`, `query` | forks a child per query | reports each bug, once |
| `OverflowSimplify` | the instruction stream | `runOnFunction` | intrinsics of `IntRewrite` | the overflow bit stays the same |
| `OverflowIdiom` | the instruction stream | `runOnFunction` | `OverflowSimplify` | a check written by hand keeps its value |
| `IntRewrite`, `IntLibcalls` | the instruction stream | `insertOverflowCheck`, `insertDivCheck`, `insertShiftCheck`, `insertArrayCheck`, `rewriteSizeAt` | `int.sat` calls for `IntSat` | a trap whose condition says exactly when the operation fails, on the way to whatever is observed of it |
| `LoadRewrite` | the instruction stream, `SSAUpdater` | `hoist` | | every use of a load sees the value it saw before |
| `ValueGen`, solver binding | cache of expressions, assertions | `get`, `visit*`, `addRangeConstraints` | the solver, `!intrange` of `RangePass` | models of a query are executions, and failures are models |
| `PathGen` | cache of expressions | `get` | the solver | the condition of a block holds whenever it is reached |
| `CmpSat`, `CmpTautology`, `CmpOverflow` | the function being checked | `check` | the solver | what is reported holds in every execution |

What is hard: the global analyses are loops over loops in which everything may
change what was read before, across modules, and stop on flags that have to be
handed up through four levels; `IntSat` forks a child that a timer may kill while it
reports; the files are overwritten in place; and the arithmetic is modulo a power
of two.  There are no threads.  The list of hazards, each at its line, is in
`PROJECT.json`.

## Modules

| Module | Models | State | Actions |
|---|---|---|---|
| `Ids` | `Annotation.h` | | |
| `IterativePass` | `IterativeModulePass::run` | `phase` (the loop), `mod` (its iterator), `changed` | `ForModule`, `EndModulePass`, `BeginSweep`, `BeginFinal`, `Finish` |
| `CallGraph` | `CallGraph.cc` | `FuncPtrs`, `Funcs`, `Callees`; `k`, `FS`, `no` are the iterators of `runOnFunction`, `Changed`, `ret` the flags of `doModulePass` | `doInitialization`, `VisitStore`, `VisitReturn`, `VisitCall`, `VisitArgument`, `EndCall`, `Skip`, `SweepAgain`, `ReturnFromModule`, `doFinalization` |
| `Fixpoint` | nothing of the code: what an analysis promises | `facts`, `done` | `Derive`, `Stop` |
| `Taint` | `Taint.cc`, `TaintMap` | `GTS` and `Source` (the two halves of `GTS`), `VTS`, `Marks` (metadata), iterators and flags | `VisitCall`, `VisitArgument`, `VisitOther`, `SweepAgain`, `ReturnFromModule`, `MarkInstruction`, `doFinalization` |
| `Ranges` | `CRange.h`, LLVM's `ConstantRange` | | |
| `Range` | `Range.cc` | `IntRanges`, `Changes`, `FuncVRMs`, `Meta` (metadata), the position in the module, flags, `itr` | `BeginFunction`, `MergePredecessor`, `VisitInstruction`, `NextBlock`, `NextFunction`, `SweepAgain`, `ReturnFromModule`, `doInitialization`, `doFinalization` |
| `RangeMeaning` | what a program may put in its identifiers, and LLVM's rules of dominance | | |
| `Workflow` | `main`, `doWriteback` | `file`, `stage`, `cur`, `Modules`, `mem`, `out`, `skipped` | `Start`, `Load`, `LoadFails`, `NextStage`, `Finalize`, `NotLoaded`, `PrintPart`, `Keep`, `Crash` |
| `IntSat` | `IntSat.cc`, `SMTFork`, `SMTJoin`, `Diagnostic` | `fn`, `n` (the trap), `ReportedBugs`, `query` (how far the child is), `Res`, `wait`, `Output` | `Skip`, `SMTFork`, `Solve`, `Report`, `Exit`, `Timer`, `SMTJoin`, `NextFunction` |
| `Annotation` | `Annotation.cc`, `getValueId` | | |
| `OverflowSimplify` | `OverflowSimplify.cc` | `call`, `swapped`, `replaced` | `runOnFunction` |
| `OverflowIdiom` | `OverflowIdiom.cc`, followed by `OverflowSimplify` | `cmp` (the check found), `rewritten`, `inverted` | `recognize`, `simplify` |
| `Cfg` | LLVM's dominators, back edges and loops | `prog` (the function) | |
| `IntRewrite` | `IntRewrite.cc`, and an execution of the rewritten function | `WrapOpt`, `bb`, `i`; `at`, `pos`, `came`, `computed`, `live`, `seen`, `caught` of the execution | `insertOverflowCheck`, `insertCheck`, `Skip`, `NextBlock`, `Start`, `Step`, `Branch`, `Return` |
| `LoadRewrite` | `LoadRewrite.cc`, and an execution of the function before and after | `bb`, `i`, `scan` (the loop of `hoist`), `Available` (of `SSAUpdater`); `at`, `pos`, `came`, `mem`, `val`, `ssa`, `older`, `left`, `exact` of the execution | `Skip`, `hoist`, `ScanBlock`, `RewriteUses`, `Start`, `Step`, `Branch`, `Return` |
| `SMTBoolector` | the bit-vector operations of `SMTBoolector.cc` | | |
| `Traps` | the conditions of the traps of `IntRewrite.cc` and `IntLibcalls.cc` | | |
| `ValueGen` | `ValueGen.cc`, and the query of `IntSat.cc` | `got` (the expressions asked for), `Cache`, `fresh`, `constraints`, `status`, `model` | `get`, `query` |
| `PathGen` | `PathGen.cc` | `DT` (a dominator tree is given), `Backedges` | |
| `CmpSat` | `CmpSat.cc`, the query of `IntSat.cc`, and an execution of the function | `bb`, `asked`, `Reports`, `model`; `at`, `env`, `loops`, `visited` of the execution | `BeginFunction`, `FirstQuery`, `SecondQuery`, `SkipBlock`, `QueryTraps`, `EndFunction`, `Start`, `Branch`, `Return` |

`CallGraph`, `Taint` and `Range` extend `IterativePass`, which extends `Ids`; the `MC`
modules give programs to TLC.  `MCTaint` extends `Taint` and `Annotation`: the programs it
starts from carry no identifiers, `Annotate` gives them theirs, and `ForTaint` hands the
result to the pass.  `RangeMeaning` extends `Range` and gives the programs of the pass a
meaning of their own, which its ranges are held against; `MCRange` extends it.  `OverflowIdiom` extends `OverflowSimplify`: a run composes the two
passes in the order of `intck`.  `ValueGen` extends `Traps`, which extends `SMTBoolector`: a run
composes the condition `IntRewrite` puts into a trap with its translation for the solver.
`PathGen`, `IntRewrite` and `LoadRewrite` extend `Cfg`, `CmpSat` extends `PathGen`.
`CallGraph` refers to `Fixpoint` by `INSTANCE` and is checked to implement
it.

How a program is represented: it is chosen in the initial state and never changes.
An instruction is a record of what the pass asks of it (its kind, its operands,
its identifiers, its callees); wording, types and layout are left out.  An
identifier is a record of its parts rather than the text.  `findFunctions` walks through casts,
phis and selects to its leaves; an operand is the set of those leaves.  Control
is kept in full: each iteration of the loops of `run`, `doModulePass`,
`runOnFunction` and the argument loops is a step, so that what a pass has read
before a map changes is as old in the model as in the code.

Mutated forms of a definition that a run must notice stand before it, with a
name that says what is wrong with them (`MergeForgets`, `StatusUnchecked`); no
specification uses them.

`PathGen` represents an expression by its meaning, the set of the valuations of the SSA
values that satisfy it.  `CmpSat` lets the function run after the pass has looked at
it: blocks are entered, phis change at once, what the environment yields is any
value, loops go round as often as they like.  So a report is compared with what
executions do, and not with a second definition of the path condition.  `IntRewrite` and
`LoadRewrite` do the same: the pass changes `prog` step by step, then the function runs.
Which operations overflow is left open in `IntRewrite`: each is taken to, and the execution
keeps account of the results that what it observes depends on.  `LoadRewrite` keeps the
operand each instruction had (`was`) beside the one it has (`ops`), and the execution
computes both.

In `ValueGen` an expression is a constant, a variable or an operation on two of them, and
its meaning in a model of the solver is computed; what the program does is defined apart
(`Runs`, `Fails`, `Legal`), on unbounded integers where LLVM's meaning is that of integers.

## What the runs check

All runs fit in two minutes each with two workers.

**`callgraph`** (`MCCallGraph.cfg`, 90k states).  Programs of two modules of up to two
instructions each, from pools of five that cover direct and indirect calls,
function pointers as arguments, returns, loads, stores, a function declared in
one module and defined in the other, and initializers that are collected or not.
`AtFixpoint`: when the driver leaves its loop, visiting any instruction again
would add nothing (`FixpointInv`, its inductive strengthening, is proved, see below).
`CalleesReceiveArguments`: every function in `Callees` has, under its own
arguments, what the call passes, although it may have been discovered in a later
sweep and by another module.  `ImplementsFixpoint`: the pass
implements `Fixpoint` with the flow rules of its program, that is, whatever the
order of modules and instructions, it derives only what a rule gives, drops
nothing, and stops closed under the rules.  `Terminates`.

**`taint`** (`MCTaint.cfg`, 61k states).  `AnnotationPass`, then `TaintPass`.  A source, a call
of a function in the second module, stores and loads of variables and fields, static and
not, and in other programs two sources, pointers that are cast, structs, returns, inline
asm, system calls that tell of their arguments, and allocations; and calls through pointers
loaded from fields, statics and arrays of either module or returned by another such call: all of them that go
through one field share an identifier (`getValueId`), which a source among them marks for the others.  The programs come without identifiers; `MCTaint` defines
the taint a program deserves on its variables, fields, arguments, results and the results of
calls through one pointer themselves, as reachability over its flows: `NoSpuriousTaint` (nothing else is tainted, so neither the
identifiers nor the pass mix up two things) and `MarksAllForward` (all of it is marked, for
code without loops, so that each access of a thing has the identifier of the others).
`Closed`: when the sweeps have ended no operation is left to pass taint on, in loops too,
although `changed` says nothing of entries that only grow.  `AnnotatingAgainIsIdle`: a module that was written back
by a run that was killed is annotated again by the next and stays as it is.  `Terminates`,
for every order of callees (they are sorted by address).

**`range`** (`MCRange.cfg`, 30k states).  Programs of two modules with
integers of two and three bits: variables that go round through stores, loads,
calls and returns; branches, switches, phis and a loop; casts; initializers; a
counter; calls without an identifier; an identifier of two widths, which only `TypeOK`, `SweepsBounded` and `Terminates` say something of.  `RangeMeaning` defines the values a program may produce independently of the pass:
every instruction of every module is executed on the values found so far, in `Steps` rounds.
`RangesAreSound`: what an identifier may hold is in its range.  `MetadataIsSound`: what
`doFinalization` writes on an instruction holds of every value it may yield, taint sources
excepted.  Both leave out what the code itself marks as not
handled: `urem`, `srem`, `ashr`, `xor` (FIXME), what a phi takes over a back edge (these are
skipped), initializers that are not collected, loads of a place without an identifier; and
chains through the reading of an argument, which are lost (`Range.cc:97`, below).  `SweepsBounded`: a module is
swept at most `MaxIterations` times plus once per identifier, where without the
expansion to the full range it would take as many sweeps as there are values.
`Terminates`.

**`range_terminator`** shows a place where the code does not do what its comment says: a
branch does not constrain the range of the value it compares (`insert` keeps the range
that is there).

**`intsat`** (`MCIntSat.cfg`, 105k states).  Two functions of three traps and one, over two conditions,
queries that are satisfiable, unsatisfiable, or hang; with and without a
timeout.  `SuppressedIsReported`: a condition is suppressed only after its
whole report was written, whenever the timer strikes.  `NothingLost` and
`ReportsOnce`: without a timeout each bug is reported, and once.
`Terminates`: with a timeout the module is checked to its end.

**`workflow`** (`Workflow.cfg`, 74k states).  Three files, two crashes, with and
without `-p`; any file may fail to load when it is damaged, and to open for writing at any
writeback.  `OneFilePerCrash`: a crash damages at most the file being written, and none with `-p`.
`ExitIsComplete`: when the program exits, what is whole on disk has been through
every pass, whatever was interrupted or could not be written before, unless the last attempt
to write it failed.  `Exits`.

**`overflow`** (`OverflowIdiom.cfg`, 29k states).  Every intrinsic with every pair of operands of
four bits, constant or not, and every check of `x` against `(x * y) / y` or `C / y` with any
predicate on either side.  `AddSubExact` and `MulExact`: the comparison that
replaces the overflow bit is equal to it.  `ChecksKeepTheirMeaning`: a check written by
hand has the same value after `OverflowIdiom`, and after `OverflowSimplify` has worked on
the intrinsic it became.
**`overflow_from_constant`** shows the case where it is not: for a constant minus a variable
the comparison tests the constant itself.

**`cmpsat`** (`MCCmpSat.cfg`, 600k states).  2428 functions of four blocks: diamonds, switches,
indirect branches, loops that are nested, that share a header or that have two entries,
a phi, and a value that is read anew in each round.  `ReportsAreTrue`: what `CmpSat` says
of a branch holds whenever an execution comes to it, in any round of any loop, also
when the solver gives up on a query.  `FirstRoundIsCovered`: an execution satisfies the
condition `IntSat` asks about in each block it comes to until it takes a back edge.
`ModelsAreExecutions`: the other way round, a model of the condition of a block is an
execution that comes to that block, with the values of the model.

**`intrewrite`** (`MCIntRewrite.cfg`, 104k states).  Functions of four blocks from pools of
additions (signed and not, on pointers, on results of others), phis, shifts, divisions,
calls, loops and returns, with and without `-fwrapv`.  `ObservedIsTrapped`: at the end of a
block, every operation whose last result has been observed, directly or through what was
computed from it, in whichever round of a loop, has passed its trap since it was computed.
What observes is what `isObservable` says: returns, exits of loops, and all that LLVM does not
execute speculatively, which is calls, divisions that may fail, and phis.
`ReadsAreComputed`: no trap is moved to where the bit it reads may not have been computed.

**`loadrewrite`** (`MCLoadRewrite.cfg`, 268k states).  Functions of four blocks that load an
address, store to it (what they have loaded, too), use what was loaded in other blocks and through phis, go round loops
that define the pointer anew, as a phi or otherwise, and write to it unseen.  `LoadsKeepTheirValue`: each use sees
the value it saw before the pass, but for two cases: something has been written that the
pass does not look at, or the one of `LoadRewrite.cc:153` (below).  `OnlyStoredLoadsStay`: however
many loads there are, nothing uses any when the pass has ended, but those whose value the function stores back
to the address; these `SSAUpdater` may put in the place of others, and only for these the pass may hoist the
address once more.  `TypeOK` includes that phis stay first in their block (`PhisAreFirst`).

**`valuegen`** (`MCValueGen.cfg`, 156k states).  Every operation under two traps and every trap
on loads, constants and operations, with ranges that are empty, wrap around, begin or end at
0, and pointers narrower and wider than integers.  `ReportsAreReal`: a model that the solver
may return is an execution in which the operation fails.  `FailuresAreModels`: every
execution in which it fails is a model, so no part of the query can exclude a bug.  `TypeOK`
says that what is computed fits its width, which the shifts of the binding have to see to.

### Bounds

`NumModules = 2`: two modules are what it takes for a fact of the second to
change what the first has read.  The programs are short but include each kind of
instruction next to each other.  `MaxIterations = 2` in place of 5, with ranges of
eight values, so that expansion happens and is needed.  Four blocks: what it takes for a loop with a branch inside and code behind it, and
for a loop of two entries.  The pools of `MCIntRewrite` and `MCLoadRewrite` put an
operation before, in and behind a loop.  `ValueGen` has integers of three bits (no power of
two, as for the shifts of the binding) and of four, pointers of three and four, and
`IntWidth = 3`.  `Half = 8`: four bits have
all the cases of sign and of the ends of the range.  `Steps = 24`: rounds enough for all that
the programs of `MCRange` may put in their identifiers, but for the counter that goes round two modules, which
gets to five of its eight values.  `MaxCrashes = 2`: a crash
of the run after a crash.  Widths 2 and 3: two widths that differ, for truncation and extension, and for `match`.

### Fairness

`run` is one thread that never waits: weak fairness of `Next` says only that it goes on.
In `IntSat` weak fairness of `Next` says that a child ends by itself or, with a
timeout, by its timer (the timer counts the processor time the child uses, and a child that hangs uses it).  In `Workflow` it says of
`Run`, which includes `Start`, that the user runs the program again when it was
killed, and `MaxCrashes` that it is not killed for ever.

## What is proved

Each theorem holds for every value of the constants that satisfies the named assumptions.
These give types (a program is made of instructions, functions are distinct by module and
name) and, besides: a module has finitely many functions (`TaintAssumption`), widths are finitely many
and not 0 (`RangesAssumption`), and the functions given to `Range` are what LLVM's verifier lets
pass (`WellFormed`: an operand is defined in its function and has the width its user wants).
`Fns`, `Programs`, `NumModules`, `MaxIterations`, `NumFiles`, `MaxCrashes`, the widths, `Steps` (a
number, `MeaningAssumption`) and the number of identifiers are arbitrary.

* `CallGraphProofs`: `TypeCorrect`, and `FixpointReached`, `Spec => []AtFixpoint`.
  `AtFixpoint` speaks of the end; what makes it true are the flags on the
  way.  The inductive invariant `FixpointInv` says what they mean: while `Changed`
  is down, the instructions already visited in this sweep are satisfied
  (`PrefixSatisfied`) and so are the arguments already passed to the callees in `FS`
  (`ArgumentsSatisfied`); while nothing has changed in this sweep of the driver, the
  modules already visited are (`ModulesSatisfied`); the flags are down between
  modules (`FlagsDown`).  The step from `Changed` down to `FuncPtrs' = FuncPtrs` is what
  lets every one of them survive a visit.  `CalleesAgree`, `Spec => []CalleesReceiveArguments`,
  adds what `doFinalization` has written so far (`CalleesInv`).
  `Refinement`, `Spec => ImplementsFixpoint`: each step applies rules of the program, or
  stutters, and the loop is left only at a solution.  The rules speak of the definition of a
  function among all modules, the pass looks it up in `Funcs`; `LoadInv` says how far `Funcs`
  and the initial facts have come while modules are loaded (the last definition so far stands
  for a name), and that callees found once are found again.  `LeastSolution` puts the
  refinement and `Sound` and `Complete`, what `Fixpoint` promises, together (all that is derived is below
  every set closed under the rules, and it stops only at a closed set): what the pass stops with is the
  least solution, so neither the order of modules nor that of instructions matters.
* `TaintProofs`: `TypeCorrect`, `NoEmptyEntries` (no entry of a map is empty: `add` takes an
  empty entry for a new one, so termination rests on it), and `TaintOnlyGrows`.
  `NothingForwardMissing`, `Spec => []Closed`, has an invariant of the kind of `FixpointInv`,
  `FlowInv`, on the domains of the maps alone: that is what the code compares.
  `NothingInvented`, `Spec => []DerivedOnly`: a solution of the flow rules of the program gives every value
  and identifier a set of descriptions such that sources have theirs and each operation hands on
  what it should; whatever is held, or marked, is in every solution.
* `RangeProofs`: `TypeCorrect`: what a map holds of a value or an identifier is a range of a
  legal width, through `match`, truncations and extensions.  `RangesOnlyGrow`.  `SweepsAreBounded`,
  `Spec => []SweepsBounded`: the invariant `Sweeps` counts the identifiers that were given up
  (full, and no longer in `Changes`): after `MaxIterations` sweeps each further one adds one.
  The recursive functions that unite ranges are unfolded by induction over finite sets.
  `SoundRanges`, `Spec => []RangesAreSound`, and `SoundMetadata`, `Spec => []MetadataIsSound`, hold of every
  program that is `Regular`, a hypothesis the two properties state themselves and every program of `MCRange`
  meets but those of `MixedPrograms`: an identifier holds values of one width (the code cuts and
  extends silently where it does not), a call has the identifier of what it returns, operands are defined where LLVM
  demands it (`Verified`: a definition dominates its uses), and blocks are listed so that only back edges
  lead to an earlier one and none is dead (`Listed`).  Ranges are no invariant of what has been computed so far: a function is left
  with the ranges it read, and these grow afterwards.  What makes the end right is that the last sweep over all
  the modules changes nothing.  So the invariant `SoundInv` (`SoundInvariant`) speaks of sweeps that have changed nothing
  so far (`Clean`): the functions they are past are covered by `IntRanges` as it is (`FnSound`), and in
  the current one the maps hold only what has been visited (`MapsOwn`), all of it that has a range
  (`MapsComplete`), hand it on to every block it dominates through merges, asked operands and terminators
  (`MapsCarry`), and cover each instruction visited (`SitesSound`).  A visit that changes a range ends the clean
  sweep; one that changes none finds its updates in `IntRanges` already.  From there `ReachedWithin` is an
  induction over the rounds: with values within the ranges, each operation yields such values again
  (`ArithmeticCovers`, `CastCovers`, `ResultCovers`).  TLC has checked `SoundInv` on the programs of
  `MCRange` before it was proved.
* `WorkflowProofs`: `TypeCorrect`, `CrashesCostOneFile`, `ExitsComplete`, for any number of files
  and crashes.  The invariant relates each file to the stage of the run and to
  the text printed so far.
* `IntSatProofs`: `TypeCorrect`, and `NeverSuppressedUnseen`,
  `Spec => []SuppressedIsReported`.  The invariant adds that a result of `SMT_SAT`, in
  the child or in its exit status, comes with the whole report (`ReportedFirst`).
  `EveryBugReported` and `NeverReportedTwice` rest on `NoTimeoutInvariant`: what is visited is
  covered by a report of its condition, what is reported is suppressed, and the answer
  of the child is kept until it is joined.
* `OverflowProofs`: `SumsAndDifferences`, `Products` and `MeaningKept`: the overflow bit of sums, differences
  and products, and a check written by hand, keep their values for integers of every width (with the
  operands that `MulExact` and `ChecksKeepTheirMeaning` leave out, below).  Products rest on what division
  rounds to, for each sign of the divisor.  `ArithmeticKept` says the same of the intrinsics that
  `OverflowIdiom` has made.
* `IntRewriteProofs`: `OperandsDominate`, `Spec => []ReadsAreComputed`, and `NoTrapMissed`,
  `Spec => []ObservedIsTrapped`, for functions of any number of blocks and instructions and any loops.  Of the
  function they assume what LLVM's verifier demands (`WellFormed`: one definition, which dominates its
  uses; nothing jumps to the entry, which has no phi), of dominators only their definition: the
  blocks that can be reached without passing `d` are the least set closed under going on without `d`
  (`AvoidingGoesOn`).
  The first half of the invariant, `PassInv` and `TrappedHere` or `TrappedAway`, is about the
  function: every operation has its trap directly behind its overflow, or there is a set `C` of values (the
  worklist of the code, saturated) to which whatever is computed from the result belongs, and a
  trap in each block where a member of it is observed, none of them the block of the operation.  `Insertion` says what
  the two ways to insert have in common, and that the first half survives it.  The second half, `Kept`, is about
  the execution: for an operation trapped where it stands the trap has been passed or is ahead in the
  block (`Pending`) since the overflow; for the others as soon as the result is observed or something
  outside `C` depends on it: what a phi makes of a result is outside, since the phi itself observes it.  `ObservedIsTrapped` alone is not inductive: it speaks of the end of blocks, and not of
  what will be observed.
* `CmpSatProofs`: `ReportsTrue`, `FirstRoundCovered` and `ModelsExecute` (`Spec => []ReportsAreTrue`,
  `[]FirstRoundIsCovered`, `[]ModelsAreExecutions`), for functions of any number of blocks and values, with any
  loops, reducible or not.  What is assumed of a function is again what LLVM's verifier demands, and that
  `simplifycfg` has run (`WellFormed`).  The argument has four steps.
  (1) `BackEdgesCutLoops`: the search of `FindFunctionBackedges` visits every block; a block
  is left only after all its successors have been looked at and only the edges to a block on the
  stack are found, so that along all other edges the search leaves blocks in reverse.  The order in which
  it leaves them, turned round, is the rank that all that follows is an induction over (`RankInduction`): a dominator of a
  block has a lower one, and so has a predecessor of each block but the entry.
  (2) `get` is well defined: its equations go down in rank (`CommonDominator`: what `findCommonDominator` returns
  exists and is a proper dominator), so that there is one solution (`PathConditionIsUnique`), which is what `get` computes.
  (3) `ConditionAbout`: whether a valuation satisfies the condition of a block depends only on values
  computed up to the block; entering a later one changes none of these (`ComputedLater`).
  (4) The inductive invariant `Inv`: the execution satisfies the conditions of all blocks that
  dominate the one it is in (`Executing`), not only of that one.  This is what a block that falls back to the
  condition of a dominator needs, however often the loops between the two have run.  Where back edges are
  skipped it does so until it takes one, and until then goes up in rank (`GoesForward`).  `FollowsModel` is the converse: by
  the equations of `get` a model has a way back to the entry, and an execution that yields the model's values
  cannot leave that way, for a terminator takes only one of its successors (`TakenIsOnly`).

Only model-checked:

* liveness (`Terminates`, `Exits`), which is out of the prover's reach;
* `NoSpuriousTaint`, `MarksAllForward`, `AnnotatingAgainIsIdle`: they
  compare the passes with a meaning of programs that `MCTaint` defines by closures over
  the small instance.  `DerivedOnly` and `Closed` are what is proved of the first two;
* the queries (`ValueGen`): its modules use `Bitwise`, whose operators are recursive;
* `LoadRewrite`: a proof would need what `SSAUpdater` gives to each block on every way through the function,
  before and after the pass.

## What is not modelled, and what else was noticed

* LLVM itself: `ConstantRange` is modelled by its result, the smallest arc around
  the exact set; multiplication, unsigned division, shifts and bit operations
  on ranges and signed predicates are left out.
* The solver: in `IntSat` whether a query is satisfiable, unsatisfiable, undecided or hangs is
  an input; in `CmpSat` an unsatisfiable query may be undecided.
* `PathGen` is checked over values that the function compares with constants; `ValueGen`
  over a trap and its operands, without a path condition.
* `ValueGen`: constant expressions other than integers, and values that are not integers or
  pointers; a load with more than one pair of ranges (`RangePass` writes one: the code
  asserts each of several pairs, whose meaning is their union).
* `IntRewrite`: the names and metadata of a trap (`findSink` follows the first use only).  A loaded
  value is an operand, whether its load could be executed speculatively or not.  The phis of a block
  are executed one after the other: a function in which one reads another of its block is not in the pools.
* `CmpTautology` and `CmpOverflow` ask LLVM's `ScalarEvolution`, on which everything they decide
  rests; `IdealShift.cc`, `SMTZ3.cc` and `SMTSonolar.cc` are not built; the scripts start one
  process per file and share nothing.
* Text output (`dump*`, models, verbose messages).

Gaps the code knows of or that other tools fill, modelled as they are: functions with weak or
linkonce linkage are not entered in `Funcs` (`CallGraph.cc:206`); of two definitions of one
external name the last file's wins (`CallGraph.cc:207`); what an indirect call returns is
ignored (`CallGraph.cc:124`, a TODO); a phi in a loop has the range it enters with
(`Range.cc:246`); some binary operations return the range of one operand (`Range.cc:202`,
FIXMEs).

Divergences that no run is spent on:

* `README:47` of the repository says that the taint analysis marks values derived from
  untrusted inputs.  The descriptions of a value are cached on first sight
  (`Taint.cc:38`), and growth of an entry that is not empty is no change
  (`Taint.cc:129`, `IntGlobal.h:64`): in a loop, where an operand is produced by a later
  instruction, a derived value may stay unmarked.  `MarksAllForward` is stated for
  code without loops for that reason.
* `Range.cc:487` expands values that converge too slowly, but `itr` counts the sweeps of
  one `doModulePass`: an identifier that two modules grow in turn is not expanded.
* `PathGen.cc:123` gives a branch whose successors are one block the condition of one
  edge only, and `PathGen.cc:136` likewise a default that is also a case.  `simplifycfg`
  leaves no such branch; `CmpSat` demands it (`WellFormed`).
* `CallGraph.cc:81` prefers a definition to a declaration, but an initializer
  records the declaration as it stands (`CallGraph.cc:33`), and it stays in `FuncPtrs`.
* `Range.cc:174` handles integer assignments in global initializers, but not those
  of an array of integers, which LLVM keeps as a `ConstantDataArray`, nor a zero
  aggregate.
* `IntSat.cc:105` suppresses further warnings, but with a timeout a child killed in
  the middle of its report counts as timed out and the condition is reported again.
* The repository's `README:24` says that the global analysis may be skipped if it
  does not work; a run that dies while it prints has cut off or removed the file
  the next step needs.

* `Range.cc:278` adds the range of an indirect call that has no identifier under the empty one, which all of
  these share; nothing reads it but the next such call that is added.
* `Range.cc:515` writes on what reads a taint source the range that has been collected for it, while
  `getRange` takes it to be full (`Range.cc:118`).  `MetadataIsSound` leaves taint sources out.
* `Range.cc:113` says "arguments & loads", but arguments are calls of `kint_arg`, and `getRange`
  looks for the return value of every call (`Range.cc:97`): the range collected for an argument
  is not found, and the empty one is taken.  A variable that only an argument is stored to has no range, or one
  that leaves the argument out.  `RangesAreSound` leaves out chains through the reading of an argument.
* `Range.cc:467` visits the blocks of a function in the order they are listed, once.  LLVM allows an
  order in which an edge that is no back edge comes from a later block: its ranges are merged before they
  are there, and the next sweep begins with empty maps again.  `RangesAreSound` is stated for functions that are
  `Listed`.
* `OverflowSimplify.cc:215` gives `SMIN / C` as a bound of a product with a negative `C`; for -1
  the quotient is `SMIN` again (`OverflowSimplify.cc:223`).  `MulExact` leaves that factor out.
* `OverflowIdiom.cc:107` rewrites `x > C / y` so that it is true for `x = 0` and `y > C`, where the
  check is false (`OverflowIdiom.cc:120`).  `ChecksKeepTheirMeaning` leaves those operands out.
* `LoadRewrite.cc:153` hands every remaining use of a load to `SSAUpdater`, which knows blocks and
  not loads: a value loaded before a store and used in a later block becomes what was stored.
  `LoadsKeepTheirValue` leaves such uses out (`MayDiffer`).
* `LoadRewrite.cc:117` takes what is stored for the value of the address, also where it is itself a load of
  it that has been visited (`x = *p; *p = x`, `LoadRewrite.cc:143`): `SSAUpdater` then puts this load in the
  place of later ones, it keeps uses, and the address may be hoisted again for its sake.  No value changes, but
  not all loads are merged; `OnlyStoredLoadsStay` says which may be left.
* `SMTBoolector.cc:237` extends the operand of every shift with zeros, of an arithmetic one too: at
  a width that is no power of two its sign is lost (`SMTZ3.cc` shifts exactly).  The
  properties of `ValueGen` leave this out (`ShiftsZeros`).  At a width of one bit
  `__builtin_clz(0)` is undefined (`SMTBoolector.cc:233`).
* `IntRewrite.cc:295` cuts the number of elements to the type of the index: an index of a type too
  small for it is compared with what is left.
* `Annotation.cc:151` erases a call of `__kint_taint` that nothing uses after it has marked its
  argument: where it marks what another call marks too the last wins, and after a second run, which sees
  only those that are left, another one.  The same goes for an integer argument of a system call, which is
  marked `syscall` first (`Annotation.cc:136`): the description of an erased call stays after one run and
  is gone after two.  `AnnotatingAgainIsIdle` leaves such calls out (`Entangled`).
* `Annotation.cc:190` returns after the first argument it has marked: of `kcalloc`, listed with two,
  one is marked.
* `CmpOverflow.cc:148` returns no constraint whatever the solver has answered, so that none of
  its comparisons of two variables is ever reported.

## Plan

1. *Global analysis* (done): `Ids`, `IterativePass`, `CallGraph` with `Fixpoint`, `Taint`,
   `Ranges`, `Range`, `Workflow`.
2. *Checker* (done): `IntSat`, `OverflowSimplify`, `OverflowIdiom`, `PathGen`, `CmpSat`, `IntRewrite`,
   `LoadRewrite`, `Traps`, `ValueGen` with the Boolector binding.
3. *Annotation* (done): `Annotation`, composed with `Taint`.
4. *Proofs of the global analyses, the workflow and the overflow passes* (done): `CallGraph` implements `Fixpoint`;
   `Taint`, `Range` with the soundness of its ranges, `Workflow`, `IntSat`, `OverflowSimplify` and `OverflowIdiom`.
5. *Proofs of the checker*: `IntRewrite`, and `PathGen` with `CmpSat` and the query of `IntSat` (done);
   `LoadRewrite` and the conditions of `Traps` for every width are left.
