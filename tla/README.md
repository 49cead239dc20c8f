# OptiForge in TLA+

OptiForge is a profile-guided optimizing compiler for a small typed language.
The modules here model its algorithms at the level of the source's own control
flow, TLC checks them on small instances, and TLAPS proves the main invariants
for every value of the constants. Paths are relative to the repository root;
`PROJECT.json` maps every definition to the lines it translates.

The compiler is one sequential process. What is hard in it is therefore not
concurrency but *order and staleness*: worklists that must queue a block again
when its input changed, maps that must name the newest copy of a value, lists of
predecessors that are refreshed at the end of a pass and read in its middle,
caches that must be dropped after a change, copies that must not overwrite what
a later one reads. Each of these takes several steps to go wrong and shows up as
wrong code in some other program than the one a test was written for. The last
part of the project therefore composes the compiler: a text goes from tokens to
machine code, the code is run, and what it prints is compared with an interpreter
of the source that knows nothing of the compiler.

## 1. Inventory

| Component | Source | State it keeps | Operations | Correct when |
|---|---|---|---|---|
| Frontend | `frontend/Lexer, Parser, Sema` | position, AST, scopes, diagnostics | lex, parse with recovery, check | recovery terminates; each use resolves to the innermost declaration; a module is lowered only without errors |
| IR generation | `irgen/IRGen` | insertion block, loop stack, slots | lower statements | every block ends in one terminator; `break`/`continue` reach the innermost loop |
| IR and verifier | `ir/*`, `analysis/SSAVerifier` | blocks, use lists, stored predecessor lists | edit, recompute predecessors, verify | predecessor lists and phi operands agree wherever they are read |
| Analyses | `analysis/Dominators, LoopInfo` | immediate dominators, frontiers, loops | recompute | equal to their path definitions |
| Data flow | `analysis/Dataflow.h, Liveness` | before/after sets, worklist, queued set | solve | least fixed point; equal to the path definition of liveness and of reaching stores |
| SSA construction | `transforms/Mem2Reg` | phis placed, a stack per variable | place phis, rename | each load reads the store that reaches it |
| Scalar and CFG passes | `transforms/SCCP, GVN, LICM, ScalarPasses, SimplifyCFG, Inline` | lattices, value tables, worklists | rewrite the IR | the rewritten program computes the same |
| Loop unroller | `transforms/LoopUnroll` | the map of each copy, exit values | replicate, merge | every copy computes its iteration |
| SSA destruction | `transforms/SSADestruction` | bridges, pending copies | split edges, parallel copy | at each use a phi's location holds the phi |
| Pass manager | `passes/PassManager`, `analysis/AnalysisManager` | schedule, cache of analyses, statistics | run sweeps, invalidate | no pass reads an analysis of an older IR; it stops |
| Profile pipeline | `transforms/Instrument, ProfileAnnotate`, `profile/*`, `runtime/ofprof` | counters, profile file, heat | instrument, write at exit, parse, classify, annotate | a damaged or stale profile costs decisions, never correctness |
| Register allocation | `backend/RegAlloc` | interference graph, moves, colours | build, colour, verify | interfering units in different registers, call-crossing ones in callee-saved |
| Layout, code generation | `backend/Layout, CodeGen, AsmPrinter, MachineIR`, `target/x86_64` | block order, frames, machine code | order, select, print | fall-throughs match the order; every unit's location is used consistently |
| Driver, toolchain | `driver/*` | phase, options, intermediate files | run phases, assemble, link, clean up | each phase sees the IR form it expects; no intermediate is left |
| Harness, support | `benchmarks`, `scripts`, `support/*` | measurements | run and print | not a matter of state |

How they interact. The driver parses, checks and lowers to memory-form IR;
`mem2reg` makes it SSA; the pass manager runs the pipeline for up to eight
sweeps, its passes asking the analysis manager for dominators, loops and
liveness and being followed by an invalidation when they changed a function.
With `--use-profile` a parsed profile sits in the same manager and survives
those invalidations; unroller, inliner and layout read it. SSA destruction then
turns phis into copies, the allocator colours the result and the code generator
prints it. With `--profile` the instrumented program counts blocks and
edges, and an exit handler of the runtime writes the file the next build reads.
All of it happens by calls; nothing is shared between threads, and only the
profile file outlives a process.

The hazards of all components, each at its line, are the list `hazards` of
`PROJECT.json`.

## 2. Plan

Done, in the order of what an error would cost:

1. `RegAlloc` (colouring) with the first part of `BackendProofs`;
2. `ParallelCopy` refining `SimultaneousAssignment`, with `ParallelCopyProofs`,
   and `SSADestruction`, which composes it with edge splitting and executes the
   result, with `SSADestructionProofs`;
3. `Dataflow` and its clients in `Liveness`, with `DataflowProofs`;
4. `LoopUnroll` with `LoopUnrollProofs`;
5. `PassManager`, the pipeline over the cache of analyses, and `Driver`, which
   extends it to a whole build, with `DriverProofs`;
6. the middle end: `IR` with both verifiers and an executor, `Dominators`,
   `SSAForm`, `ScalarPasses`, `SCCP`, `ControlFlowPasses`, and `MiddleEnd`,
   which composes them, with `MiddleEndProofs`;
7. profile guidance over two builds: `Instrument`, `Profile`, `Layout`, and
   `MeasuredBuild`, which composes them with a run of the program, with the last two
   parts of `BackendProofs`, about `Layout` and about the profile;
8. the whole compilation: `Interference` and `Allocation` put the allocator on
   functions, with the second part of `BackendProofs`; `Parser`, `Sema`, `IRGen`, `SSAForm` and `MachineCode`
   are the stages before and after it; `Machine` and `SourceMeaning` say what they
   have to amount to; `Compilation` composes them.

Still open, in the order of what an error would cost: the passes of `MiddleEnd`
between `ConstructSSA` and `LeaveSSA` of `Compilation` (an optimized build is
checked in two halves now, IR to IR and IR to code); a proof that slots and the
saved registers of a frame are disjoint; progress of the parser's recovery as a
theorem, which needs a parser without RECURSIVE operators.

Proof work still open on the finished modules: that the counts at layout are the
run's, and that unrolling leaves functions layout can lay out. Each pass of the middle
end other than the solver of `SCCP` is a fold over data, whose validity would have to be
proved by induction over that data.

## 3. What is modelled

**RegAlloc** - `Allocator::run` from `colorClass(Integer)` to `publish()`. The
variables are the fields of the code's `Unit` (`neighbours`, `crossesCall`,
`useWeight`, `removed`, `color`, `spilled`), the moves' `settled` flags, the
order stack and the result. One action is one round of the main loop
(`Simplify`, `Coalesce`, `Freeze`, `Spill`, `EndMain`), one node of the select
loop (`SelectColor`, `SelectSpill`, `EndSelect`), entering a class
(`EnterClass`, `NoRegisters`) or `Publish`. Neighbour sets stay stale the way
the code leaves them: after a merge they may name the absorbed unit, and every
reader goes through `rep`. The chain `merged`/`mergedInto` is that function
`rep`; scores are compared exactly where the code divides doubles. The graph,
the moves and the units that span a call are arbitrary inputs here; `Allocation`
gives those of a function.

**ParallelCopy** - `emitParallelCopy`: one `Emit` or `Save` per turn of its
loop, and the copies executed symbolically in `mem` as they come out.
**SimultaneousAssignment** is its abstract specification: all roots change in
one step.

**SSADestruction** - `destroySSA` on a whole function: `SplitEdge` one critical
edge at a time with the predecessor counts as the code has them at that moment
(they are refreshed only by `SplitDone`), `NextBlock`/`EmitCopy`/`SaveCopy`
give each block the copies it owes (through an instance of `ParallelCopy`), and
`RunCopies`/`RunBranch` then execute the rewritten function in lock-step with
the SSA program. Branches naming one block twice are left out:
`SimplifyCFG` removes them before this point.

**Dataflow** - `runDataflow` for either direction, one `Visit` per block taken
off the worklist, with the `queued` set beside it. Neighbours are queued in any
order, since that order is an accident of the CFG's lists. The meet is union and
the boundary is empty, as in both clients. **Liveness** gives the transfer
functions of `computeLiveness` (phi uses belong to the edge and are added before
the walk, phi definitions are removed at the top) and
`computeReachingDefinitions`, and the definitions by paths they must equal.

**LoopUnroll** - `factorFor` and `Unroller::run` on a loop `describe` accepts:
`Replicate` makes one copy of test and body, `Close` the exit merge and the back
edge. `Execute`, `Enter`, `Advance` and `Leave` then run the unrolled loop, and
every value is compared with what the original loop computes in that iteration.
Values are numbered by the first iteration that computes them from the same
operands, so the comparison holds for every meaning of the instructions.

**PassManager** - `PassManager::run` over `AnalysisManager`: `SkipPass`,
`PassIdle` and `PassChanges` are one pass on one function, `NextFunction` and
`EndSweep` the loops around it. An IR is a value and what a pass makes of it is
a table given by the build, which may read the whole module (the inliner does);
so every pass, and every pair of passes that undo each other, is an input. An
analysis is a function of the IR, and a cached one is represented by the IR it
was computed from, directly or through a cached dominator tree: a stale read is
a request served from another IR than the present one. `stale` records who made
one. The profile lives apart, in `external`, as in the code.

**Driver** - `runCompilation` and the end of `main`, one action per phase in
the code's order, on the variables of `PassManager`, which it extends, and
`live`, `errors`, `files` and `exit`. Whether the frontend finds errors, whether
a verifier objects, which functions become unused and whether a tool fails (and
what a failing tool leaves behind) is arbitrary. Token, CFG and analysis dumps
end a build as the AST and IR dumps do.

**IR** - a function as a value: blocks and instructions are numbers, an
instruction has operands and targets, and the predecessor lists are kept by the
edits exactly as `IR.cpp` keeps them (an appended terminator adds an edge, an
erased one removes none, `recomputePredecessors` rebuilds them). User lists are
derived from the operands. `VerifierAccepts` and `SSAAccepts` are the two
verifiers, with dominance taken as what it means; `Run` executes a function on
integers of `Width` bits that wrap and trap as the target's do. A float is a whole
number of halves or a NaN: a sum is exact, a product or a quotient is rounded to
halves the same way on both sides of every comparison, and dividing by zero gives
the NaN, so that infinities and signed zeros do not occur.

**Dominators**, **SSAForm** (`mem2reg`, and `destroySSA` as one edit of a
function), **ScalarPasses** (with GVN and LICM) and **ControlFlowPasses**
(`SimplifyCFG` and the inliner) translate their files: each pass walks blocks and
instructions in the code's order, replaces uses as it goes, and erases when the
code does. What the code does over use lists, hash tables or recursion on the
tree becomes a set, a table with scopes or an explicit stack. **SCCP** is a state
with the two worklists, both of them stacks, and one step per element taken.

**MiddleEnd** - `mem2reg` as the driver calls it, then any of the passes in any
order, each an action (`RunMem2Reg`, `RunSimplifyCFG`, `RunConstantFolding`,
`RunCopyPropagation`, `RunDCE`, `RunStrengthReduction`, `RunGVN`, `RunLICM`,
`RunInline` for each heat of the blocks that call, and
`StartSCCP`/`TakeBlock`/`TakeUser`/`FinishSCCP`). `meant` holds what the function
did when it left IR generation. The pipelines of the pass manager are some of
these sequences; a pass has to be right in all of them.

What `MiddleEnd` leaves out: functions with floats; post-dominators and
`insertLoopPreheaders`, which no pass asks for; the removal of unused functions
(a step of `Driver`); the order of user lists, on which SCCP depends: the run takes
one order and its reverse, the proof any, with an instruction that uses a value twice
queued once. The folding of `+`, `-` and `*` is done in the compiler's own signed
integers, where overflow is undefined in C++; it is modelled as wrapping, which
is what the build yields. A branch whose two successors are one block is not
among the inputs. Two executions that do not end are compared by what they have
printed, one a prefix of the other.

**Instrument** - `instrumentForProfiling` and the `splitCriticalEdges` it calls,
on the functions of `IR`: which counter each block has and which counters each
record of the profile is read from. **Profile** - what `ofprof_dump` writes, in
its order; what can be on disk when it is killed meanwhile, down to a number cut
after any digit; and what the parser, `classify` and `annotateBlockCounts` make
of it. A file is a sequence of lines. **Layout** - `layoutBlocks` on the jumps
that code generation ends a block with: the order, the jumps left out or
inverted, and `GoesTo`, where the processor ends up.

**MeasuredBuild** - the instrumented program runs (`Call`, `GoTo`, `Return`, one
counter per block entered), may be killed (`Die`), and writes its file or a part
of it, or is run twice into one file (`DumpProfile`). The second build reads it
(`LoadProfile`), writes the counts (`AnnotateFirst`, before any pass), inlines
(`Inline`, the counts of what inlining makes), unrolls hot loops one per sweep
(`Unroll`), splits edges (`DestroySSA`) and writes the counts again
(`AnnotateSecond`); `Machine` is what is laid out. Left out: `--profile-time`,
header lines other than the first and the hash, the report, the size and
carried-value budgets of the unroller (`LoopUnroll` has them), counts near 2^64,
copies of instructions that are neither a test nor a jump, and builds that
inline something the first build did not, or the other way round.

**Interference** - what the allocator makes of a function: `buildUnits` (the
locations, numbered as they are met, and their weights), `computeUnitLiveness`,
`buildInterference` and `addArgumentInterference` as the set of pairs that meet,
the copies in the order of the walk, the units live across a call; and
`verifyAssignment`. **Allocation** extends it and `RegAlloc`: `Build` resets the
allocator for a function and gives it that function's graph, `Colour` is a round
of `RegAlloc`. Units beyond those of the function are off the graph and have no
edge; only the statistics would count them.

**Parser** - the recursive descent of `Parser.cpp` over tokens, with `panicMode_`,
the nesting limit, both synchronisations, the rule by rule places where a
parse gives up, and the cast of an array's length to `unsigned` (`Narrowed`). The parser is a record; a rule maps it to the next one. A loop of
the code that goes round without moving sets `hung`. **Sema** - `Sema.cpp`,
`Symbol.cpp` and `Type.cpp`: scopes, implicit conversions, the two walks over the
functions, the errors counted, and the tree with types and symbols that is left.
**IRGen** - `IRGen.cpp` on the operations of `IRBuilder.cpp`, folding of constants
included. `DestroySSA` of `SSAForm` keeps the aliases the allocator reads;
`SSADestruction` takes the pass apart copy by copy.

**MachineCode** - `CodeGen.cpp`: slots and the frame, prologue and epilogue, the
stack probe, and what every instruction, call, compare and branch is lowered to.
`movq`, `movsd` and `movups` are one `mov` of a word; an immediate that does not
fit an instruction, multiplication by shifts, and the order in which blocks are
laid out (`Layout` has it) are left out. **Machine** is no code of the repository:
it is what `CodeGen.cpp` relies on, a processor with one stack, the calling
convention and the `print` functions. It leaves junk wherever the convention
allows a call to.

**SourceMeaning** writes a tree down as tokens and interprets it by looking up
names at run time; it is a specification, made from the language's grammar and
rules in `docs/language.md` and not from the compiler.

**Compilation** - `runCompilation` and `CodeGen::run` from the text on, one action
per phase, and one per round of `parseProgram` and of the allocator. `Verified` is
the verifier behind each phase; an assignment that `verifyAssignment` objects to
is dropped for the frame and reported.

## 4. Runs and what they show

| Run | Bounds | Shows |
|---|---|---|
| `regalloc` | 4 units, every graph on them, up to 2 moves, pools of 2+2, or 1 integer register and no float one; none, some or all units span a call | proper colouring, call safety, only optimistic nodes spill, conservative coalescing, termination |
| `parallel_copy` | 5 roots, every assignment among them and one constant | no source is lost, stalls are cycles, it ends, it implements a simultaneous assignment |
| `ssa_destruction` | every CFG of 3 blocks and five loops and diamonds of 4, 2 phis, 2 constants | locations hold the phis, at every block and terminator of every execution |
| `dataflow` | CFGs of 3 blocks (self loop, two-block loop, early exit, unreachable blocks), 2 facts, all bodies of up to two instructions of the kinds listed | fixed point, least solution, convergence, liveness and reaching stores equal their path definitions |
| `loop_unroll` | 2 phis, 1 header and 1 body instruction, every choice of operands; trip counts for every factor; left after at most 5 iterations | loops whose header only tests are unrolled correctly, nothing is read undefined |
| `loop_unroll_header` | the same | violation, see below |
| `driver` | 2 functions, 3 IRs, 5 effects for each of two groups of passes, 3 choices of which passes are left in the `-O2` pipeline; every emit stage, profile state and option over one effect | no stale read, convergence is a fixed point, cold code keeps to `-O1`, the exit code, the files, termination |
| `middle_end` | 38 functions of five families, 2 to 7 blocks: diamonds, loops, locals that settle, calls, known conditions; four-bit integers, 8 inputs, 4 callees; `mem2reg` and up to four passes that change something | every pass leaves valid IR, the function behaves as it did, dominators and frontiers are exact, SCCP ends on a fixed point, its lattice only descends |
| `inline_noreturn` | a caller of `spin`, which never returns | violation, see below |
| `dce_trap` | a division by -1 | violation, see below |
| `measured_build` | 7 programs of 3 to 7 blocks: loops, nested and left from their middle, with two ways in, calls, recursion, an inlined loop; 13 blocks entered; heat at 60 %, a floor of 3 and a cold share of 1/4; numbers in base 2 | a file written to its end contradicts itself nowhere, the counts at layout are the run's, heat follows its definition, laid-out code branches as the IR |
| `end_to_end` | over 100 programs of ten families, and one program with each of its words left out, doubled or exchanged, or cut off; without optimization or through SSA, either allocator; pools of 3 integer registers and 1 float one; 16-bit integers, 12-bit `unsigned`; 36 units; 12 levels of nesting | what is accepted is the text's tree, if and only if its array lengths fit `unsigned`, and cannot go wrong, no verifier complains, IR and machine code do what the source does, no live value is overwritten, the calling convention is kept, every text is answered |

Why the bounds suffice. Four units with two registers hold every case the
allocator distinguishes: a triangle that must spill, a low-degree node beside a
significant one, chained coalescing of three units and an edge between what was
merged. Five roots hold a two-cycle and a three-cycle at once, a cycle with
readers outside it, chains and self-assignments. Three blocks hold self loops,
loops, joins and critical edges; the four-block graphs add nested loops, an
irreducible one and a shared exit. An unrolled loop is left from every copy of a
factor-4 loop, and its back edge is taken once within five iterations; factor 8
adds copies but no new kind of copy. Two functions are the least with which one
is visited before the other it was inlined from changes; three IRs give passes
that settle at once, after a step, after another pass, and never. Each family of
functions holds, beside what a pass looks for, what it must leave alone: an
expression computed on one arm and after the join, a division in a loop that is
never entered, an array element read before and after a store, a local that is
one constant on every path but one. Four passes in any order include every pass
applied to the result of any three others: a callee inlined into a loop, its
constants propagated, the branch folded and the blocks merged. Four-bit integers
have the least value, its negation and `-8 / -1`; with a fuel of 40
blocks every run ends but those of the family of known conditions whose condition
is true for ever. The bounds are
the CONSTANTS `N`, `MaxRoot`, `NPhis`, `NBlocks`, `MaxIterations`, `NFuncs`,
`IRs`, `MaxPasses`, `Width`, `Fuel`, `Rounds`, `MaxNesting`, `LengthWidth` and `MaxCount`; the eight sweeps are the
code's own; nothing else is capped. Thirteen blocks are enough to enter a loop
twice and to go round it five times, which gives factors 2, 4 and 8; with counts
that small the constants of the heat test are scaled down with them, so that
hot, warm and cold, ties and a prefix that closes early all occur.

In `end_to_end` a program is small, but none is trivial for the stage it is meant
for: values exchanged in a loop, whose phis form a cycle; recursion, with a value
needed after two calls; seven arguments of both classes; an array above a page of
stack, indexed by what was computed; a NaN in every kind of comparison; `continue`
and `break` in the middle of a block; names hidden and back again; three operands
in every grouping, with a division by zero and one of the least integer by -1; and
what semantic analysis must refuse. Three integer registers, of which one is not
kept by calls, make every program of some size spill, share registers and save
them. An int has 16 bits (`Width`, for 64) and `unsigned` 12 (`LengthWidth`, for 32): lengths
of 2^12 - 1, 2^12 and 2^12 + 3 are declared, as an array and a scalar that are then used.
Twelve levels of nesting are reached by one text and not by another; the
36 units of a function are enough for every program: if one did not fit, `Build`
would be disabled and the run would end in a deadlock, which is checked there. `Fuel`
(24 blocks of an execution and 24 nested calls) and `Rounds` (30 rounds and calls of
the source) are exceeded by mistaken texts whose loop does not end, and by them only;
there what both sides printed has to agree as far as both went. Texts with more than one mistake, and
literals that do not fit a machine word, are not among the inputs; neither are
needless parentheses, which `AcceptedTextIsTheTree` could not tell from the tree.

`CHECK_DEADLOCK FALSE` is set in all runs but `end_to_end`: each module is a call
that returns, or an execution that ends in a returning block. `Compilation` says
where it returns (`Returned`), and everywhere else must have a next step.

**Fairness.** The code is a sequential loop that is never suspended, so while it
can take a step it takes one: weak fairness of the whole next-state relation,
and nothing stronger. `Compilation` says the same as `GoesOn`, which spares TLC
from evaluating each phase twice: steps are taken until there is a verdict; as
every state before one has a step, that is weak fairness. `MiddleEnd` and `MeasuredBuild` state no liveness and have none. The executions in `SSADestruction` and `LoopUnroll` have
none, since the programs they run may loop for ever.

### The three violations

* `loop_unroll_header` - a real miscompilation. `describe` looks for values used
  outside the loop among the *body's* instructions only, and the maps for a copy
  hold the phis and the body, not the header's other instructions. A copy's
  body, the carried values and the code after the loop therefore read the value
  the header computed before the first copy. `while (x * 2 < n) { s = s + x * 2;
  x = x + 1; }` becomes such a loop once GVN has shared `x * 2`; compiled at
  `-O2` with a profile that makes it hot, every unrolled copy adds the same
  product. `PlainLoopsAgree` shows the unroller right on all other loops.
* `inline_noreturn` - `inlineCall` splits the block of the call, clones the callee
  and turns its returns into branches to the second half. When the callee has no
  return (`while (true) { }` is small enough to be inlined) that half is
  unreachable and stays in the function, and the call is erased although its
  value is still used there. `optiforge --emit=ir -O2 --verify-each` on such a
  program reports that verification failed after `inline`.
* `dce_trap` - `hasSideEffects` keeps a division whose divisor is unknown or
  zero, but not one by -1, which traps for the least integer, as the comments of
  constant folding in the same file say. An unused `x / -1` keeps its `idivq` at
  `-O0` and loses it at `-O1`.
Other places where the code and its comments or documents part, none of them about
what a compiled program of ordinary size does:

* `briggsAllows` (RegAlloc.cpp:427) never loses a colouring only where all
  registers of the pool survive calls: it counts the caller-saved ones for a unit
  that spans a call.
* `spillOne` (RegAlloc.cpp:628) may run while a low-degree node is left, when
  `coalesceOne` settled moves and reported no progress.
* A block that never ran is not always laid out last (Layout.cpp:47): a chain is
  extended with a successor that never ran before another chain is begun.
* The copies of an inlined loop's body do not stay equally hot (LoopUnroll.cpp:332,
  ProfileAnnotate.cpp:25): they keep the count of the call, while the second
  annotation finds the body by its name.
* `verifyAssignment` looks at what is live together, not at a definition nobody
  reads that writes the register of something live; `buildInterference` keeps the
  two apart, and `NothingLiveIsClobbered` is the stronger statement.
* `parseVarDecl` (Parser.cpp:426) tests that the length of an array is positive and then
  casts it to `unsigned`: a length of 2^32 or more declares a shorter array, and a
  multiple of 2^32 a scalar, without a complaint; `docs/language.md` has no such limit.
  `AcceptedTextIsTheTree` says exactly that: the tree is the text if and only if every
  length declared fits, and `end_to_end` has texts on both sides.
* The step of a `for` that fails at its `)` leaves `panicMode_` set, and the next
  independent error is not reported.
* `synchronize` (Parser.cpp:194) stops at a `fn` inside a block without moving; that
  parsing ends rests on the advance in `parseProgram` alone, which the comment there
  says and `CompilerReturns` confirms.
* The comment over `Inline.cpp:39` restricts inlining to single-block callees and the
  code does not; `docs/pgo.md` has another trip-count threshold than `factorFor`;
  `docs/language.md` leaves `for`, `break` and `continue` out of its keywords.

## 5. What is proved

Theorems about components are of the form `Spec => []P` or `Spec => AbstractSpec`, for
every value of the constants that satisfies the module's named assumptions; five are
about an operator, for all its arguments.

**BackendProofs** (from `UnitsAssumption`, `PoolAssumption`, `InputAssumption`;
a pool lists no register twice, as the target's do not): `TypeCorrect`,
`ColouringIsProper`, `CallsAreSafe`, `OnlyOptimisticSpill`,
`CoalescingConservative`. None of
the properties is inductive: the graph the code works on is not the input graph.
`IInv` says how the two are related: two units the input joins always have
different roots, and each root's neighbour set names, through `rep`, the root of
the other; roots are fixed points of `rep`; a root has `crossesCall` as soon as
one unit it stands for spans a call; and colours are proper between roots no
longer removed. The argument for a merge (`MergeKeepsEdges`) is the
heart: `Constrained` is false on both ends, so the ends are not joined, and
every edge of the absorbed unit is moved in both directions.

That only optimistic nodes spill has to be known from the moment a node is pushed
to the moment it is popped, over any number of merges between. `SInv` adds to
`IInv` that resolved neighbours are symmetric, that the stack lists exactly the
removed nodes, none of them absorbed, and `LowDegree`: a node that was not pushed
optimistically has fewer than K resolved neighbours besides those below it on the
stack. A later merge can only let two of these coincide (`MergedNeighbours`,
`ImageSize`), and at the pop they are all that may hold a colour; with K colours
and every register fit, one is left. That coalescing is conservative is Briggs'
argument: `GreedyColouring` colours any graph from which the nodes of low degree
were taken, adding them back one at a time (`ExtendColouring`), so after a merge the
test allowed it is enough to colour what has significant degree, and of that the
merged node has fewer than K neighbours.

**ParallelCopyProofs** (from `LocationAssumption`): `TypeCorrect`,
`SwapIsSolved`, `OnlyCyclesStall`, and `Implementation`, that the sequence of
copies implements `SimultaneousAssignment`. `IInv` adds to `SourcesSurvive` that
every location that is not an emitted root still holds its own value. That a stall is a permutation is the
pigeonhole principle on the pending roots (`CoveringIsPermuting`).

**SSADestructionProofs** (from `SSAAssumption`: constants and phis have different
numbers, a CFG is a list of lists of its blocks): `Invariant`,
`DestructionKeepsValues`. The theorem is about an execution, so the invariant must
follow the pass that produced the code and the two programs that run beside each
other. Its parts: an edge leads where it did or to a bridge of its own (`EdgesOK`);
the phis name the block each edge comes through (`OperandsOK`); the predecessor
lists, stale while edges are split, are never too short, so that an edge left whole
is not critical (`CountsOK`, the reason why the stale counts do no harm); every
block passed holds copies that perform its assignments at once (`CodeOK`, which
takes `SwapIsSolved` and the rest of `ParallelCopyProofs` for the block under way
from `PCP!IInv`); and wherever execution stands each location holds its phi, where
the phi is defined (`RunOK`). After the splitting the only copies left in a block that
branches both ways are for a successor with no other predecessor, so a phi they
assign cannot dominate the block: whatever else is read there is untouched. And
until a phi's block is reached its copies have run ahead, which is why `RunOK`
speaks of the operands before a branch.

**DataflowProofs** (from `ProblemAssumption`, monotone transfer functions, and
`AnalysisAssumption`, the problems are those of well-formed functions):
`TypeCorrect`, `SolvesTheEquations`, `ReturnsTheLeast`, `LivenessIsExact`,
`ReachingIsExact`. `IInv` says a block off
the worklist is consistent with its neighbours' present sets, that queued blocks
are on the list, and that every set is below every solution, which monotonicity
preserves. The path definitions are then shown to be what the solver returns from
both sides: the set of blocks a path arrives at is the least closed one
(`ArrivesClosed`, `ArrivesLeast`; N rounds are enough, by `Saturates`), so the
path-defined sets solve the equations and lie above the least solution, and every
solution contains whatever a path carries. What a block does by walking its
instructions one at a time equals what it does at once (`LiveAboveIs`,
`ReachingOutIs`), by induction on the walk.

**LoopUnrollProofs** (from `LoopAssumption`): `Invariant`, `NothingIsReadTooEarly`,
`UnrollingKeepsValues`, for loops with any number of instructions, any factor and
any number of iterations. First, the values of the original loop exist: the table
they are defined by is a recursion over iterations, and in each over the header and
then the body (`TableEquations`). `IInv` then says where a copy finds each value
(`Location`, `OperandAt`) - in particular that a copy of the body finds an
instruction of the header where the *first* copy put it, which is the flaw reported
above for other loops -, that each of these places has been written when the copy
is entered (`Available`, `EnvOK`), and that it holds the value of the current
iteration, if the header computes nothing but its test (`ValuesOK`). The step that
matters is `NextPhis`: the place where the end of one copy leaves a phi's next value
is the one in which the next copy, or the header after the last, looks for it.

**Induction** holds what these proofs need of the natural numbers, stated without
operators as parameters: the least element, invariants of loops of n rounds, the
existence of what a loop or a recursion computes (`LoopExists`,
`RecursionExists`, and by any measure `RecursionByExists`), and that a set that only grows is closed after as many rounds as
it can have elements (`Saturates`).

The second part of **BackendProofs** is about `Allocation`, from the same assumptions:
`LiveValuesKeepTheirRegisters`, for any functions allocated one after the other,
whatever they are. `AInv` is the invariant of the first half with `Built`: the graph
is the one of the function, which joins whatever meets. That a freshly built
function satisfies the colouring's invariant is `BuildFresh`, with `GraphOfMeetings`
(a graph made this way is symmetric and within a class) at its core; that two
units that meet get two registers is then `ColouringIsProper`, and calls are
`CallsAreSafe`. It is stated for `AllocationSpec`; in the run `Compilation` takes
only steps of it.

`FrameKeepsTheStackAligned`, about `MachineCode` and from no assumption: for any
slots, outgoing arguments and pushed registers the stack is a multiple of 16 below
the prologue and the frame has room for what it holds.

The third part is about `Layout`, from `IRAssumption`: `LayoutKeepsTheFlow`, of every
function, all counts, with a profile or without one. Its hypothesis `CanBeLaidOut` is
the first half of `LayoutKeepsFlow`, so `measured_build` checks it of whatever reaches
layout. The order is a permutation because each round places something new: a hottest
block exists (`HottestIsThere`, the maximum over finitely many counts), there is
always one left (`SomethingIsLeft`, the pigeonhole principle), and a list of distinct
positions as long as the code names them all (`OrderIsPermutation`). Reordering is
therefore harmless before jumps are elided, and eliding is decided jump by jump:
dropping the jump to what follows, or inverting the one before it, which is right
because the two mnemonics split the outcomes of a comparison (`InvertedIsOpposite`,
`ElidedGoesThere`). Nothing is assumed of labels beyond that every block has one.

The last part is about `MeasuredBuild`, from `ProgramsAssumption` (functions as the
verifier lets them through, blocks and instructions numbered, calls to functions of the
program), `ProfileAssumption` and `IRAssumption`: `SplitsAll`, `BuildInvariant`,
`FlowStaysConserved`, `HeatIsTheShortestPrefix`, `HeatStaysDefined`, for programs of any
size and runs of any length.

- *Edges.* `SplitsAll` says of every function that splitting its critical edges leaves each
  side of a branch no other way in and the entry none, changes no block's calls, and puts
  the lists of predecessors right. It goes edge by edge: a split puts a new block on the
  edge and changes nothing else (`SplitAt`), so that an edge once split, or never critical,
  is not critical later, however stale the lists of predecessors are meanwhile.
- *The run.* The counters count blocks, and the profile tells of edges. `BuildInv` holds what
  relates the two: `Balanced`, that a block with two ways out was entered as often as the two
  blocks behind it were, plus the frames that are in it now, and that a block with one way
  out was entered no oftener than what follows it, plus those frames. A call suspends a frame
  and changes nothing of that (`CallGoesOn`); a step along an edge counts the one block and
  takes the frame out of the other, and because of `SplitsAll` no third block has a say
  (`GoToGoesOn`); only a block that leads nowhere returns (`ReturnGoesOn`). When the last
  frame has returned nothing is in the middle of anything, and the sums are those
  `FlowConserved` asks for; a run that was killed leaves no file.
- *The file.* A kind and a name tell a record (`KeysTell`), so in the file of one run each is
  read once and in that of two twice (`FoundAt`), and what the parser adds up is the
  counter or its double (`SumsIs`, `PartsAddUp`). The clamp of a loop's iterations at
  zero never acts: its preheader leads nowhere else (`LoopEntryIs`).
- *Heat.* The order in which `classifyGroup` sorts is total on names that differ in
  function or number (`Told`); a finite set has one sum whatever the order it is added in
  (`SumIs`); so what comes before an entry grows along the order, and the entries before the
  threshold are a prefix. Of what is on disk, cut anywhere, the proof uses only that the
  functions and blocks it names are there (`FileReads`).

**MiddleEndProofs**, first half (from `IRAssumption`; the theorems have
`[]PassesLeaveValidIR` as their
hypothesis): `SolverStaysInOrder`, `SolvedIsFinal`, `SolverOnlyDescends`, for
functions of any size, and using of the list of users only that every user is in it. The hypothesis is the
property `middle_end` checks beside these two, and is needed only where the solver
starts: on a function whose operands are missing it would read nothing at all. It is
not a theorem, because the other passes are folds over data (and because
`inline_noreturn` shows a function after which it does not hold); of a valid function
the proof uses only that it owns its instructions, that its operands exist and that
branches have their operand and targets (`Usable`). `SolverInv` is what makes the
two claims of the code hang together: the comment at `update()` says that the lattice
only descends, but the code never compares what it writes with the order, it
overwrites whatever was there. That no value climbs back holds because what was said
of an instruction is always at least what would be said of it now (`Sound`), which is
kept because every outcome is monotone in what it reads: `PhiDescends` for the meet
over the executable edges, `EvaluatedDescends` for folding, where one operand that
falls to overdefined makes the outcome overdefined. That nothing is forgotten is
`Pending`: an instruction of a reachable block is settled, or is on the list of
users, or its block is on the list of blocks; a visit disturbs only what it queues
(`VisitGrows`, `SettledStays`), and a visit to a phi in a loop that feeds itself
queues itself. `BlockLookedAt` carries both through the loop over a block,
in which what is settled early may be disturbed later. With both lists empty
everything is settled, and `SettledStands` says another look changes nothing.

The second half is about `Dominators`: `DominanceIsExact`, for every function the verifier
accepts, of any size and with any control flow, and `DominatorsStayExact`, the
property of `middle_end`, under the same hypothesis as above. Of the verifier it uses
that every block can be reached and that predecessor lists agree with the successors.
The tree is what a nested fixed point leaves, with no test of the result in the code,
so the argument has three layers.

- *The search.* `Searching` is the invariant of the depth-first search: frames and
  finished blocks are distinct, a visited block is one of them, the successors a frame or a
  finished block has looked at are visited, and every block but the entry was come to from
  one that is on the stack or finishes later. No frame is looked at twice (`Passed`), and there
  are `Cardinality(Frames(f))` of them, so that many looks end the search (`SearchEnds`);
  then every block is in the order, behind a predecessor of it (`PostorderIs`).
- *A sweep.* `Swept` holds after every block of every sweep. The tree is rooted at the entry
  and its parents come first in the order (`IsTree`); whatever is on every path to a block is
  above it in the tree (`GoesUp`, `MembersAreAbove`), because the walks of `Intersect` meet
  where exactly that is above which is above both ends (`MeetIs`). So the tree never says too
  little. What it says too much only shrinks: a block loses what is not above one of its
  predecessors any more (`NothingToAdd`, `StillAbove`), and after k sweeps no block that the
  entry reaches in k edges without passing a is left below a (`LeftBehind`).
- *The number of sweeps.* A path that avoids a block and reaches another has fewer edges than
  there are blocks (`ReachedInRounds`, by `SaturatesIn`). So after that many sweeps, and
  after any number more, the tree says exactly what paths say (`SweepsAre`,
  `TreeIsExact`); since a tree is given by what is above each of its blocks, the loop of the
  code, which stops at a sweep that changes nothing, leaves this one.

`FrontierIsExact` is then a computation on that tree.

**DriverProofs** (from `ModuleAssumption`, `BuildAssumption`): `TypeCorrect`,
`AnalysesAreFresh`, `ConvergenceIsAFixedPoint`, `ColdCodeIsLeftAlone`,
`ExitCodeIsRight`, `CleansUp`, for any number of functions and any effect of the
passes. The proof is in layers over types and positions. `Fresh`: except between
SSA destruction and `invalidateAll`, where nobody reads, each cached result was
computed from the present IR. `Supplied`: a usable profile stays with every
function. `Settled`: as long as nothing changed in a sweep, every pass before
the present position is idle on every function before it, because the IRs it
read are still the same. `Ended`: before the assembly is written there is no
file, and an object build never links.

Only model-checked: termination and convergence (liveness is beyond the prover);
`AnnotatedCountsAreMeasured` of `MeasuredBuild`, and the half of `LayoutKeepsFlow` that says
what layout is given can be laid out (the other half is `LayoutKeepsTheFlow`); `PassesLeaveValidIR` and `SameBehaviour` of `MiddleEnd`;
and those of `Compilation` other
than the allocator's, whose stages and reference definitions are RECURSIVE
operators over programs, which the prover does not read. `UnrolledLoopsAgree`
is refuted by `loop_unroll_header`, and `PassesLeaveValidIR` and `SameBehaviour`
hold but for the inputs of `inline_noreturn` and `dce_trap`. The type invariants are
proved and no longer part of a run.

## 6. What is not modelled

The component marked `not_modelled` in `PROJECT.json`: the benchmark harness and
scripts (measurement), `SourceManager` and `Diagnostic` rendering. Of the others:
the lexer (a table of characters; texts are sequences of tokens), source ranges,
the AST, IR and assembly printers (formatting), warnings and the wording of errors,
the command-line parser (a table), post-dominators and preheaders (nothing in the
pipeline asks for them). Inside modelled components: `UseDefInfo` (an
index without a fixed point), the text of names, and debug counters.
