# Verification development of the Tiny Tensor Compiler

This directory holds TLA+ models of the parts of the Tiny Tensor Compiler whose
correctness is hard to see from the code and hard to reach by a test, the TLC
runs that check them on small instances, and theorems about them that TLAPS
checks for every value of the constants. Source paths are relative to the
repository; the implementation is under `src/`, written `src/src/...` in
`PROJECT.json`, whose `map` gives the lines every definition stands for.

## 1. Inventory

The compiler takes a program in a tensor IR (parsed, or built through the C API
or a recipe), runs a fixed list of passes over it, converts it to a SPIR-V
module, and hands the binary to a runtime.

| component | state | operations | interacts with |
|---|---|---|---|
| IR (`node/`, `ilist_base.hpp`) | programs, functions, regions, instructions in intrusive lists, values with intrusive use lists | insert, erase, replace uses, walk | everything |
| control flow graph (`analysis/cfg.cpp`) | adjacency lists | build from a region tree, insert a node | insert-barrier |
| alias analysis (`analysis/alias.cpp`, `aa_results.cpp`) | root of every memref value, stack range of every alloca | build, `alias`, `root` | insert-barrier, insert-lifetime-stop |
| gcd analysis (`analysis/gcd.cpp`) | a divisor of every integer value, of every memref's shape, stride and offset | transfer rules | lower-coopmatrix, SPIR-V converter |
| insert-lifetime-stop (`pass/insert_lifetime_stop.cpp`) | set of live allocas during a reverse walk | inserts a `lifetime_stop` behind the last use | set-stack-ptr |
| set-stack-ptr (`pass/stack.cpp`) | list of live allocations | `alloca`, `lifetime_stop` in walk order | runs after insert-lifetime-stop and again after lower-linalg |
| insert-barrier (`pass/insert_barrier.cpp`) | worklist, reads and writes in and out of every node | visits a node, may insert a barrier, requeues successors | control flow graph, alias analysis, stack pointers |
| work-group size (`pass/work_group_size.cpp`, `tiling.cpp`) | attributes of the function | suggests and checks sizes | device info, lower-linalg, lower-foreach |
| lower-linalg (`pass/lower_linalg.cpp`), code generation tools (`codegen_tools.cpp`), gemm tools | none; emits code for the subgroups of a work-group | tile loops, work-group reduction and scan, gemm microkernel | runs after insert-barrier |
| lower-foreach (`pass/lower_foreach.cpp`) | none; emits tile loops | `foreach`, `foreach_tile` | code generation tools |
| constant propagation and folding, dead code elimination | map of known constants; the IR | fold, replace uses, erase | use lists |
| IR check (`pass/check_ir.cpp`) | stack of SPMD flags | enter and leave regions | walk |
| lower-coopmatrix, `coopmatrix_layout.cpp`, `spv/coopmatrix_impl*.cpp`, `block2d_diy.cpp` | layouts | arithmetic of which work item holds what | SPIR-V converter |
| SPIR-V converter and module passes (`spv/`) | module, unique types and constants, ids, capabilities | convert, assign ids, add capabilities, assemble | binary |
| parser (`parser/`) | scopes of names, stack of regions | push, pop, define, look up | IR |
| compiler context, handles (`compiler_context*.cpp`, `reference_counted.hpp`) | uniqued types and attributes, source names, reference counts | retain, release | C API |
| recipes and runtimes (`recipe/`, `cl/`, `ze/`, `sycl/`) | kernels, active kernel, global size, arguments | set arguments, submit | drivers |
| tools (`tools/`) | command lines, generator of node sources | | |

What is hard, and where the code is exposed to it:

* *Emitted code is concurrent.* The subgroups of a work-group run at their own
  pace and meet only at barriers. The compiler decides where barriers stand in
  two places that do not know of each other: insert-barrier on the tensor IR, and
  the reduction and scan that lower-linalg emits afterwards. The hazards are data
  races, barriers that not all subgroups reach, and temporaries of which
  set-stack-ptr reuses the place.
* *Fixed point computations* with a worklist in unspecified order that change the
  graph they run on.
* *Linear walks over trees*: insert-lifetime-stop and set-stack-ptr see a program
  with loops and branches once, in one order.
* *Integer edges*: remainders, ranges that do not start at zero, sizes that are
  not a multiple of anything, truncating division of negative numbers.
* There is no persistence, no network and no timeout anywhere, so nothing is said
  about crashes, retries or lost messages.

What makes each component correct is stated beside its module below; the hazards,
each at its line, with the properties that would catch it, are in `PROJECT.json`.

## 2. Modules

### Local memory and barriers

| module | models | state and actions |
|---|---|---|
| `ControlFlow` | region trees as data; `get_control_flow_graph` | operators only: `Successors` are the edges the code builds, `FlowsTo` where an execution can go |
| `BarrierInsertion` | `insert_barrier_pass::run_on_region` | `queue`, `irwOut`, the adjacency lists `pred`/`succ`, the barriers `inserted` and their `fence` flags. One action per visit of the loop body: `VisitBarrier`, `VisitInst`, `InsertBarrier`. `irw_in` is recomputed on every visit, so it is an operator. `missed` is a history variable that no guard reads: the set of a node has changed and kept its size, which the pass does not notice |
| `StackAllocation` | `set_stack_ptr_pass::run_on_function` | the list `allocs`, `stackPtr`, `failed`; actions `Alloca`, `LifetimeStop`, `LifetimeStopFails` in any order |
| `StackLifetime` | `insert_lifetime_stop_pass` and the walk of `set_stack_ptr_pass` over a region tree, then any execution of the function | `WalkInst`, `WalkStop` drive `StackAllocation` (INSTANCE `SA`), `Start`, `Execute` run the program on `memory`. `LiveDisjoint`, `Aligned` and `LowestPlace` are the allocator's properties of the walk |
| `Lemmas` | | region trees: induction along the pre-order, enclosing instructions, where control goes on; recursive functions exist; and sums |
| `BarrierInsertionProofs` | | theorems about insert-barrier on any region tree |
| `StackLifetimeProofs` | | theorems about the allocator, and about the two stack passes on any region tree |

### Emitted code of work-groups

| module | models | state and actions |
|---|---|---|
| `WorkGroupScan` | `work_group_inclusive_scan::make` in the loop of `scan_loop_1d` (cumsum) | a program counter per subgroup, `tmp` in local memory, `Barrier` as a joint step |
| `WorkGroupReduce` | `work_group_reduce::make` in a chain of `sum` instructions as the pipeline leaves them | the same; barriers of insert-barrier between the sums are computed by `Fenced` |
| `Sums` | the sum of a sequence | |
| `WorkGroupScanProofs`, `WorkGroupReduceProofs` | | theorems about scans and sums of any number of subgroups and work items |
| `Tiling` | `tile_loop_by_sgs`, `tile_loop_uniformly`, `choose_block_size_multiple`, `choose_k_block_size`, `max_register_block_gemm` | operators: the sequence of bodies a subgroup runs, and block sizes |
| `TiledLoops` | the nests of `foreach` and `foreach_tile`, and those lower-linalg emits for `axpby`, `ger`, `gemv`, `hadamard`, `sum`, `cumsum` and `gemm`, the last down to the blocks of the microkernel and its loops over K | `todo` tiles of each subgroup, the bag `ran` of points (scalar updates) executed; `RunTile` |
| `WorkGroupSize` | `work_group_size_pass`, the suggestions of `tiling.cpp` and the limits of `device_info.cpp` | operators: the set of outcomes, since `get_shapes` collects into a hash set |
| `EachOnce` | the abstract promise of a parallel loop nest | `Execute` any points not yet executed |

### From text to binary

| module | models | state and actions |
|---|---|---|
| `ScalarOps` | arithmetic, comparison and cast instructions: the types their constructors accept, the SPIR-V instructions the converter emits for them, what both compute at the width of the type | operators |
| `Folding` | `pass/constant_folding.cpp`: what an instruction with constant operands becomes | operators |
| `IrHeap` | instructions and regions as objects, with creation, insertion, erasure, replacement of uses | operators on a heap record |
| `Parser` | the actions of `parser_impl.yy` and the scopes of `parse_context` | operators on the parser's state, one per production |
| `IrPasses` | check-ir, constant propagation, dead code elimination | operators, in the order of the walk of each pass |
| `SpirvModule` | sections, uniquifier, capex, assign_ids, assembler | operators on a module record |
| `SpirvConverter` | `spv/converter.cpp`: functions, control flow with labels and phis, scalars, loads and stores, interfaces, execution modes | operators on the converter's state |
| `ProgramMeaning` | what a text, and the IR, mean: the stores of a work item | reference definition |
| `SpirvMeaning` | what a binary means, and the rules of SPIR-V it has to obey | reference definition |
| `Compiler` | the pipeline: one action per pass on `heap`, `conv`, `binary`, `status` | `ParseText`, `CheckIr`, `PropagateConstants`, `EliminateDeadCode`, `Convert`, `Identify`, `AssembleModule` |

### Uses, views, matrices, recipes

| module | models | state and actions |
|---|---|---|
| `UseList` | `node/value.cpp`, the intrusive lists pointer by pointer | `value`, `link`, `prev`; `Set`, `Destroy`, and the loop that replaces all uses of a result, one operand per step (`Replace`, `ReplaceNext`, `ReplaceDone`) |
| `Uses` | the abstract promise: a sequence of uses per value | |
| `UseListProofs` | | theorems about the lists |
| `MemrefViews` | subview, expand, fuse and loads from groups: the constructors' types, gcd analysis, and the emitted address arithmetic | a program grows by one instruction per step; `view` holds what the compiler knows and what the kernel holds, `means` what the text says |
| `MemrefViewsProofs` | | theorems about views of any shapes |
| `RecipeHandler` | both recipes with the handlers of the three runtimes | `SetArgs` with any runtime call failing, `Submit` |
| `WorkDistributionProofs` | | theorems about launches, and about the loop nests of `TiledLoops` |
| `CoopLayout` | `coopmatrix_layout.cpp`, the walkers and the plans for blocks | operators |
| `CoopMatrix` | the code the three cooperative matrix generators emit, executed by a subgroup | `mats` as each work item holds them, `mem`, and beside them the matrices and memory the text defines |
| `MC*` | | instances for TLC |

Compositions: `StackLifetime` runs insert-lifetime-stop into set-stack-ptr; its walk
is built from the actions of `StackAllocation`, so what holds of any order of those
holds of the walk; `TiledLoops` refines `EachOnce`
(`RunsEachOnce` is its safety, `RunsAll` its liveness), and some of its nests have the sizes `WorkGroupSize` chooses for
their function; `UseList` refines `Uses` (`ImplementsUses`); `Compiler` runs the
passes on one another's output and compares every form of the program with the
meaning of its text.

### Abstractions that matter

* Payloads of scans and sums are powers of four, so that a sum tells which
  elements it counted and how often (up to three times). Work items of a subgroup
  run in lockstep, as the subgroup operations they are built from demand; alpha
  and beta are one.
* A memref is a value name with an address space, a root and, if it is an alloca,
  a byte range (barriers); a shape, strides and an address (views); a buffer with
  an extent (compiler).
* Integers have the width of their type. Floating point numbers are small
  integers without rounding, infinities and the sign of zero.
* Programs enter the parser as trees: the lexer and the grammar are left out, the
  actions of the grammar are not. Words of SPIR-V instructions are records.
* What the IR or SPIR-V leaves undefined may be anything, and a program that
  stores, addresses or branches with it means anything.
* The sizes of the cooperative matrix hardware are scaled by four (subgroups of 4
  and 2 for 16 and 32, blocks of 8 columns for 32), with all ratios the formulas
  depend on kept. `matrix_ext_info` is a set of supported shapes.
* A runtime is assumed to capture the arguments of a kernel when it is enqueued.

Definitions named as mutants stand before the definition they vary; they model
no code and serve to show that the properties notice a bug.

## 3. Runs

Most programs and passes modelled terminate, so TLC's deadlock check is off for
them and termination is a liveness property where it is in doubt. Only
`use_list` goes on for ever, and there deadlock is checked; the pass of
`barriers_hang` should not, and does.

| run | question | bounds, and why they are enough |
|---|---|---|
| `barriers` | does the pass separate conflicting accesses to one address space; is every fence needed, and the analysis settled? | programs of up to five instructions on eight nestings, filled from four kinds of instruction, with one or both spaces and partial manual fences, in every order of the initial queue, and two of six and seven instructions in which a set changes without a change of size or never comes to rest. A hazard needs two accesses and what stands between them: a third access, a barrier, a loop or a branch |
| `barriers_hang` | does the pass come to an end? a violation | one program: two writes in a loop inside of a loop |
| `stack_lifetime` | is what is live disjoint, aligned and in the lowest place; is a buffer intact as long as it is used, and free behind its block; what do the stops of a program do? | trees with nesting, loops and views and two or three buffers, every path of execution; two or three buffers with up to two stops of the program's own, of any buffer or of a view, in front of an alloca that may take the place, in a loop and behind it; sequences of five buffers with sizes and alignments that do not divide each other, whose uses (any choice) decide which are live together: a gap, its two neighbours, and two more |
| `scan_one_iteration` | result, races and barriers of the scan | one to three subgroups of one to three work items, operands shorter, as long and (for one subgroup) longer than the work-group; three subgroups have a first, a middle and a last |
| `scan_loop` | the case of a second iteration: a violation | two subgroups of one work item are enough |
| `reduce_separated` | result, races and barriers of sums into one result, or by one subgroup | up to four subgroups of one or two work items, so that subgroup 0 needs several rounds, the last one partial; chains of three |
| `tiled_loops` | is every scalar update done once and within its block, and do work-groups and blocks fit the device? | ranges from empty to more than three rounds of blocks, one to three modes, starts below, at and above zero; gemms with and without a matrix extension, static and dynamic sizes, one to four blocks of rows, K of zero, below, at and above the block sizes; register files small enough for blocks of two to five rows; functions that state both, one or none of their sizes, on a generic device and on Intel devices with few and many threads and registers |
| `use_list` | are the lists exact after any history of changes, and at every step of a replacement? | four uses and two values: a first, a middle and a last use, and one that comes from the other list, or from none |
| `views` | do types and divisors tell the truth, and do emitted addresses meet the element that is meant? | chains of three views of static, partly and fully dynamic types, of rank two and below, with offsets computed in the program; groups of three without offset |
| `recipes` | does a launch do what was asked last? | three calls (a request, a second of the other kernel that may fail anywhere, a launch), all combinations of fixed and free constants |
| `cooperative_matrices` | do values and memory come out as the text says? | every layout (matrix a, b, accumulator; packed and not; less, as much and more than a subgroup of rows), three generators, offsets, transposition and the three kinds of bounds check; products chained once |
| `compile` | is the meaning kept from text to binary, and is the binary well formed? | templates of arithmetic, branches, loops, scopes, SPMD regions, yields, several functions, sizes and ill-typed instructions, two levels of nesting, at `-O0` and `-O1`, on two devices |

### What the runs show

`RaceFreeInOneSpace` judges the pass by an independent notion of storage
(`Footprint`: bytes of local memory, or the global object) and of control flow
(`FlowsTo`), not by the code's own alias test and graph. `Intact` executes the
program on the addresses the pass assigned. `SameStores` compares the IR after
every pass, and the binary, with the meaning of the text, so that it covers
folding at the width of the type, replacement of uses, merged branches, phis and
the order of stores; `StructuredControlFlow`, `Dominance`, `IdsResolve`,
`InterfacesExact` and `CapabilitiesDeclared` are rules of SPIR-V and of the
manual that the binary is held to. `NothingDangling` also covers parses that fail
half way. `ElementsExact`, `TypesTellTheTruth`, `DivisorsHold` and
`BlockAccessesAligned` relate what constructors and analysis claim at compile time
to the addresses of the kernel. `RunsTheRequest` follows a request through the
handler to the rows every work-group updates. `ExecutesText` says that every
work item holds what the layout says it holds and that memory has what was
stored and nothing else.

A lifetime_stop is created by lower-linalg or through the builder; the parser knows
none. `ListExact` says what becomes of those: the list is what has been allocated and
not been stopped by anyone, and the walk fails exactly if a stop finds no buffer of
its own, although another may have taken the place by then. Since insert-lifetime-stop
adds a stop for every alloca, a stop of the program's own for an alloca always
leads to the error in the end, before or at the inserted one; the temporaries of
lower-linalg come after that pass. `FreedAtEndOfBlock` looks at the other side: no
buffer is in the list behind the last instruction of its block and the stops due
there, at the end of the function included.

`LiveDisjoint`, `Aligned` and `LowestPlace` are stated by `StackAllocation` of any
order of allocations and frees, and checked here of the orders that programs lead
to.

`InsertsAutomatically` fails in `barriers_hang`. The pass requeues the successors of
a node whenever the *size* of one of its sets differs from before. Before there are
barriers in front of the two writes of the inner loop, both reach the outer one.
Afterwards nothing lets the first write out any more, but the set with both and the
set with the second follow each other around the outer loop: every node there
sees another size than the last time, and the queue never runs empty
(`insert_barrier.cpp:215`).

`CumulativeSum` fails in `scan_loop`: nothing keeps the last subgroup from
storing into the temporary for the next iteration of the loop before the others
have loaded the sum of this one.

### Exceptions

The passing runs are about all instances but the following. The modules model
them as the code is; the instance that shows one is named where there is one.

*Barriers.* (1) With hazards of two address spaces at one instruction a barrier
can be stale: `control_flow_graph::insert_before` moves the predecessors to the new
node, but they keep naming the old one as successor. If a predecessor's set grows
afterwards the barrier is not visited again, and accesses it would let pass never
reach the instruction behind it (`Programs <- MixedHazardPrograms` with `RaceFree`).
(2) The path around an if without else is not in the graph
(`IfNoElsePrograms`). (3) `get_rw` does not know cooperative matrix accesses; the
programs contain none. (4) A set that changes and keeps its size is not passed on,
and then a barrier can be missing (`Programs <- LostChangePrograms` with `RaceFree`);
`missed` remembers it. (5) The pass may run for ever (`WritesInNestedLoop`).
`RaceFreeInOneSpace` is conditional on the absence of (1), (2) and (4), `OutSettled`
on that of (4) only, `FencesJustified` on nothing.

*Sums.* Chains of independent sums race on the place set-stack-ptr has given the
temporaries of all of them. They are allocated by lower-linalg, one after the other.
insert-barrier ran before; it separates sums into one result because of the result,
and has no reason to separate sums into two. The other subgroups then store their
shares of the second sum while subgroup 0 still loads those of the first
(`Launches <- Independent` violates `SumsInOrder`), although `tensor-ir.rst:1252` says that
barriers are inserted automatically in collective regions. The reduced value is
created inside of an if and used behind it.

*Tiles.* Three kinds of nests violate `RunsEachOnce` and are left out of the
run. (1) A gemm whose columns are static and whose register block holds several
blocks of rows steps by one of them and updates all (`Nests <- TwoRowBlocks`). (2) A
`foreach_tile` whose second range does not start at zero replaces its variable
without that start (`lower_foreach.cpp:202`, `Nests <- OffsetTileNests`), where
`tensor-ir.rst:705` says that it runs through the range. (3) A reversed second range
of a `foreach` runs bodies with three subgroups (`codegen_tools.cpp:124` truncates
towards zero, `Nests <- ReversedNests`), where `tensor-ir.rst:656` says that it has no
iteration; with fewer blocks the emitted code divides by zero (`DividesByZero`). A
function that states its subgroup size and its work-group size is not checked against
the device (`Sizes`); those of the run stay within its limits. With three subgroups in
a mode tiled uniformly the second round does not go on where the first stopped
(`Turn`): every index is still run once, but the work is not spread evenly.

*Compilation.* Folding divides by a constant zero on the host (`fault`). What a program
means that divides by zero or shifts by the width of the type is undefined, so
`SameStores` says nothing of it. A loop over an empty range that has results is kept
(`dead_code_elimination.cpp:79`), and `NoDeadCode` speaks of loops without results. A
`not` with a boolean result takes any operand. A yield inside of a parallel
region inside of an if is refused at `-O1` only. The capability of group maxima is
missing (`Texts <- MCGroupMaxTexts` violates `CapabilitiesDeclared`). Complex
division and comparison by the host, `-0.0` and `0.0` in the uniquifier and the
type of subgroup operations on bf16 are not modelled.

*Divisors.* Three rules of gcd analysis claim more than holds and are left
out of the programs: division by an unknown value (`gcd.hpp:56`, `gcd.cpp:119`),
`not`, and casts that wrap. An alignment below the size of an element, and the
attribute `align` that recipes set while the analysis reads `alignment`
(`builder.h.mochi:651`), are left out too.

*Views.* (1) Code and manual disagree about groups with an offset. `tensor-ir.rst:416-418`
says that "the optional offset parameter is used to offset each pointer by the given
number of elements", so that a load gives `group[i] + off`. The converter adds the
offset to the index, `group[i + off]` (`converter.cpp:655-658`), and reads sizes and
strides there; `test/lit/spv/load.ir:46` expects that. The calling convention of
groups is implementation-defined, the meaning of a load is not. `LoadGroup` takes the
view from the code and the meaning from the manual: `GroupOffsets = {0, 1}` violates
`ElementsExact` in one step, and the groups of the run have no offset. (2) Fusing modes
with static strides that do not fit is accepted, although `tensor-ir.rst:1563` calls it
illegal; so is a static expand with the wrong product, and a
stated result type of another rank. The programs of the run contain none of (2).

*Recipes.* With a fixed M the number of groups is still computed from the M of
the request (`recipe/tall_and_skinny.cpp:276`), which the manual says is ignored
(`builder.h.mochi:647`): `CallersRepeatM = FALSE` shows it. Level Zero counts groups
with 32 bits. A static M of zero, for which the one group that is launched would
update a block of rows if blocks have several, is left out (`RecipesAssumption`). A
request that fails leaves the handler with a mixture of two requests; the property
speaks of launches behind a request that succeeded.

*Cooperative matrices.* Filters in `MCCoopMatrix` leave out, each named there:
(1) a store of a padded matrix in front of further columns of the memref writes the
padding, as the walker masks against the memref and not the matrix (`Stores`);
(2) a matrix a whose length is no multiple of the operations per channel
(`FullChannels`): `coopmatrix_layout.cpp:31` tests a variable that is one at that
point; (3) nonzero constants of packed matrices, which get too many constituents;
(4) transposed vector stores into memrefs whose first stride is not one;
(5) casts between i8 and wider matrices b of several blocks; (6) column
reductions of the dpas generator with one block and more columns than the subgroup
has items; (7) its loads of a matrix a of several arrays and column blocks, whose
order differs from that of `mul_add_fun` (`TiledAside`); (8) its stores of a
matrix a, which know no packing; (9) an `atomic_update` that is masked or checked
and whose result is used.

*Stack.* For a buffer of size zero at address zero the first fit skips a place,
since division truncates; `LowestPlace` is about positive sizes.

## 4. Fairness

`BarrierInsertion` is a sequential loop: `WF_vars(Next)` says that the compiler keeps
running. Only the refuted `InsertsAutomatically` depends on it; its counterexample is a
cycle in which the pass keeps working. In `WorkGroupScan` and `WorkGroupReduce` every
subgroup is weakly fair, and so is the barrier: the subgroups of a work-group are
resident together and make progress independently, which the emitted control barriers
need to have a meaning at all. No order between subgroups is assumed. `RunsAll` of
`TiledLoops` needs only that some subgroup with tiles left runs, in whatever order. In
`UseList` the steps of a replacement are weakly fair: the loop runs without a pause and
nothing else changes operands meanwhile. What is set and destroyed otherwise is under no
obligation. All other specifications state no fairness and no liveness property.

## 5. Proofs

Eight modules hold theorems, one of them (`Lemmas`) only lemmas for others; every leaf
is checked, and nothing is assumed but the named assumptions about the constants and
the hypotheses a theorem states.

| module | theorems that state a property of a run | assumptions |
|---|---|---|
| `BarrierInsertionProofs` | `SeparatesInOneSpace` (`RaceFreeInOneSpace`), `FencesHaveReasons` (`FencesJustified`), `Settles` (`OutSettled`) | `ProgramsAssumption`, `ValueAssumption`; no empty buffers for `FencesHaveReasons` |
| `StackLifetimeProofs` | `BuffersIntact` (`Intact`), `StopsEraseTheirs` (`ListExact`), `WalkKeepsApart` (`LiveDisjoint`), `WalkAligns` (`Aligned`), `WalkTakesLowest` (`LowestPlace`), `InsertedStopsMatch` (`StopsMatch`), `FreedWithBlock` (`FreedAtEndOfBlock`) | `ProgramsAssumption`, `SizeAssumption`, `AlignmentAssumption`; positive sizes for `WalkTakesLowest` |
| `StackLifetimeProofs`, of `StackAllocation` | the allocator's invariants under any order of its handlers, not only the walk's (`TypeCorrect`, `ListSorted`, `NoOverlap`, `StackAligned`, `StopErasesOne`, `FirstFitIsLowest`) | `SizeAssumption`, `AlignmentAssumption`; positive sizes for `FirstFitIsLowest` |
| `WorkGroupScanProofs` | `SumsCumulate` (`CumulativeSum`), `BarriersSeparate` (`NoDataRace`) | `LaunchesAssumption`, `GarbageAssumption`, all launches fit |
| `WorkGroupReduceProofs` | `SumsAddUp` (`SumsInOrder`), `FencesSeparate` (`NoDataRace`) | `LaunchesAssumption`, `GarbageAssumption`, all launches are separated |
| `UseListProofs` | `AlwaysWellLinked` (`WellLinked`), `HasUsesIsExact` (`HasUsesExact`), `RefinesSequences` (`ImplementsUses`) | `NullAssumption`, `ApartAssumption`, `FiniteAssumption` |
| `MemrefViewsProofs` | `AddressesExact` (`ElementsExact`), `TypesAreTrue` (`TypesTellTheTruth`), `ClaimsDivide` (`DivisorsHold`), `BlocksAreAligned` (`BlockAccessesAligned`) | those of `MemrefViews`: `DynamicAssumption`, `AlignmentAssumption`, `ParamsAssumption`, `AllocasAssumption`, `OperandsAssumption`; no group offset but zero for `AddressesExact` |
| `WorkDistributionProofs`, of `RecipeHandler` | `LaunchesTheRequest` (`RunsTheRequest`) | those of `RecipeHandler`; callers repeat a fixed M |
| `WorkDistributionProofs`, of `TiledLoops` | `IterationsOnce` (`RunsEachOnce`), `IterationsAll`, `TilesFit` (`FitsDevice`) | `NestsAssumption`; all nests are `Ordinary`, for `TilesFit` also `Roomy` |

**The allocator** (in `StackLifetimeProofs`), for any set of buffers, any sizes (zero included) and
any positive alignments (`SizeAssumption`, `AlignmentAssumption`): `TypeCorrect`,
`ListSorted`, `NoOverlap`, `StackAligned`, `StopErasesOne`, and for positive sizes
`FirstFitIsLowest`.

None of the invariants is inductive. The search of the first fit reads only the end
of the entry before a gap and the start of the one behind it, so `LiveDisjoint`
needs the whole list to be in order (`Sorted`); that needs an entry's start and stop
to be the address and size of its buffer (`EntriesOK`); that a visited buffer is not
placed again needs all list entries to have an address (`Placed`); and erasing needs
`OneEntry`. `IInv` is the conjunction. `InsertAtProperties` and `RemoveAtProperties`
say what the two list operations do to the elements, `AlignUpProperties` that
rounding up gives a multiple that is not below, and `AllocaInvariant` and
`LifetimeStopInvariant` are the steps. The order is kept because the inserted entry
starts at or behind the stop of its predecessor (`CandidateProperties`) and stops at
or before the start of its successor (`Fits`). That the place is the lowest is an
argument about one step: rounding up is least among the multiples (`AlignUpLeast`),
the first gap that fits exists as a least index (`LeastIndex`), and an aligned
address below it would lie in a gap that was refused or in a live buffer
(`AllocaLowest`).

**`UseListProofs`**, for any finitely many uses and any values (`NullAssumption`,
`ApartAssumption`: null is neither, and no use is a value): `TypeCorrect`,
`AlwaysWellLinked`, `HasUsesIsExact`,
`RefinesSequences`. `IInv` is `TypeOK`, `WellLinked` and acyclicity of the pointers back.
The last is needed for `has_uses`: well linked pointers alone allow a ring of uses
that no value leads to. It says that the uses can be ranked so that `prev_` always
leads to a lower rank; a use that is added gets rank zero and raises all others, one
that is removed keeps the ranks of the rest in order.
The refinement of `Uses` says of a sequence that it *follows* the pointers from an
address (`Leads`, `Follows`). Ranks grow along it, so no use is in it twice and it has
at most as many elements as there are uses (`ElementsApart`); `Chain`, which looks no
further than that, therefore finds all of it (`ChainFollows`), and what follows the
pointers from an address is unique (`OneList`). So it is enough to give a sequence
that follows the pointers *after* a step: the old one without the use
(`RemoveTakesOne`), or with it in front (`AddPutsInFront`). `use::set` is the one
after the other (`EnterMoves`), and each step of a replacement is a `use::set`.

**`StackLifetimeProofs`**, for any programs that are region trees in pre-order with
operands visible where they are used (`ProgramsAssumption`). The walk only
takes steps of the allocator (`WalkAllocates`, a lemma), so the allocator's theorems
hold of it (`WalkKeepsApart`, `WalkAligns`, `WalkTakesLowest`). `StopsEraseTheirs` is
about what the steps are taken for. `ListExact` (as `Exact`, over sets that the steps
change) is inductive with `StopsDue` (the stops still to be visited are those that
belong to the place the walk is at), the allocator's `IInv` and `Walks`, which says where
the walk is and that it only stops allocas. A stop that
finds its buffer erases the only entry, which is not that of another (`OneEntry`),
and a stop that fails is one that `Exact` knows of: its value is no alloca, was
stopped by the program before or has got its inserted stop (`FailsForOthers`, `WalkInstExact`,
`WalkStopExact`). `InsertedStopsMatch` and `FreedWithBlock` follow with `Tracks`: the
buffers in the list are among those whose alloca is behind the walk and whose stop is
ahead (`Ahead`), and are all of them if the program has no lifetime_stop of its own.
`FreedWithBlock` needs in addition that the stop of a buffer is due at the last
instruction of its block at the latest. The lemmas say where a stop is: behind its alloca
(`StopBehindAlloca`) and in its block (`StopInBlock`). The recursion from a view to
its root, and the greatest element of a set of positions, are shown to exist by a
least counterexample.

`BuffersIntact` joins the walk with the execution. `Keeps` looks back from the walk:
buffers whose lives (from the alloca to the stop) meet have been put `Apart`, unless
the program has freed one too early itself, and then (`Doomed`) its inserted stop is
going to fail and no execution starts. `Runs` looks at the execution: `Within` says
that control is behind an alloca, in its block or inside of it, and not behind its
last use. `UsesWithin` says that every use of a buffer is within, `FlowsWithin` that
control comes within only from within or from the alloca (by cases on straight
lines, branches, loop ends and loop heads), and `WithinInterval` that within is an
interval of the walk, although the execution repeats loops. So two buffers in use
at once met in the walk, and are apart.

**`BarrierInsertionProofs`**, for any region trees, accesses, alias maps and stack
ranges, and any order of the queue. `Graph` says how the graph looks: an instruction
has at most two barriers in front of it (the second only for a space the first does
not fence), its `pred` leads through them to the predecessors the program has
(`Before`), these still name the instruction as successor, and what a barrier fences
does not come out of it. `Traced`, for `FencesHaveReasons`: every access in a set is
one of an instruction from which control reaches the node with no manual fence of that
space in between; an alias of the pass is an overlap of storage as long as no
buffer is empty (`ConflictsAreRaces`). `NoneLeft`, for `Settles`, is the invariant
of the worklist: an instruction is queued, or it is `Settled`, or its newest
barrier is queued and will requeue it. It holds across the insertion, which makes sets
smaller, since a set only shrinks at a node that is visited and has another size then,
unless `missed`. `SeparatesInOneSpace` adds that the accesses a settled analysis
passes on contain those that reach an instruction (`ReachedByAccesses`): by the
definition of `FreeReach` as a least set it is enough that the set of instructions at
which the access arrives is closed. SPMD regions, in which no barrier is inserted and
manual ones count for nothing, need an argument of their own (`SpmdIsLeft`): what
enters such a region also comes out of it.

**`WorkGroupScanProofs`**, for any number and size of subgroups, operands of any
integers and any garbage in `tmp`. `Fits` leaves out the launches in which several
subgroups iterate, where `scan_loop` refutes the property. `TypeOK`; for several
subgroups, `Control` (the two barriers cut the body into three stretches, and all
subgroups are in one stretch or wait at its end), from which `NoDataRace` follows
as each stretch either writes elements of its own or only reads, and `Data`: what a
subgroup has scanned and added, as differences of prefix sums of the operand. For
one subgroup, `Carried`: the value carried from iteration to iteration is the prefix
sum so far.

**`WorkGroupReduceProofs`**, for any chain of sums of any length. `Separated` leaves out
chains into different results, where TLC finds the race. `ChainsAreFenced` shows that
insert-barrier's rule fences every sum but the first; `Where` that the subgroups are
on their way to the barrier of one sum (`Sharing`), or behind it with all but
subgroup 0 waiting (`Gathering`); `Right` that the shares in `tmp` and the part of
them that subgroup 0 has added up are what they should be: `Below(m)`, the sum of the
elements that fall to subgroups before m, grows by one share at a time
(`BelowStep`), and `GatherStep` takes one iteration of subgroup 0 at a time, the last
one partial.

**`MemrefViewsProofs`**, for any parameters, allocas, offsets and shapes the
constructors accept, views of any order and legal programs of any length (what is
illegal, the constructors accept and the programs leave out is in section 3 under
*Views* and *Divisors*). The run checks
the same four invariants for programs of a few instructions on matrices.

None of the four is inductive. What is: `Known`, which says of the view at hand that
it is `Described` (its sizes and strides at run time *fit* its type, that is, agree
with every entry that is not dynamic; the divisors gcd analysis holds *divide* them
and the address) and of the index that it is as `Claimed` (a multiple of its divisor),
and `Exact`, which says that the addresses the text means are the elements the kernel
reaches with the strides it holds. `TypesAreTrue`, `ClaimsDivide` and
`BlocksAreAligned` follow from `Known`, with any group offsets; `AddressesExact` needs
both, and groups without offset, since the emitted
code leaves out the multiplication where a type says that the first stride is one.

Types, divisors and run-time values are all computed from shapes by the same products
and sums. Only what relates the two sides differs: a static entry *fits* a value, a
divisor *divides* it, a size *is* it. The lemmas on products (`RelatedProducts`,
`RelatedCanonical`, `RelatedReplaced`) are therefore stated once for the three
relations (`Kind`, `Related`) and used by `expand`, `fuse` and `subview` for each of them.

The argument for addresses is mixed radix. Within a shape, the digits of a position
are a tuple (`PositionInBox`), every tuple is the digits of its position
(`TupleInBox`), so to run through the positions is to run through the tuples
(`TuplesAreBox`). An address is a dot product with the strides, and replacing a
few modes by others keeps it if the part they contribute stays the same
(`DotReplaced`, `SwapModes`). `expand` replaces one mode by several with canonical
strides (`ExpandElement`, by `DotCanonical`). `fuse` goes the other way, and it is here
that the modes have to be contiguous (`ContiguousCanonical`, `FuseElement`). `subview`
leaves modes out; those it keeps go to the places `KeptPlaces` says, and what it
leaves out adds nothing but the offset (`DotOfKept`, `SubviewElement`). That the
recursive functions behind all of this exist, and so may be unfolded, is
`RecursionExists` in `Lemmas`.

**`WorkDistributionProofs`**, of launches: for any recipes with positive block sizes and a positive M
where it is fixed, any requests with M not negative, any work-group sizes and any of
the runtimes (the assumptions of `RecipeHandler`), if callers repeat a fixed M.
`HoldsTheRequest` is the invariant: as long as the handler remembers a request, its
active kernel, the arguments of that kernel and the range are those of the request,
whatever the other kernel was given before; a request that fails is forgotten.
That indices meet parameters needs no look at the 16 combinations of fixed and free
constants: `Delivers` says that parameters and arguments are equally long and every
argument is what the request says about the parameter of its index, which
concatenation keeps (`DeliversBoth`), so a kernel finds under any parameter what was
asked (`ReadsWhatIsAsked`). `BlocksCover` is the arithmetic of the groups: every row
is in exactly one block, the last of which is cut, and with a fixed M that is a
multiple of the block none is.

**`WorkDistributionProofs`**, of the loop nests: for any ranges in any number of modes,
any subgroup size, tile shape and number of subgroups in both modes of the work-group,
and any block sizes of a gemm in rows, columns and K.
`Ordinary` leaves out the nests (1), (2) and (3) of *Tiles* in section 3, for which the
properties do not hold. `IterationsOnce` is the refinement of `EachOnce`,
`IterationsAll` says that no point is left when all subgroups are done, `TilesFit`
that no tile is empty or larger than the block its code was laid out for, and that the
blocks a gemm keeps fill at most half of the registers. That needs `Roomy`: already the
smallest block (a subgroup of rows, one column) fits, since `max_register_block_gemm`
falls back to that one whether it fits or not, and a block of a matrix extension is no
larger than the largest one that fits. All gemms of the run are `Ordinary` and `Roomy`.

The invariant is `LoopInv`: the tiles still to be run are `Parts` of the points that
have not been run. `Parts` says three things of calls dealt to subgroups: all that
they touch is in the set, every element of the set is touched, and `NoneShared`, by no two
calls. It holds as long as tiles are taken from the front (`OneFewer`), so the
work is in the initial state. There it is shown for one mode at a time: the blocks that
are dealt in turn (`DealtParts`), with the remainder of the last subgroup
(`BySgsParts`), and the two rounds of blocks of almost equal size (`UniformParts`).
Two facts about division carry that: a number is in one round of one subgroup only,
and `Turn` is a permutation of the subgroups. Two modes are then pairs of calls and
pairs of indices (`PartsOfPairs`), and the tiles of a nest are these under other names
(`PartsRenamed`, `TilesParts`). A tile of a gemm is one call of the microkernel: its
blocks in K are all of K, each index once (`KBlocksMean`), those of rows and columns
make up what the tile loop has handed to it, with a remainder only at the end of a mode
(`ModeBlocks`, `EdgeParts`), and so are the nested loops over all three (`TileOfBlocks`,
`MicrokernelRuns`). `ChosenMultiple` and `LargestFits` are about the choice of block
sizes: that what the code's search ends with exists (`BestExists`: of finitely many
blocks one has the best ratio and comes first, since the order of fractions is
transitive), is at least one and stays below the limit.

`Lemmas` shows that the fold behind a sum exists for every sequence of integers
(which the library only states), and from there what one more element adds and that
sums add pointwise. Where a proof needs an induction it is over numbers, by a least
counterexample (`LeastNumber`, `InPreOrder`, `InReverse`).

Only model-checked. *Liveness*: `Terminates`, `ReplacementEnds` and `RunsAll`,
since the prover reaches neither liveness nor ENABLED.
*Recursion*: the modules of the `compile` run, which work on trees with
RECURSIVE operators, and `ExecutesText` of the cooperative matrices, which
take their arithmetic from `ScalarOps`, where it is RECURSIVE and on bits.

## 6. Plan

What is left, most important first.

1. Modelling: scalar atomics and the mathematical functions of the SPIR-V converter;
   reference counts of handles between threads; the uniquing of types and attributes
   in the compiler context.
2. Composition: the temporaries of lower-linalg with the second run of
   set-stack-ptr, in the pipeline of `Compiler` (today `WorkGroupReduce` has both, for
   sums only).

## 7. Not modelled

* *Generated code*: the SPIR-V tables, names, visitors and enumerations of `spv/`,
  about 16 000 of the 46 000 lines of the implementation, with nothing in them to
  be wrong but the generator's input; and the views of instructions that `mochi`
  generates.
* *Lexer and grammar*: the actions of the grammar are modelled, what is recognised is
  left to the generators.
* *Drivers* behind the OpenCL, Level Zero and SYCL calls: external. The calls enter
  the model where a recipe handler makes them, as steps that may fail.
* *Command line tools, the generator of node sources, examples and tests*: no state
  beyond an argument list.
* *Conversions of half and bfloat16*: functions of 16 and 32 bits that the tests
  cover exhaustively where they are narrow.
* *Tables of devices*: constants of hardware, parameters here.
* *Compiler context and reference counts*: one atomic counter per object, which
  handles of several threads retain and release (`reference_counted.hpp:21`).
* *Complex numbers, rounding and the mathematical functions* in folding and
  conversion.

`PROJECT.json` lists every component with its status.
