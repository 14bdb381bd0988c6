# Verification of LoopModels

LoopModels reads the loop nests of an LLVM function, builds a polyhedral
dependence graph and finds, with a linear program per loop level, an affine
schedule that respects every dependence. This directory holds TLA+ models of
it, the TLC configurations that check them and the proofs that TLAPS checks.
All source paths below are relative to the repository.

The program is a single-threaded compiler pass. What is hard in it is not
concurrency but long sequences of steps over shared, mutable state: recursive
functions that pass graphs by value and schedules by reference, backtracking
that leaves behind what an abandoned attempt did, an arena whose checkpoints nest,
containers that grow over memory they still read, exact integer algorithms that
end only if ties are broken the right way, and fixed-size sets and counters.

## 1. Inventory

| Component | State it keeps | Operations | What makes it correct |
|---|---|---|---|
| `BumpAlloc`, `CheckPoint`, `ScopeLifetime` (`Utilities/Allocators.hpp`) | `slab`, `sEnd`, `slabs`, `customSlabs` | `allocate`, `deallocate`, `tryReallocate`, `reallocate`, `checkpoint`, `rollback`, `scope`, `reset` | blocks held by clients are disjoint, aligned and inside owned memory; a rollback frees what came after the checkpoint and nothing else |
| Strongly connected components (`Graphs.hpp`) | `iLLOS` (index, lowLink, onStack, visited), the stack, the components, the call stack | `strongConnect`, `stronglyConnectedComponents`; `weakVisit` and `topologicalSort` are only called by a test | components are the strongly connected components of the graph, each once, in topological order |
| Loop block scheduler (`LoopBlock.hpp`, `Schedule.hpp`) | schedules, fusion omegas, `satLvl` of each edge, `carriedDeps`, each graph's `activeEdges` | `optOrth`, `optimize`, `optimizeSatDep`, `breakGraph`, `solveGraph`, `shiftOmega` | an accepted schedule respects every dependence; satisfaction levels say where; the recursion ends |
| Dependence graph construction (`LoopBlock.hpp`: `fillEdges`, `connectGraph`, `duplicateLoad`, `searchValueForStores`) | `memory`, `edges`, `nodes`, `userToMem`, edge lists of the accesses | one pass over accesses and the values they use | every access belongs to a node, every edge is listed at both its ends, conflicting accesses are ordered |
| Dependence (`Dependence.hpp`, `DependencyPolyhedra.hpp`) | dependence polyhedron, Farkas simplices, `satLvl` | `check`, `checkEmptySat`, `isSatisfied`, `stashSatLevel`, `popSatLevel` | the direction of a dependence and where it is satisfied |
| Memory accesses (`MemoryAccess.hpp`, `ArrayIndex.hpp`) | index matrix, schedule slice, `inputEdges`, `outputEdges` | accessors, `peelLoops` | the edge sets agree with `edges` |
| Pass driver, loop forest (`TurboLoop.hpp`, `LoopForest.hpp`) | `loopForests`, `loopMap`, allocators | `initializeLoopForest`, `pushLoopTree`, `split`, `parseNest`, `conditionOnLoop` | every loop that can be represented is planted once, accesses get their place in the program, nests and omegas agree |
| Affine loop nests (`Loops.hpp`) | bounds as polyhedra | `removeLoop`, `zeroExtraItersUponExtending`, `rotate`, bounds | same iterations |
| Simplex (`Math/Simplex.hpp`) | tableau, basic variables, canonical flag | `initiateFeasible`, pivoting, `rLexMin`, `unSatisfiable` | feasibility and lexicographic optimality, without cycling |
| Linear algebra (`Math/NormalForm.hpp`, `Polyhedra.hpp`, `Comparators.hpp`, ...) | integer matrices | normal forms, Fourier-Motzkin, redundancy removal | same solution set, normal form |
| Rationals, gcd (`Math/Rational.hpp`, `GreatestCommonDivisor.hpp`) | 64-bit numerator and denominator | arithmetic, comparison | exact, or a reported overflow |
| Bit sets and containers (`Containers/`, `Math/Array.hpp`) | words, growing arrays and matrices | insert, remove, iterate, `dense`; push, resize, assign, move; resize and erase of rows and columns | a set; a sequence; a grid of numbers |
| `BumpPtrVector` (`Math/BumpVector.hpp`) | `mem`, `Size`, `Capacity`, arena | push, reserve, erase, move | a sequence, whatever shares the arena |
| Loop tree and addresses (`CostModeling.hpp`, `Address.hpp`) | tree of `LoopTreeSchedule`, address graph, blocks of instructions | `init`, `placeAddr`, hoisting | every address is placed once, before its users |
| Bipartite matching (`Bipartite.hpp`) | match array | `maxBipartiteMatch` | a maximum matching |
| Predicates (`Predicate.hpp`) | sets of conjunctions over conditions | union, intersection, emptiness | Boolean algebra |
| Instructions, merging (`Instruction.hpp`, `ControlFlowMerging.hpp`) | interned instructions, cost tables | intern, merge | equal instructions are one |

How they interact. `TurboLoop::run` walks the loop forest and fills a
`LinearProgramLoopBlock` with nodes and accesses. `fillEdges` builds a
`Dependence` per conflicting pair, `connectGraph` groups accesses into nodes.
`optOrth` first fixes the rows that `schedulePhi` can choose from array indices
and then calls `optimize`, whose recursion calls `solveGraph` (a simplex built in
the arena inside a `scope()`) and, when that fails, `breakGraph`, which calls
`stronglyConnectedComponents` and solves the parts. `LoopTreeSchedule::init` turns
the schedule into a loop tree; `placeAddr` again calls
`stronglyConnectedComponents` and reads the satisfaction levels. All polyhedra,
graphs and vectors live in `BumpAlloc`; temporary ones are discarded by
checkpoints.

The hard behaviours, each with its line, are the `hazards` of `PROJECT.json`.

## 2. The modules

| Module | Models | State and actions against the code |
|---|---|---|
| `BumpAlloc` | the allocator instantiated with `BumpUp = false`, the one the pass uses, and its clients | `alloc` is the object's four fields. `Allocate`, `Deallocate`, `Shrink`/`GrowInPlace`/`GrowElsewhere` (the three ways through `reallocate`), `CheckPoint`, `Rollback`, `Reset` are calls. `live`, `blk` and `chk` are what clients hold |
| `StronglyConnected` | `strongConnect` with its recursion as a stack of frames | `iLLOS`, `stack`, `components` as in the code; `frames` is the C++ call stack, each frame with the neighbours its loop has left. `ConnectRoot` is the outer loop; `MeetVisited` and `Descend` the two branches of the inner one; `LeaveRoot` and `LeaveInner` the end of a call |
| `LoopBlock` | `optOrth`, `optimize`, `optimizeSatDep`, `breakGraph`, `solveGraph` | `frames` is the C++ call stack, each frame with the by-value `Graph` of its call and the place in its body. `phi`, `omega`, `satLvl`, `carried` are the shared objects. One action per path through each function between two calls |
| `ShiftOmega` | `shiftOmegas`: node after node, the equations of its dependences are solved for a shift of its loops | one action per node; `offsets` and `satConstants` are what it changes |
| `GraphBuild` | `fillEdges`, `connectGraph`, `duplicateLoad`, `searchValueForStores`, `buildGraph` | accesses, memory, edges and nodes as in the code; one action per pair of accesses and per store |
| `Dependence` | the polyhedron of two accesses, its Farkas systems, the direction, `isSatisfied`, `checkEmptySat` | exact integer arithmetic on small accesses |
| `TurboLoop` | `initializeLoopForest`, `pushLoopTree`, `split`, `parseNest`, `conditionOnLoop` | `calls` is the recursion of `pushLoopTree`; loops are numbers, LLVM's loop info is the constant `Functions` |
| `LoopNest` | `AffineLoopNest`: extending a loop, rotating, removing, adding bounds | one question per behaviour, a step per removed loop |
| `Polyhedra` | Fourier-Motzkin and `pruneBounds` with its comparators | one action per comparison of two constraints |
| `Simplex`, `Tableau`, `Elimination` | `initiateFeasible`, the augmented phase, `rLexMin`; a pivot; the row operations | one action per pivot |
| `NormalForm` | `hermite`, `solveSystem`, `orthogonalize` | one action per column |
| `Numbers`, `Gcd` | `Rational` with integers of `Bits` bits, `linearDiophantine`, gcd and dgcdx | any sequence of operations on an accumulator |
| `BitSet`; `IntegerSet` | words and iterator; what a set promises | one action per call and per step of a walk |
| `ManagedArray`; `VectorSpec` | `Vector`, with storage in the object and on the heap; what sequences promise | one action per call; `vec`, `mem`, `heap` |
| `MatrixOps`; `MatrixSpec` | resizing and erasing of dense and strided matrices; a grid of numbers | one action per call; `buf` is the memory |
| `BumpVector` | `BumpPtrVector` over an arena with scopes | one action per call; `ram` is the memory of the slab |
| `MCBumpAlloc`, `MCStronglyConnected`, `MCLoopBlock`, `MCShiftOmega`, `MCGraphBuild`, `MCDependence`, `MCTurboLoop`, `MCLoopNest`, `MCSimplex` | instances for TLC | constants only |
| `MCBlocks`, `MCContainers`, `MCAlgorithms` | several components checked in one run | `part` says which one moves |
| `BumpAllocProofs`, `StronglyConnectedProofs`, `LoopBlockProofs`, `VectorProofs`, `BitSetProofs`, `MatrixOpsProofs`, `GraphBuildProofs`, `TurboLoopProofs` | theorems | section 4 |

Abstractions that a reader should know:

* `BumpAlloc`: addresses are integers, contents are left out. `llvm::allocate_buffer`
  returns any free address of `Heap`; two buffers are never contiguous, as an
  ordinary heap keeps a header before each. Growing a block is limited to blocks
  of the innermost scope (`MayResize`), what the pass's uses of `BumpPtrVector` are
  meant to keep to. The address-sanitizer branches are left out. Requested
  alignments are powers of two, at most half a slab: a smaller one divides
  `MinAlignment`, a larger one is a multiple of it.
* `StronglyConnected`: the neighbours of a vertex are those in the whole block, as in
  `Graph::inNeighbors`, and sets are walked from the least member, as `BitSet` does.
* `LoopBlock`: the simplex is an oracle that may report failure on any graph with
  an active edge and may satisfy any of the active edges (all of them under
  `satisfyDeps`). A schedule row is represented by what it does to each edge (a
  sign), by who wrote it, and not by its coefficients. The rows that a solve
  writes for nodes outside its graph may keep or reverse the edges that touch
  them; the edges of the solved graph get the sign the program found. `isSatisfied`
  is the answer it promises; what the code answers is the subject of `Dependence`.
  `stronglyConnectedComponents` returns the strongly connected components in any
  topological order; its own defects are the subject of `StronglyConnected` and
  would only add to those found here. `own`, `lost`, `moved`, `stray`, `dropped` and
  `stale` are history: no guard reads them. They record rows and fusion omegas that
  were written for another graph, omegas that an abandoned attempt left apart,
  edges `breakGraph` was called without, and levels of another graph or attempt.
* `Dependence`: the variable `w` of the satisfaction simplex is free, as in the code.
  A weak direction excepts pairs of one iteration, and the second dependence of
  `timeCheck` is spurious when the accesses meet only in different iterations; both
  are what the code computes. Two overloads of `isSatisfied` and one of
  `checkDirection` are never called and left out, as is the branch of `checkSat` that
  extends a nest.
* `Polyhedra`: a constraint is compared through a comparator that still contains
  it, which can drop an implicit equality; the pairs of `MCDependence` and the
  polyhedra of `MCAlgorithms` have a point strictly inside or no point at all.
* `LoopNest`: no question is asked of a nest without bounds, to which `addZeroLowerBounds`
  adds none. Setting a loop to an extended bound is only right when the bound's
  coefficient is one (`UnitBounds`), which the property says.
* `TurboLoop`: paths between loops, affine bounds and the kind of each access are
  inputs. A loop around others is planted without a look at its own trip count, and
  `NestsFit` is stated for functions in which no loop fails. Where an omega breaks
  `invariant(o.size(), numLoops + 1)` of `ArrayIndex::construct` the run stops, with
  `running = "undefined"`; `OmegasFit` says that this never happens, and finding 8 how
  it does, while `AccessesPlaced` and `NestsFit` say where it cannot. A nest of no loops
  loses one in an `unsigned`, whose greatest value is `MaxUnsigned` (2^16 - 1 here,
  2^32 - 1 in the code: larger than any nest). Peeling no loop, which `peelLoops` asserts
  against, concerns trees that have no accesses yet. `parseNest` holds
  iterators into `loopForests` while `conditionOnLoop` appends to it: a vector that was on the
  heap may move and free what is read, where the model goes on reading. The functions of
  `MCTurboLoop` never have more than six forests, which lie in the object. The blacklist of `arrayRef` is left
  out.
* `GraphBuild`: the polyhedral test that orders two accesses is an input. Values
  stored by two stores reload each other (section 3), and a load used twice is
  duplicated twice; both are modelled.
* `MCContainers` does not follow `BumpVector` and `MatrixOps` after a call left what
  the class provides for.
* `ManagedArray`: without storage in the object (`N = 0`) the pointer of a vector that has
  no buffer is null, and `data()` asserts that it is not: to copy or move from such
  a vector, or to copy nothing to it, is a call the model's client does not make
  (`NullPtr`). Elements that `resizeForOverwrite` leaves are as good as junk, and no
  object lies inside a buffer of the heap.

## 3. What the runs show

| Run | Shows | Size |
|---|---|---|
| `bumpalloc_overlap` | finding 1: `NoOverlap` fails | short trace |
| `scc_order` | finding 2: `TopologicalOrder` fails inside a strongly connected component emitted in pieces | short trace |
| `scc_subset` | finding 3: `ComponentsInGraph` fails on a subgraph | short trace |
| `loopblock_pass` | `LegalUnlessOverwritten`, `SatLevelTruthful`, `ReturnedAreSatisfied`, `SatDepIsFinal` of the scheduler; `LoopsPlanted`, `AccessesPlaced`, `NestsFit` of the forest; `NodesReadOperands`, `ConflictsOrdered`, `ReloadsEnd` of the graph; `ShiftsAgree` | 417,034 states |
| `loopblock_ends` | `Terminates`: the recursion and `optOrth`'s second attempt end | 124,866 states |
| `loopblock_legal` | finding 4: `Legal` fails | short trace |
| `containers` | of the allocator `NoOverlapUnlessMisplaced`, `LiveInBuffers`, `BumpedBlocksAligned`, and that a rollback abandons the current slab only if it was exactly full at the checkpoint (`MisplacedOnlyWhenFull`); of the containers the refinements `IsASet`, `IsASequence`, `IsAGrid`, and `ReadsMembers`, `OneOwner`, `HoldWhatWasPut`, `BlocksApart` | 710,429 states |
| `algorithms` | `NumbersExact`, `FormReached`, `TableauSolves`, `NeverCycles`, `PointsKept`, `DirectionTruthful`, `SatisfiedUpToConstant`, `EmptySatSeparates`, `ZeroExtraTruthful`, `NestKeepsPoints`; of the search for components `StackHoldsCalls`, `ComponentsWithinSCC`, `OrderedAcrossSCCs`, `Finishes` | 314,969 states |
| `dependence_satisfied` | finding 5: `SatisfiedRespects` fails | short trace |
| `graph_memory` | finding 6: `MemoryOfNode` fails | short trace |
| `simplex_lex` | finding 7: `LexMinimal` fails | short trace |
| `turboloop_omegas` | finding 8: `OmegasFit` fails | short trace |

Findings, in words:

1. A checkpoint taken when the slab pointer equals `sEnd` is not recognised by
   `CheckPoint::isInSlab` (`p > send`), and `rollback` starts the slab over: memory
   of blocks that are still held is handed out again.
2. `strongConnect` ignores the index its recursive call returns. Vertices on
   different branches share indices, so one strongly connected component can be
   emitted in several pieces. A piece never joins two components, and pieces of
   different components are in topological order.
3. The neighbours of a `Graph` lead out of it, so the components of a subgraph hold
   vertices of other graphs.
4. `updateSchedules` and `setSchedulesIndependent` write a row for every node of the
   block, whatever graph is solved. When `breakGraph` solves the components one
   after another, each solve overwrites the rows of the others, whose dependences
   have already been deactivated.
5. `isSatisfied` fixes the schedule coefficients of a simplex in which the constant
   bounding variable stays free, so a row that moves the output's iterations before
   the input's by a bounded distance is answered as satisfied. What remains true is
   `SatisfiedUpToConstant`.
6. `duplicateLoad` puts the old load into `memory` a second time where the copy
   belongs, so the memory set of a node refers to an access of another node.
7. `rLexCore` never lets the last of the variables that are minimised enter.
8. `parseLoop` gives an omega one entry for each tree around an access and one more,
   `ArrayIndex::construct` asserts that it has one for each loop of the nest and one
   more, and nothing makes the two agree. There are three ways for them to differ. A
   loop around others is planted although its own trip count is not affine, with the nest of its
   first sub loop without the innermost loop: too few loops (the run's trace). A sub
   loop is split off, by a missing path or a sibling that fails, from a loop that is
   affine: its nest still counts that loop. And `conditionOnLoop` peels the
   subtrees of a loop that `parseLoop` is in and still reads: with loops 1 around
   2 and 4, 2 around 3 and 4 around 5, an access without a base in the header of 1
   leaves 4 with fewer loops than places. `AccessesPlaced` and `NestsFit` say that
   there is no fourth: no omega breaks the assertion in a function of affine accesses
   in which a loop around planted ones is planted exactly where it is affine
   (`NestsMatch`), nor in one whose loops can all be represented, unless a loop that
   `parseLoop` is still in was taken out over one of its sub loops (`Overtaken`).

What else modelling showed, without a run of its own: the fusion omegas that
`breakGraph` writes (`LoopBlock.hpp:1494`, `1503`) are not reset when its attempt is
abandoned, and a later attempt that fuses the same graphs finds them apart at an
inner level; `LegalUnlessOverwritten` excepts them (`stray`). The shortest trace
found takes 50 steps on a block of three loops, and no line of the repository says
otherwise. Levels that an abandoned attempt set are not reset either (`stale`).
The assertion of `checkDirection` about one of two directions does not hold for
every pair, and `conditionOnLoop` run in the middle of `parseLoop` leaves the
siblings behind the loop unread, or has them read with an omega that does not fit (finding 8). `searchValueForStores` (`LoopBlock.hpp:460`) reloads a
value from any other store of it: of two stores of one value each node reloads it from
the other and neither computes it, and so do the stores of a phi node and of what it
becomes in the next iteration. The first are what `KeptTwice` excepts in `ReloadsEnd`,
the second what its `NoCycle` does; the blocks of `MCGraphBuild` hold both.

`LegalUnlessOverwritten` shows that these are the only ways in which the control
flow can lose a dependence: rows and omegas written for another graph (finding 4),
omegas of an abandoned attempt, and a retry of `breakGraph` with edges missing
(`LoopBlock.hpp:1606`).

Bounds. `MCBumpAlloc`: slabs of 8 bytes with a granule of 2 are enough for a slab
to be partly full, exactly full and overflowed by rounding; sizes 0, 3 and 5 are
the empty, the rounded and the custom block; a second alignment of 4 with a buffer
at an address that is not a multiple of 4 exercises `align`; two buffers, two blocks
and two checkpoints give new slabs inside scopes and rollbacks across them. Blocks, like the
names of sets and vectors in the other parts of `MCContainers`, are symmetric: no
definition tells them apart. The `containers` run starts in the
slab at 10, which is not a multiple of 4; the one at 20 is what is allocated next. `MCStronglyConnected`: all graphs on
four vertices (self loops on one vertex, since a self loop only makes a vertex
meet itself), searched whole or from a two-vertex subgraph; two branches that
meet, which is where equal indices matter, need three vertices.
`MCLoopBlock`: three nodes, three edges, up to three loops, in seven shapes: chain,
cycle, triangle, reduction, star, with equal or different nest depths, with and
without a row fixed by `schedulePhi`. Three nodes are enough for a component to be
solved between two others and for two graphs to be fused before a third is met;
three loops allow a nested `optimizeSatDep`. `SatSlots` is 2 instead of 7, so that
the stack of satisfaction levels reaches its end. Liveness runs on four of the
shapes. `MCTurboLoop`: four shapes of up to five loops in nests of three, any two of
the loops not affine, any path missing, any one access not representable, which
is what it takes for a tree to be cut inside, before and behind a sibling.
`MCGraphBuild`: two or three stores of values that share loads and operations, with
either direction or both of every dependence, and two stores of a phi node or of
what it becomes, which are computed from each other. `MCShiftOmega`: one and two nodes of
different depth with dependences within and between them. `MCContainers`: words of
two bits, two of them, put every boundary (last word, full word, beyond the
array) within reach; vectors of at most two elements with room for none or one in
the object grow, shrink, move and swap buffers; matrices up to three by two widen and
narrow with and without a new buffer; a slab of six elements is enough for two
vectors, of which one grows in place and one elsewhere, and a scope. `MCAlgorithms`:
integers of five bits overflow within two operations; matrices up to three by three
and systems of two equations are exhausted over a few coefficients; polyhedra have
two loops, and a symbol, or the two variables of a dependence. Loops of dependences
run to at most 4, which separates every direction and distance the accesses can
have. Runs stop where the modelled program returns, so they do not check for deadlock.

Fairness. The liveness properties are checked under weak fairness of the whole
next-state relation (of the search alone, in `MCAlgorithms`), and no more: the
modelled code is a sequential program with no waiting, so while it has a next step
it takes it. Which answer the linear program gives is not assumed fair.
`NeverCycles` and `ReloadsEnd` need none: they are about the steps taken.

## 4. What is proved

Every theorem is about all values of the constants that satisfy the named
assumptions of its module; the run of section 3 that checks the same property
shows it on a small instance.

### BumpAllocProofs

* `TypeCorrect`: `Spec => []TypeOK`, with `slab` aligned, never above the end of
  its slab, and `sEnd` always the newest slab;
* `BlocksInBuffers`: `Spec => []LiveInBuffers`;
* `Disjointness`: `Spec => []NoOverlapUnlessMisplaced`;
* `MisplacedOnlyFull`: `Spec => MisplacedOnlyWhenFull`;
* `BlocksAligned`: `Spec => []BumpedBlocksAligned`.

Together they say that finding 1 is the only way in which this allocator hands
out memory twice. Disjointness is not inductive: whether carving a block off the
current slab is safe depends on no live block lying below `slab` in it, and
whether a rollback keeps that depends on where the blocks older than the
checkpoint are. The inductive invariant `IInv` therefore adds to the types
(`AllocOK`, `ClientsOK`) that blocks are in buffers (`InBuffers`) and, while no
rollback misplaced the pointer, `Tidy`: every non-empty block in the current slab
lies at or above `slab` (`Above`), the rounded extents of blocks are disjoint
(`Apart`), and a block that is older than a checkpoint and lies in the current slab
lies at or above that checkpoint, which was taken in the same slab
(`CheckPointsBelow`). Alignment rests on rounding down to a multiple and on a
multiple of a multiple being one, where `RequestAssumption` says that an alignment
divides the granule or is a multiple of it; a block that grows in place moves down by
a rounded amount. There is one lemma per helper (`AlignUp`, `AlignDown`,
`allocCore`, `bumpAlloc`, ...) and one per action. `HeapAssumption` and `HeapGap` are
the only facts about the system's heap that are used.

### StronglyConnectedProofs

* `TypeCorrect`: `Spec => []TypeOK`, with no lowLink above its index;
* `CallsOnStack`: `Spec => []StackHoldsCalls`;
* `ComponentsSound`: `Spec => []ComponentsWithinSCC`;
* `OrderSound`: `Spec => []OrderedAcrossSCCs`.

So the defect of finding 2 is bounded on every graph: a component may come out in
pieces, but no piece joins two components. The textbook proof orders the stack by
index, which repeated indices break. What `strongConnect` still guarantees is
weaker and suffices. `SearchInv` says that the flags agree with the stack and the
components (`Flags`), that the active calls lie on the stack in call order
(`CallsInOrder`), that an active call reaches everything above it (`ReachesAbove`),
that everything on the stack reaches an active call at or below it (`ReachesCall`),
that the lowLink of an active call is the index of a vertex on the stack that it
reaches (`LowLinks`), and that indices above an active call exceed its own
(`IndexAbove`). When a call returns with `lowLink # index`, its lowLink is the index of
a vertex it reaches that lies strictly below it, and that vertex reaches an active
call below, so `ReachesCall` survives the return. When it returns as a root, every
vertex it pops reaches it and is reached by it. `Explored` (what a visited vertex
leads to was visited or is still to be looked at) gives the order: an edge out of a
popped vertex leads to an earlier component, to another popped vertex, or below the
root, and the last closes a cycle. `NodeAssumption` and `GraphAssumption` are all that
is assumed.

### LoopBlockProofs

* `TypeCorrect`: `Spec => []TypeOK`. The invariant `Typed` adds the shape of every kind
  of call on the stack: depths below `MaxLoops` where a row is written, indices of
  graphs within their sequences, graphs that are not empty. That the depth of a call
  stays below its graph's deepest nest is what keeps fusion omegas within their
  arrays; `LoopAssumption` (fewer than 128 loops) keeps `128 + d` within eight bits.
* `SatDepNeverFails`: `Spec => []SatDepIsFinal`. `FinalInv` says that every call made
  below an `optimizeSatDep` works on a `Quiet` graph, one with no edge left to order
  at its depth or deeper: a solve of it cannot fail, so `breakGraph` is never entered
  there and nothing returns failure.
* `LevelsStay`: `Spec => [][Levelled \subseteq Levelled']_vars`: no step takes an edge's
  level away, although `stashSatLevel` drops the bottom of the stack and pops restore
  it.
* `ReturnsSatisfied`: `Spec => []ReturnedAreSatisfied`, from `SatInv`: the sets that
  active calls have collected, and what was returned, are levelled.

* `ScheduleLegal`: `Spec => []LegalUnlessOverwritten`;
* `LevelsTruthful`: `Spec => []SatLevelTruthful`.

The last two are about the whole of the scheduler: for every block and every answer of
the linear program, finding 4 and what the history variables record are the only ways
in which an accepted schedule can reverse a dependence or a level can claim too much.
Both follow from one inductive invariant, `LegalInv`, which TLC checked on the
instance of `loopblock_pass` before it was proved. It speaks of an edge through the
levels above a depth `d`: `Good` (if one of them decides the edge, the first that does
puts the input first), `Decided`, and `Truthful` (the satisfaction level is not
further out than a level above `d` that decides the edge). An edge that the graph of a
call has still to order is `Sound` at the call's depth, one that it no longer has is
`Settled` or was dropped (`Pending`), and no inner fusion level separates the ends of
an edge that is still open, except where an abandoned attempt is marked (`Agree`).

* `FrameInv` says what each kind of call relies on at each place of its body. For
  `breakGraph` this is `Parts`: the graphs of a split are in an order no edge goes
  against, an edge that one of them lacks lies within it, and the graphs that are
  solved have a row that keeps their edges (`RowSolved`); fused graphs that are `Closed`
  share one fusion omega, larger than those before. When the last base is closed,
  `PartsReady` shows that every base is ready one level deeper: within a base the row
  decides, between two of them the omegas do, in the order of the components.
* `StackInv` adds that a call's graphs lie within what the calls around it try to
  schedule and apart from what those have left (`Under`). That is why an attempt that
  fails can be taken back: `Pending(Backup(f), f.d)` of a waiting `optimize` survives
  whatever is done below it, since all of it happens at deeper levels or is marked.
* `DoneInv` says that an edge no active call has still to schedule (`Finished`) is in
  order at every level. While a failure is on its way out, what the innermost waiting
  `optimize` was given counts as not scheduled.

`Stable` is the one interface between the data and the stack: a step that schedules the
nodes `N` from depth `d` on leaves the levels above `d`, and edges that do not touch `N`,
as they were. `SolvedStable` and `FusionStable` show it of `solveGraph` and
`setFusionOmega`, and the lemmas about waiting calls and finished edges use nothing
else. There is then one lemma per action.

`LoopAssumption`, `NodeAssumption` and `BlockAssumption` are what is assumed of a block.

### VectorProofs

* `BuffersOwned`: `VecSpec => []OneOwner`;
* `VectorsAreSequences`: `VecSpec => IsASequence`, the refinement of `VectorSpec` under the
  mapping of a vector to the first `sz` cells of where its `ptr` points;
* `BlocksStayApart`: `BVSpec => []BlocksApart`;
* `ContentsKept`: `BVSpec => []HoldWhatWasPut`.

The first two are about `ManagedArray`, the others about `BumpVector`.

`OneOwner` is not inductive: that a vector that takes another's buffer leaves the
other room enough, and that moving out of an object never needs more room than there
is, rest on the storage in each object keeping its size. `VecInv` adds that a vector
uses its own storage, with the capacity it was made with, or a buffer of its own; that no
capacity is less than the object's storage; and that memory has the length the
capacity says. Two lemmas carry the steps: elements written to a new buffer
(`MovedFacts`) and in place (`InPlaceFacts`); there is then one lemma per operation
that it keeps `VecInv` and is the abstract operation, where destroying and clearing
are a resize to nothing and reserving is a stutter. `VectorAssumption` is what is
assumed.

Of `BumpPtrVector` the inductive invariant `BVInv` (while `sound`) is that the blocks of the living vectors
lie above the arena's end and apart, that a checkpoint is not below that end, and
that each cell of a vector holds what was put there. The step that matters is a
block that grows in place: it moves down over cells nobody has, and the copy, from the
front, reads each cell before it is written. A rollback keeps the invariant because
the vectors of the scope are gone and older ones lie above the mark. `ArenaAssumption`
(sizes are naturals) is what is assumed.

### BitSetProofs

* `BitSetsAreSets`: `BitSpec => IsASet`;
* `BitSetsReadMembers`: `BitSpec => []ReadsMembers`.

`BitInv` says that the words of a set are a sequence of words, `Words` of them when the
storage is a fixed array, and where the iterator of `BitSets.hpp` can be: between two
calls (`Cursor`, whose remaining bits are the members of the current word that were
not visited), past the last word, or anywhere when a word holds only its top bit, where
the iterator shifts by the width of the word, which is undefined. A member is `WordBits * word + bit`; `DivUnique` recovers the two, and
`PlacesAscend` says that members of later words are larger, from which the order
of a walk follows. That `size`, the sum of the words' population counts, is the
cardinality of the set is shown without induction: the cardinalities of the members in
the first `i` words satisfy the equations of `popcount`'s recursion, and a function that
does is unique by the least place where two of them would differ.
`BitSetAssumption` (the width and the number of words are positive) is what is assumed.

### MatrixOpsProofs

`MatricesAreGrids`: `MatSpec => IsAGrid`, for both layouts. `MatInv` says that the
stride is at least the number of columns (and is that number in a dense matrix) and
that rows times stride fits in the buffer. `RowColumn` recovers row and column from an
address, `PlaceInBuffer` and `PlaceAfter` put every place of the grid inside the buffer
before and after a step. There is one lemma per operation that says what each place
shows afterwards (`ResizeShows`, `EraseColKeeps`, ...) and one that this is the abstract
operation; truncating is a `Resize`, reserving a stutter. Where the code leaves
places unwritten (the two calls that clear `intact`) the grid is no longer defined and
nothing is claimed. `MatrixAssumption` (shapes are pairs of naturals within `MaxRow` and
`MaxCol`) is what is assumed.

### GraphBuildProofs

* `AlwaysOrdered`: `GraphSpec => []ConflictsOrdered`;
* `OperandsAlwaysRead`: `GraphSpec => []NodesReadOperands`;
* `ReloadsAlwaysEnd`: `GraphSpec => []ReloadsEnd`.

Four invariants, each resting on the one before. `ObjectInv`: the accesses of the
block come first in `accesses` and `memory`, in the order of `program.memory`, and
every access added later is a load. `OrderInv` speaks of pairs of accesses that conflict.
Two of the block that `fillEdges` has compared are joined by an edge or known to be
independent (`FirstOrdered`); a load that was added is joined with each conflicting
store of the block by an edge, or by two over one store (`LaterOrdered`): the load that
`duplicateLoad` copies hands on its edges, while the load that
`searchValueForStores` makes of a store is joined with that store by a new edge and
with the others over it. Two loads do not conflict and every store is of the
block, so the two clauses cover all pairs. `ReadInv` speaks of the search: every operand
of an instruction that was visited is itself visited, is loaded by the node, or is
still in `todo` (`SearchInv`), so that at the end of a search nothing is missing, and a
finished store keeps what it loads (`AllLoaded`). `Path` is a recursive function; that it finds
a path of two edges (`ShortPath`) is shown by giving the function that satisfies its
equations, not by induction. `ReloadInv` says where a reload may come from. No two stores share a
node (`StoreNodes`); a node has a reload only of a value that its own store, another
one, is computed from: one of the store's operands or something that such an operand
is computed from (`ReloadsMade`, `Behind`), because everything in `todo` is
(`TodoBehind`). `ReloadsEnd` follows: the first reload of a store whose operand is kept
by no second store lies strictly before that operand, no later reload lies behind
the one it is followed from, so the set of stores of such values is closed under
loading (`FollowsStays`) and does not have the first store, unless a value is computed
from itself. That is the condition `NoCycle` of `ReloadsEnd`, which phi nodes break
(section 3). `GraphAssumption` (an instruction has at most one access,
operands are instructions, and a store is nobody's operand) is what is assumed.

### TurboLoopProofs

* `LoopsAlwaysPlanted`: `TurboSpec => []LoopsPlanted`.
* `NestsAlwaysFit`: `TurboSpec => []NestsFit`.

The first: for every function, and for every loop that an access removes later, the loops that
can be represented are planted, no others, each once and in one forest.
`PlantInv` is the inductive invariant:

* `TreesOK`: a tree is made after the trees it holds, has a loop or none, and has
  as many paths as the code gives it;
* `TreesOnce`, `ForestsOnce`, `CallsOnce`, `HeldOnce`: each tree is in exactly one place: in
  one tree, in one forest, among the branches of one active call, or just returned;
* `CallsOK`, `Nested`: a call of `pushLoopTree` works on a sub loop of the call around
  it, and `anyFail` is set exactly when a sub loop that it has looked at could not be
  represented; without a failure it holds a branch for each sub loop it has looked at;
* `PlantedOnce`, `PlantedDone`: a loop has at most one tree, and has one exactly when it
  can be represented and the calls have looked at it (`Done`);
* `ParsingOK`: the calls of `parseLoop` and `cut` name trees that exist, the forest that is
  parsed exists, and nothing is parsed or cut before planting is over.

The second: in a function whose loops can all be represented, for any accesses that
cannot and any sequence of `conditionOnLoop`, the nest of a tree holds the loops around
it that are left, and the omega of every access found has a place for each of them and
the whole, unless `conditionOnLoop` took out a loop that `parseLoop` was in over one of
its sub loops (`Overtaken`): the third way of finding 8 is the only one such a function has. Its
invariant is `PlantInv /\ FitInv`; `FitInv` is about such functions only: one part holds while the loops are planted and three from then on.

* While the loops are planted, `FitPlanting`: no call has failed, every tree has the
  nest that `AffineLoopNest::construct` gives its loop (`NestsWhole`), what a tree or a call holds is
  directly inside its loop, and a tree in a forest has no loop of its own.
* From then on, `FitPlanted`: what a tree holds has one loop more in its nest than is
  left of the tree around it (`Rest`, `HeldFit`), which is the tree of the loop around,
  or one without a loop and then the loop around is `Gone`; the parents that
  `LinkParents` set stay those that hold the trees; and around a root whose loop was cut there
  are only loops that are gone (`RootsGone`). `Gone` counts the loop that is being cut, since
  between two steps of `conditionOnLoop` what is split off is already without it.
* Also from then on, `FitParsed`: an access of a tree that a tree holds has an omega of the length of its nest and
  one, and `omega` and the blocks of `parseLoop` are sequences.
* Also from then on, `StackFit`, about the trees that `parseLoop` is in, from the root
  inwards: the omega has an entry for each; each but the root lies among the sub loops of the
  one before, or is held by no tree any more; and as long as none between it and the root
  was taken out, its nest has one loop for each tree above it (`Level`), which is
  what the assertion of `ArrayIndex::construct` needs. While `conditionOnLoop` runs, everything
  inside the tree it has come to is out already (`CutTo`). So when an omega does not fit,
  a tree other than the root and the innermost is missing from the tree around it
  (`Missing`); its loop is a root's that was cut, which is `Overtaken`.

The equation of `HeldFit` is what `conditionOnLoop` must keep while it peels two sets
of subtrees by different numbers of loops: `Losses` says what each tree loses
(everything inside the loop cut, all its loops; what is behind it, one fewer), that no tree
loses more than it has and that two trees, one of which holds the other, lose the same unless a
cut lies between them. `NestsFit` follows by the greatest tree that would violate it
(`LeftFacts`): its loops are one more than those left around the loop around it.

`Enclosed`, `Subtree` and `AffineNest` are recursive functions over loops and trees; nothing
about them is shown by induction. `Reach` is what a path of such steps
leads to, and `ReachOnly` shows that a function with the equations of `Enclosed` or
`Subtree` is it, by the least place where the two would differ; `AlongExists` gives the
functions that `AffineNest` and `Enclosing` name (`EnclosingIs`). That every tree is in a
forest (`AllInForest`) follows from `HeldOnce` by the greatest tree that no forest holds. There is one lemma per action (`PlantStep`,
`NoPathStep`, ...). The step of `conditionOnLoop` is the one that moves trees between
places: `CutBeforeFacts` and `BehindFacts` say what the tree around the loop keeps and
what is split off, `ConditionedHolders` what each tree holds then, and `TakenOut` that no
tree is lost by it or put in two places.
`TurboAssumption` is what is assumed: a loop is in one place of the loop around it and
has the greater number, the order of LLVM's loop info.

### What stays with TLC

Liveness and `ENABLED` are outside what the proof system supports: `Terminates`,
`Finishes`. What the exact algorithms compute (`NumbersExact`, `FormReached`,
`TableauSolves`, `PointsKept`, `DirectionTruthful` and so on) is a fact about functions
defined by recursion over numbers or rows; it needs induction over data, which the
installed provers cannot instantiate. So are the properties of `ShiftOmega`, whose
offsets come from the recursive elimination of `NormalForm`. Of `TurboLoop`,
`AccessesPlaced` stays with TLC: it compares the omegas of accesses with their places in the
program, a recursive function over the loops, and says that every access is found once
the forests are parsed to their end.

## 5. Plan

1. `AccessesPlaced` of the loop forest as a theorem, on top of `PlantInv` and `FitInv`.
2. `LoopTreeSchedule::init` and `placeAddr`, which read `satLvl` and the order of
   components and would show what findings 2 and 4 mean downstream.

## 6. Not modelled

`LoopTreeSchedule` and `placeAddr` (`CostModeling.hpp`), `maxBipartiteMatch` (only a test
calls it), the algebra of predicates, interning and merging of instructions, LLVM's
analyses and IR, printing, the expression templates of `Math/Array.hpp`, `TinyVector`,
`BumpMapSet` and `MapVector`, build files, benchmarks and tests. Within modelled
components: the rows of the scheduler's linear program (`instantiateOmniSimplex`), the
blacklist of `arrayRef`, `removeOuterMost`, `bareiss` and `unimodularize`, the upward
variant and the move constructor of `BumpAlloc`, the pointer-graph overloads of
`Graphs.hpp`.

## 7. Running

    tlc -workers 2 -config LoopBlock_pass.cfg MCBlocks
    tlc -workers 2 -config LoopBlock_ends.cfg MCLoopBlock
    tlc -workers 2 -config Containers_pass.cfg MCContainers
    tlc -workers 2 -config Algorithms_pass.cfg MCAlgorithms
    tlapm BumpAllocProofs.tla
    tlapm StronglyConnectedProofs.tla
    tlapm LoopBlockProofs.tla
    tlapm VectorProofs.tla
    tlapm BitSetProofs.tla
    tlapm MatrixOpsProofs.tla
    tlapm GraphBuildProofs.tla
    tlapm TurboLoopProofs.tla

`PROJECT.json` lists every run with its configuration, for each property a
definition with a plausible error that breaks it (the operators marked
"Mutant" in the modules), and for each definition the lines it models.
