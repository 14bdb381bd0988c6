----------------------------- MODULE BumpAlloc -----------------------------
(***************************************************************************)
(* The bump-down allocator BumpAlloc<SlabSize, false, MinAlignment> of     *)
(* include/Utilities/Allocators.hpp, the arena every graph, polyhedron and *)
(* schedule of the optimizer lives in, together with the clients that use  *)
(* it: they allocate, grow and free blocks, and nest checkpoints that a    *)
(* rollback (or the destructor of a ScopeLifetime) ends.                   *)
(*                                                                         *)
(* Addresses are integers.  The buffers that llvm::allocate_buffer hands   *)
(* out start at the addresses of Heap; HeapGap says that two of them are   *)
(* never contiguous, as every malloc keeps a header in front of a buffer.  *)
(***************************************************************************)
EXTENDS Integers, Sequences

CONSTANTS
  SlabSize,        \* bytes of a slab
  MinAlignment,    \* alignof(std::max_align_t)
  Sizes,           \* the sizes that clients ask for
  Aligns,          \* the alignments that clients ask for
  Heap,            \* the addresses at which allocate_buffer may place a buffer
  Span,            \* no buffer is larger than Span
  Block,           \* names for the blocks that clients hold
  MaxCheckPoints   \* how deep clients nest checkpoints

ASSUME SlabAssumption ==
  /\ SlabSize \in Nat \ {0} /\ MinAlignment \in Nat \ {0}
  /\ SlabSize % MinAlignment = 0

\* Alignments are powers of two.
ASSUME RequestAssumption ==
  /\ Sizes \subseteq Nat
  /\ Aligns \subseteq 1 .. SlabSize \div 2
  /\ \A a \in Aligns : IF a > MinAlignment THEN a % MinAlignment = 0 ELSE MinAlignment % a = 0

ASSUME HeapAssumption ==
  /\ Heap \subseteq Nat /\ Span \in Nat /\ MaxCheckPoints \in Nat
  /\ SlabSize <= Span /\ \A n \in Sizes : n <= Span

ASSUME HeapAligned == Span % MinAlignment = 0 /\ \A b \in Heap : b % MinAlignment = 0

ASSUME HeapGap == \A a, b \in Heap : a < b => a + Span < b

VARIABLES
  alloc,     \* the allocator's fields: slab, sEnd, slabs, customSlabs
  live,      \* the blocks that a client holds
  blk,       \* where each of them is, its size, alignment and nesting depth
  chk,       \* the checkpoints in scope, outermost first
  misplaced  \* history: a rollback abandoned a slab that its checkpoint was in

vars == <<alloc, live, blk, chk, misplaced>>

NoBlock == [ptr |-> 0, size |-> 0, align |-> 1, depth |-> 0]

----------------------------------------------------------------------------
(* Alignment and the slab pointer.                                         *)

\* align(size_t, size_t): the least multiple of a at or above x.
AlignUp(x, a) == a * ((x + a - 1) \div a)

\* align(void *, size_t) when bumping down.
AlignDown(p, a) == a * (p \div a)

\* The bytes that the block of size n takes away from a slab.
Footprint(n) == AlignUp(n, MinAlignment)

\* Mutant: the bound is off by one block.
outOfSlabMutant(cur, lst) == cur + MinAlignment < lst
outOfSlab(cur, lst) == cur < lst

initSlab(a, p) == [a EXCEPT !.slab = p + SlabSize, !.sEnd = p]

newSlab(a, base) == initSlab([a EXCEPT !.slabs = Append(@, base)], base)

\* The slab pointer after a block of size n is carved; also the block's address.
allocCore(slab, n, align) ==
  IF align > MinAlignment
    THEN AlignDown(slab - n, align)
    ELSE slab - Footprint(n)

NeedsSlab(a, n, align) == outOfSlab(allocCore(a.slab, n, align), a.sEnd)

bumpAlloc(a, n, align, base) ==
  LET from == IF NeedsSlab(a, n, align) THEN newSlab(a, base) ELSE a
  IN  [from EXCEPT !.slab = allocCore(from.slab, n, align)]

IsCustom(n) == n > SlabSize \div 2

allocate(a, n, align, base) ==
  IF IsCustom(n)
    THEN [ptr |-> base, alloc |-> [a EXCEPT !.customSlabs = @ \union {base}]]
    ELSE LET b == bumpAlloc(a, n, align, base) IN [ptr |-> b.slab, alloc |-> b]

InUse(a) == {a.slabs[i] : i \in 1 .. Len(a.slabs)} \union a.customSlabs

\* What llvm::allocate_buffer may return, when allocate needs a buffer at all.
Buffers(a, n, align) ==
  IF IsCustom(n) \/ NeedsSlab(a, n, align) THEN Heap \ InUse(a) ELSE {a.sEnd}

\* Mutant: the test for the last block is missing.
deallocateAnywhere(a, p, n) == [a EXCEPT !.slab = p + Footprint(n)]
\* Mutant: the size is not rounded as allocate rounds it.
deallocateUnrounded(a, p, n) == IF p = a.slab THEN [a EXCEPT !.slab = @ + n] ELSE a
deallocate(a, p, n) ==
  IF p = a.slab THEN [a EXCEPT !.slab = @ + Footprint(n)] ELSE a

\* Mutant: the alignment asked for is ignored.
GrownMinAligned(a, old, n, align) == a.slab - AlignUp(n - old, MinAlignment)

\* Where tryReallocate moves the slab pointer, if it moves it.
Grown(a, old, n, align) ==
  a.slab - AlignUp(n - old, IF align > MinAlignment THEN align ELSE MinAlignment)

\* tryReallocate leaves the slab pointer moved even when the slab is too short.
tryReallocate(a, p, old, n, align) ==
  IF p = a.slab THEN [a EXCEPT !.slab = Grown(a, old, n, align)] ELSE a

GrowsInPlace(a, p, old, n, align) ==
  p = a.slab /\ ~outOfSlab(Grown(a, old, n, align), a.sEnd)

\* Mutant: the last address of the slab is left out.
isInSlabShort(p, send) == p > send /\ p < send + SlabSize
isInSlab(p, send) == p > send /\ p <= send + SlabSize

rollback(a, p) ==
  IF isInSlab(p, a.sEnd)
    THEN [a EXCEPT !.slab = p]
    ELSE initSlab(a, a.slabs[Len(a.slabs)])

reset(a) ==
  [initSlab(a, a.slabs[1]) EXCEPT !.slabs = SubSeq(@, 1, 1), !.customSlabs = {}]

----------------------------------------------------------------------------
(* Clients.                                                                *)

Depth == Len(chk)

Allocate(b, n, align) ==
  /\ b \notin live
  /\ \E base \in Buffers(alloc, n, align) :
       LET r == allocate(alloc, n, align, base)
       IN  /\ alloc' = r.alloc
           /\ blk' = [blk EXCEPT ![b] = [ptr |-> r.ptr, size |-> n,
                                         align |-> align, depth |-> Depth]]
  /\ live' = live \union {b}
  /\ UNCHANGED <<chk, misplaced>>

Deallocate(b) ==
  /\ b \in live
  /\ alloc' = deallocate(alloc, blk[b].ptr, blk[b].size)
  /\ live' = live \ {b}
  /\ blk' = [blk EXCEPT ![b] = NoBlock]
  /\ UNCHANGED <<chk, misplaced>>

\* A client only resizes a block of the innermost scope: what was allocated
\* before a checkpoint is not regrown until that checkpoint is gone.
MayResize(b) == b \in live /\ blk[b].depth = Depth

\* reallocate with szOld >= szNew: the early return.
Shrink(b, n) ==
  /\ MayResize(b)
  /\ n <= blk[b].size
  /\ blk' = [blk EXCEPT ![b].size = n]
  /\ UNCHANGED <<alloc, live, chk, misplaced>>

\* reallocate when tryReallocate succeeds.
GrowInPlace(b, n) ==
  LET old == blk[b]
  IN  /\ MayResize(b)
      /\ n > old.size
      /\ GrowsInPlace(alloc, old.ptr, old.size, n, old.align)
      /\ alloc' = tryReallocate(alloc, old.ptr, old.size, n, old.align)
      /\ blk' = [blk EXCEPT ![b].ptr = alloc'.slab, ![b].size = n]
      /\ UNCHANGED <<live, chk, misplaced>>

\* reallocate when tryReallocate fails: allocate elsewhere and free the old block.
GrowElsewhere(b, n) ==
  LET old  == blk[b]
      left == tryReallocate(alloc, old.ptr, old.size, n, old.align)
  IN  /\ MayResize(b)
      /\ n > old.size
      /\ ~GrowsInPlace(alloc, old.ptr, old.size, n, old.align)
      /\ \E base \in Buffers(left, n, old.align) :
           LET r == allocate(left, n, old.align, base)
           IN  /\ alloc' = IF old.size = 0 THEN r.alloc
                           ELSE deallocate(r.alloc, old.ptr, old.size)
               /\ blk' = [blk EXCEPT ![b].ptr = r.ptr, ![b].size = n]
      /\ UNCHANGED <<live, chk, misplaced>>

\* home, the slab that the checkpoint was taken in, is known to no code.
CheckPoint ==
  /\ Depth < MaxCheckPoints
  /\ chk' = Append(chk, [p |-> alloc.slab, home |-> alloc.sEnd])
  /\ UNCHANGED <<alloc, live, blk, misplaced>>

\* Roll back to the k-th checkpoint, which may stay in scope; the blocks
\* allocated after it and the checkpoints inside it are gone.
Rollback(k, keep) ==
  LET c    == chk[k]
      dead == {b \in live : blk[b].depth >= k}
  IN  /\ k <= Depth
      /\ alloc' = rollback(alloc, c.p)
      /\ live' = live \ dead
      /\ blk' = [b \in Block |-> IF b \in dead THEN NoBlock ELSE blk[b]]
      /\ chk' = SubSeq(chk, 1, IF keep THEN k ELSE k - 1)
      /\ misplaced' = (misplaced \/ (c.home = alloc.sEnd /\ ~isInSlab(c.p, alloc.sEnd)))

Reset ==
  /\ alloc' = reset(alloc)
  /\ live' = {}
  /\ blk' = [b \in Block |-> NoBlock]
  /\ chk' = <<>>
  /\ misplaced' = FALSE

Init ==
  /\ \E base \in Heap :
       alloc = [slab |-> base + SlabSize, sEnd |-> base, slabs |-> <<base>>,
                customSlabs |-> {}]
  /\ live = {}
  /\ blk = [b \in Block |-> NoBlock]
  /\ chk = <<>>
  /\ misplaced = FALSE

Next ==
  \/ \E b \in Block, n \in Sizes, align \in Aligns : Allocate(b, n, align)
  \/ \E b \in Block : Deallocate(b)
  \/ \E b \in Block, n \in Sizes : Shrink(b, n) \/ GrowInPlace(b, n) \/ GrowElsewhere(b, n)
  \/ CheckPoint
  \/ \E k \in 1 .. MaxCheckPoints, keep \in BOOLEAN : Rollback(k, keep)
  \/ Reset

Spec == Init /\ [][Next]_vars

----------------------------------------------------------------------------
(* Properties.                                                             *)

\* The types, and what allocCore's invariant(slab % MinAlignment == 0) and
\* rollback's use of slabs.back() rely on: the slab pointer is aligned and not
\* above its slab, and the slab in use is the newest one.
TypeOK ==
  /\ alloc \in [slab : Int, sEnd : Heap, slabs : Seq(Heap), customSlabs : SUBSET Heap]
  /\ Len(alloc.slabs) > 0 /\ alloc.sEnd = alloc.slabs[Len(alloc.slabs)]
  /\ alloc.slab % MinAlignment = 0 /\ alloc.slab <= alloc.sEnd + SlabSize
  /\ live \subseteq Block
  /\ blk \in [Block -> [ptr : Int, size : Sizes \union {0},
                       align : Aligns \union {1}, depth : Nat]]
  /\ chk \in Seq([p : Int, home : Heap])

Overlap(b, c) ==
  /\ blk[b].ptr < blk[c].ptr + blk[c].size
  /\ blk[c].ptr < blk[b].ptr + blk[b].size

\* No two blocks that clients hold share a byte, what allocate's gnu::malloc
\* attribute (Allocators.hpp:49) promises the compiler.
NoOverlap == \A b, c \in live : b # c /\ blk[b].size > 0 /\ blk[c].size > 0 => ~Overlap(b, c)

\* However allocations, growth, frees, nested checkpoints and rollbacks follow
\* one another, blocks stay disjoint unless a rollback took a checkpoint of the
\* current slab for one of an older slab.
NoOverlapUnlessMisplaced == ~misplaced => NoOverlap

\* Every byte of a held block lies in one slab or one custom buffer that is
\* still allocated, across slab changes, rollbacks and failed in-place growth.
LiveInBuffers ==
  \A b \in live :
    \/ \E i \in 1 .. Len(alloc.slabs) :
         /\ alloc.slabs[i] <= blk[b].ptr
         /\ blk[b].ptr + blk[b].size <= alloc.slabs[i] + SlabSize
    \/ blk[b].ptr \in alloc.customSlabs

\* Blocks carved from a slab keep the alignment asked for, also when they grow
\* in place; custom buffers only have MinAlignment.
BumpedBlocksAligned ==
  \A b \in live : blk[b].ptr \notin alloc.customSlabs => blk[b].ptr % blk[b].align = 0

\* A rollback abandons the slab its checkpoint was taken in only when that slab
\* had no byte left at the checkpoint: isInSlab recognises every other address.
MisplacedOnlyWhenFull ==
  [][\A k \in 1 .. MaxCheckPoints, keep \in BOOLEAN :
       Rollback(k, keep) /\ misplaced' /\ ~misplaced => chk[k].p <= chk[k].home]_vars
=============================================================================
