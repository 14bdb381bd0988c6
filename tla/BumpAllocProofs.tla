-------------------------- MODULE BumpAllocProofs --------------------------
(***************************************************************************)
(* Proofs about BumpAlloc for every slab size, alignment, heap layout and  *)
(* number of clients: its type invariant, that every held block stays in a *)
(* buffer that is still allocated, and that held blocks stay disjoint as   *)
(* long as no rollback misplaces its checkpoint.                           *)
(***************************************************************************)
EXTENDS BumpAlloc, TLAPS

USE SlabAssumption

----------------------------------------------------------------------------
(* Arithmetic of alignment.                                                *)

\* Division and remainder by a positive number.
LEMMA DivMod ==
  ASSUME NEW x \in Int, NEW a \in Nat \ {0}
  PROVE  /\ x \div a \in Int
         /\ x = (a * (x \div a)) + (x % a)
         /\ x % a \in 0 .. a - 1
  BY SMT

\* A product is a multiple.
LEMMA ProductMod ==
  ASSUME NEW q \in Int, NEW a \in Nat \ {0}
  PROVE  (a * q) % a = 0
  BY SMT

\* Multiples are closed under sums and differences.
LEMMA MultipleSum ==
  ASSUME NEW a \in Nat \ {0}, NEW x \in Int, NEW y \in Int, x % a = 0, y % a = 0
  PROVE  (x + y) % a = 0 /\ (x - y) % a = 0
<1> DEFINE q == x \div a  r == y \div a
<1>1. x = a * q /\ y = a * r /\ q \in Int /\ r \in Int
  BY DivMod
<1>2. x + y = a * (q + r) /\ x - y = a * (q - r)
  BY <1>1
<1>3. (a * (q + r)) % a = 0 /\ (a * (q - r)) % a = 0
  BY ProductMod, <1>1
<1> QED
  BY <1>2, <1>3

\* A multiple of a multiple of m is a multiple of m.
LEMMA MultipleTrans ==
  ASSUME NEW m \in Nat \ {0}, NEW a \in Nat \ {0}, NEW x \in Int, x % a = 0, a % m = 0
  PROVE  x % m = 0
<1> DEFINE q == x \div a  r == a \div m
<1>1. x = a * q /\ a = m * r /\ q \in Int /\ r \in Int
  BY DivMod
<1>2. x = m * (r * q) /\ r * q \in Int
  BY <1>1
<1> QED
  BY <1>2, ProductMod

\* AlignUp rounds up to a multiple, by less than a.
LEMMA AlignUpFacts ==
  ASSUME NEW x \in Nat, NEW a \in Nat \ {0}
  PROVE  /\ AlignUp(x, a) \in Nat /\ AlignUp(x, a) % a = 0
         /\ x <= AlignUp(x, a) /\ AlignUp(x, a) < x + a
<1> DEFINE q == (x + a - 1) \div a
<1>0. x + a - 1 \in Int
  OBVIOUS
<1>1. q \in Int /\ x + a - 1 = (a * q) + ((x + a - 1) % a) /\ (x + a - 1) % a \in 0 .. a - 1
  BY <1>0, DivMod
<1>2. a * q \in Int /\ x <= a * q /\ a * q < x + a
  BY <1>1
<1>3. (a * q) % a = 0
  BY <1>1, ProductMod
<1> QED
  BY <1>2, <1>3 DEF AlignUp

\* AlignUp is the least such multiple.
LEMMA AlignUpLeast ==
  ASSUME NEW x \in Nat, NEW a \in Nat \ {0}, NEW y \in Int, y % a = 0, x <= y
  PROVE  AlignUp(x, a) <= y
<1> DEFINE q == (x + a - 1) \div a  r == y \div a
<1>0. x + a - 1 \in Int
  OBVIOUS
<1>1. q \in Int /\ x + a - 1 = (a * q) + ((x + a - 1) % a) /\ (x + a - 1) % a \in 0 .. a - 1
  BY <1>0, DivMod
<1>2. r \in Int /\ y = a * r
  BY DivMod
<1>3. a * q < (a * r) + a
  BY <1>1, <1>2
<1>4. a * q < a * (r + 1)
  BY <1>1, <1>2, <1>3
<1>5. q <= r
  BY <1>1, <1>2, <1>4
<1>6. a * q <= a * r
  BY <1>1, <1>2, <1>5
<1> QED
  BY <1>2, <1>6 DEF AlignUp

\* AlignDown rounds down to a multiple, by less than a.
LEMMA AlignDownFacts ==
  ASSUME NEW x \in Int, NEW a \in Nat \ {0}
  PROVE  /\ AlignDown(x, a) \in Int /\ AlignDown(x, a) % a = 0
         /\ AlignDown(x, a) <= x /\ x < AlignDown(x, a) + a
<1>1. /\ x \div a \in Int /\ x = (a * (x \div a)) + (x % a) /\ x % a \in 0 .. a - 1
  BY DivMod
<1>2. (a * (x \div a)) % a = 0
  BY <1>1, ProductMod
<1> QED
  BY <1>1, <1>2 DEF AlignDown

\* What a block takes away from a slab.
LEMMA FootprintFacts ==
  ASSUME NEW n \in Nat
  PROVE  /\ Footprint(n) \in Nat /\ Footprint(n) % MinAlignment = 0
         /\ n <= Footprint(n) /\ (n = 0 => Footprint(n) = 0)
         /\ (n <= Span => Footprint(n) <= Span)
         /\ (n <= SlabSize => Footprint(n) <= SlabSize)
<1>1. 0 % MinAlignment = 0
  BY ProductMod, 0 = MinAlignment * 0
<1>2. n = 0 => AlignUp(n, MinAlignment) <= 0
  BY <1>1, AlignUpLeast
<1>3. n <= Span => AlignUp(n, MinAlignment) <= Span
  BY AlignUpLeast, HeapAssumption, HeapAligned
<1>4. n <= SlabSize => AlignUp(n, MinAlignment) <= SlabSize
  BY AlignUpLeast
<1> QED
  BY <1>2, <1>3, <1>4, AlignUpFacts, HeapAssumption DEF Footprint

\* The bounds on addresses.
LEMMA HeapFacts == Heap \subseteq Nat /\ Span \in Nat /\ SlabSize <= Span
  BY HeapAssumption

\* The bounds on requests.
LEMMA RequestFacts ==
  /\ Sizes \union {0} \subseteq Nat
  /\ Aligns \union {1} \subseteq Nat \ {0}
  /\ \A n \in Sizes \union {0} : n <= Span
<1>1. Sizes \subseteq Nat /\ Aligns \subseteq Nat \ {0}
  BY RequestAssumption
<1>2. \A n \in Sizes : n <= Span
  BY HeapAssumption
<1> QED
  BY <1>1, <1>2, HeapFacts

\* A function changed at one argument.
LEMMA Override ==
  ASSUME NEW A, NEW R, NEW f \in [A -> R], NEW b \in A, NEW x \in R
  PROVE  [f EXCEPT ![b] = x] \in [A -> R]
  OBVIOUS

\* An element of a sequence.
LEMMA Element ==
  ASSUME NEW S, NEW s \in Seq(S), NEW i \in 1 .. Len(s)
  PROVE  s[i] \in S
  OBVIOUS

\* A prefix of a sequence.
LEMMA Prefix ==
  ASSUME NEW S, NEW s \in Seq(S), NEW m \in 0 .. Len(s)
  PROVE  /\ SubSeq(s, 1, m) \in Seq(S) /\ Len(SubSeq(s, 1, m)) = m
         /\ \A j \in 1 .. m : j \in 1 .. Len(s) /\ SubSeq(s, 1, m)[j] = s[j]
  OBVIOUS

----------------------------------------------------------------------------
(* One allocation.                                                         *)

\* What is true of the allocator's fields at all times.
AllocOK(a) ==
  /\ a \in [slab : Int, sEnd : Heap, slabs : Seq(Heap), customSlabs : SUBSET Heap]
  /\ Len(a.slabs) > 0 /\ a.sEnd = a.slabs[Len(a.slabs)]
  /\ a.slab % MinAlignment = 0 /\ a.slab <= a.sEnd + SlabSize
  /\ \A i \in 1 .. Len(a.slabs) : a.slabs[i] \notin a.customSlabs

Region(base, p) == base <= p /\ p <= base + Span

InBuffer(a, p, n) ==
  \/ \E i \in 1 .. Len(a.slabs) :
       a.slabs[i] <= p /\ p + Footprint(n) <= a.slabs[i] + SlabSize
  \/ p \in a.customSlabs /\ Footprint(n) <= Span

\* Two buffers are never contiguous.
LEMMA GapFacts ==
  ASSUME NEW b \in Heap, NEW c \in Heap, b # c
  PROVE  b + Span < c \/ c + Span < b
<1>1. b \in Nat /\ c \in Nat
  BY HeapFacts
<1>2. b < c \/ c < b
  BY <1>1
<1> QED
  BY <1>2, HeapGap

\* An address lies in the region of one buffer at most.
LEMMA OneRegion ==
  ASSUME NEW b \in Heap, NEW c \in Heap, NEW p \in Int, Region(b, p), Region(c, p)
  PROVE  b = c
<1>1. b \in Int /\ c \in Int /\ Span \in Int
  BY HeapFacts
<1>2. ~(b < c) /\ ~(c < b)
  BY <1>1, HeapGap DEF Region
<1> QED
  BY <1>1, <1>2

\* A block in a buffer lies in the region of that buffer.
LEMMA BufferRegion ==
  ASSUME NEW a, AllocOK(a), NEW p \in Int, NEW n \in Nat, InBuffer(a, p, n)
  PROVE  \E base \in InUse(a) : /\ base \in Heap /\ Region(base, p)
                                /\ p + Footprint(n) <= base + Span
<1>1. Footprint(n) \in Nat
  BY FootprintFacts
<1>2. ASSUME NEW i \in 1 .. Len(a.slabs),
             a.slabs[i] <= p, p + Footprint(n) <= a.slabs[i] + SlabSize
      PROVE  \E base \in InUse(a) : /\ base \in Heap /\ Region(base, p)
                                    /\ p + Footprint(n) <= base + Span
  <2>0. a.slabs \in Seq(Heap) /\ Len(a.slabs) \in Nat
    BY DEF AllocOK
  <2>1. a.slabs[i] \in InUse(a) /\ a.slabs[i] \in Heap
    BY <2>0 DEF InUse
  <2>2. a.slabs[i] \in Nat
    BY <2>1, HeapFacts
  <2>3. Region(a.slabs[i], p) /\ p + Footprint(n) <= a.slabs[i] + Span
    BY <1>1, <1>2, <2>2, HeapFacts DEF Region
  <2> QED
    BY <2>1, <2>3
<1>3. ASSUME p \in a.customSlabs, Footprint(n) <= Span
      PROVE  \E base \in InUse(a) : /\ base \in Heap /\ Region(base, p)
                                    /\ p + Footprint(n) <= base + Span
  <2>1. p \in InUse(a) /\ p \in Heap
    BY <1>3 DEF AllocOK, InUse
  <2>2. Region(p, p) /\ p + Footprint(n) <= p + Span
    BY <1>1, <1>3, HeapFacts DEF Region
  <2> QED
    BY <2>1, <2>2
<1> QED
  BY <1>2, <1>3 DEF InBuffer

\* Carving a block of size n moves an aligned slab pointer down by at least
\* the block's footprint and keeps it aligned.
LEMMA CarveFacts ==
  ASSUME NEW slab \in Int, slab % MinAlignment = 0,
         NEW n \in Sizes, NEW align \in Aligns \union {1}
  PROVE  /\ allocCore(slab, n, align) \in Int
         /\ allocCore(slab, n, align) % MinAlignment = 0
         /\ allocCore(slab, n, align) + Footprint(n) <= slab
         /\ ~IsCustom(n) => slab - SlabSize <= allocCore(slab, n, align)
<1> DEFINE p == allocCore(slab, n, align)  half == SlabSize \div 2
<1>1. n \in Nat /\ align \in Nat \ {0}
  BY RequestFacts
<1>2. half \in Nat /\ half + half <= SlabSize
  OBVIOUS
<1>3. /\ Footprint(n) \in Nat /\ Footprint(n) % MinAlignment = 0
      /\ n <= SlabSize => Footprint(n) <= SlabSize
  BY <1>1, FootprintFacts
<1>4. CASE align > MinAlignment
  <2>1. align <= half /\ align % MinAlignment = 0
    <3>1. align \in Aligns
      BY <1>4
    <3> QED
      BY <3>1, <1>4, RequestAssumption
  <2>2. p = AlignDown(slab - n, align) /\ slab - n \in Int
    BY <1>1, <1>4 DEF allocCore
  <2>3. p \in Int /\ p % align = 0 /\ p <= slab - n /\ slab - n < p + align
    BY <1>1, <2>2, AlignDownFacts
  <2>4. p % MinAlignment = 0
    BY <1>1, <2>1, <2>3, MultipleTrans
  <2> HIDE DEF p
  <2>5. (slab - p) % MinAlignment = 0 /\ slab - p \in Int /\ n <= slab - p
    BY <1>1, <2>3, <2>4, MultipleSum
  <2>6. Footprint(n) <= slab - p
    BY <1>1, <2>5, AlignUpLeast DEF Footprint
  <2>7. ~IsCustom(n) => slab - SlabSize <= p
    BY <1>1, <1>2, <2>1, <2>3 DEF IsCustom
  <2>8. p + Footprint(n) <= slab
    BY <1>3, <2>3, <2>6
  <2> QED
    BY <2>3, <2>4, <2>7, <2>8 DEF p
<1>5. CASE ~(align > MinAlignment)
  <2>1. p = slab - Footprint(n)
    BY <1>5 DEF allocCore
  <2>2. p \in Int /\ p % MinAlignment = 0 /\ p + Footprint(n) <= slab
    BY <1>3, <2>1, MultipleSum
  <2>3. ~IsCustom(n) => slab - SlabSize <= p
    BY <1>1, <1>2, <1>3, <2>1 DEF IsCustom
  <2> QED
    BY <2>2, <2>3
<1> QED
  BY <1>4, <1>5

\* What the fields of AllocOK say one by one.
LEMMA AllocFields ==
  ASSUME NEW a, AllocOK(a)
  PROVE  /\ a \in [slab : Int, sEnd : Heap, slabs : Seq(Heap), customSlabs : SUBSET Heap]
         /\ a.slab \in Int /\ a.sEnd \in Heap /\ a.sEnd \in Nat
         /\ a.slabs \in Seq(Heap) /\ Len(a.slabs) \in Nat \ {0}
         /\ a.customSlabs \subseteq Heap
         /\ a.sEnd = a.slabs[Len(a.slabs)]
<1>1. a \in [slab : Int, sEnd : Heap, slabs : Seq(Heap), customSlabs : SUBSET Heap]
  BY DEF AllocOK
<1>2. a.sEnd \in Heap /\ a.slabs \in Seq(Heap)
  BY <1>1
<1>3. a.sEnd \in Nat
  BY <1>2, HeapFacts
<1>4. Len(a.slabs) \in Nat /\ Len(a.slabs) > 0
  BY <1>2 DEF AllocOK
<1> QED
  BY <1>1, <1>3, <1>4 DEF AllocOK

\* Moving the slab pointer to an aligned address not above the slab.
LEMMA MoveSlab ==
  ASSUME NEW a, AllocOK(a), NEW p \in Int, p % MinAlignment = 0, p <= a.sEnd + SlabSize,
         NEW f, f = [a EXCEPT !.slab = p]
  PROVE  /\ AllocOK(f) /\ f.slab = p /\ f.sEnd = a.sEnd /\ InUse(f) = InUse(a)
         /\ f.slabs = a.slabs /\ f.customSlabs = a.customSlabs
         /\ \A q \in Int, n \in Nat : InBuffer(a, q, n) <=> InBuffer(f, q, n)
<1>1. f = [slab |-> p, sEnd |-> a.sEnd, slabs |-> a.slabs, customSlabs |-> a.customSlabs]
  BY AllocFields
<1>2. f \in [slab : Int, sEnd : Heap, slabs : Seq(Heap), customSlabs : SUBSET Heap]
  BY <1>1, AllocFields
<1>3. AllocOK(f)
  BY <1>1, <1>2 DEF AllocOK
<1> QED
  BY <1>1, <1>3 DEF InBuffer, InUse

\* A slab that was never in use, pushed as the newest one.
LEMMA NewSlabFacts ==
  ASSUME NEW a, AllocOK(a), NEW base \in Heap \ InUse(a),
         NEW f, f = newSlab(a, base)
  PROVE  /\ AllocOK(f) /\ f.sEnd = base /\ f.slab = base + SlabSize
         /\ \A p \in Int, n \in Nat : InBuffer(a, p, n) => InBuffer(f, p, n)
<1>1. base \in Heap /\ base \in Nat
  BY HeapFacts
<1>2. f = [slab |-> base + SlabSize, sEnd |-> base, slabs |-> Append(a.slabs, base),
           customSlabs |-> a.customSlabs]
  <2> DEFINE g == [slab |-> a.slab, sEnd |-> a.sEnd, slabs |-> Append(a.slabs, base),
                   customSlabs |-> a.customSlabs]
  <2>0. a \in [slab : Int, sEnd : Heap, slabs : Seq(Heap), customSlabs : SUBSET Heap]
    BY AllocFields
  <2>1. [a EXCEPT !.slabs = Append(@, base)] = g
    <3>1. a = [slab |-> a.slab, sEnd |-> a.sEnd, slabs |-> a.slabs, customSlabs |-> a.customSlabs]
      BY <2>0
    <3> QED
      BY <3>1
  <2>2. f = initSlab(g, base)
    BY <2>1 DEF newSlab
  <2> QED
    BY <2>2 DEF initSlab
<1>3. /\ f.slabs \in Seq(Heap) /\ Len(f.slabs) = Len(a.slabs) + 1
      /\ f.slabs[Len(f.slabs)] = base
      /\ \A i \in 1 .. Len(a.slabs) : f.slabs[i] = a.slabs[i]
  BY <1>1, <1>2, AllocFields
<1>4. \A i \in 1 .. Len(f.slabs) : f.slabs[i] \notin f.customSlabs
  <2>1. base \notin a.customSlabs
    BY DEF InUse
  <2>2. \A i \in 1 .. Len(a.slabs) : a.slabs[i] \notin a.customSlabs
    BY DEF AllocOK
  <2> QED
    BY <1>2, <1>3, <2>1, <2>2, AllocFields
<1>5. (base + SlabSize) % MinAlignment = 0
  <2>1. base % MinAlignment = 0
    BY HeapAligned
  <2>2. base \in Int /\ SlabSize \in Int
    BY <1>1
  <2> QED
    BY <2>1, <2>2, MultipleSum
<1>6. AllocOK(f)
  <2>1. f \in [slab : Int, sEnd : Heap, slabs : Seq(Heap), customSlabs : SUBSET Heap]
    BY <1>1, <1>2, <1>3, AllocFields
  <2>2. Len(f.slabs) > 0
    BY <1>3, AllocFields
  <2> QED
    BY <1>1, <1>2, <1>3, <1>4, <1>5, <2>1, <2>2 DEF AllocOK
<1>7. ASSUME NEW p \in Int, NEW n \in Nat, InBuffer(a, p, n)
      PROVE  InBuffer(f, p, n)
  BY <1>2, <1>3, <1>7, AllocFields DEF InBuffer
<1>8. f.sEnd = base /\ f.slab = base + SlabSize
  BY <1>2
<1> QED
  BY <1>6, <1>7, <1>8

\* Where allocate puts a block: at the start of a buffer of its own, just
\* below the slab pointer, or in a new slab.
Placed(a, a2, p, n) ==
  \/ a2.slab = a.slab /\ a2.sEnd = a.sEnd /\ p \in Heap \ InUse(a)
  \/ /\ a2.sEnd = a.sEnd /\ a2.slab = p
     /\ a.sEnd <= p /\ p + Footprint(n) <= a.slab
  \/ /\ a2.sEnd \in Heap \ InUse(a) /\ a2.slab = p
     /\ a2.sEnd <= p /\ p + Footprint(n) <= a2.sEnd + SlabSize

\* One call of allocate keeps the fields and all blocks in order.
LEMMA AllocateFacts ==
  ASSUME NEW a, AllocOK(a), NEW n \in Sizes, NEW align \in Aligns \union {1},
         NEW base \in Buffers(a, n, align),
         NEW r, r = allocate(a, n, align, base)
  PROVE  /\ AllocOK(r.alloc) /\ r.ptr \in Int /\ InBuffer(r.alloc, r.ptr, n)
         /\ \A p \in Int, k \in Nat : InBuffer(a, p, k) => InBuffer(r.alloc, p, k)
         /\ Placed(a, r.alloc, r.ptr, n)
<1>1. n \in Nat /\ n <= Span /\ align \in Nat \ {0}
  BY RequestFacts
<1>2. Footprint(n) \in Nat /\ Footprint(n) <= Span
  BY <1>1, FootprintFacts
<1>3. a.slab % MinAlignment = 0 /\ a.slab <= a.sEnd + SlabSize
  BY DEF AllocOK
<1>4. CASE IsCustom(n)
  <2>1. base \in Heap \ InUse(a) /\ base \in Nat
    BY <1>4, HeapFacts DEF Buffers
  <2>2. r.ptr = base /\ r.alloc = [a EXCEPT !.customSlabs = @ \union {base}]
    BY <1>4 DEF allocate
  <2>3. r.alloc = [slab |-> a.slab, sEnd |-> a.sEnd, slabs |-> a.slabs,
                   customSlabs |-> a.customSlabs \union {base}]
    <3>1. a \in [slab : Int, sEnd : Heap, slabs : Seq(Heap), customSlabs : SUBSET Heap]
      BY AllocFields
    <3> QED
      BY <2>2, <3>1
  <2>4. AllocOK(r.alloc)
    BY <2>1, <2>3, AllocFields DEF AllocOK, InUse
  <2>5. InBuffer(r.alloc, r.ptr, n)
    BY <1>2, <2>2, <2>3 DEF InBuffer
  <2>6. \A p \in Int, k \in Nat : InBuffer(a, p, k) => InBuffer(r.alloc, p, k)
    BY <2>3 DEF InBuffer
  <2>7. Placed(a, r.alloc, r.ptr, n)
    BY <2>1, <2>2, <2>3 DEF Placed
  <2>8. r.ptr \in Int
    BY <2>1, <2>2
  <2> QED
    BY <2>4, <2>5, <2>6, <2>7, <2>8
<1>5. CASE ~IsCustom(n) /\ ~NeedsSlab(a, n, align)
  <2> DEFINE p == allocCore(a.slab, n, align)
  <2>1. p \in Int /\ p % MinAlignment = 0 /\ p + Footprint(n) <= a.slab
    BY <1>3, CarveFacts, AllocFields
  <2>2. a.sEnd <= p
    BY <1>5, <2>1, AllocFields DEF NeedsSlab, outOfSlab
  <2>3. r.ptr = p /\ r.alloc = [a EXCEPT !.slab = p]
    <3>1. bumpAlloc(a, n, align, base) = [a EXCEPT !.slab = p]
      BY <1>5 DEF bumpAlloc
    <3>2. [a EXCEPT !.slab = p].slab = p
      BY AllocFields
    <3> QED
      BY <1>5, <3>1, <3>2 DEF allocate
  <2> HIDE DEF p
  <2>4. p <= a.sEnd + SlabSize
    BY <1>2, <1>3, <2>1, AllocFields
  <2>5. /\ AllocOK(r.alloc) /\ r.alloc.slab = p /\ r.alloc.sEnd = a.sEnd
        /\ r.alloc.slabs = a.slabs
        /\ \A q \in Int, k \in Nat : InBuffer(a, q, k) => InBuffer(r.alloc, q, k)
    BY <2>1, <2>3, <2>4, MoveSlab
  <2>6. p + Footprint(n) <= a.sEnd + SlabSize
    BY <1>2, <1>3, <2>1, AllocFields
  <2>7. InBuffer(r.alloc, p, n)
    BY <2>2, <2>5, <2>6, AllocFields DEF InBuffer
  <2>8. Placed(a, r.alloc, r.ptr, n)
    BY <2>1, <2>2, <2>3, <2>5 DEF Placed
  <2> QED
    BY <2>1, <2>3, <2>5, <2>7, <2>8
<1>6. CASE ~IsCustom(n) /\ NeedsSlab(a, n, align)
  <2> DEFINE f == newSlab(a, base)  p == allocCore(f.slab, n, align)
  <2>1. base \in Heap \ InUse(a) /\ base \in Nat
    BY <1>6, HeapFacts DEF Buffers
  <2>2. /\ AllocOK(f) /\ f.sEnd = base /\ f.slab = base + SlabSize
        /\ \A q \in Int, k \in Nat : InBuffer(a, q, k) => InBuffer(f, q, k)
    BY <2>1, NewSlabFacts
  <2>3. bumpAlloc(a, n, align, base) = [f EXCEPT !.slab = p]
    BY <1>6 DEF bumpAlloc
  <2> HIDE DEF f
  <2>4. f.slab \in Int /\ f.slab % MinAlignment = 0
    BY <2>2, AllocFields DEF AllocOK
  <2>5. /\ p \in Int /\ p % MinAlignment = 0 /\ p + Footprint(n) <= f.slab
        /\ f.slab - SlabSize <= p
    BY <1>6, <2>4, CarveFacts
  <2>6. r.ptr = p /\ r.alloc = [f EXCEPT !.slab = p]
    <3>1. [f EXCEPT !.slab = p].slab = p
      BY <2>2, AllocFields
    <3> QED
      BY <1>6, <2>3, <3>1 DEF allocate
  <2> HIDE DEF p
  <2>7. base <= p /\ p <= base + SlabSize /\ p + Footprint(n) <= base + SlabSize
    BY <1>2, <2>1, <2>2, <2>5
  <2>8. /\ AllocOK(r.alloc) /\ r.alloc.slab = p /\ r.alloc.sEnd = base
        /\ r.alloc.slabs = f.slabs
        /\ \A q \in Int, k \in Nat : InBuffer(f, q, k) => InBuffer(r.alloc, q, k)
    BY <2>2, <2>5, <2>6, <2>7, MoveSlab
  <2>9. InBuffer(r.alloc, p, n)
    <3>1. Len(f.slabs) \in Nat \ {0} /\ f.slabs[Len(f.slabs)] = base
      BY <2>2, AllocFields
    <3> QED
      BY <2>7, <2>8, <3>1 DEF InBuffer
  <2>10. Placed(a, r.alloc, r.ptr, n)
    BY <2>1, <2>5, <2>6, <2>7, <2>8 DEF Placed
  <2> QED
    BY <2>2, <2>5, <2>6, <2>8, <2>9, <2>10
<1> QED
  BY <1>4, <1>5, <1>6

----------------------------------------------------------------------------
(* Where the held blocks are.                                              *)

BlkType == [Block -> [ptr : Int, size : Sizes \union {0},
                      align : Aligns \union {1}, depth : Nat]]

ChkType == Seq([p : Int, home : Heap])

End(f, b) == f[b].ptr + Footprint(f[b].size)

InBuffers(a, L, f) == \A b \in L : InBuffer(a, f[b].ptr, f[b].size)

NonEmpty(L, f) == {b \in L : f[b].size > 0}

\* In the slab in use, every held block lies above the slab pointer.
Above(a, L, f) ==
  \A b \in NonEmpty(L, f) : Region(a.sEnd, f[b].ptr) => a.slab <= f[b].ptr

\* The footprints of held blocks are disjoint.
Apart(L, f) ==
  \A b, c \in NonEmpty(L, f) : b # c => End(f, b) <= f[c].ptr \/ End(f, c) <= f[b].ptr

\* What a rollback to a checkpoint keeps lies above the checkpoint, or in
\* another slab than the one in use.
CheckPointsBelow(a, L, f, C) ==
  \A k \in 1 .. Len(C) : \A b \in NonEmpty(L, f) :
    f[b].depth < k /\ Region(a.sEnd, f[b].ptr) => C[k].home = a.sEnd /\ C[k].p <= f[b].ptr

Tidy(a, L, f, C) == Above(a, L, f) /\ Apart(L, f) /\ CheckPointsBelow(a, L, f, C)

CheckPointsFit(C) ==
  \A k \in 1 .. Len(C) : C[k].p % MinAlignment = 0 /\ C[k].p <= C[k].home + SlabSize

\* The fields of a held block.
LEMMA BlkFields ==
  ASSUME NEW f \in BlkType, NEW b \in Block
  PROVE  /\ f[b].ptr \in Int /\ f[b].size \in Nat /\ f[b].size \in Sizes \union {0}
         /\ f[b].align \in Aligns \union {1} /\ f[b].depth \in Nat
         /\ Footprint(f[b].size) \in Nat /\ f[b].size <= Footprint(f[b].size)
         /\ (f[b].size = 0 => Footprint(f[b].size) = 0)
<1>1. f[b] \in [ptr : Int, size : Sizes \union {0}, align : Aligns \union {1}, depth : Nat]
  BY DEF BlkType
<1>2. f[b].size \in Nat
  BY <1>1, RequestFacts
<1> QED
  BY <1>1, <1>2, FootprintFacts

\* Extents in the regions of different buffers are disjoint.
LEMMA RegionsApart ==
  ASSUME NEW b \in Heap, NEW c \in Heap, b # c,
         NEW p \in Int, NEW q \in Int, NEW x \in Nat, NEW y \in Nat,
         Region(b, p), p + x <= b + Span, Region(c, q), q + y <= c + Span
  PROVE  p + x <= q \/ q + y <= p
<1>1. b \in Nat /\ c \in Nat /\ Span \in Nat
  BY HeapFacts
<1>2. b + Span < c \/ c + Span < b
  BY GapFacts
<1> QED
  BY <1>1, <1>2 DEF Region

\* A block placed by allocate joins a tidy set of blocks.
LEMMA PlaceTidy ==
  ASSUME NEW a, AllocOK(a), NEW a2, AllocOK(a2), NEW L, L \subseteq Block,
         NEW f \in BlkType, NEW g \in BlkType, NEW C \in ChkType, NEW b \in Block, b \notin L,
         InBuffers(a, L, f), Tidy(a, L, f, C), Placed(a, a2, g[b].ptr, g[b].size),
         g[b].depth = Len(C), \A c \in L : g[c] = f[c]
  PROVE  Tidy(a2, L \union {b}, g, C)
<1> DEFINE p == g[b].ptr  x == Footprint(g[b].size)
<1>1. /\ a.slab \in Int /\ a2.slab \in Int /\ a.sEnd \in Heap /\ a2.sEnd \in Heap
      /\ a.sEnd \in Nat /\ a2.sEnd \in Nat /\ a.sEnd \in InUse(a)
      /\ a.slab <= a.sEnd + SlabSize /\ Span \in Nat /\ SlabSize <= Span
  <2>1. /\ a.slab \in Int /\ a2.slab \in Int /\ a.sEnd \in Heap /\ a2.sEnd \in Heap
        /\ a.sEnd \in Nat /\ a2.sEnd \in Nat
    BY AllocFields
  <2>2. a.sEnd \in InUse(a)
    BY AllocFields DEF InUse
  <2>3. a.slab <= a.sEnd + SlabSize
    BY DEF AllocOK
  <2> QED
    BY <2>1, <2>2, <2>3, HeapFacts
<1>2. p \in Int /\ x \in Nat /\ x <= Span /\ (g[b].size > 0 => x > 0)
  <2>1. g[b].size \in Nat /\ g[b].size <= Span
    BY BlkFields, RequestFacts
  <2>2. p \in Int
    BY BlkFields
  <2>3. x \in Nat /\ x <= Span /\ g[b].size <= x
    BY <2>1, FootprintFacts
  <2> QED
    BY <2>1, <2>2, <2>3, HeapFacts
<1>3. ASSUME NEW c \in L
      PROVE  \E base \in InUse(a) : /\ base \in Heap /\ Region(base, f[c].ptr)
                                    /\ End(f, c) <= base + Span
  BY BlkFields, BufferRegion DEF InBuffers, End
<1>4. NonEmpty(L \union {b}, g) \subseteq NonEmpty(L, f) \union {b}
  BY DEF NonEmpty
<1>5. \A c \in L : End(g, c) = End(f, c) /\ g[c].ptr = f[c].ptr /\ g[c].depth = f[c].depth
  BY DEF End
<1>6. \A c \in NonEmpty(L, f) : c \in L /\ c \in Block
  BY DEF NonEmpty
<1>7. PICK base \in Heap :
        /\ Region(base, p) /\ p + x <= base + Span
        /\ base = a2.sEnd => a2.slab = p
        /\ base \in InUse(a) => base = a.sEnd /\ p + x <= a.slab
        /\ a2.sEnd \in InUse(a) => a2.sEnd = a.sEnd /\ a2.slab <= a.slab
  <2>1. CASE a2.slab = a.slab /\ a2.sEnd = a.sEnd /\ p \in Heap \ InUse(a)
    <3>1. Region(p, p) /\ p + x <= p + Span
      <4> HIDE DEF p, x
      <4> QED
        BY <1>1, <1>2 DEF Region
    <3>2. p # a2.sEnd
      BY <1>1, <2>1
    <3> QED
      BY <1>1, <2>1, <3>1, <3>2
  <2>2. CASE a2.sEnd = a.sEnd /\ a2.slab = p /\ a.sEnd <= p /\ p + x <= a.slab
    <3>1. Region(a.sEnd, p) /\ p + x <= a.sEnd + Span /\ p <= a.slab
      BY <1>1, <1>2, <2>2 DEF Region
    <3> QED
      BY <1>1, <2>2, <3>1
  <2>3. CASE /\ a2.sEnd \in Heap \ InUse(a) /\ a2.slab = p
             /\ a2.sEnd <= p /\ p + x <= a2.sEnd + SlabSize
    <3>1. Region(a2.sEnd, p) /\ p + x <= a2.sEnd + Span
      BY <1>1, <1>2, <2>3 DEF Region
    <3> QED
      BY <1>1, <2>3, <3>1
  <2> QED
    BY <2>1, <2>2, <2>3 DEF Placed
<1> HIDE DEF p, x
<1>8. ASSUME NEW c \in NonEmpty(L, f), Region(a2.sEnd, f[c].ptr)
      PROVE  a2.sEnd = a.sEnd /\ a2.slab <= a.slab
  <2>1. c \in L /\ f[c].ptr \in Int
    BY <1>6, BlkFields
  <2>2. PICK d \in InUse(a) : d \in Heap /\ Region(d, f[c].ptr)
    BY <1>3, <2>1
  <2>3. d = a2.sEnd
    BY <1>1, <1>8, <2>1, <2>2, OneRegion
  <2> QED
    BY <1>7, <2>2, <2>3
<1>9. Above(a2, L \union {b}, g)
  <2> SUFFICES ASSUME NEW c \in NonEmpty(L \union {b}, g), Region(a2.sEnd, g[c].ptr)
               PROVE  a2.slab <= g[c].ptr
    BY DEF Above
  <2>1. CASE c = b
    <3>1. base = a2.sEnd
      BY <1>1, <1>2, <1>7, <2>1, OneRegion DEF p
    <3> QED
      BY <1>1, <1>2, <1>7, <2>1, <3>1 DEF p
  <2>2. CASE c # b
    <3>1. c \in NonEmpty(L, f) /\ c \in L /\ g[c].ptr = f[c].ptr /\ f[c].ptr \in Int
      BY <1>4, <1>5, <1>6, <2>2, BlkFields
    <3>2. a2.sEnd = a.sEnd /\ a2.slab <= a.slab
      BY <1>8, <3>1
    <3>3. a.slab <= f[c].ptr
      BY <3>1, <3>2 DEF Tidy, Above
    <3> QED
      BY <1>1, <3>1, <3>2, <3>3
  <2> QED
    BY <2>1, <2>2
<1>10. ASSUME NEW c \in NonEmpty(L, f)
       PROVE  p + x <= f[c].ptr \/ End(f, c) <= p
  <2>1. c \in L /\ f[c].ptr \in Int /\ Footprint(f[c].size) \in Nat
    BY <1>6, BlkFields
  <2>2. PICK d \in InUse(a) : d \in Heap /\ Region(d, f[c].ptr) /\ End(f, c) <= d + Span
    BY <1>3, <2>1
  <2>3. CASE d = base
    <3>1. a.slab <= f[c].ptr /\ p + x <= a.slab
      BY <1>7, <2>2, <2>3 DEF Tidy, Above
    <3> QED
      BY <1>1, <1>2, <2>1, <3>1
  <2>4. CASE d # base
    BY <1>2, <1>7, <2>1, <2>2, <2>4, RegionsApart DEF End
  <2> QED
    BY <2>3, <2>4
<1>11. Apart(L \union {b}, g)
  <2> SUFFICES ASSUME NEW c \in NonEmpty(L \union {b}, g), NEW d \in NonEmpty(L \union {b}, g), c # d
               PROVE  End(g, c) <= g[d].ptr \/ End(g, d) <= g[c].ptr
    BY DEF Apart
  <2>1. End(g, b) = p + x /\ g[b].ptr = p
    BY DEF End, p, x
  <2>2. CASE c = b
    BY <1>4, <1>5, <1>6, <1>10, <2>1, <2>2
  <2>3. CASE d = b
    BY <1>4, <1>5, <1>6, <1>10, <2>1, <2>3
  <2>4. CASE c # b /\ d # b
    BY <1>4, <1>5, <1>6, <2>4 DEF Tidy, Apart
  <2> QED
    BY <2>2, <2>3, <2>4
<1>12. CheckPointsBelow(a2, L \union {b}, g, C)
  <2> SUFFICES ASSUME NEW k \in 1 .. Len(C), NEW c \in NonEmpty(L \union {b}, g),
                      g[c].depth < k, Region(a2.sEnd, g[c].ptr)
               PROVE  C[k].home = a2.sEnd /\ C[k].p <= g[c].ptr
    BY DEF CheckPointsBelow
  <2>1. Len(C) \in Nat
    BY DEF ChkType
  <2>2. c # b
    BY <2>1
  <2>3. c \in NonEmpty(L, f) /\ g[c].ptr = f[c].ptr /\ g[c].depth = f[c].depth
    BY <1>4, <1>5, <1>6, <2>2
  <2>4. a2.sEnd = a.sEnd
    BY <1>8, <2>3
  <2> QED
    BY <2>3, <2>4 DEF Tidy, CheckPointsBelow
<1> QED
  BY <1>9, <1>11, <1>12 DEF Tidy

\* Tidiness survives a lower slab pointer and fewer blocks.
LEMMA TidyWeaken ==
  ASSUME NEW a, AllocOK(a), NEW e, AllocOK(e), e.sEnd = a.sEnd, e.slab <= a.slab,
         NEW L, L \subseteq Block, NEW L2, L2 \subseteq L,
         NEW f \in BlkType, NEW g \in BlkType, NEW C, \A c \in L2 : g[c] = f[c],
         Tidy(a, L, f, C)
  PROVE  Tidy(e, L2, g, C)
<1>1. \A c \in NonEmpty(L2, g) :
        /\ c \in NonEmpty(L, f) /\ g[c] = f[c] /\ End(g, c) = End(f, c) /\ f[c].ptr \in Int
  BY BlkFields DEF NonEmpty, End
<1>2. a.slab \in Int /\ e.slab \in Int
  BY AllocFields
<1>3. Above(e, L2, g)
  BY <1>1, <1>2 DEF Tidy, Above
<1>4. Apart(L2, g)
  BY <1>1 DEF Tidy, Apart
<1>5. CheckPointsBelow(e, L2, g, C)
  BY <1>1 DEF Tidy, CheckPointsBelow
<1> QED
  BY <1>3, <1>4, <1>5 DEF Tidy

\* A block at the slab pointer never reaches past the slab in use.
LEMMA TopBlock ==
  ASSUME NEW a, AllocOK(a), NEW n \in Nat, InBuffer(a, a.slab, n)
  PROVE  a.slab + Footprint(n) <= a.sEnd + SlabSize
<1>1. /\ a.slab \in Int /\ a.sEnd \in Heap /\ a.sEnd \in Nat /\ Footprint(n) \in Nat
      /\ a.slab <= a.sEnd + SlabSize /\ Span \in Nat /\ SlabSize <= Span
  BY AllocFields, FootprintFacts, HeapFacts DEF AllocOK
<1>2. CASE \E i \in 1 .. Len(a.slabs) :
        a.slabs[i] <= a.slab /\ a.slab + Footprint(n) <= a.slabs[i] + SlabSize
  <2>1. PICK i \in 1 .. Len(a.slabs) :
          a.slabs[i] <= a.slab /\ a.slab + Footprint(n) <= a.slabs[i] + SlabSize
    BY <1>2
  <2> DEFINE s == a.slabs[i]  e == a.sEnd  end == a.slab + Footprint(n)
  <2>2. a.slabs \in Seq(Heap) /\ Len(a.slabs) \in Nat
    BY AllocFields
  <2>3. s \in Heap /\ e \in Heap
    BY <1>1, <2>2
  <2>4. s \in Nat /\ e \in Nat
    BY <2>3, HeapFacts
  <2>5. s <= a.slab /\ a.slab <= e + SlabSize /\ end <= s + SlabSize
    BY <1>1, <2>1
  <2>6. s <= end /\ s <= e + SlabSize /\ end \in Int
    <3> HIDE DEF s, e
    <3> QED
      BY <1>1, <2>4, <2>5
  <2> HIDE DEF s, e, end
  <2>7. CASE s = e
    BY <2>5, <2>7 DEF e, end
  <2>8. CASE s + Span < e
    BY <1>1, <2>4, <2>5, <2>6, <2>8 DEF e, end
  <2>9. CASE e + Span < s
    BY <1>1, <2>4, <2>6, <2>9
  <2> QED
    BY <2>3, <2>7, <2>8, <2>9, GapFacts
<1>3. CASE a.slab \in a.customSlabs /\ Footprint(n) <= Span
  <2>1. a.slab \in Heap /\ a.slab # a.sEnd
    BY <1>3, AllocFields DEF AllocOK
  <2>2. a.slab + Span < a.sEnd \/ a.sEnd + Span < a.slab
    BY <1>1, <2>1, GapFacts
  <2> QED
    BY <1>1, <1>3, <2>2
<1> QED
  BY <1>2, <1>3 DEF InBuffer

\* Freeing a block keeps the fields in order.
LEMMA FreeFacts ==
  ASSUME NEW a, AllocOK(a), NEW p \in Int, NEW n \in Nat, InBuffer(a, p, n),
         NEW e, e = deallocate(a, p, n)
  PROVE  /\ AllocOK(e) /\ e.sEnd = a.sEnd
         /\ e.slab = (IF p = a.slab THEN p + Footprint(n) ELSE a.slab)
         /\ \A q \in Int, k \in Nat : InBuffer(a, q, k) <=> InBuffer(e, q, k)
<1>1. CASE p # a.slab
  BY <1>1 DEF deallocate
<1>2. CASE p = a.slab
  <2>1. Footprint(n) \in Nat /\ Footprint(n) % MinAlignment = 0
    BY FootprintFacts
  <2>2. p % MinAlignment = 0
    BY <1>2 DEF AllocOK
  <2>3. p + Footprint(n) \in Int /\ (p + Footprint(n)) % MinAlignment = 0
    BY <2>1, <2>2, MultipleSum
  <2>4. p + Footprint(n) <= a.sEnd + SlabSize
    BY <1>2, TopBlock
  <2>5. e = [a EXCEPT !.slab = p + Footprint(n)]
    BY <1>2 DEF deallocate
  <2> QED
    BY <1>2, <2>3, <2>4, <2>5, MoveSlab
<1> QED
  BY <1>1, <1>2

\* Freeing a block leaves the others tidy.
LEMMA FreeTidy ==
  ASSUME NEW a, AllocOK(a), NEW L, L \subseteq Block, NEW b \in L,
         NEW f \in BlkType, NEW g \in BlkType, NEW C, \A c \in L \ {b} : g[c] = f[c],
         InBuffers(a, L, f), Tidy(a, L, f, C),
         NEW e, e = deallocate(a, f[b].ptr, f[b].size)
  PROVE  Tidy(e, L \ {b}, g, C)
<1>1. /\ f[b].ptr \in Int /\ f[b].size \in Nat /\ b \in Block /\ Footprint(f[b].size) \in Nat
      /\ (f[b].size = 0 => Footprint(f[b].size) = 0) /\ a.slab \in Int
  BY BlkFields, AllocFields
<1>2. /\ AllocOK(e) /\ e.sEnd = a.sEnd
      /\ e.slab = (IF f[b].ptr = a.slab THEN f[b].ptr + Footprint(f[b].size) ELSE a.slab)
  BY <1>1, FreeFacts DEF InBuffers
<1>3. \A c \in NonEmpty(L \ {b}, g) :
        /\ c \in NonEmpty(L, f) /\ c # b /\ g[c] = f[c] /\ End(g, c) = End(f, c)
        /\ f[c].ptr \in Int /\ Footprint(f[c].size) \in Nat \ {0}
  BY BlkFields DEF NonEmpty, End
<1>4. Above(e, L \ {b}, g)
  <2> SUFFICES ASSUME NEW c \in NonEmpty(L \ {b}, g), Region(a.sEnd, g[c].ptr)
               PROVE  e.slab <= g[c].ptr
    BY <1>2 DEF Above
  <2>1. a.slab <= f[c].ptr /\ g[c].ptr = f[c].ptr
    BY <1>3 DEF Tidy, Above
  <2>2. CASE f[b].ptr = a.slab /\ f[b].size > 0
    <3>1. b \in NonEmpty(L, f)
      BY <2>2 DEF NonEmpty
    <3>2. End(f, b) <= f[c].ptr \/ End(f, c) <= f[b].ptr
      BY <1>3, <3>1 DEF Tidy, Apart
    <3>3. e.slab = End(f, b)
      BY <1>2, <2>2 DEF End
    <3>4. CASE End(f, b) <= f[c].ptr
      BY <2>1, <3>3, <3>4
    <3>5. CASE End(f, c) <= f[b].ptr
      <4>1. f[c].ptr + Footprint(f[c].size) <= a.slab
        BY <2>2, <3>5 DEF End
      <4>2. f[c].ptr \in Int /\ Footprint(f[c].size) \in Nat \ {0}
        BY <1>3
      <4>3. FALSE
        BY <1>1, <2>1, <4>1, <4>2
      <4> QED
        BY <4>3
    <3> QED
      BY <3>2, <3>4, <3>5
  <2>3. CASE ~(f[b].ptr = a.slab /\ f[b].size > 0)
    <3>1. e.slab = a.slab
      BY <1>1, <1>2, <2>3
    <3> QED
      BY <2>1, <3>1
  <2> QED
    BY <2>2, <2>3
<1>5. Apart(L \ {b}, g)
  BY <1>3 DEF Tidy, Apart
<1>6. CheckPointsBelow(e, L \ {b}, g, C)
  BY <1>2, <1>3 DEF Tidy, CheckPointsBelow
<1> QED
  BY <1>4, <1>5, <1>6 DEF Tidy

\* How far growing a block moves the slab pointer.
LEMMA GrownFacts ==
  ASSUME NEW a, AllocOK(a), NEW old \in Nat, NEW n \in Nat, n > old,
         NEW align \in Aligns \union {1}
  PROVE  LET s == Grown(a, old, n, align)
         IN  /\ s \in Int /\ s % MinAlignment = 0 /\ s < a.slab
             /\ s + Footprint(n) <= a.slab + Footprint(old)
<1> DEFINE al == IF align > MinAlignment THEN align ELSE MinAlignment
           x == AlignUp(n - old, al)  s == Grown(a, old, n, align)
<1>1. al \in Nat \ {0} /\ al % MinAlignment = 0
  <2>1. CASE align > MinAlignment
    <3>1. align \in Aligns /\ align \in Nat \ {0}
      BY <2>1, RequestFacts
    <3> QED
      BY <2>1, <3>1, RequestAssumption
  <2>2. CASE ~(align > MinAlignment)
    <3>1. (MinAlignment * 1) % MinAlignment = 0
      BY ProductMod
    <3> QED
      BY <2>2, <3>1
  <2> QED
    BY <2>1, <2>2
<1> HIDE DEF al
<1>2. n - old \in Nat \ {0}
  OBVIOUS
<1>3. x \in Nat /\ x % al = 0 /\ n - old <= x
  BY <1>1, <1>2, AlignUpFacts
<1>4. x % MinAlignment = 0
  BY <1>1, <1>3, MultipleTrans
<1>5. s = a.slab - x
  BY DEF Grown, al
<1> HIDE DEF x, s
<1>6. a.slab \in Int /\ a.slab % MinAlignment = 0
  BY AllocFields DEF AllocOK
<1>7. s \in Int /\ s % MinAlignment = 0 /\ s < a.slab
  BY <1>2, <1>3, <1>4, <1>5, <1>6, MultipleSum
<1>8. /\ Footprint(old) \in Nat /\ Footprint(old) % MinAlignment = 0 /\ old <= Footprint(old)
      /\ Footprint(n) \in Nat
  BY FootprintFacts
<1>9. (x + Footprint(old)) % MinAlignment = 0 /\ n <= x + Footprint(old)
  <2>1. x \in Int /\ Footprint(old) \in Int
    BY <1>3, <1>8
  <2>2. (x + Footprint(old)) % MinAlignment = 0
    BY <1>4, <1>8, <2>1, MultipleSum
  <2> QED
    BY <1>2, <1>3, <1>8, <2>2
<1>10. Footprint(n) <= x + Footprint(old)
  BY <1>3, <1>8, <1>9, AlignUpLeast DEF Footprint
<1> QED
  BY <1>3, <1>5, <1>6, <1>7, <1>8, <1>10 DEF s

----------------------------------------------------------------------------
(* The inductive invariant.                                                *)

ClientsOK ==
  /\ live \subseteq Block /\ blk \in BlkType /\ chk \in ChkType /\ misplaced \in BOOLEAN
  /\ CheckPointsFit(chk)

IInv ==
  /\ AllocOK(alloc) /\ ClientsOK
  /\ InBuffers(alloc, live, blk)
  /\ ~misplaced => Tidy(alloc, live, blk, chk)

\* The value of a block that is not held has the type of a block.
LEMMA NoBlockType ==
  NoBlock \in [ptr : Int, size : Sizes \union {0}, align : Aligns \union {1}, depth : Nat]
  BY DEF NoBlock

\* The invariant holds initially.
LEMMA InitInv == Init => IInv
<1> SUFFICES ASSUME Init PROVE IInv
  OBVIOUS
<1>1. PICK base \in Heap :
        alloc = [slab |-> base + SlabSize, sEnd |-> base, slabs |-> <<base>>, customSlabs |-> {}]
  BY DEF Init
<1>2. base \in Nat /\ base % MinAlignment = 0
  BY HeapFacts, HeapAligned
<1>3. (base + SlabSize) % MinAlignment = 0 /\ base + SlabSize \in Int
  <2>1. base \in Int /\ SlabSize \in Int
    BY <1>2
  <2>2. base % MinAlignment = 0 /\ SlabSize % MinAlignment = 0 /\ MinAlignment \in Nat \ {0}
    BY <1>2
  <2>3. (base + SlabSize) % MinAlignment = 0
    BY <2>1, <2>2, MultipleSum
  <2>4. base + SlabSize \in Int
    BY <2>1
  <2> QED
    BY <2>3, <2>4
<1>4. AllocOK(alloc)
  <2>1. <<base>> \in Seq(Heap) /\ Len(<<base>>) = 1 /\ <<base>>[1] = base
    OBVIOUS
  <2>2. alloc \in [slab : Int, sEnd : Heap, slabs : Seq(Heap), customSlabs : SUBSET Heap]
    BY <1>1, <1>3, <2>1
  <2> QED
    BY <1>1, <1>2, <1>3, <2>1, <2>2 DEF AllocOK
<1>5. live = {} /\ chk = <<>> /\ Len(chk) = 0 /\ misplaced = FALSE
  BY DEF Init
<1>6. chk \in ChkType /\ CheckPointsFit(chk)
  BY <1>5 DEF ChkType, CheckPointsFit
<1>7. blk \in BlkType
  BY NoBlockType DEF Init, BlkType
<1>8. Tidy(alloc, live, blk, chk)
  BY <1>5 DEF Tidy, Above, Apart, CheckPointsBelow, NonEmpty
<1> QED
  BY <1>4, <1>5, <1>6, <1>7, <1>8 DEF IInv, ClientsOK, InBuffers

\* allocate preserves the invariant.
LEMMA AllocateInv ==
  ASSUME IInv, NEW b \in Block, NEW n \in Sizes, NEW align \in Aligns, Allocate(b, n, align)
  PROVE  IInv'
<1> USE DEF IInv, ClientsOK
<1>1. PICK base \in Buffers(alloc, n, align) :
        LET r == allocate(alloc, n, align, base)
        IN  /\ alloc' = r.alloc
            /\ blk' = [blk EXCEPT ![b] = [ptr |-> r.ptr, size |-> n,
                                          align |-> align, depth |-> Depth]]
  BY DEF Allocate
<1> DEFINE r == allocate(alloc, n, align, base)
<1>2. /\ AllocOK(r.alloc) /\ r.ptr \in Int /\ InBuffer(r.alloc, r.ptr, n)
      /\ \A p \in Int, k \in Nat : InBuffer(alloc, p, k) => InBuffer(r.alloc, p, k)
      /\ Placed(alloc, r.alloc, r.ptr, n)
  BY AllocateFacts
<1>3. alloc' = r.alloc /\ blk' = [blk EXCEPT ![b] = [ptr |-> r.ptr, size |-> n,
                                                    align |-> align, depth |-> Depth]]
  BY <1>1
<1> HIDE DEF r
<1>4. b \notin live /\ live' = live \union {b} /\ UNCHANGED <<chk, misplaced>>
  BY DEF Allocate
<1>5. Depth \in Nat
  BY DEF Depth, ChkType
<1>6. blk' \in BlkType /\ \A c \in live : blk'[c] = blk[c]
  BY <1>2, <1>3, <1>4, <1>5 DEF BlkType
<1>7. blk'[b] = [ptr |-> r.ptr, size |-> n, align |-> align, depth |-> Depth]
  BY <1>3 DEF BlkType
<1>8. InBuffers(alloc, live, blk)'
  <2>1. InBuffer(alloc', blk'[b].ptr, blk'[b].size)
    BY <1>2, <1>3, <1>7
  <2>2. ASSUME NEW c \in live PROVE InBuffer(alloc', blk'[c].ptr, blk'[c].size)
    BY <1>2, <1>3, <1>6, BlkFields DEF InBuffers
  <2> QED
    BY <1>4, <2>1, <2>2 DEF InBuffers
<1>9. ASSUME ~misplaced PROVE Tidy(alloc, live, blk, chk)'
  <2>1. Placed(alloc, alloc', blk'[b].ptr, blk'[b].size) /\ blk'[b].depth = Len(chk)
    BY <1>2, <1>3, <1>7 DEF Depth
  <2>2. Tidy(alloc', live \union {b}, blk', chk)
    BY <1>2, <1>3, <1>4, <1>6, <1>9, <2>1, PlaceTidy
  <2> QED
    BY <1>4, <2>2
<1> QED
  BY <1>2, <1>3, <1>4, <1>6, <1>8, <1>9 DEF CheckPointsFit

\* deallocate preserves the invariant.
LEMMA DeallocateInv ==
  ASSUME IInv, NEW b \in Block, Deallocate(b)
  PROVE  IInv'
<1> USE DEF IInv, ClientsOK
<1>1. /\ b \in live /\ alloc' = deallocate(alloc, blk[b].ptr, blk[b].size)
      /\ live' = live \ {b} /\ blk' = [blk EXCEPT ![b] = NoBlock] /\ UNCHANGED <<chk, misplaced>>
  BY DEF Deallocate
<1>2. blk' \in BlkType /\ \A c \in live \ {b} : blk'[c] = blk[c]
  BY <1>1, NoBlockType DEF BlkType
<1>3. AllocOK(alloc') /\ \A q \in Int, k \in Nat : InBuffer(alloc, q, k) => InBuffer(alloc', q, k)
  <2>1. blk[b].ptr \in Int /\ blk[b].size \in Nat /\ InBuffer(alloc, blk[b].ptr, blk[b].size)
    BY <1>1, BlkFields DEF InBuffers
  <2> QED
    BY <1>1, <2>1, FreeFacts
<1>4. InBuffers(alloc, live, blk)'
  BY <1>1, <1>2, <1>3, BlkFields DEF InBuffers
<1>5. ASSUME ~misplaced PROVE Tidy(alloc, live, blk, chk)'
  <2>1. Tidy(alloc', live \ {b}, blk', chk)
    BY <1>1, <1>2, <1>5, FreeTidy
  <2> QED
    BY <1>1, <2>1
<1> QED
  BY <1>1, <1>2, <1>3, <1>4, <1>5 DEF CheckPointsFit

\* A smaller block has a smaller footprint.
LEMMA FootprintMonotone ==
  ASSUME NEW n \in Nat, NEW m \in Nat, n <= m
  PROVE  Footprint(n) <= Footprint(m)
<1>1. Footprint(m) \in Nat /\ Footprint(m) % MinAlignment = 0 /\ m <= Footprint(m)
  BY FootprintFacts
<1>2. n <= Footprint(m)
  BY <1>1
<1> QED
  BY <1>1, <1>2, AlignUpLeast DEF Footprint

\* The early return of reallocate preserves the invariant.
LEMMA ShrinkInv ==
  ASSUME IInv, NEW b \in Block, NEW n \in Sizes, Shrink(b, n)
  PROVE  IInv'
<1> USE DEF IInv, ClientsOK
<1>1. /\ b \in live /\ n <= blk[b].size /\ blk' = [blk EXCEPT ![b].size = n]
      /\ UNCHANGED <<alloc, live, chk, misplaced>>
  BY DEF Shrink, MayResize
<1>2. n \in Nat /\ Footprint(n) \in Nat
  BY RequestFacts, FootprintFacts
<1>3. blk' \in BlkType
  BY <1>1 DEF BlkType
<1>4. \A c \in Block : /\ blk'[c].ptr = blk[c].ptr /\ blk'[c].depth = blk[c].depth
                       /\ blk'[c].size = IF c = b THEN n ELSE blk[c].size
  BY <1>1 DEF BlkType
<1>5. ASSUME NEW c \in Block
      PROVE  /\ blk'[c].size \in Nat /\ blk'[c].size <= blk[c].size
             /\ Footprint(blk'[c].size) \in Nat
             /\ Footprint(blk'[c].size) <= Footprint(blk[c].size)
  <2>1. blk[c].size \in Nat /\ blk'[c].size \in Nat /\ blk'[c].size <= blk[c].size
    BY <1>1, <1>2, <1>4, BlkFields
  <2> QED
    BY <2>1, FootprintMonotone, FootprintFacts
<1>6. ASSUME NEW c \in live PROVE InBuffer(alloc, blk'[c].ptr, blk'[c].size)
  <2>1. /\ InBuffer(alloc, blk[c].ptr, blk[c].size) /\ blk'[c].ptr = blk[c].ptr
        /\ blk[c].ptr \in Int /\ Footprint(blk[c].size) \in Nat
        /\ Footprint(blk'[c].size) \in Nat
        /\ Footprint(blk'[c].size) <= Footprint(blk[c].size)
    BY <1>4, <1>5, BlkFields DEF InBuffers
  <2>2. CASE blk[c].ptr \in alloc.customSlabs /\ Footprint(blk[c].size) <= Span
    BY <2>1, <2>2, HeapFacts DEF InBuffer
  <2>3. ASSUME NEW i \in 1 .. Len(alloc.slabs), alloc.slabs[i] <= blk[c].ptr,
               blk[c].ptr + Footprint(blk[c].size) <= alloc.slabs[i] + SlabSize
        PROVE  InBuffer(alloc, blk'[c].ptr, blk'[c].size)
    <3>1. alloc.slabs \in Seq(Heap) /\ Len(alloc.slabs) \in Nat
      BY AllocFields
    <3>2. alloc.slabs[i] \in Heap
      BY <3>1
    <3>3. alloc.slabs[i] \in Nat
      BY <3>2, HeapFacts
    <3>4. blk'[c].ptr + Footprint(blk'[c].size) <= alloc.slabs[i] + SlabSize
      BY <2>1, <2>3, <3>3
    <3> QED
      BY <2>1, <2>3, <3>4 DEF InBuffer
  <2> QED
    BY <2>1, <2>2, <2>3 DEF InBuffer
<1>7. ASSUME NEW c \in NonEmpty(live, blk')
      PROVE  /\ c \in NonEmpty(live, blk) /\ blk'[c].ptr = blk[c].ptr
             /\ blk'[c].depth = blk[c].depth /\ End(blk', c) <= End(blk, c)
             /\ End(blk', c) \in Int /\ End(blk, c) \in Int /\ blk[c].ptr \in Int
  <2>1. c \in live /\ c \in Block /\ blk'[c].size > 0
    BY DEF NonEmpty
  <2>2. blk[c].ptr \in Int /\ blk[c].size \in Nat /\ Footprint(blk[c].size) \in Nat
    BY <2>1, BlkFields
  <2> QED
    BY <1>4, <1>5, <2>1, <2>2 DEF NonEmpty, End
<1>8. ASSUME Tidy(alloc, live, blk, chk) PROVE Tidy(alloc, live, blk', chk)
  <2>1. Above(alloc, live, blk')
    BY <1>7, <1>8 DEF Tidy, Above
  <2>2. ASSUME NEW c \in NonEmpty(live, blk'), NEW d \in NonEmpty(live, blk'), c # d
        PROVE  End(blk', c) <= blk'[d].ptr \/ End(blk', d) <= blk'[c].ptr
    <3>1. End(blk, c) <= blk[d].ptr \/ End(blk, d) <= blk[c].ptr
      BY <1>7, <1>8, <2>2 DEF Tidy, Apart
    <3> QED
      BY <1>7, <3>1
  <2>3. CheckPointsBelow(alloc, live, blk', chk)
    BY <1>7, <1>8 DEF Tidy, CheckPointsBelow
  <2> QED
    BY <2>1, <2>2, <2>3 DEF Tidy, Apart
<1> QED
  BY <1>1, <1>3, <1>6, <1>8 DEF InBuffers

\* reallocate in place preserves the invariant: growing a block frees it and
\* carves a larger one from what is then free.
LEMMA GrowInPlaceInv ==
  ASSUME IInv, NEW b \in Block, NEW n \in Sizes, GrowInPlace(b, n)
  PROVE  IInv'
<1> USE DEF IInv, ClientsOK
<1> DEFINE old == blk[b]  s == Grown(alloc, old.size, n, old.align)
           e == deallocate(alloc, old.ptr, old.size)
<1>1. /\ b \in live /\ old.depth = Depth /\ n > old.size /\ old.ptr = alloc.slab
      /\ ~outOfSlab(s, alloc.sEnd) /\ alloc' = [alloc EXCEPT !.slab = s]
      /\ blk' = [blk EXCEPT ![b].ptr = alloc'.slab, ![b].size = n]
      /\ UNCHANGED <<live, chk, misplaced>>
  BY DEF GrowInPlace, GrowsInPlace, tryReallocate, MayResize
<1>2. /\ old.size \in Nat /\ n \in Nat /\ old.align \in Aligns \union {1} /\ old.ptr \in Int
      /\ Footprint(old.size) \in Nat /\ Footprint(n) \in Nat
  BY BlkFields, RequestFacts, FootprintFacts
<1>3. /\ s \in Int /\ s % MinAlignment = 0 /\ s < alloc.slab
      /\ s + Footprint(n) <= alloc.slab + Footprint(old.size)
  BY <1>1, <1>2, GrownFacts
<1>4. /\ alloc.slab \in Int /\ alloc.sEnd \in Nat /\ alloc.slab <= alloc.sEnd + SlabSize
      /\ alloc.sEnd <= s
  <2>1. alloc.slab \in Int /\ alloc.sEnd \in Nat /\ alloc.slab <= alloc.sEnd + SlabSize
    BY AllocFields DEF AllocOK
  <2> QED
    BY <1>1, <1>3, <2>1 DEF outOfSlab
<1>5. InBuffer(alloc, old.ptr, old.size)
  BY <1>1 DEF InBuffers
<1>6. alloc.slab + Footprint(old.size) <= alloc.sEnd + SlabSize
  BY <1>1, <1>2, <1>5, TopBlock
<1> HIDE DEF s
<1>7. /\ AllocOK(alloc') /\ alloc'.slab = s /\ alloc'.sEnd = alloc.sEnd
      /\ alloc'.slabs = alloc.slabs
      /\ \A q \in Int, k \in Nat : InBuffer(alloc, q, k) <=> InBuffer(alloc', q, k)
  <2>1. s <= alloc.sEnd + SlabSize
    BY <1>3, <1>4
  <2> QED
    BY <1>1, <1>3, <2>1, MoveSlab
<1>8. blk' \in BlkType /\ \A c \in live \ {b} : blk'[c] = blk[c]
  BY <1>1, <1>3, <1>7 DEF BlkType
<1>9. blk'[b].ptr = s /\ blk'[b].size = n /\ blk'[b].depth = Len(chk)
  BY <1>1, <1>7 DEF BlkType, Depth
<1>10. InBuffer(alloc', s, n)
  <2>1. Len(alloc.slabs) \in Nat \ {0} /\ alloc.slabs[Len(alloc.slabs)] = alloc.sEnd
    BY AllocFields
  <2>2. s + Footprint(n) <= alloc.sEnd + SlabSize
    BY <1>2, <1>3, <1>4, <1>6
  <2>3. PICK i \in 1 .. Len(alloc'.slabs) : alloc'.slabs[i] = alloc.sEnd
    BY <1>7, <2>1
  <2>4. alloc'.slabs[i] <= s /\ s + Footprint(n) <= alloc'.slabs[i] + SlabSize
    BY <1>4, <2>2, <2>3
  <2> QED
    BY <2>4 DEF InBuffer
<1>11. InBuffers(alloc, live, blk)'
  <2>1. ASSUME NEW c \in live \ {b} PROVE InBuffer(alloc', blk'[c].ptr, blk'[c].size)
    BY <1>7, <1>8, BlkFields DEF InBuffers
  <2> QED
    BY <1>1, <1>9, <1>10, <2>1 DEF InBuffers
<1>12. ASSUME Tidy(alloc, live, blk, chk) PROVE Tidy(alloc', live, blk', chk)
  <2>1. Tidy(e, live \ {b}, blk, chk)
    BY <1>1, <1>12, FreeTidy
  <2>2. /\ AllocOK(e) /\ e.sEnd = alloc.sEnd /\ e.slab = alloc.slab + Footprint(old.size)
        /\ \A q \in Int, k \in Nat : InBuffer(alloc, q, k) <=> InBuffer(e, q, k)
    BY <1>1, <1>2, <1>5, FreeFacts
  <2> HIDE DEF e
  <2>3. InBuffers(e, live \ {b}, blk)
    BY <2>2, BlkFields DEF InBuffers
  <2>4. Placed(e, alloc', blk'[b].ptr, blk'[b].size)
    BY <1>3, <1>4, <1>7, <1>9, <2>2 DEF Placed
  <2>5. Tidy(alloc', (live \ {b}) \union {b}, blk', chk)
    <3>1. live \ {b} \subseteq Block /\ b \notin live \ {b} /\ chk \in ChkType
      OBVIOUS
    <3> QED
      BY <1>7, <1>8, <1>9, <2>1, <2>2, <2>3, <2>4, <3>1, PlaceTidy
  <2>6. (live \ {b}) \union {b} = live
    BY <1>1
  <2> QED
    BY <2>5, <2>6
<1> QED
  BY <1>1, <1>7, <1>8, <1>11, <1>12

\* A failing tryReallocate may lower the slab pointer, and nothing else.
LEMMA LeftFacts ==
  ASSUME NEW a, AllocOK(a), NEW p \in Int, NEW old \in Nat, NEW n \in Nat, n > old,
         NEW align \in Aligns \union {1}, NEW f, f = tryReallocate(a, p, old, n, align)
  PROVE  /\ AllocOK(f) /\ f.sEnd = a.sEnd /\ f.slab <= a.slab /\ InUse(f) = InUse(a)
         /\ p = a.slab => f.slab < p
         /\ p # a.slab => f.slab = a.slab
         /\ \A q \in Int, k \in Nat : InBuffer(a, q, k) <=> InBuffer(f, q, k)
<1>1. a.slab \in Int /\ a.sEnd \in Nat /\ a.slab <= a.sEnd + SlabSize
  BY AllocFields DEF AllocOK
<1>2. CASE p = a.slab
  <2> DEFINE s == Grown(a, old, n, align)
  <2>1. s \in Int /\ s % MinAlignment = 0 /\ s < a.slab
    BY GrownFacts
  <2>2. f = [a EXCEPT !.slab = s]
    BY <1>2 DEF tryReallocate
  <2> HIDE DEF s
  <2>3. s <= a.sEnd + SlabSize /\ s <= a.slab
    BY <1>1, <2>1
  <2>4. /\ AllocOK(f) /\ f.slab = s /\ f.sEnd = a.sEnd /\ InUse(f) = InUse(a)
        /\ \A q \in Int, k \in Nat : InBuffer(a, q, k) <=> InBuffer(f, q, k)
    BY <2>1, <2>2, <2>3, MoveSlab
  <2> QED
    BY <1>2, <2>1, <2>3, <2>4
<1>3. CASE p # a.slab
  BY <1>1, <1>3 DEF tryReallocate
<1> QED
  BY <1>2, <1>3

\* The block that reallocate moves away is not at the slab pointer that
\* allocate leaves: freeing it moves nothing.
LEMMA OldNotTop ==
  ASSUME NEW a, AllocOK(a), NEW f, AllocOK(f), f.sEnd = a.sEnd, f.slab <= a.slab,
         InUse(f) = InUse(a), NEW a2, NEW p \in Int, NEW old \in Nat \ {0}, NEW n \in Nat, n > old,
         Region(a.sEnd, p) => a.slab <= p, InBuffer(a, p, old), NEW q \in Int,
         p = a.slab => f.slab < p, p # a.slab => f.slab = a.slab, Placed(f, a2, q, n)
  PROVE  p # a2.slab
<1>1. /\ a.slab \in Int /\ f.slab \in Int /\ a.sEnd \in Nat /\ a.slab <= a.sEnd + SlabSize
      /\ Span \in Nat /\ SlabSize <= Span
  BY AllocFields, HeapFacts DEF AllocOK
<1>2. Footprint(n) \in Nat \ {0} /\ Footprint(old) \in Nat
  <2>1. Footprint(n) \in Nat /\ n <= Footprint(n) /\ Footprint(old) \in Nat
    BY FootprintFacts
  <2> QED
    BY <2>1
<1>3. CASE a2.slab = f.slab
  BY <1>1, <1>3
<1>4. CASE a2.slab = q /\ f.sEnd <= q /\ q + Footprint(n) <= f.slab
  <2>1. SUFFICES ASSUME p = q PROVE FALSE
    BY <1>4
  <2>2. p < a.slab /\ a.sEnd <= p
    BY <1>1, <1>2, <1>4, <2>1
  <2>3. Region(a.sEnd, p)
    BY <1>1, <2>2 DEF Region
  <2> QED
    BY <1>1, <2>2, <2>3
<1>5. CASE /\ a2.sEnd \in Heap \ InUse(f) /\ a2.slab = q
           /\ a2.sEnd <= q /\ q + Footprint(n) <= a2.sEnd + SlabSize
  <2>1. SUFFICES ASSUME p = q PROVE FALSE
    BY <1>5
  <2>2. a2.sEnd \in Heap /\ a2.sEnd \in Nat
    BY <1>5, HeapFacts
  <2>3. Region(a2.sEnd, p)
    BY <1>1, <1>2, <1>5, <2>1, <2>2 DEF Region
  <2>4. PICK d \in InUse(a) : d \in Heap /\ Region(d, p)
    BY BufferRegion
  <2>5. d = a2.sEnd
    BY <2>2, <2>3, <2>4, OneRegion
  <2> QED
    BY <1>5, <2>4, <2>5
<1> QED
  BY <1>3, <1>4, <1>5 DEF Placed

\* reallocate into another place preserves the invariant.
LEMMA GrowElsewhereInv ==
  ASSUME IInv, NEW b \in Block, NEW n \in Sizes, GrowElsewhere(b, n)
  PROVE  IInv'
<1> USE DEF IInv, ClientsOK
<1> DEFINE old  == blk[b]
           left == tryReallocate(alloc, old.ptr, old.size, n, old.align)
<1>1. /\ b \in live /\ old.depth = Depth /\ n > old.size /\ UNCHANGED <<live, chk, misplaced>>
  BY DEF GrowElsewhere, MayResize
<1>2. PICK base \in Buffers(left, n, old.align) :
        LET r == allocate(left, n, old.align, base)
        IN  /\ alloc' = IF old.size = 0 THEN r.alloc
                        ELSE deallocate(r.alloc, old.ptr, old.size)
            /\ blk' = [blk EXCEPT ![b].ptr = r.ptr, ![b].size = n]
  BY DEF GrowElsewhere
<1> DEFINE r == allocate(left, n, old.align, base)
<1>3. /\ old.size \in Nat /\ n \in Nat /\ old.align \in Aligns \union {1} /\ old.ptr \in Int
      /\ InBuffer(alloc, old.ptr, old.size)
  BY <1>1, BlkFields, RequestFacts DEF InBuffers
<1>4. /\ AllocOK(left) /\ left.sEnd = alloc.sEnd /\ left.slab <= alloc.slab
      /\ InUse(left) = InUse(alloc)
      /\ old.ptr = alloc.slab => left.slab < old.ptr
      /\ old.ptr # alloc.slab => left.slab = alloc.slab
      /\ \A q \in Int, k \in Nat : InBuffer(alloc, q, k) <=> InBuffer(left, q, k)
  <2>1. AllocOK(alloc) /\ left = tryReallocate(alloc, old.ptr, old.size, n, old.align)
    OBVIOUS
  <2>2. /\ old.size \in Nat /\ n \in Nat /\ n > old.size
        /\ old.align \in Aligns \union {1} /\ old.ptr \in Int
    BY <1>1, <1>3
  <2> HIDE DEF left, old, IInv
  <2> QED
    BY <2>1, <2>2, LeftFacts, SMTT(60)
<1> HIDE DEF left
<1>5. /\ AllocOK(r.alloc) /\ r.ptr \in Int /\ InBuffer(r.alloc, r.ptr, n)
      /\ \A q \in Int, k \in Nat : InBuffer(left, q, k) => InBuffer(r.alloc, q, k)
      /\ Placed(left, r.alloc, r.ptr, n)
  <2>1. base \in Buffers(left, n, old.align)
    OBVIOUS
  <2> QED
    BY <1>3, <1>4, <2>1, AllocateFacts
<1>6. /\ alloc' = IF old.size = 0 THEN r.alloc ELSE deallocate(r.alloc, old.ptr, old.size)
      /\ blk' = [blk EXCEPT ![b].ptr = r.ptr, ![b].size = n]
  BY <1>2
<1> HIDE DEF r
<1>7. blk' \in BlkType /\ \A c \in live \ {b} : blk'[c] = blk[c]
  <2> DEFINE R == [ptr : Int, size : Sizes \union {0}, align : Aligns \union {1}, depth : Nat]
             x == [[blk[b] EXCEPT !.ptr = r.ptr] EXCEPT !.size = n]
  <2>1. blk \in [Block -> R] /\ BlkType = [Block -> R] /\ live \subseteq Block
    BY DEF BlkType
  <2>2. blk[b] \in R /\ r.ptr \in Int
    BY <1>5, <2>1
  <2>3. x \in R
    BY <2>2
  <2> HIDE DEF R
  <2>4. blk' = [blk EXCEPT ![b] = x]
    BY <1>6, <2>1
  <2> HIDE DEF x
  <2>5. [blk EXCEPT ![b] = x] \in [Block -> R]
    BY <2>1, <2>3, Override
  <2> QED
    BY <2>1, <2>4, <2>5
<1>8. blk'[b].ptr = r.ptr /\ blk'[b].size = n /\ blk'[b].depth = Len(chk)
  BY <1>1, <1>6 DEF BlkType, Depth
<1>9. AllocOK(alloc') /\ \A q \in Int, k \in Nat : InBuffer(r.alloc, q, k) => InBuffer(alloc', q, k)
  <2>1. InBuffer(r.alloc, old.ptr, old.size)
    BY <1>3, <1>4, <1>5
  <2>2. LET e == deallocate(r.alloc, old.ptr, old.size)
        IN  AllocOK(e) /\ \A q \in Int, k \in Nat : InBuffer(r.alloc, q, k) => InBuffer(e, q, k)
    BY <1>3, <1>5, <2>1, FreeFacts
  <2> QED
    BY <1>5, <1>6, <2>2
<1>10. InBuffers(alloc, live, blk)'
  <2>1. InBuffer(alloc', blk'[b].ptr, blk'[b].size)
    BY <1>3, <1>5, <1>8, <1>9
  <2>2. ASSUME NEW c \in live \ {b} PROVE InBuffer(alloc', blk'[c].ptr, blk'[c].size)
    <3>1. blk[c].ptr \in Int /\ blk[c].size \in Nat /\ InBuffer(alloc, blk[c].ptr, blk[c].size)
      BY BlkFields DEF InBuffers
    <3> QED
      BY <1>4, <1>5, <1>7, <1>9, <3>1
  <2> QED
    BY <1>1, <2>1, <2>2 DEF InBuffers
<1>11. ASSUME Tidy(alloc, live, blk, chk) PROVE Tidy(alloc', live, blk', chk)
  <2> DEFINE L == live \ {b}
  <2>1. L \subseteq Block /\ L \subseteq live /\ b \notin L /\ L \union {b} = live
    BY <1>1
  <2> HIDE DEF L
  <2>2. Tidy(left, L, blk, chk)
    BY <1>4, <1>11, <2>1, TidyWeaken
  <2>3. InBuffers(left, L, blk)
    BY <1>4, <2>1, BlkFields DEF InBuffers
  <2>4. \A c \in L : blk'[c] = blk[c]
    BY <1>7, <2>1
  <2>5. Placed(left, r.alloc, blk'[b].ptr, blk'[b].size)
    BY <1>5, <1>8
  <2>6. Tidy(r.alloc, L \union {b}, blk', chk)
    BY <1>4, <1>5, <1>7, <1>8, <2>1, <2>2, <2>3, <2>4, <2>5, PlaceTidy
  <2>7. ASSUME old.size # 0 PROVE old.ptr # r.alloc.slab
    <3>1. Region(alloc.sEnd, old.ptr) => alloc.slab <= old.ptr
      BY <1>1, <1>3, <1>11, <2>7 DEF Tidy, Above, NonEmpty
    <3>2. old.size \in Nat \ {0}
      BY <1>3, <2>7
    <3> QED
      BY <1>1, <1>3, <1>4, <1>5, <3>1, <3>2, OldNotTop
  <2>8. alloc' = r.alloc
    BY <1>6, <2>7 DEF deallocate
  <2> QED
    BY <2>1, <2>6, <2>8
<1> QED
  BY <1>1, <1>7, <1>9, <1>10, <1>11

\* A new checkpoint lies below every held block of its slab.
LEMMA CheckPointInv ==
  ASSUME IInv, CheckPoint
  PROVE  IInv'
<1> USE DEF IInv, ClientsOK
<1> DEFINE c == [p |-> alloc.slab, home |-> alloc.sEnd]
<1>1. chk' = Append(chk, c) /\ UNCHANGED <<alloc, live, blk, misplaced>>
  BY DEF CheckPoint
<1>2. /\ c \in [p : Int, home : Heap] /\ c.p = alloc.slab /\ c.home = alloc.sEnd
      /\ c.p % MinAlignment = 0 /\ c.p <= c.home + SlabSize
  BY AllocFields DEF AllocOK
<1> HIDE DEF c
<1>3. chk \in Seq([p : Int, home : Heap])
  BY DEF ChkType
<1>4. /\ chk' \in ChkType /\ Len(chk') = Len(chk) + 1 /\ chk'[Len(chk) + 1] = c
      /\ Len(chk) \in Nat /\ \A k \in 1 .. Len(chk) : chk'[k] = chk[k]
  BY <1>1, <1>2, <1>3 DEF ChkType
<1>5. \A k \in 1 .. Len(chk') : k \in 1 .. Len(chk) \/ k = Len(chk) + 1
  BY <1>4
<1>6. CheckPointsFit(chk')
  BY <1>2, <1>4, <1>5 DEF CheckPointsFit
<1>7. ASSUME Tidy(alloc, live, blk, chk) PROVE Tidy(alloc, live, blk, chk')
  BY <1>2, <1>4, <1>5, <1>7 DEF Tidy, Above, CheckPointsBelow
<1> QED
  BY <1>1, <1>4, <1>6, <1>7

\* Rolling back keeps the blocks of the outer scopes where they are, and the
\* slab pointer below them unless the checkpoint is misplaced.
LEMMA RollbackInv ==
  ASSUME IInv, NEW k \in 1 .. MaxCheckPoints, NEW keep \in BOOLEAN, Rollback(k, keep)
  PROVE  IInv'
<1> USE DEF IInv, ClientsOK
<1> DEFINE c == chk[k]  dead == {b \in live : blk[b].depth >= k}
           m == IF keep THEN k ELSE k - 1
<1>1. /\ k <= Depth /\ alloc' = rollback(alloc, c.p) /\ live' = live \ dead
      /\ blk' = [b \in Block |-> IF b \in dead THEN NoBlock ELSE blk[b]]
      /\ chk' = SubSeq(chk, 1, m)
      /\ misplaced' = (misplaced \/ (c.home = alloc.sEnd /\ ~isInSlab(c.p, alloc.sEnd)))
  BY DEF Rollback
<1>2. chk \in Seq([p : Int, home : Heap]) /\ Len(chk) \in Nat
  BY DEF ChkType
<1>3. k \in 1 .. Len(chk) /\ m \in 0 .. Len(chk)
  BY <1>1, <1>2, HeapAssumption DEF Depth
<1>4. /\ chk' \in ChkType /\ Len(chk') = m
      /\ \A j \in 1 .. Len(chk') : j \in 1 .. Len(chk) /\ chk'[j] = chk[j]
  <2>1. chk' = SubSeq(chk, 1, m)
    BY <1>1
  <2> HIDE DEF m
  <2>2. /\ chk' \in Seq([p : Int, home : Heap]) /\ Len(chk') = m
        /\ \A j \in 1 .. m : j \in 1 .. Len(chk) /\ chk'[j] = chk[j]
    <3> DEFINE R == [p : Int, home : Heap]
    <3>1. chk \in Seq(R) /\ m \in 0 .. Len(chk)
      BY <1>2, <1>3
    <3> HIDE DEF R
    <3>2. /\ SubSeq(chk, 1, m) \in Seq(R) /\ Len(SubSeq(chk, 1, m)) = m
          /\ \A j \in 1 .. m : j \in 1 .. Len(chk) /\ SubSeq(chk, 1, m)[j] = chk[j]
      BY <3>1, Prefix
    <3> QED
      BY <2>1, <3>2 DEF R
  <2> QED
    BY <2>2 DEF ChkType
<1>5. c.p \in Int /\ c.p % MinAlignment = 0
  <2>1. c \in [p : Int, home : Heap]
    BY <1>2, <1>3, Element
  <2>2. CheckPointsFit(chk)
    OBVIOUS
  <2>3. c.p % MinAlignment = 0
    BY <1>3, <2>2 DEF CheckPointsFit
  <2> QED
    BY <2>1, <2>3
<1> HIDE DEF m
<1>6. blk' \in BlkType /\ live' \subseteq live /\ \A b \in live' : blk'[b] = blk[b]
  BY <1>1, NoBlockType DEF BlkType
<1>7. \A b \in live' : blk[b].depth \in Nat /\ blk[b].depth < k
  <2> SUFFICES ASSUME NEW b \in live' PROVE blk[b].depth \in Nat /\ blk[b].depth < k
    OBVIOUS
  <2>1. b \in live /\ ~(blk[b].depth >= k)
    BY <1>1
  <2>2. blk[b].depth \in Nat
    BY <2>1, BlkFields
  <2> QED
    BY <1>3, <2>1, <2>2
<1> HIDE DEF dead
<1>8. /\ alloc.slab \in Int /\ alloc.sEnd \in Heap /\ alloc.sEnd \in Nat
      /\ alloc.sEnd = alloc.slabs[Len(alloc.slabs)]
      /\ (alloc.sEnd + SlabSize) % MinAlignment = 0 /\ alloc.sEnd + SlabSize \in Int
  <2>1. /\ alloc.slab \in Int /\ alloc.sEnd \in Heap /\ alloc.sEnd \in Nat
        /\ alloc.sEnd = alloc.slabs[Len(alloc.slabs)]
    BY AllocFields
  <2>2. alloc.sEnd % MinAlignment = 0 /\ alloc.sEnd \in Int /\ SlabSize \in Int
    BY <2>1, HeapAligned
  <2>3. (alloc.sEnd + SlabSize) % MinAlignment = 0
    BY <2>2, MultipleSum
  <2> QED
    BY <2>1, <2>2, <2>3
<1>9. /\ AllocOK(alloc') /\ alloc'.sEnd = alloc.sEnd
      /\ isInSlab(c.p, alloc.sEnd) => alloc'.slab = c.p
      /\ \A q \in Int, n \in Nat : InBuffer(alloc, q, n) <=> InBuffer(alloc', q, n)
  <2>1. CASE isInSlab(c.p, alloc.sEnd)
    <3>1. alloc' = [alloc EXCEPT !.slab = c.p]
      BY <1>1, <2>1 DEF rollback
    <3>2. c.p <= alloc.sEnd + SlabSize
      BY <2>1 DEF isInSlab
    <3> QED
      BY <1>5, <3>1, <3>2, MoveSlab
  <2>2. CASE ~isInSlab(c.p, alloc.sEnd)
    <3> DEFINE top == alloc.sEnd + SlabSize
    <3>1. alloc' = [alloc EXCEPT !.slab = top, !.sEnd = alloc.sEnd]
      BY <1>1, <1>8, <2>2 DEF rollback, initSlab
    <3>2. alloc' = [alloc EXCEPT !.slab = top]
      <4>1. alloc \in [slab : Int, sEnd : Heap, slabs : Seq(Heap), customSlabs : SUBSET Heap]
        BY AllocFields
      <4> QED
        BY <3>1, <4>1
    <3>3. top \in Int /\ top % MinAlignment = 0 /\ top <= alloc.sEnd + SlabSize
      BY <1>8
    <3> HIDE DEF top
    <3> QED
      BY <2>2, <3>2, <3>3, MoveSlab
  <2> QED
    BY <2>1, <2>2
<1>10. InBuffers(alloc, live, blk)'
  <2> SUFFICES ASSUME NEW b \in live' PROVE InBuffer(alloc', blk'[b].ptr, blk'[b].size)
    BY DEF InBuffers
  <2>1. InBuffer(alloc, blk[b].ptr, blk[b].size) /\ blk[b].ptr \in Int /\ blk[b].size \in Nat
    BY <1>6, BlkFields DEF InBuffers
  <2> QED
    BY <1>6, <1>9, <2>1
<1>11. CheckPointsFit(chk')
  BY <1>4 DEF CheckPointsFit
<1>12. ASSUME ~misplaced' PROVE Tidy(alloc', live', blk', chk')
  <2>1. Tidy(alloc, live, blk, chk)
    BY <1>1, <1>12
  <2>2. ASSUME NEW b \in NonEmpty(live', blk')
        PROVE  /\ b \in NonEmpty(live, blk) /\ blk'[b] = blk[b] /\ blk[b].depth < k
               /\ End(blk', b) = End(blk, b)
    BY <1>6, <1>7 DEF NonEmpty, End
  <2>3. ASSUME NEW b \in NonEmpty(live', blk'), Region(alloc.sEnd, blk[b].ptr)
        PROVE  alloc'.slab <= blk[b].ptr
    <3>1. c.home = alloc.sEnd /\ c.p <= blk[b].ptr
      BY <1>3, <2>1, <2>2, <2>3 DEF Tidy, CheckPointsBelow
    <3>2. isInSlab(c.p, alloc.sEnd)
      BY <1>1, <1>12, <3>1
    <3> QED
      BY <1>9, <3>1, <3>2
  <2>4. Above(alloc', live', blk')
    BY <1>9, <2>2, <2>3 DEF Above
  <2>5. Apart(live', blk')
    BY <2>1, <2>2 DEF Tidy, Apart
  <2>6. CheckPointsBelow(alloc', live', blk', chk')
    BY <1>4, <1>9, <2>1, <2>2 DEF Tidy, CheckPointsBelow
  <2> QED
    BY <2>4, <2>5, <2>6 DEF Tidy
<1>13. misplaced' \in BOOLEAN
  BY <1>1
<1> QED
  BY <1>4, <1>6, <1>9, <1>10, <1>11, <1>12, <1>13

\* reset preserves the invariant: nothing is held any more.
LEMMA ResetInv ==
  ASSUME IInv, Reset
  PROVE  IInv'
<1> USE DEF IInv, ClientsOK
<1> DEFINE s == alloc.slabs[1]
<1>1. /\ alloc' = reset(alloc) /\ live' = {} /\ chk' = <<>> /\ Len(chk') = 0
      /\ blk' = [b \in Block |-> NoBlock] /\ misplaced' = FALSE
  BY DEF Reset
<1>2. alloc.slabs \in Seq(Heap) /\ Len(alloc.slabs) \in Nat \ {0}
  BY AllocFields
<1>3. s \in Heap
  BY <1>2
<1>4. s \in Nat /\ s % MinAlignment = 0
  BY <1>3, HeapFacts, HeapAligned
<1>5. s + SlabSize \in Int /\ (s + SlabSize) % MinAlignment = 0
  <2>1. s \in Int /\ SlabSize \in Int /\ s % MinAlignment = 0 /\ SlabSize % MinAlignment = 0
    BY <1>4
  <2> HIDE DEF s
  <2>2. (s + SlabSize) % MinAlignment = 0
    BY <2>1, MultipleSum
  <2> QED
    BY <2>1, <2>2
<1>6. SubSeq(alloc.slabs, 1, 1) \in Seq(Heap) /\ Len(SubSeq(alloc.slabs, 1, 1)) = 1
      /\ SubSeq(alloc.slabs, 1, 1)[1] = s
  BY <1>2
<1>7. alloc' = [slab |-> s + SlabSize, sEnd |-> s, slabs |-> SubSeq(alloc.slabs, 1, 1),
                customSlabs |-> {}]
  <2> DEFINE e == [slab |-> s + SlabSize, sEnd |-> s, slabs |-> alloc.slabs,
                   customSlabs |-> alloc.customSlabs]
  <2>1. alloc \in [slab : Int, sEnd : Heap, slabs : Seq(Heap), customSlabs : SUBSET Heap]
    BY AllocFields
  <2>2. initSlab(alloc, s) = e
    <3>1. initSlab(alloc, s) = [[alloc EXCEPT !.slab = s + SlabSize] EXCEPT !.sEnd = s]
      BY DEF initSlab
    <3> HIDE DEF s
    <3> QED
      BY <2>1, <3>1
  <2>3. alloc' = [e EXCEPT !.slabs = SubSeq(@, 1, 1), !.customSlabs = {}]
    BY <1>1, <2>2 DEF reset
  <2> QED
    BY <2>3
<1> HIDE DEF s
<1>8. AllocOK(alloc')
  <2>1. alloc' \in [slab : Int, sEnd : Heap, slabs : Seq(Heap), customSlabs : SUBSET Heap]
    BY <1>3, <1>5, <1>6, <1>7
  <2> QED
    BY <1>4, <1>5, <1>6, <1>7, <2>1 DEF AllocOK
<1>9. blk' \in BlkType
  BY <1>1, NoBlockType DEF BlkType
<1>10. chk' \in ChkType /\ CheckPointsFit(chk')
  BY <1>1 DEF ChkType, CheckPointsFit
<1>11. Tidy(alloc', live', blk', chk') /\ InBuffers(alloc', live', blk')
  BY <1>1 DEF Tidy, Above, Apart, CheckPointsBelow, NonEmpty, InBuffers
<1> QED
  BY <1>1, <1>8, <1>9, <1>10, <1>11

\* Every step preserves the invariant.
LEMMA NextInv == IInv /\ [Next]_vars => IInv'
<1> SUFFICES ASSUME IInv, [Next]_vars PROVE IInv'
  OBVIOUS
<1>1. CASE \E b \in Block, n \in Sizes, align \in Aligns : Allocate(b, n, align)
  BY <1>1, AllocateInv
<1>2. CASE \E b \in Block : Deallocate(b)
  BY <1>2, DeallocateInv
<1>3. CASE \E b \in Block, n \in Sizes : Shrink(b, n) \/ GrowInPlace(b, n) \/ GrowElsewhere(b, n)
  BY <1>3, ShrinkInv, GrowInPlaceInv, GrowElsewhereInv
<1>4. CASE CheckPoint
  BY <1>4, CheckPointInv
<1>5. CASE \E k \in 1 .. MaxCheckPoints, keep \in BOOLEAN : Rollback(k, keep)
  BY <1>5, RollbackInv
<1>6. CASE Reset
  BY <1>6, ResetInv
<1>7. CASE UNCHANGED vars
  BY <1>7 DEF vars, IInv, ClientsOK
<1> QED
  BY <1>1, <1>2, <1>3, <1>4, <1>5, <1>6, <1>7 DEF Next

\* The invariant holds in every state.
LEMMA Inductive == Spec => []IInv
<1>1. Init => IInv
  BY InitInv
<1>2. IInv /\ [Next]_vars => IInv'
  BY NextInv
<1> QED
  BY <1>1, <1>2, PTL DEF Spec

----------------------------------------------------------------------------
(* The theorems.                                                           *)

\* The allocator's fields keep their types, the slab pointer stays aligned and
\* not above its slab, and the slab in use is slabs.back(), through every
\* sequence of allocate, reallocate, deallocate, rollback and reset.
THEOREM TypeCorrect == Spec => []TypeOK
<1>1. IInv => TypeOK
  <2> SUFFICES ASSUME IInv PROVE TypeOK
    OBVIOUS
  <2>1. AllocOK(alloc) /\ ClientsOK
    BY DEF IInv
  <2> QED
    BY <2>1 DEF AllocOK, ClientsOK, BlkType, ChkType, TypeOK
<1> QED
  BY <1>1, Inductive, PTL

\* Held blocks never share a byte, however allocation, growth, frees, nested
\* checkpoints and rollbacks interleave, unless a rollback took a checkpoint of
\* the current slab for one of an older slab.
THEOREM Disjointness == Spec => []NoOverlapUnlessMisplaced
<1>1. IInv => NoOverlapUnlessMisplaced
  <2> SUFFICES ASSUME IInv, ~misplaced, NEW b \in live, NEW c \in live, b # c,
                      blk[b].size > 0, blk[c].size > 0
               PROVE  ~Overlap(b, c)
    BY DEF NoOverlapUnlessMisplaced, NoOverlap
  <2>1. live \subseteq Block /\ blk \in BlkType /\ Apart(live, blk)
    BY DEF IInv, ClientsOK, Tidy
  <2>2. End(blk, b) <= blk[c].ptr \/ End(blk, c) <= blk[b].ptr
    BY <2>1 DEF Apart, NonEmpty
  <2>3. /\ blk[b].ptr \in Int /\ blk[b].size \in Nat /\ Footprint(blk[b].size) \in Nat
        /\ blk[b].size <= Footprint(blk[b].size)
        /\ blk[c].ptr \in Int /\ blk[c].size \in Nat /\ Footprint(blk[c].size) \in Nat
        /\ blk[c].size <= Footprint(blk[c].size)
    BY <2>1, BlkFields
  <2> QED
    BY <2>2, <2>3 DEF End, Overlap
<1> QED
  BY <1>1, Inductive, PTL

\* Every byte a client may touch lies in a buffer the allocator still owns,
\* across slab changes, rollbacks and failed in-place growth.
THEOREM BlocksInBuffers == Spec => []LiveInBuffers
<1>1. IInv => LiveInBuffers
  <2> SUFFICES ASSUME IInv, NEW b \in live
               PROVE  \/ \E i \in 1 .. Len(alloc.slabs) :
                           /\ alloc.slabs[i] <= blk[b].ptr
                           /\ blk[b].ptr + blk[b].size <= alloc.slabs[i] + SlabSize
                      \/ blk[b].ptr \in alloc.customSlabs
    BY DEF LiveInBuffers
  <2>1. b \in Block /\ blk \in BlkType /\ AllocOK(alloc) /\ InBuffer(alloc, blk[b].ptr, blk[b].size)
    BY DEF IInv, ClientsOK, InBuffers
  <2>2. /\ blk[b].ptr \in Int /\ blk[b].size \in Nat /\ Footprint(blk[b].size) \in Nat
        /\ blk[b].size <= Footprint(blk[b].size)
    BY <2>1, BlkFields
  <2>3. ASSUME NEW i \in 1 .. Len(alloc.slabs),
               blk[b].ptr + Footprint(blk[b].size) <= alloc.slabs[i] + SlabSize
        PROVE  blk[b].ptr + blk[b].size <= alloc.slabs[i] + SlabSize
    <3>1. alloc.slabs \in Seq(Heap) /\ Len(alloc.slabs) \in Nat
      BY <2>1, AllocFields
    <3>2. alloc.slabs[i] \in Heap
      BY <3>1
    <3> DEFINE s == alloc.slabs[i]
    <3>3. s \in Nat /\ blk[b].ptr + Footprint(blk[b].size) <= s + SlabSize
      BY <2>3, <3>2, HeapFacts
    <3> HIDE DEF s
    <3>4. blk[b].ptr + blk[b].size <= s + SlabSize
      BY <2>2, <3>3
    <3> QED
      BY <3>4 DEF s
  <2> QED
    BY <2>1, <2>3 DEF InBuffer
<1> QED
  BY <1>1, Inductive, PTL

\* isInSlab recognises every checkpoint of the current slab except one taken
\* when that slab had no byte left.
THEOREM MisplacedOnlyFull == Spec => MisplacedOnlyWhenFull
<1>1. ASSUME IInv, [Next]_vars, NEW k \in 1 .. MaxCheckPoints, NEW keep \in BOOLEAN,
             Rollback(k, keep), misplaced', ~misplaced
      PROVE  chk[k].p <= chk[k].home
  <2>1. chk \in Seq([p : Int, home : Heap]) /\ CheckPointsFit(chk)
    BY <1>1 DEF IInv, ClientsOK, ChkType
  <2>2. k \in 1 .. Len(chk) /\ Len(chk) \in Nat
    BY <1>1, <2>1, HeapAssumption DEF Rollback, Depth
  <2>3. chk[k].p \in Int /\ chk[k].home \in Heap /\ chk[k].p <= chk[k].home + SlabSize
    <3>1. chk[k] \in [p : Int, home : Heap]
      BY <2>1, <2>2, Element
    <3>2. chk[k].p <= chk[k].home + SlabSize
      BY <2>1, <2>2 DEF CheckPointsFit
    <3> QED
      BY <3>1, <3>2
  <2>4. ~isInSlab(chk[k].p, chk[k].home)
    BY <1>1 DEF Rollback
  <2>5. chk[k].home \in Nat
    BY <2>3, HeapFacts
  <2> QED
    BY <2>3, <2>4, <2>5 DEF isInSlab
<1>2. IInv /\ [Next]_vars =>
        [\A k \in 1 .. MaxCheckPoints, keep \in BOOLEAN :
           Rollback(k, keep) /\ misplaced' /\ ~misplaced => chk[k].p <= chk[k].home]_vars
  BY <1>1
<1> QED
  BY <1>2, Inductive, PTL DEF Spec, MisplacedOnlyWhenFull

----------------------------------------------------------------------------
(* Alignment.                                                              *)

\* The slab pointer is a multiple of every alignment that MinAlignment covers.
LEMMA SmallAligned ==
  ASSUME NEW x \in Int, x % MinAlignment = 0, NEW a \in Aligns \union {1}, ~(a > MinAlignment)
  PROVE  x % a = 0
<1>1. CASE a \in Aligns
  <2>1. a \in Nat \ {0} /\ MinAlignment % a = 0
    BY <1>1, RequestAssumption, RequestFacts
  <2> QED
    BY <2>1, MultipleTrans
<1>2. CASE a = 1
  BY <1>2
<1> QED
  BY <1>1, <1>2

\* What allocCore carves is aligned as asked.
LEMMA CarveAligned ==
  ASSUME NEW slab \in Int, slab % MinAlignment = 0, NEW n \in Sizes, NEW align \in Aligns \union {1}
  PROVE  allocCore(slab, n, align) % align = 0
<1>1. n \in Nat /\ align \in Nat \ {0}
  BY RequestFacts
<1>2. CASE align > MinAlignment
  <2>1. slab - n \in Int /\ allocCore(slab, n, align) = AlignDown(slab - n, align)
    BY <1>1, <1>2 DEF allocCore
  <2> QED
    BY <1>1, <2>1, AlignDownFacts
<1>3. CASE ~(align > MinAlignment)
  BY <1>3, CarveFacts, SmallAligned
<1> QED
  BY <1>2, <1>3

\* allocate returns an aligned block or a custom buffer, and keeps the others.
LEMMA AllocateAligned ==
  ASSUME NEW a, AllocOK(a), NEW n \in Sizes, NEW align \in Aligns \union {1},
         NEW base \in Buffers(a, n, align), NEW r, r = allocate(a, n, align, base)
  PROVE  /\ r.ptr \in r.alloc.customSlabs \/ r.ptr % align = 0
         /\ a.customSlabs \subseteq r.alloc.customSlabs
<1>1. a.slab \in Int /\ a.slab % MinAlignment = 0
  BY AllocFields DEF AllocOK
<1>2. a \in [slab : Int, sEnd : Heap, slabs : Seq(Heap), customSlabs : SUBSET Heap]
  BY AllocFields
<1>3. CASE IsCustom(n)
  BY <1>2, <1>3 DEF allocate
<1>4. CASE ~IsCustom(n) /\ ~NeedsSlab(a, n, align)
  <2> DEFINE p == allocCore(a.slab, n, align)
  <2>1. p % align = 0
    BY <1>1, CarveAligned
  <2>2. r.ptr = [a EXCEPT !.slab = p].slab /\ r.alloc = [a EXCEPT !.slab = p]
    BY <1>4 DEF allocate, bumpAlloc
  <2> HIDE DEF p
  <2> QED
    BY <1>2, <2>1, <2>2
<1>5. CASE ~IsCustom(n) /\ NeedsSlab(a, n, align)
  <2> DEFINE f == newSlab(a, base)
             p == allocCore(f.slab, n, align)
  <2>1. base \in Heap \ InUse(a)
    BY <1>5 DEF Buffers
  <2>2. AllocOK(f)
    BY <2>1, NewSlabFacts
  <2>3. f.customSlabs = a.customSlabs
    BY <1>2 DEF newSlab, initSlab
  <2>4. r.ptr = [f EXCEPT !.slab = p].slab /\ r.alloc = [f EXCEPT !.slab = p]
    BY <1>5 DEF allocate, bumpAlloc
  <2> HIDE DEF f
  <2>5. f.slab \in Int /\ f.slab % MinAlignment = 0
    BY <2>2, AllocFields DEF AllocOK
  <2>6. p % align = 0
    BY <2>5, CarveAligned
  <2>7. f \in [slab : Int, sEnd : Heap, slabs : Seq(Heap), customSlabs : SUBSET Heap]
    BY <2>2, AllocFields
  <2> HIDE DEF p
  <2> QED
    BY <2>3, <2>4, <2>6, <2>7
<1> QED
  BY <1>3, <1>4, <1>5

\* tryReallocate steps down from an aligned block by a multiple of its alignment.
LEMMA GrownAligned ==
  ASSUME NEW a, AllocOK(a), NEW old \in Nat, NEW n \in Nat, n > old, NEW align \in Aligns \union {1},
         a.slab % align = 0
  PROVE  Grown(a, old, n, align) % align = 0
<1>1. a.slab \in Int /\ a.slab % MinAlignment = 0 /\ align \in Nat \ {0}
  BY AllocFields, RequestFacts DEF AllocOK
<1>2. CASE align > MinAlignment
  <2>1. Grown(a, old, n, align) = a.slab - AlignUp(n - old, align)
    BY <1>2 DEF Grown
  <2> DEFINE x == n - old
  <2>2. AlignUp(x, align) \in Nat /\ AlignUp(x, align) % align = 0
    <3>1. x \in Nat
      OBVIOUS
    <3>2. align \in Nat \ {0}
      BY <1>1
    <3> HIDE DEF x
    <3> QED
      BY <3>1, <3>2, AlignUpFacts, Zenon
  <2> QED
    BY <1>1, <2>1, <2>2, MultipleSum
<1>3. CASE ~(align > MinAlignment)
  <2>1. Grown(a, old, n, align) \in Int /\ Grown(a, old, n, align) % MinAlignment = 0
    BY GrownFacts
  <2> QED
    BY <1>3, <2>1, SmallAligned
<1> QED
  BY <1>2, <1>3

\* A block at the slab pointer that still fits below is not a custom buffer.
LEMMA NoCustomInSlab ==
  ASSUME NEW a, AllocOK(a), NEW s \in Int, a.sEnd <= s, s < a.slab
  PROVE  a.slab \notin a.customSlabs
<1>1. /\ a.slab \in Int /\ a.sEnd \in Heap /\ a.sEnd \in Nat /\ a.slab <= a.sEnd + SlabSize
      /\ a.customSlabs \subseteq Heap /\ Span \in Nat /\ SlabSize <= Span
  BY AllocFields, HeapFacts DEF AllocOK
<1> SUFFICES ASSUME a.slab \in Heap PROVE FALSE
  BY <1>1
<1>2. a.sEnd + Span < a.slab
  BY <1>1, HeapGap
<1> QED
  BY <1>1, <1>2

LEMMA AlignedStep ==
  ASSUME IInv, BumpedBlocksAligned, [Next]_vars
  PROVE  BumpedBlocksAligned'
<1>1. AllocOK(alloc) /\ live \subseteq Block /\ blk \in BlkType
  BY DEF IInv, ClientsOK
<1>2. ASSUME alloc.customSlabs \subseteq alloc'.customSlabs, live' \subseteq live,
             \A c \in live' : blk'[c].ptr = blk[c].ptr /\ blk'[c].align = blk[c].align
      PROVE  BumpedBlocksAligned'
  BY <1>2 DEF BumpedBlocksAligned
<1>3. ASSUME NEW b \in Block, alloc.customSlabs \subseteq alloc'.customSlabs,
             live' \subseteq live \union {b}, \A c \in live \ {b} : blk'[c] = blk[c],
             blk'[b].ptr \notin alloc'.customSlabs => blk'[b].ptr % blk'[b].align = 0
      PROVE  BumpedBlocksAligned'
  BY <1>3 DEF BumpedBlocksAligned
<1>4. ASSUME NEW b \in Block, NEW n \in Sizes, NEW align \in Aligns, Allocate(b, n, align)
      PROVE  BumpedBlocksAligned'
  <2>1. PICK base \in Buffers(alloc, n, align) :
          LET r == allocate(alloc, n, align, base)
          IN  /\ alloc' = r.alloc
              /\ blk' = [blk EXCEPT ![b] = [ptr |-> r.ptr, size |-> n, align |-> align, depth |-> Depth]]
    BY <1>4 DEF Allocate
  <2> DEFINE r == allocate(alloc, n, align, base)
  <2>2. /\ r.ptr \in r.alloc.customSlabs \/ r.ptr % align = 0
        /\ alloc.customSlabs \subseteq r.alloc.customSlabs
    BY <1>1, AllocateAligned
  <2>3. /\ alloc' = r.alloc
        /\ blk' = [blk EXCEPT ![b] = [ptr |-> r.ptr, size |-> n, align |-> align, depth |-> Depth]]
    BY <2>1
  <2> HIDE DEF r
  <2>4. blk'[b].ptr = r.ptr /\ blk'[b].align = align /\ \A c \in live \ {b} : blk'[c] = blk[c]
    BY <1>1, <2>3 DEF BlkType
  <2>5. live' = live \union {b}
    BY <1>4 DEF Allocate
  <2> QED
    BY <1>3, <2>2, <2>3, <2>4, <2>5
<1>5. ASSUME NEW b \in Block, Deallocate(b)
      PROVE  BumpedBlocksAligned'
  <2>1. alloc'.customSlabs = alloc.customSlabs
    <3>1. alloc \in [slab : Int, sEnd : Heap, slabs : Seq(Heap), customSlabs : SUBSET Heap]
      BY <1>1, AllocFields
    <3> QED
      BY <1>5, <3>1 DEF Deallocate, deallocate
  <2>2. live' = live \ {b} /\ \A c \in live' : blk'[c] = blk[c]
    BY <1>1, <1>5 DEF Deallocate, BlkType
  <2> QED
    BY <1>2, <2>1, <2>2
<1>6. ASSUME NEW b \in Block, NEW n \in Sizes, Shrink(b, n)
      PROVE  BumpedBlocksAligned'
  <2>1. alloc' = alloc /\ live' = live /\ blk' = [blk EXCEPT ![b].size = n]
    BY <1>6 DEF Shrink
  <2>2. \A c \in Block : blk'[c].ptr = blk[c].ptr /\ blk'[c].align = blk[c].align
    BY <1>1, <2>1 DEF BlkType
  <2> QED
    BY <1>1, <1>2, <2>1, <2>2
<1>7. ASSUME NEW b \in Block, NEW n \in Sizes, GrowInPlace(b, n)
      PROVE  BumpedBlocksAligned'
  <2> DEFINE old == blk[b]
             s == Grown(alloc, old.size, n, old.align)
  <2>1. /\ b \in live /\ n > old.size /\ old.ptr = alloc.slab
        /\ ~outOfSlab(s, alloc.sEnd) /\ alloc' = [alloc EXCEPT !.slab = s]
        /\ blk' = [blk EXCEPT ![b].ptr = alloc'.slab, ![b].size = n] /\ live' = live
    BY <1>7 DEF GrowInPlace, GrowsInPlace, tryReallocate, MayResize
  <2>2. old.size \in Nat /\ n \in Nat /\ old.align \in Aligns \union {1}
    BY <1>1, BlkFields, RequestFacts
  <2>3. s \in Int /\ s < alloc.slab /\ alloc.sEnd \in Nat
    BY <1>1, <2>1, <2>2, GrownFacts, AllocFields
  <2>4. alloc.slab \notin alloc.customSlabs
    <3>1. alloc.sEnd <= s
      BY <2>1, <2>3 DEF outOfSlab
    <3> QED
      BY <1>1, <2>3, <3>1, NoCustomInSlab
  <2>5. s % old.align = 0
    <3>1. alloc.slab % old.align = 0
      BY <2>1, <2>4 DEF BumpedBlocksAligned
    <3> QED
      BY <1>1, <2>1, <2>2, <3>1, GrownAligned
  <2> HIDE DEF s
  <2>6. alloc'.slab = s /\ alloc'.customSlabs = alloc.customSlabs
    BY <1>1, <2>1, AllocFields
  <2>7. blk'[b].ptr = s /\ blk'[b].align = old.align /\ \A c \in live \ {b} : blk'[c] = blk[c]
    BY <1>1, <2>1, <2>6 DEF BlkType
  <2> QED
    BY <1>3, <2>1, <2>5, <2>6, <2>7
<1>8. ASSUME NEW b \in Block, NEW n \in Sizes, GrowElsewhere(b, n)
      PROVE  BumpedBlocksAligned'
  <2> DEFINE old == blk[b]
             left == tryReallocate(alloc, old.ptr, old.size, n, old.align)
  <2>1. b \in live /\ n > old.size /\ live' = live
    BY <1>8 DEF GrowElsewhere, MayResize
  <2>2. PICK base \in Buffers(left, n, old.align) :
          LET r == allocate(left, n, old.align, base)
          IN  /\ alloc' = IF old.size = 0 THEN r.alloc ELSE deallocate(r.alloc, old.ptr, old.size)
              /\ blk' = [blk EXCEPT ![b].ptr = r.ptr, ![b].size = n]
    BY <1>8 DEF GrowElsewhere
  <2> DEFINE r == allocate(left, n, old.align, base)
  <2>3. old.size \in Nat /\ n \in Nat /\ old.align \in Aligns \union {1} /\ old.ptr \in Int
    BY <1>1, BlkFields, RequestFacts
  <2>4. AllocOK(left)
    BY <1>1, <2>1, <2>3, LeftFacts
  <2>5. left.customSlabs = alloc.customSlabs
    BY <1>1, AllocFields DEF tryReallocate
  <2>6. base \in Buffers(left, n, old.align)
    BY <2>2
  <2> HIDE DEF left
  <2>7. /\ r.ptr \in r.alloc.customSlabs \/ r.ptr % old.align = 0
        /\ alloc.customSlabs \subseteq r.alloc.customSlabs /\ AllocOK(r.alloc)
    BY <2>3, <2>4, <2>5, <2>6, AllocateAligned, AllocateFacts
  <2>8. /\ alloc' = IF old.size = 0 THEN r.alloc ELSE deallocate(r.alloc, old.ptr, old.size)
        /\ blk' = [blk EXCEPT ![b].ptr = r.ptr, ![b].size = n]
    BY <2>2
  <2> HIDE DEF r
  <2>9. alloc'.customSlabs = r.alloc.customSlabs
    BY <2>7, <2>8, AllocFields DEF deallocate
  <2>10. blk'[b].ptr = r.ptr /\ blk'[b].align = old.align /\ \A c \in live \ {b} : blk'[c] = blk[c]
    BY <1>1, <2>8 DEF BlkType
  <2> QED
    BY <1>3, <2>1, <2>7, <2>9, <2>10
<1>9. CASE CheckPoint
  BY <1>2, <1>9 DEF CheckPoint
<1>10. ASSUME NEW k \in 1 .. MaxCheckPoints, NEW keep \in BOOLEAN, Rollback(k, keep)
       PROVE  BumpedBlocksAligned'
  <2>1. alloc'.customSlabs = alloc.customSlabs
    <3>1. alloc \in [slab : Int, sEnd : Heap, slabs : Seq(Heap), customSlabs : SUBSET Heap]
      BY <1>1, AllocFields
    <3>2. alloc' = rollback(alloc, chk[k].p)
      BY <1>10 DEF Rollback
    <3> QED
      BY <3>1, <3>2 DEF rollback, initSlab
  <2>2. live' \subseteq live /\ \A c \in live' : blk'[c] = blk[c]
    BY <1>1, <1>10 DEF Rollback
  <2> QED
    BY <1>2, <2>1, <2>2
<1>11. CASE Reset
  BY <1>11 DEF Reset, BumpedBlocksAligned
<1>12. CASE UNCHANGED vars
  BY <1>12 DEF vars, BumpedBlocksAligned
<1> QED
  BY <1>4, <1>5, <1>6, <1>7, <1>8, <1>9, <1>10, <1>11, <1>12 DEF Next

\* Every block carved from a slab has the alignment asked for, through growth in
\* place and moves between slabs; custom buffers only have MinAlignment.
THEOREM BlocksAligned == Spec => []BumpedBlocksAligned
<1>1. Init => BumpedBlocksAligned
  BY DEF Init, BumpedBlocksAligned
<1>2. IInv /\ BumpedBlocksAligned /\ [Next]_vars => BumpedBlocksAligned'
  BY AlignedStep
<1> QED
  BY <1>1, <1>2, Inductive, PTL DEF Spec
=============================================================================
