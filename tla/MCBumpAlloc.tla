---------------------------- MODULE MCBumpAlloc ----------------------------
(* A small instance of BumpAlloc: slabs of 8 bytes, granules of 2.          *)
EXTENDS BumpAlloc, TLC

CONSTANTS b1, b2

BlockMC == {b1, b2}

\* 3 exercises rounding and fills half a slab, 5 needs a custom buffer.
SizesMC == {0, 3, 5}
AlignsMC == {1, 4}

\* 10 is aligned to MinAlignment but not to 4.
HeapMC == {10, 20}

Symmetry == Permutations(Block)
=============================================================================
