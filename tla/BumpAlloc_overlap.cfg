CONSTANTS
  SlabSize = 8
  MinAlignment = 2
  Span = 8
  MaxCheckPoints = 2
  b1 = b1
  b2 = b2
  Sizes <- SizesMC
  Aligns <- AlignsMC
  Heap <- HeapMC
  Block <- BlockMC
SYMMETRY Symmetry
SPECIFICATION Spec
INVARIANT NoOverlap
