CONSTANTS
  SlabSize = 8
  MinAlignment = 2
  Span = 8
  MaxCheckPoints = 2
  b1 = b1
  b2 = b2
  Sizes <- SizesMC
  Aligns <- AlignsMC
  Heap <- HeapMC
  Block <- BlockMC
  WordBits = 2
  Words = 2
  Name = {x, y}
  Vec = {v, w}
  Buffer = {c1, c2, c3}
  Value = {1}
  Junk = junk
  Inline = {0, 1}
  MaxLen = 2
  MaxRow = 3
  MaxCol = 2
  Shape <- shapes
  NoData = nodata
  Vecs = {p, q}
  Cells = 6
  InitialCapacity = 1
  Item = {1, 2}
  Litter = litter
SYMMETRY Exchange
SPECIFICATION PartSpec
INVARIANTS
  TypeOK
  NoOverlapUnlessMisplaced
  LiveInBuffers
  BumpedBlocksAligned
  ReadsMembers
  OneOwner
  HoldWhatWasPut
  BlocksApart
PROPERTIES
  MisplacedOnlyWhenFull
  IsASet
  IsASequence
  IsAGrid
CHECK_DEADLOCK FALSE
