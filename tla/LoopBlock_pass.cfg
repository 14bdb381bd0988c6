CONSTANTS
  na = na
  nb = nb
  nc = nc
  ex = ex
  ey = ey
  ez = ez
  Node <- NodeMC
  Edge <- EdgeMC
  MaxLoops = 3
  SatSlots = 2
  Blocks <- BlocksMC
  Functions <- functions
  Programs <- blocks
  Directions <- directions
  Nodes <- nodeBlocks
  Shifts <- nodeShifts
SPECIFICATION PartSpec
INVARIANTS
  TypeOK
  LegalUnlessOverwritten
  SatLevelTruthful
  ReturnedAreSatisfied
  SatDepIsFinal
  LoopsPlanted
  AccessesPlaced
  NestsFit
  NodesReadOperands
  ConflictsOrdered
  ReloadsEnd
  ShiftsAgree
CHECK_DEADLOCK FALSE
