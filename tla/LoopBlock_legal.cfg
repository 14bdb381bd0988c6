CONSTANTS
  na = na
  nb = nb
  nc = nc
  ex = ex
  ey = ey
  ez = ez
  Node <- NodeMC
  Edge <- EdgeMC
  MaxLoops = 3
  SatSlots = 2
  Blocks <- BlocksMC
SPECIFICATION Spec
INVARIANT Legal
CHECK_DEADLOCK FALSE
