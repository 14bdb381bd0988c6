CONSTANTS
  na = na
  nb = nb
  nc = nc
  ex = ex
  ey = ey
  ez = ez
  Node <- NodeMC
  Edge <- EdgeMC
  MaxLoops = 3
  SatSlots = 2
  Blocks <- BlocksLive
SPECIFICATION FairSpec
PROPERTY Terminates
CHECK_DEADLOCK FALSE
