CONSTANTS
  LastNode = 3
  Graphs <- GraphsMC
  Portions <- PortionsMC
SPECIFICATION SccSpec
INVARIANT ComponentsInGraph
CHECK_DEADLOCK FALSE
