CONSTANTS
  LastNode = 3
  Graphs <- GraphsMC
  Portions <- WholeMC
SPECIFICATION SccSpec
INVARIANT TopologicalOrder
CHECK_DEADLOCK FALSE
