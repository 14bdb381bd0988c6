CONSTANTS
  Programs <- blocks
  Directions <- directions
SPECIFICATION GraphSpec
INVARIANT MemoryOfNode
CHECK_DEADLOCK FALSE
