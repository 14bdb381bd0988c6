CONSTANTS
  Pairs <- fusions
  Rows <- identity
  Offsets <- none
  Values <- values
  Slack <- slack
  Polyhedron <- none
  Reach <- none
  Halves <- none
SPECIFICATION MCSpec
INVARIANT
  SatisfiedRespects
CHECK_DEADLOCK FALSE
