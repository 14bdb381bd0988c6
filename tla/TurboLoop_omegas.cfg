CONSTANTS
  Functions <- functions
SPECIFICATION TurboSpec
INVARIANT OmegasFit
CHECK_DEADLOCK FALSE
