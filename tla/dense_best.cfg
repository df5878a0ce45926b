SPECIFICATION Spec
CONSTANTS
  N = 5
  Inputs <- Thirteen
  LegLimits = {7}
  Window = 8
INVARIANT PopsBest
CHECK_DEADLOCK FALSE
