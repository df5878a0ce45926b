SPECIFICATION Spec
CONSTANTS
  N = 4
  Inputs <- UpToSix
  LegLimits = {3, 5}
  Window = 2
INVARIANTS TypeOK HeapComplete TrailsTakeAll NothingToRepair BoughtOnce PlanCovers BoundHolds
PROPERTY Implements
CHECK_DEADLOCK FALSE
