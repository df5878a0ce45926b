SPECIFICATION Spec
CONSTANTS
  r1 = r1 r2 = r2 A = A B = B C = C None = None
  Request = {r1}
  Place = {A, B}
  GeoHash <- OwnCells
  Near <- FarApart
  Waypoints <- Opposed
  Strict = {r1}
  Pinned = {r1}
  SlotOf <- Hour0
  MaxPoints = 0
  MaxLegs = 2
  Plan <- MCPlan
  UseRedis = TRUE
  UseArchive = TRUE
  UseAsync = TRUE
  QueueCap = 1
  Faults = {}
  Resubmit = {}
  Patient = FALSE
  MaxHour = 0
  MaxCrashes = 0
INVARIANT ProviderSuccessesKept
CHECK_DEADLOCK FALSE
