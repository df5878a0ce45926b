SPECIFICATION RestartedSpec
CONSTANTS
  r1 = r1 r2 = r2 A = A B = B C = C None = None
  Request = {r1, r2}
  Place = {A, B, C}
  GeoHash <- OwnCells
  Near <- CNearA
  Waypoints <- Opposed
  Strict = {r1}
  Pinned = {}
  SlotOf <- Hour0
  MaxPoints = 2
  MaxLegs = 2
  Plan <- MCPlan
  UseRedis = TRUE
  UseArchive = TRUE
  UseAsync = TRUE
  QueueCap = 1
  Faults = {"provider", "ttl"}
  Resubmit = {}
  Patient = FALSE
  MaxHour = 1
  MaxCrashes = 1
INVARIANTS TypeOK AnswerFits NoCutAnswer StoresHoldRoadData
CHECK_DEADLOCK FALSE
