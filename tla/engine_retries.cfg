SPECIFICATION MCSpec
CONSTANTS
  r1 = r1 r2 = r2 A = A B = B C = C None = None
  Request = {r1}
  Place = {A, B, C}
  GeoHash <- OwnCells
  Near <- FarApart
  Waypoints <- Triangle
  Strict = {r1}
  Pinned = {r1}
  SlotOf <- Hour0
  MaxPoints = 3
  MaxLegs = 3
  Plan <- MCPlan
  UseRedis = TRUE
  UseArchive = FALSE
  UseAsync = TRUE
  QueueCap = 1
  Faults = {"provider", "short"}
  Resubmit = {"504", "dropped", "200"}
  Patient = TRUE
  MaxHour = 1
  MaxCrashes = 1
INVARIANTS AnswersFit RedisWriteThrough RedisNeverPaysTwice
PROPERTIES Answered RedisServes
CHECK_DEADLOCK FALSE
