SPECIFICATION Spec
CONSTANTS
  c1 = c1 c3 = c3
  Client = {c1, c3}
  TenantOf <- TwoTenants
  Tenant = {"s", "t"}
  Limit = 1
  Window = 2
  QueueCap = 1
  MaxClock = 4
  MaxJobs = 2
  MaxLives = 2
  MaxOutages = 2
INVARIANTS TypeOK AdmissionBound RefusedJustly NeverPanics NothingLeftBehind
PROPERTIES GoesDown
CHECK_DEADLOCK FALSE
