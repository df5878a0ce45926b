SPECIFICATION Spec
CONSTANTS
  A = A B1 = B1 B2 = B2 c1 = c1 c2 = c2
  Client = {c1, c2}
  Asks <- Neighbours
  Place = {A, B1, B2}
  GeoHash <- OneCell
  Metres <- Map
  TTL = 2
  QueueCap = 1
  StartHour <- Monday22
  Jumps = {1}
  MaxBuys = 2
  MaxFaults = 2
INVARIANTS TypeOK ServedFits PaysOnce ArchiveKeeps
CHECK_DEADLOCK FALSE
