SPECIFICATION Spec
CONSTANTS
  c1 = c1
  c2 = c2
  t1 = t1
  t2 = t2
  Nobody = Nobody
  Clients = {c1, c2}
  Limit = 1
  Window = 1
  MaxRequests = 3
  LastArrival = 2
  MaxSweepTime = 3
  Callers = {t1, t2}
  TTL = 2
  MinRefetch = 2
  FetchTimeout = 1
  Overlap = 0
  MaxRotations = 1
  MaxKeyTime = 4
  StateExpiration = 2
  StateCleanupInterval = 1
  MaxStateEntries = 2
  MaxLogins = 4
  MaxLoginTime = 6
SYMMETRY Symmetry
INVARIANTS LimitOfEntry RetiredKeysRunOut NewKeyRefusedBriefly PlacesAreFreed
CHECK_DEADLOCK FALSE
