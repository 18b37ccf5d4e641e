SPECIFICATION FairSpec
CONSTANTS
  r1 = r1
  r2 = r2
  Requests = {r1, r2}
  MaxPairs = 2
  MaxTime = 0
  TTL = 0
  Threshold = 1
  Verified = FALSE
  Leeway = 0
  Kinds = {"logout", "callback"}
  Aborts = TRUE
  Faults = TRUE
  Refreshless = TRUE
PROPERTY RefreshReleasesWaiters
