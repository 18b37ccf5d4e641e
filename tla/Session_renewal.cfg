SPECIFICATION Spec
CONSTANTS
  r1 = r1
  r2 = r2
  Requests = {r1, r2}
  MaxPairs = 3
  MaxTime = 2
  TTL = 0
  Threshold = 1
  Verified = TRUE
  Leeway = 2
  Kinds = {"api", "status"}
  Aborts = TRUE
  Faults = TRUE
  Refreshless = FALSE
CONSTRAINT LastTickIsForBans
SYMMETRY RequestSymmetry
INVARIANTS BurstNotSelfRevoked ClearedOnlyWhenExpired
PROPERTY BanWindow
