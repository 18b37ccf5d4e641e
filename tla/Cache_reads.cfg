SPECIFICATION CacheFairSpec
CONSTANTS
  c1 = c1
  c2 = c2
  c3 = c3
  k1 = k1
  k2 = k2
  Callers = {c1, c2}
  Keys = {k1, k2}
  Size = 1
  TTL = 0
  MaxTime = 1
  MaxVersion = 1
INVARIANT NoNeedlessFetch
PROPERTIES ReadsNeverGoBack EveryGetReturns
