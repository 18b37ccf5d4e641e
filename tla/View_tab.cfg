SPECIFICATION FairSpec
CONSTANTS
  t1 = t1
  t2 = t2
  a1 = a1
  a2 = a2
  Tokens = {t1, t2}
  NoToken = NoToken
  Admins = {a1, a2}
  MaxStops = 1
INVARIANT WatchedOrLeaving
PROPERTY StaleBannerLeaves
