CONSTANTS
  g1 = g1
  g2 = g2
  Sources <- MCSources
  NumTxs = 4
  PerBlock = 2
  PageSize = 1
  BatchSize = 1
  MaxPages = 2
  MaxBatches = 2
  MaxRows = 1
SPECIFICATION MCSpec
INVARIANTS GrantShownAtMostOnce EveryGrantIsShown ShownAtOneLevel ComposedOnce
CHECK_DEADLOCK FALSE
