SPECIFICATION MCSpec
CONSTANTS
  MaxAttempts = 1
  Contracts = {"c"}
  ChartsEnabled = TRUE
  Starts <- MCStarts
  Sessions = {"u"}
  MaxMoves = 1
  MaxHeight = 2
  MaxFaults = 2
INVARIANTS ShownIsAsked OwnAnswers NewRowsAnnounced GrantShownAsChecked NoIdleSkeleton
CHECK_DEADLOCK FALSE
