SPECIFICATION FairSpec
CONSTANTS
  c1 = c1
  c2 = c2
  Clients = {c1, c2}
  Topics = {"blocks"}
  MaxConnections = 1
  SendCap = 1
  BusCap = 1
  MaxEvents = 1
INVARIANTS SlotWhileOpen NoSilentGap
PROPERTIES SlowClientNeverStallsHub SlowClientDropped
CHECK_DEADLOCK FALSE
