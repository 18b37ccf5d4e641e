CONSTANTS
  FixedTopics = {blocks}
  AddressTopics = {address1}
  Handlers = {h1, h2}
  MaxAttempts = 2
  Slots = {s1, s2, s3}
  MaxTimers = 2
SPECIFICATION SocketSpec
INVARIANTS EventRunsHandlerOnce LoneEventsReachHandlers
PROPERTY LossLeadsToAttempt
