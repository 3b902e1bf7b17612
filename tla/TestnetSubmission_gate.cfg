SPECIFICATION Spec
CONSTANTS
  c1 = c1
  c2 = c2
  b1 = b1
  Calls = {c1, c2}
  Bots = {b1}
  BotOf <- OneBot
  Legacy = {c1}
  Workers = {w1}
  Operators = {m1}
  NoCall = NoCall
  NoWorker = NoWorker
  InitialDelay = 1
  RetryDelay = 1
  LeaseTime = 1
  MaxAutomaticAttempts = 1
  BatchLimit = 1
  MaxCrashes = 1
INVARIANTS
  OneOrderInFlight
  SettledRowsTellTheTruth
  QuotaNeverOvercounts
  ExhaustedStillBlocks
PROPERTIES
  OrdersAreSerial
CHECK_DEADLOCK FALSE
