SPECIFICATION FairSpec
CONSTANTS
  c1 = c1
  c2 = c2
  b1 = b1
  Calls = {c1, c2}
  Bots = {b1}
  BotOf <- OneBot
  Legacy = {}
  Workers = {w1}
  Operators = {}
  NoCall = NoCall
  NoWorker = NoWorker
  InitialDelay = 1
  RetryDelay = 1
  LeaseTime = 1
  MaxAutomaticAttempts = 2
  BatchLimit = 2
  MaxCrashes = 1
PROPERTIES
  JobsEnd
  LostOrdersAreRecorded
CHECK_DEADLOCK FALSE
