SPECIFICATION Spec
CONSTANTS
  c1 = c1
  c2 = c2
  b1 = b1
  Calls = {c1}
  Bots = {b1}
  BotOf <- OneBot
  Legacy = {}
  Workers = {w1, w2}
  Operators = {m1, m2}
  NoCall = NoCall
  NoWorker = NoWorker
  InitialDelay = 1
  RetryDelay = 1
  LeaseTime = 1
  MaxAutomaticAttempts = 2
  BatchLimit = 1
  MaxCrashes = 1
SYMMETRY Processes
INVARIANTS
  IInv
  BudgetRespected
PROPERTIES
  WorkerOnlyRecovers
  JobsMoveForward
CHECK_DEADLOCK FALSE
