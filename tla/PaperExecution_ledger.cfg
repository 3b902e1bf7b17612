SPECIFICATION Spec
CONSTANTS
  low = low
  high = high
  Bots = {b1, b2}
  Processes = {p1}
  Resetters = {}
  Prices = {low, high}
  Cost <- WholeCost
  Proceeds <- WholeProceeds
  NoBot = NoBot
  NoPrice = NoPrice
  Unit = 1
  DefaultQuote = 5
  InitialCash = 8
  MaxDaily = 3
  MaxEvaluations = 5
  MaxPauses = 1
INVARIANTS
  DraftFollowsFills
  AccountShowsEveryFill
PROPERTIES
  LedgerSpec
CHECK_DEADLOCK FALSE
