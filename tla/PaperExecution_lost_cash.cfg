SPECIFICATION Spec
CONSTANTS
  low = low
  high = high
  Bots = {b1, b2}
  Processes = {p1, p2}
  Resetters = {}
  Prices = {low, high}
  Cost <- WholeCost
  Proceeds <- WholeProceeds
  NoBot = NoBot
  NoPrice = NoPrice
  Unit = 1
  DefaultQuote = 5
  InitialCash = 20
  MaxDaily = 3
  MaxEvaluations = 2
  MaxPauses = 0
INVARIANTS
  AccountShowsEveryFill
CHECK_DEADLOCK FALSE
