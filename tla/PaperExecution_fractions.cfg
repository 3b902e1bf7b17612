SPECIFICATION Spec
CONSTANTS
  low = low
  high = high
  Bots = {b1}
  Processes = {p1, p2}
  Resetters = {}
  Prices = {low, high}
  Cost <- FineCost
  Proceeds <- FineProceeds
  NoBot = NoBot
  NoPrice = NoPrice
  Unit = 4
  DefaultQuote = 40
  InitialCash = 60
  MaxDaily = 3
  MaxEvaluations = 4
  MaxPauses = 0
INVARIANTS
  RoundingStaysSmall
CHECK_DEADLOCK FALSE
