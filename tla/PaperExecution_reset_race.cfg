SPECIFICATION Spec
CONSTANTS
  low = low
  high = high
  Bots = {b1}
  Processes = {p1}
  Resetters = {r1}
  Prices = {low, high}
  Cost <- WholeCost
  Proceeds <- WholeProceeds
  NoBot = NoBot
  NoPrice = NoPrice
  Unit = 1
  DefaultQuote = 5
  InitialCash = 8
  MaxDaily = 3
  MaxEvaluations = 2
  MaxPauses = 0
PROPERTIES
  ResetRestoresDefaults
CHECK_DEADLOCK FALSE
