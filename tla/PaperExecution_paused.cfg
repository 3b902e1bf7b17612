SPECIFICATION Spec
CONSTANTS
  low = low
  high = high
  Bots = {b1}
  Processes = {p1}
  Resetters = {}
  Prices = {low, high}
  Cost <- WholeCost
  Proceeds <- WholeProceeds
  NoBot = NoBot
  NoPrice = NoPrice
  Unit = 1
  DefaultQuote = 5
  InitialCash = 8
  MaxDaily = 3
  MaxEvaluations = 2
  MaxPauses = 1
PROPERTIES
  PausedBotsDoNotTrade
CHECK_DEADLOCK FALSE
