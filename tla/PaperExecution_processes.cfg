SPECIFICATION FairSpec
CONSTANTS
  low = low
  high = high
  Bots = {b1}
  Processes = {p1, p2}
  Resetters = {r1, r2}
  Prices = {low, high}
  Cost <- WholeCost
  Proceeds <- WholeProceeds
  NoBot = NoBot
  NoPrice = NoPrice
  Unit = 1
  DefaultQuote = 5
  InitialCash = 4
  MaxDaily = 3
  MaxEvaluations = 2
  MaxPauses = 0
INVARIANTS
  IInv
  FillsAlternate
  NothingStaysLocked
PROPERTIES
  EvaluationsEnd
  ResetsEnd
CHECK_DEADLOCK FALSE
