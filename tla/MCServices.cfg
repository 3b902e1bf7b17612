SPECIFICATION ServicesSpec
CONSTANTS
  Evaluators = {e1, e2}
  AlertTemplates <- MCAlertTemplates
  MaxRules = 2
  MaxAlerts = 2
  MaxErrors = 0
  MaxAlertTime = 1
  MaxEdits = 1
  StatusWorkers = {s1, s2}
  StaleAfter = 1
  MaxLaunches = 3
  MaxWorkerCrashes = 1
  Symbols = {"BTC", "ETH"}
  StreamSymbol = "BTC"
  Fetches = {f1}
  ManualPrices = {5, 6}
  MaxQuotes = 2
  MaxOnWire = 2
  RuleVersions <- MCRuleVersions
  TimeToLive = 2
  Quantities = {1, 3, 4, 6, 7}
  MarketPrices = {0, 1, 2}
  CandleWriters = {w1, w2}
  CandlePrices = {1, 2}
  Scale = 10
  Setups <- MCSetups
  ClosePrices = {8, 12, 13, 20}
  MaxCandles = 6
  Summaries <- MCSummaries
  MaxRuns = 2
  ReportedSummaries <- MCReported
  RunDirs <- MCRunDirs
  NameOrder <- MCNameOrder
  NoReport = NoReport
  NoAdvice = NoAdvice
  MaxChanges = 2
  Switches <- MCSwitches
  TrailPrices = {4, 6}
  Charge = 1
  Allowance = 8
  PoolCash = 12
  MaxDecisions = 3
  MaxOutside = 2
  Owners = {a1, a2}
  NoBot = NoBot
  FillPrices = {5, 8}
  FillQuantities = {1, 2}
  FillFee = 1
  OwnStart = 20
  Balances = {30}
  MaxTrades = 3
  MaxAccountResets = 1
  Editors = {p1, p2}
  NewStrategies <- MCNewStrategies
  PatchPayloads <- MCPatchPayloads
  ParameterRequests <- MCParameterRequests
  Outcomes <- MCOutcomes
  Filters <- MCFilters
  MaxPatches = 2
SYMMETRY MCActorSymmetry
INVARIANTS
  AlertsHold
  StatusHolds
  PricesHold
  RulesHold
  ReplayHolds
  CsvReplayHolds
  ComparisonsHold
  ReportsHold
  TrailHolds
  AccountHolds
  StrategiesHold
  CandlesAreWhole
PROPERTIES
  StatusForeseesFills
CHECK_DEADLOCK FALSE
