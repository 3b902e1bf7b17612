----------------------------- MODULE MCServices -----------------------------
(***************************************************************************)
(* The components beside the order path, for TLC.  None of them reads what *)
(* another one writes, so a behaviour of one of them is a behaviour of the *)
(* whole in which the others rest: `part` names the one that moves, and    *)
(* the runs see every interleaving within it and none across.              *)
(***************************************************************************)
EXTENDS AlertEvents, WorkerStatus, MarketData, ExchangeRules, CandleStore, CsvReplay,
  ComparisonReport, PaperTrail, PaperAccounting, StrategyStore

VARIABLE part  \* the component that moves

MCActorSymmetry ==
  Permutations(Evaluators) \cup Permutations(Owners) \cup Permutations(Editors)

\* Instances of the components -----------------------------------------------
MCAlertTemplates ==
  {[field |-> "status", operator |-> "eq", threshold |-> Text("running"), cooldown |-> 1]}

MCLot(min, max, step) == [min |-> min, max |-> max, step |-> step]
MCNotional(min, minApplies, max, maxApplies) ==
  [min |-> min, minApplies |-> minApplies, max |-> max, maxApplies |-> maxApplies]

\* Both lot filters and both notional filters; a market lot without a step and
\* bounds that do not apply to market orders; a halt; no market orders; delisted.
MCOpen == [listed |-> TRUE, trading |-> TRUE, market |-> TRUE,
           lot |-> MCLot(1, 0, 1), marketLot |-> MCLot(0, 4, 0),
           minNotional |-> MCNotional(9, FALSE, 0, FALSE),
           notional |-> MCNotional(4, FALSE, 8, FALSE)]
MCRuleVersions ==
  <<[MCOpen EXCEPT !.lot = MCLot(2, 6, 2), !.marketLot = MCLot(0, 0, 0),
                   !.minNotional = MCNotional(6, TRUE, 0, FALSE),
                   !.notional = MCNotional(0, TRUE, 8, TRUE)],
    MCOpen,
    [MCOpen EXCEPT !.trading = FALSE],
    [MCOpen EXCEPT !.market = FALSE],
    [MCOpen EXCEPT !.listed = FALSE]>>

MCProfile == [entryBelow |-> 0, exitAbove |-> 0, orderQuantity |-> 1]
MCSetup(type, parameters, limits, balance, fee) ==
  [type |-> type, parameters |-> parameters, profile |-> MCProfile,
   limits |-> limits, balance |-> balance, fee |-> fee]

\* Every strategy, a parameter that is refused, an unknown type, each limit
\* alone and with a stop loss, an order larger than the limit and the balance,
\* one that takes all of it, fees.
MCSetups ==
  {MCSetup("moving_average_cross",
           [short_window |-> Scale, long_window |-> 2 * Scale, quantity |-> 2],
           NoLimits, 40, 0),
   MCSetup("moving_average_cross",
           [short_window |-> Scale, long_window |-> 3 * Scale, quantity |-> 3],
           [NoLimits EXCEPT !.maxTrade = 3, !.stopLoss = 30], 40, 10),
   MCSetup("moving_average_cross", [short_window |-> 3, long_window |-> 3 * Scale],
           NoLimits, 40, 0),
   MCSetup("rsi_threshold", [period |-> 2 * Scale], NoLimits, 20, 0),
   MCSetup("bollinger_bands", [period |-> 2 * Scale, stddev_multiplier |-> Scale],
           NoLimits, 20, 0),
   MCSetup("macd_crossover",
           [fast_period |-> Scale, slow_period |-> 2 * Scale, signal_period |-> 2 * Scale],
           NoLimits, 40, 0),
   MCSetup("price_threshold", [buy_below |-> 12, sell_above |-> 19, quantity |-> 2],
           [NoLimits EXCEPT !.stopLoss = 30], 40, 10),
   MCSetup("price_threshold", [buy_below |-> 12, sell_above |-> 13, quantity |-> 5],
           NoLimits, 40, 0),
   MCSetup("price_threshold", [buy_below |-> 12, quantity |-> 2],
           [NoLimits EXCEPT !.maxPosition = 1], 40, 0),
   MCSetup("price_threshold", [buy_below |-> 0], NoLimits, 40, 0),
   [MCSetup("price_threshold", [sell_above |-> 19], NoLimits, 40, 0) EXCEPT !.profile.entryBelow = 12],
   MCSetup("price_threshold", [buy_below |-> 12, quantity |-> 3],
           [NoLimits EXCEPT !.maxTrade = 2, !.stopLoss = 30], 40, 0),
   MCSetup("grid", <<>>, NoLimits, 40, 0)}

MCKnown(metric, value) == IF value < 0 THEN <<>> ELSE metric :> value
MCSummary(return, drawdown, factor, trips) ==
  ("total_return_pct" :> return) @@ ("completed_round_trips" :> trips)
  @@ MCKnown("max_drawdown_pct", drawdown) @@ MCKnown("profit_factor", factor)
  @@ ("win_rate_pct" :> 60) @@ ("exposure_pct" :> 50)

\* Values on both sides of every threshold, ties of a deeper drawdown with a
\* better profit factor, and summaries that lack what the scores read first.
MCSummaries ==
  {MCSummary(return, drawdown, factor, trips) :
     return \in {-3, 0, 30}, drawdown \in {0, 6, 21}, factor \in {10, 20}, trips \in {0, 4, 6, 10}}
  \cup {MCSummary(return, drawdown, -1, trips) :
          return \in {2, 30}, drawdown \in {-1, 6}, trips \in {4, 10}}
  \cup {[total_return |-> 30, starting_balance |-> balance, max_drawdown_amount |-> 21,
         trades_count |-> trades, profit_factor |-> 20, win_rate_pct |-> 60, exposure_pct |-> 90] :
          balance \in {0, 100}, trades \in {1, 6, 12}}
  \cup {[total_return_pct |-> 30, starting_balance |-> 100, max_drawdown_amount |-> amount,
         trades_count |-> trades, win_count |-> 3, loss_count |-> 0, win_rate_pct |-> 100] :
          amount \in {-5, 21}, trades \in {8, 12}}
  \cup {[win_rate_pct |-> 60]}

\* Two good runs and one that lacks most of it; run directories of every form,
\* under the root and not, two of one name.
MCReported == {MCSummary(30, 6, 20, 10), MCSummary(30, 0, 20, 10), [win_rate_pct |-> 60]}
MCRunDir(name, form, inside) == [name |-> name, form |-> form, inside |-> inside]
MCRunDirs ==
  {MCRunDir("a", "relative", TRUE), MCRunDir("a", "absolute", FALSE),
   MCRunDir("b", "upward", FALSE), MCRunDir("..", "parent", FALSE),
   MCRunDir("", "relative", TRUE)}
MCNameOrder == <<"", "..", "a", "b">>

\* Everything on and far limits; each limit close; paper trading off, with the
\* global switch and without; the switch alone; no simulation.
MCSwitch == [trading |-> TRUE, global |-> TRUE, simulation |-> TRUE,
             maxNotional |-> 9, maxCount |-> 9, maxLoss |-> 9]
MCSwitches ==
  {MCSwitch,
   [MCSwitch EXCEPT !.maxNotional = 4, !.maxLoss = 1],
   [MCSwitch EXCEPT !.maxCount = 1],
   [MCSwitch EXCEPT !.trading = FALSE, !.global = FALSE],
   [MCSwitch EXCEPT !.global = FALSE],
   [MCSwitch EXCEPT !.simulation = FALSE]}

\* Every strategy with parameters of its own, thresholds and windows in and out
\* of order, given alone and with the other, an alias, a foreign key, a refused
\* number.
MCThresholds(low, high) == [buy_below |-> low, sell_above |-> high]
MCWindows(short, long) == [short_window |-> short * Scale, long_window |-> long * Scale]
MCColumns(type, parameters) == [strategy_type |-> type, parameters |-> parameters]
MCNewStrategies ==
  {MCColumns(type, <<>>) : type \in StrategyTypes}
  \cup {MCColumns("price_threshold", MCThresholds(12, 19)),
        MCColumns("price_threshold", MCWindows(3, 2)),
        MCColumns("moving_average_cross", MCWindows(2, 3)),
        MCColumns("rsi_threshold", [oversold |-> 40 * Scale])}
MCPatchPayloads ==
  [strategy_type : StrategyTypes]
  \cup {[parameters |-> p] : p \in
          {MCThresholds(19, 12), [buy_below |-> 15], MCWindows(2, 3), MCWindows(3, 2),
           [oversold |-> 75 * Scale], [period |-> Scale],
           [fast_period |-> 3 * Scale, slow_period |-> 2 * Scale],
           [slow_period |-> 2 * Scale]}}
  \cup {MCColumns("rsi_threshold", [overbought |-> 20 * Scale]),
        MCColumns("moving_average_cross", [short_window |-> 25 * Scale])}
MCParameterRequests ==
  {<<p>> : p \in
     {<<>>, [sell_above |-> 15], [entry_below |-> 15, quantity |-> 2], MCWindows(2, 3),
      [long_window |-> 2 * Scale], [oversold |-> 40 * Scale, overbought |-> 60 * Scale],
      [period |-> 2 * Scale, quantity |-> 0], [slow_period |-> 2 * Scale],
      [period |-> 5, stddev_multiplier |-> 15]}}
  \cup {<<[quantity |-> 2], MCThresholds(12, 19), [quantity |-> 3]>>}
MCOutcome(return, closed, open) == [return |-> return, closed |-> closed, open |-> open]
MCOutcomes == {MCOutcome(5, 0, TRUE), MCOutcome(5, 1, FALSE), MCOutcome(-1, 2, FALSE)}
MCFilters == {[minClosed |-> 0, closedOnly |-> FALSE], [minClosed |-> 1, closedOnly |-> TRUE]}

\* The composition -----------------------------------------------------------
ServicesVars ==
  <<part, alertVars, statusVars, marketVars, rulesVars, candleVars, csvReplayVars,
    compared, reportVars, trailVars, accountVars, strategyVars>>

ServicesInit ==
  /\ part \in {"alerts", "status", "market", "rules", "candles", "replay",
               "comparison", "trail", "accounting", "strategies"}
  /\ AlertInit /\ StatusInit /\ MarketInit /\ RulesInit
  /\ CandleInit /\ CsvInit /\ ComparisonInit /\ ReportInit /\ TrailInit
  /\ AccountInit /\ StrategyInit
  /\ part # "trail" => switches = MCSwitch

ServicesNext ==
  \/ /\ part = "alerts" /\ AlertNext
     /\ UNCHANGED <<part, statusVars, marketVars, rulesVars, candleVars,
                   csvReplayVars, compared, reportVars, trailVars, accountVars,
                   strategyVars>>
  \/ /\ part = "status" /\ StatusNext
     /\ UNCHANGED <<part, alertVars, marketVars, rulesVars, candleVars,
                   csvReplayVars, compared, reportVars, trailVars, accountVars,
                   strategyVars>>
  \/ /\ part = "market" /\ MarketNext
     /\ UNCHANGED <<part, alertVars, statusVars, rulesVars, candleVars,
                   csvReplayVars, compared, reportVars, trailVars, accountVars,
                   strategyVars>>
  \/ /\ part = "rules" /\ RulesNext
     /\ UNCHANGED <<part, alertVars, statusVars, marketVars, candleVars,
                   csvReplayVars, compared, reportVars, trailVars, accountVars,
                   strategyVars>>
  \/ /\ part = "candles" /\ CandleNext
     /\ UNCHANGED <<part, alertVars, statusVars, marketVars, rulesVars,
                   csvReplayVars, compared, reportVars, trailVars, accountVars,
                   strategyVars>>
  \/ /\ part = "replay" /\ CsvNext
     /\ UNCHANGED <<part, alertVars, statusVars, marketVars, rulesVars,
                   candleVars, compared, reportVars, trailVars, accountVars,
                   strategyVars>>
  \/ /\ part = "comparison" /\ ReportNext
     /\ UNCHANGED <<part, alertVars, statusVars, marketVars, rulesVars,
                   candleVars, csvReplayVars, trailVars, accountVars,
                   strategyVars>>
  \/ /\ part = "trail" /\ TrailNext
     /\ UNCHANGED <<part, alertVars, statusVars, marketVars, rulesVars,
                   candleVars, csvReplayVars, compared, reportVars, accountVars,
                   strategyVars>>
  \/ /\ part = "accounting" /\ AccountNext
     /\ UNCHANGED <<part, alertVars, statusVars, marketVars, rulesVars,
                   candleVars, csvReplayVars, compared, reportVars, trailVars,
                   strategyVars>>
  \/ /\ part = "strategies" /\ StrategyNext
     /\ UNCHANGED <<part, alertVars, statusVars, marketVars, rulesVars,
                   candleVars, csvReplayVars, compared, reportVars, trailVars,
                   accountVars>>

ServicesSpec == ServicesInit /\ [][ServicesNext]_ServicesVars
=============================================================================
