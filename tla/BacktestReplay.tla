--------------------------- MODULE BacktestReplay ---------------------------
(***************************************************************************)
(* A backtest (engine/backtesting.py, services/backtest.py): the candles   *)
(* of a strategy are replayed one after the other, each decision sees the  *)
(* candles up to its own, and risk limits stand between it and the trade.  *)
(*                                                                         *)
(* The prices are chosen as the replay goes on, so it holds for whatever   *)
(* they turn out to be.                                                    *)
(***************************************************************************)
EXTENDS StrategySignals, RiskManager, FiniteSetsExt

CONSTANTS
  Setups,        \* strategy type, parameters, profile, limits, initial balance
  ClosePrices,   \* prices at which a candle may close
  MaxCandles     \* bound of the model: candles of a replay

ASSUME ReplayAssumption ==
  /\ ClosePrices \subseteq Nat \ {0} /\ MaxCandles \in Nat
  /\ \A s \in Setups :
       /\ s.type # "none" /\ s.balance \in Nat /\ s.fee \in Nat
       /\ \A key \in DOMAIN s.parameters : s.parameters[key] \in Int
       /\ {s.profile.entryBelow, s.profile.exitAbove, s.profile.orderQuantity} \subseteq Nat
       /\ s.limits \in [maxTrade: Nat, maxPosition: Nat, stopLoss: Nat]

VARIABLES
  setup,    \* what is replayed
  closes,   \* close prices of the candles replayed so far
  ledger,   \* cash, position and trades
  result    \* the result, once the replay has ended

replayVars == <<setup, closes, ledger, result>>

----------------------------------------------------------------------------
NoSetup == [type |-> "none"]
NoResult == [done |-> FALSE]
EmptyLedger(balance) ==
  [cash |-> balance, held |-> 0, entry |-> 0, realized |-> 0, pnls |-> <<>>, trades |-> 0]

ReplayInit ==
  /\ setup = NoSetup
  /\ closes = <<>>
  /\ ledger = EmptyLedger(0)
  /\ result = NoResult

BeginReplay ==
  /\ setup = NoSetup
  /\ \E s \in Setups : setup' = s /\ ledger' = EmptyLedger(s.balance)
  /\ UNCHANGED <<closes, result>>

DecisionOn(candles) ==
  StrategyDecision(setup.type, setup.parameters, setup.profile, Last(candles),
                   ledger.held, candles)

RiskOn(decision, price) ==
  RiskDecision(setup.limits, decision.action,
               IF decision.action = "sell" THEN ledger.held ELSE decision.quantity,
               ledger.held, ledger.entry, price)

Bought(quantity, price) ==
  [ledger EXCEPT !.cash = @ - quantity * price, !.held = quantity, !.entry = price,
                 !.trades = @ + 1]

Sold(price) ==
  LET pnl == (price - ledger.entry) * ledger.held IN
  [cash |-> ledger.cash + ledger.held * price, held |-> 0, entry |-> 0,
   realized |-> ledger.realized + pnl, pnls |-> Append(ledger.pnls, pnl),
   trades |-> ledger.trades + 1]

Affordable(cost) == cost <= ledger.cash

\* What a decision that the risk manager answers with an action does to the
\* ledger, and what one candle does.
Executed(action, quantity, price) ==
  IF action = "buy" /\ ledger.held = 0 /\ quantity # 0 /\ Affordable(quantity * price)
  THEN Bought(quantity, price)
  ELSE IF action = "sell" /\ ledger.held > 0 THEN Sold(price)
  ELSE ledger
Decided(decision, price) == Executed(RiskOn(decision, price).action, decision.quantity, price)
Traded(candles) == Decided(DecisionOn(candles), Last(candles))

ReplayCandle ==
  /\ setup # NoSetup
  /\ ~result.done
  /\ Len(closes) < MaxCandles
  /\ \E price \in ClosePrices :
       closes' = Append(closes, price) /\ ledger' = Traded(Append(closes, price))
  /\ UNCHANGED <<setup, result>>

Winning(pnls) == {i \in DOMAIN pnls : pnls[i] > 0}
Losing(pnls) == {i \in DOMAIN pnls : pnls[i] < 0}

\* A quotient; None is one by 0.
ProfitFactor ==
  LET won == Total(Rises(ledger.pnls))
      lost == Total(Falls(ledger.pnls))
  IN IF ledger.pnls = <<>> \/ (lost = 0 /\ won > 0) THEN [of |-> 0, by |-> 0]
     ELSE IF lost > 0 /\ won > 0 THEN [of |-> won, by |-> lost]
     ELSE [of |-> 0, by |-> 1]

\* The last candle gives the position its value.
Result ==
  LET lastPrice == LastPrice(closes)
      final == ledger.cash + ledger.held * lastPrice
  IN
  [done |-> TRUE, final |-> final, totalReturn |-> final - setup.balance,
   realized |-> ledger.realized,
   unrealized |-> IF ledger.held > 0 THEN (lastPrice - ledger.entry) * ledger.held ELSE 0,
   trades |-> ledger.trades, closed |-> Len(ledger.pnls), open |-> ledger.held > 0,
   winning |-> Cardinality(Winning(ledger.pnls)), losing |-> Cardinality(Losing(ledger.pnls)),
   best |-> IF ledger.pnls = <<>> THEN 0 ELSE Max(Range(ledger.pnls)),
   worst |-> IF ledger.pnls = <<>> THEN 0 ELSE Min(Range(ledger.pnls)),
   profitFactor |-> ProfitFactor]

EndReplay ==
  /\ setup # NoSetup
  /\ ~result.done
  /\ result' = Result
  /\ UNCHANGED <<setup, closes, ledger>>

ReplayNext == BeginReplay \/ ReplayCandle \/ EndReplay

ReplaySpec == ReplayInit /\ [][ReplayNext]_replayVars

----------------------------------------------------------------------------
(* Properties                                                              *)

\* The ledger never owes money, and holds a position exactly when it has an
\* entry price for it.
ReplayTypeOK ==
  /\ Len(closes) <= MaxCandles
  /\ ledger.cash \in Nat /\ ledger.held \in Nat
  /\ ledger.held > 0 <=> ledger.entry > 0
  /\ ledger.trades \in {2 * Len(ledger.pnls), 2 * Len(ledger.pnls) + 1}

\* Nothing is lost on the way from the candles to the report: the total return
\* is what the trades realized plus what the open position has gained, and the
\* profit factor tells a winning run from a losing one
\* (backtesting.py:178).
ResultsAddUp ==
  result.done =>
    /\ result.totalReturn = result.realized + result.unrealized
    /\ result.realized = Total(ledger.pnls)
    /\ result.trades = 2 * result.closed + (IF result.open THEN 1 ELSE 0)
    /\ result.worst * result.closed <= result.realized
    /\ result.realized <= result.best * result.closed
    /\ result.profitFactor.by > 0 /\ result.losing > 0 =>
         (result.profitFactor.of > result.profitFactor.by <=> result.realized > 0)

\* A bot hands its strategy only the candles required_candle_count asks for,
\* a backtest all there are.  Both come to the same decision, for a strategy
\* whose indicators do not depend on how far back the candles go, that is for
\* all but the MACD (strategy_engine.py:529).
BotsDecideAsBacktests ==
  setup # NoSetup /\ setup.type # "macd_crossover" /\ closes # <<>> =>
    LET required == RequiredCandles(setup.type, setup.parameters)
        seen == IF Len(closes) <= required THEN closes ELSE LastOf(closes, required)
    IN StrategyDecision(setup.type, setup.parameters, setup.profile, Last(closes),
                        ledger.held, seen)
       = DecisionOn(closes)

\* A crossing strategy is never left with a position below the crossing: when
\* the fast line is under the slow one at the last candle, there is none,
\* although the lines may have met and parted in any way before and every
\* decision looks at two candles only (strategy_engine.py:248).
PositionFollowsCrossing ==
  ledger.held > 0 =>
    /\ setup.type = "moving_average_cross" =>
         LET now == Averages(closes, MovingAverageConfig(setup.parameters))
         IN now.fast >= now.slow
    /\ setup.type = "macd_crossover" =>
         LET config == MacdConfig(setup.parameters)
             now == Last(MacdPoints(closes, config.fast, config.slow, config.signal))
         IN now.fast >= now.slow

\* A stop loss caps every loss at one candle: no position outlives a candle
\* that closes at or under its stop price.  The trade limits could block the
\* sale, but let no position grow larger than they let it be sold (risk.py:75).
StopLossCaps ==
  ledger.held > 0 /\ setup.limits.stopLoss > 0 =>
    Last(closes) * 100 > ledger.entry * (100 - setup.limits.stopLoss)

\* What a backtest says of a strategy can be relied on: its sums, its decisions,
\* and its risk limits.
ReplayHolds ==
  /\ ReplayTypeOK
  /\ ResultsAddUp
  /\ BotsDecideAsBacktests
  /\ PositionFollowsCrossing
  /\ StopLossCaps
=============================================================================
