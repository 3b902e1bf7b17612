------------------------------ MODULE CsvReplay ------------------------------
(***************************************************************************)
(* The second backtester of the repository (services/csv_backtest.py): it  *)
(* reads candles from a file, knows two strategies, charges fees, applies  *)
(* no risk limits and writes trades and an equity curve, from which a      *)
(* comparison fills in what a summary lacks                                *)
(* (services/backtest_run_comparison.py).                                  *)
(*                                                                         *)
(* Here both backtesters replay the same strategy on the same candles, in  *)
(* step.  The amounts of this one are in hundredths, its fee in percent.   *)
(***************************************************************************)
EXTENDS BacktestReplay

VARIABLE csv  \* the CSV backtest: money, trades, equity curve

csvReplayVars == <<replayVars, csv>>

----------------------------------------------------------------------------
CsvStart(balance) ==
  [cash |-> 100 * balance, held |-> 0, cost |-> 0, realized |-> 0, fees |-> 0,
   wins |-> 0, losses |-> 0, breakevens |-> 0, rows |-> <<>>, curve |-> <<>>,
   peak |-> 100 * balance, drawdown |-> 0]

\* _normalized_strategy_parameters: the windows have no defaults here.
CsvWindowsGiven ==
  LET given(key) == key \in DOMAIN setup.parameters /\ ~RefusedWhole(setup.parameters, key)
  IN /\ given("short_window") /\ given("long_window")
     /\ setup.parameters["short_window"] < setup.parameters["long_window"]

\* The backtest is run at all: a strategy it knows and enough candles.
CsvRuns ==
  \/ setup.type = "price_threshold"
  \/ /\ setup.type = "moving_average_cross" /\ CsvWindowsGiven
     /\ Len(closes) >= MovingAverageConfig(setup.parameters).long + 1

NoProfile == [entryBelow |-> 0, exitAbove |-> 0, orderQuantity |-> 0]

CsvDecision(candles) ==
  StrategyDecision(setup.type, setup.parameters, NoProfile, Last(candles), csv.held, candles)

\* Mutant: an order that takes all the cash is refused.
CsvAffordsLess(cost) == cost < csv.cash

CsvAffords(cost) == cost <= csv.cash

CsvBought(quantity, price) ==
  LET total == quantity * price * (100 + setup.fee) IN
  [csv EXCEPT !.cash = @ - total, !.held = quantity, !.cost = total,
              !.fees = @ + quantity * price * setup.fee,
              !.rows = Append(@, [side |-> "buy", pnl |-> 0])]

CsvSold(price) ==
  LET proceeds == csv.held * price * (100 - setup.fee)
      pnl == proceeds - csv.cost
  IN [csv EXCEPT !.cash = @ + proceeds, !.held = 0, !.cost = 0, !.realized = @ + pnl,
                 !.fees = @ + csv.held * price * setup.fee,
                 !.wins = IF pnl > 0 THEN @ + 1 ELSE @,
                 !.losses = IF pnl < 0 THEN @ + 1 ELSE @,
                 !.breakevens = IF pnl = 0 THEN @ + 1 ELSE @,
                 !.rows = Append(@, [side |-> "sell", pnl |-> pnl])]

CsvExecuted(decision, price) ==
  IF /\ decision.action = "buy" /\ csv.held = 0 /\ decision.quantity > 0
     /\ CsvAffords(decision.quantity * price * (100 + setup.fee))
  THEN CsvBought(decision.quantity, price)
  ELSE IF decision.action = "sell" /\ csv.held > 0 THEN CsvSold(price)
  ELSE csv
CsvTraded(candles) == CsvExecuted(CsvDecision(candles), Last(candles))

\* The point of the equity curve that every candle ends with.
Valued(c, price) ==
  LET equity == c.cash + 100 * c.held * price
      peak == Max({c.peak, equity})
  IN [c EXCEPT !.peak = peak, !.drawdown = Max({@, peak - equity}),
               !.curve = Append(@, [equity |-> equity, held |-> c.held])]

CsvInit == ReplayInit /\ csv = CsvStart(0)

BeginBoth == BeginReplay /\ csv' = CsvStart(setup'.balance)

CandleInBoth ==
  /\ ReplayCandle
  /\ csv' = IF setup.type \in {"price_threshold", "moving_average_cross"}
            THEN Valued(CsvTraded(closes'), Last(closes')) ELSE csv

EndBoth == EndReplay /\ UNCHANGED csv

CsvNext == BeginBoth \/ CandleInBoth \/ EndBoth

CsvSpec == CsvInit /\ [][CsvNext]_csvReplayVars

----------------------------------------------------------------------------
(* The summary of a run, and what a comparison makes of its files          *)

CsvEquity == csv.cash + 100 * csv.held * LastPrice(closes)
CsvUnrealized == IF csv.held > 0 THEN 100 * csv.held * LastPrice(closes) - csv.cost ELSE 0

Sales(rows) == {i \in DOMAIN rows : rows[i].side = "sell"}
Pnls(rows) == [i \in DOMAIN rows |-> IF i \in Sales(rows) THEN rows[i].pnl ELSE 0]
Wins(rows) == {i \in Sales(rows) : rows[i].pnl > 0}
Losses(rows) == {i \in Sales(rows) : rows[i].pnl < 0}

\* _max_drawdown_amount: the peak starts at the first point.
FallAfter(fall, equity) ==
  LET peak == Max({fall.peak, equity})
  IN [peak |-> peak, deepest |-> Max({fall.deepest, peak - equity})]
Fallen(curve) ==
  LET fall[n \in 0..Len(curve)] ==
        IF n = 0 THEN [peak |-> curve[1].equity, deepest |-> 0]
        ELSE FallAfter(fall[n - 1], curve[n].equity)
  IN fall
DeepestFall(curve) == Fallen(curve)[Len(curve)].deepest

\* _enrich_from_trade_rows and _enrich_from_equity_rows, for a summary that has
\* none of the fields.
Enriched ==
  LET trips == Cardinality(Sales(csv.rows))
      wins == Cardinality(Wins(csv.rows))
      losses == Cardinality(Losses(csv.rows))
  IN
  [roundTrips |-> trips, wins |-> wins, losses |-> losses, breakevens |-> trips - wins - losses,
   realized |-> Total(Pnls(csv.rows)), ending |-> Last(csv.curve).equity,
   drawdown |-> DeepestFall(csv.curve)]

----------------------------------------------------------------------------
(* Properties                                                              *)

\* The two backtesters keep the same cash, position, gains and trades after
\* every candle, for a strategy both know, without fees and risk limits and
\* with all they trade by among the parameters: the second one has no profile to
\* fall back on (csv_backtest.py:172).
AllInParameters ==
  /\ "quantity" \in DOMAIN setup.parameters
  /\ "buy_below" \in DOMAIN setup.parameters \/ setup.profile.entryBelow = 0
  /\ "sell_above" \in DOMAIN setup.parameters \/ setup.profile.exitAbove = 0
CsvAgreesWithBacktest ==
  /\ setup # NoSetup /\ CsvRuns
  /\ setup.fee = 0 /\ setup.limits = NoLimits /\ AllInParameters
  => /\ csv.cash = 100 * ledger.cash /\ csv.held = ledger.held
     /\ csv.realized = 100 * ledger.realized
     /\ Len(csv.rows) = ledger.trades

\* Fees are charged once: what the account has gained is what its sales have
\* realized and its position would, both after fees (csv_backtest.py:189).
FeesAddUp ==
  setup # NoSetup /\ CsvRuns =>
    CsvEquity - 100 * setup.balance = csv.realized + CsvUnrealized

\* A comparison recovers from the files of a run what the run has reported.
\* Only the drawdown may come out smaller: it is measured from the first point
\* of the curve, after the fee of a purchase on the first candle
\* (backtest_run_comparison.py:1124).
EnrichmentRecovers ==
  setup # NoSetup /\ CsvRuns /\ closes # <<>> =>
    LET firstFee == 100 * setup.balance - csv.curve[1].equity IN
    /\ Enriched.wins = csv.wins /\ Enriched.losses = csv.losses
    /\ Enriched.breakevens = csv.breakevens
    /\ Enriched.roundTrips = csv.wins + csv.losses + csv.breakevens
    /\ Enriched.realized = csv.realized
    /\ Enriched.ending = CsvEquity
    /\ Enriched.drawdown <= csv.drawdown
    /\ csv.drawdown <= Enriched.drawdown + firstFee

\* The second backtester is as good as the first, and its files as its report.
CsvReplayHolds == CsvAgreesWithBacktest /\ FeesAddUp /\ EnrichmentRecovers
=============================================================================
