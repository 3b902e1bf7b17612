-------------------------- MODULE StrategySignals --------------------------
(***************************************************************************)
(* The decisions of the five strategies (engine/strategy_engine.py,        *)
(* engine/strategy_evaluator.py).                                          *)
(*                                                                         *)
(* Prices, thresholds and parameters are decimals counted in units of      *)
(* which Scale make 1; quantize rounds to a unit, half to even.  The       *)
(* digits that 28-digit arithmetic drops before are not modelled.          *)
(*                                                                         *)
(* The parameters of a strategy are a function from the names that have a  *)
(* value; a value that is no finite positive number is any number <= 0.    *)
(* In the execution profile 0 stands for a field that is null.             *)
(***************************************************************************)
EXTENDS Integers, Sequences, SequencesExt

CONSTANT Scale  \* units in 1: 10^8 in the code

ASSUME ScaleAssumption == Scale \in Nat \ {0}

----------------------------------------------------------------------------
(* Arithmetic                                                              *)

\* quantize of the quotient n / d, d > 0.
Rounded(n, d) ==
  LET q == n \div d
      r == 2 * (n % d)
  IN IF r < d \/ (r = d /\ q % 2 = 0) THEN q ELSE q + 1

\* quantize of the square root of n / d, n >= 0.
RoundedRoot(n, d) ==
  CHOOSE q \in 0..(n + 1) :
    LET twice == 4 * n IN
    /\ (q = 0 \/ (2 * q - 1) * (2 * q - 1) * d < twice
        \/ (q % 2 = 0 /\ (2 * q - 1) * (2 * q - 1) * d = twice))
    /\ ((2 * q + 1) * (2 * q + 1) * d > twice
        \/ (q % 2 = 0 /\ (2 * q + 1) * (2 * q + 1) * d = twice))

\* Sums(values)[n] is the sum of the first n.
Sums(values) ==
  LET sum[n \in 0..Len(values)] == IF n = 0 THEN 0 ELSE sum[n - 1] + values[n] IN sum
Total(values) == Sums(values)[Len(values)]
LastOf(values, n) == SubSeq(values, Len(values) - n + 1, Len(values))
Rise(change) == IF change > 0 THEN change ELSE 0
Rises(changes) == [i \in DOMAIN changes |-> Rise(changes[i])]
Falls(changes) == [i \in DOMAIN changes |-> Rise(-changes[i])]

MovingAverage(values) == Rounded(Total(values), Len(values))

\* The averages of gains and losses have the same divisor.
RelativeStrengthIndex(values) ==
  LET changes == [i \in 1..(Len(values) - 1) |-> values[i + 1] - values[i]]
      gain == Total(Rises(changes))
      loss == Total(Falls(changes))
  IN IF gain + loss = 0 THEN 50 * Scale ELSE Rounded(100 * Scale * gain, gain + loss)

StandardDeviation(values, mean) ==
  LET squares == [i \in DOMAIN values |-> (values[i] - mean) * (values[i] - mean)]
  IN RoundedRoot(Total(squares), Len(values))

\* exponential_moving_average: only what is returned is rounded, the recursion
\* goes on with the exact value.
EmaAfter(ema, value, period) ==
  [n |-> 2 * value * ema.d + (period - 1) * ema.n, d |-> ema.d * (period + 1)]
ExactEmas(values, period) ==
  LET ema[i \in 0..Len(values)] ==
        IF i <= period THEN [n |-> Total(SubSeq(values, 1, period)), d |-> period]
        ELSE EmaAfter(ema[i - 1], values[i], period)
  IN ema
ExponentialMovingAverage(values, period) ==
  LET emas == ExactEmas(values, period)
      rounded == [i \in DOMAIN values |-> Rounded(emas[i].n, emas[i].d)]
  IN LastOf(rounded, Len(values) - period + 1)

\* Two series that end together, point by point, as many as the shorter has.
Paired(long, short) ==
  [i \in DOMAIN short |-> [fast |-> long[i + Len(long) - Len(short)], slow |-> short[i]]]

\* macd_points: the MACD (fast) and its signal (slow), from the first signal.
WithSignal(macd, signal) == Paired(macd, ExponentialMovingAverage(macd, signal))
Gaps(pairs) == [i \in DOMAIN pairs |-> pairs[i].fast - pairs[i].slow]
MacdPoints(values, fast, slow, signal) ==
  WithSignal(Gaps(Paired(ExponentialMovingAverage(values, fast),
                         ExponentialMovingAverage(values, slow))), signal)

----------------------------------------------------------------------------
(* Parameters                                                              *)

\* parse_decimal_parameter, parse_integer_parameter
Refused(parameters, key) == key \in DOMAIN parameters /\ parameters[key] <= 0
RefusedWhole(parameters, key) ==
  \/ Refused(parameters, key)
  \/ key \in DOMAIN parameters /\ parameters[key] % Scale # 0

ValueOr(parameters, key, default) ==
  IF key \in DOMAIN parameters THEN parameters[key] ELSE default
WholeOr(parameters, key, default) ==
  IF key \in DOMAIN parameters THEN parameters[key] \div Scale ELSE default

QuantityOf(parameters, profile) == ValueOr(parameters, "quantity", profile.orderQuantity)

PriceThresholdConfig(parameters, profile) ==
  [valid |-> ~\E key \in {"buy_below", "sell_above", "quantity"} : Refused(parameters, key),
   entryBelow |-> ValueOr(parameters, "buy_below", profile.entryBelow),
   exitAbove |-> ValueOr(parameters, "sell_above", profile.exitAbove)]

MovingAverageConfig(parameters) ==
  LET short == WholeOr(parameters, "short_window", 5)
      long == WholeOr(parameters, "long_window", 20)
  IN [valid |-> /\ ~RefusedWhole(parameters, "short_window")
                /\ ~RefusedWhole(parameters, "long_window")
                /\ ~Refused(parameters, "quantity")
                /\ short < long,
      short |-> short, long |-> long]

RsiConfig(parameters) ==
  LET oversold == ValueOr(parameters, "oversold", 30 * Scale)
      overbought == ValueOr(parameters, "overbought", 70 * Scale)
  IN [valid |-> /\ ~RefusedWhole(parameters, "period")
                /\ ~\E key \in {"oversold", "overbought", "quantity"} : Refused(parameters, key)
                /\ oversold < 100 * Scale /\ overbought < 100 * Scale
                /\ oversold < overbought,
      period |-> WholeOr(parameters, "period", 14),
      oversold |-> oversold, overbought |-> overbought]

BollingerConfig(parameters) ==
  LET period == WholeOr(parameters, "period", 20)
  IN [valid |-> /\ ~RefusedWhole(parameters, "period")
                /\ ~\E key \in {"stddev_multiplier", "quantity"} : Refused(parameters, key)
                /\ period >= 2,
      period |-> period, multiplier |-> ValueOr(parameters, "stddev_multiplier", 2 * Scale)]

MacdConfig(parameters) ==
  LET fast == WholeOr(parameters, "fast_period", 12)
      slow == WholeOr(parameters, "slow_period", 26)
  IN [valid |-> /\ ~\E key \in {"fast_period", "slow_period", "signal_period"} :
                      RefusedWhole(parameters, key)
                /\ ~Refused(parameters, "quantity")
                /\ fast < slow,
      fast |-> fast, slow |-> slow, signal |-> WholeOr(parameters, "signal_period", 9)]

\* required_candle_count, 0 where it is None.
RequiredCandles(type, parameters) ==
  LET average == MovingAverageConfig(parameters)
      bands == BollingerConfig(parameters)
      rsi == RsiConfig(parameters)
      macd == MacdConfig(parameters)
  IN CASE type = "moving_average_cross" /\ average.valid -> average.long + 1
       [] type = "rsi_threshold" /\ rsi.valid -> rsi.period + 1
       [] type = "bollinger_bands" /\ bands.valid -> bands.period
       [] type = "macd_crossover" /\ macd.valid -> macd.slow + macd.signal
       [] OTHER -> 0

----------------------------------------------------------------------------
(* Decisions.  They carry the price and the quantity the caller goes on    *)
(* with; 0 stands for a price or a quantity that is not there.             *)

Invalid == [action |-> "skip", price |-> 0, quantity |-> 0, valid |-> FALSE]
Decides(action, price, quantity) ==
  [action |-> action, price |-> price, quantity |-> quantity, valid |-> TRUE]
LastPrice(closes) == IF closes = <<>> THEN 0 ELSE Last(closes)

EvaluatePriceThreshold(config, quantity, price, held) ==
  IF ~config.valid THEN Invalid
  ELSE CASE price = 0 -> Decides("skip", price, quantity)
    [] price # 0 /\ held <= 0 ->
         Decides(IF config.entryBelow = 0 THEN "skip"
                 ELSE IF price <= config.entryBelow THEN "buy" ELSE "hold", price, quantity)
    [] price # 0 /\ held > 0 ->
         Decides(IF config.exitAbove = 0 THEN "skip"
                 ELSE IF price >= config.exitAbove THEN "sell" ELSE "hold", price, quantity)

\* Mutant: lines that touch have not crossed.
CrossingActionStrict(held, before, now) ==
  IF held <= 0 /\ before.fast < before.slow /\ now.fast > now.slow THEN "buy"
  ELSE IF held > 0 /\ before.fast > before.slow /\ now.fast < now.slow THEN "sell"
  ELSE "skip"

\* What the two crossing strategies make of a fast line and a slow line.
CrossingAction(held, before, now) ==
  IF held <= 0 /\ before.fast <= before.slow /\ now.fast > now.slow THEN "buy"
  ELSE IF held > 0 /\ before.fast >= before.slow /\ now.fast < now.slow THEN "sell"
  ELSE "skip"

CrossingAtEnd(held, points) == CrossingAction(held, Last(Front(points)), Last(points))

Averages(closes, config) ==
  [fast |-> MovingAverage(LastOf(closes, config.short)),
   slow |-> MovingAverage(LastOf(closes, config.long))]

EvaluateMovingAverageCross(config, quantity, closes, held) ==
  IF ~config.valid THEN Invalid
  ELSE IF Len(closes) < config.long + 1 THEN Decides("skip", LastPrice(closes), 0)
  ELSE Decides(CrossingAction(held, Averages(Front(closes), config), Averages(closes, config)),
               Last(closes), quantity)

EvaluateMacdCrossover(config, quantity, closes, held) ==
  IF ~config.valid THEN Invalid
  ELSE IF Len(closes) < config.slow + config.signal
  THEN Decides("skip", LastPrice(closes), quantity)
  ELSE Decides(CrossingAtEnd(held, MacdPoints(closes, config.fast, config.slow, config.signal)),
               Last(closes), quantity)

EvaluateRsiThreshold(config, quantity, closes, held) ==
  IF ~config.valid THEN Invalid
  ELSE IF Len(closes) < config.period + 1 THEN Decides("skip", LastPrice(closes), quantity)
  ELSE LET rsi == RelativeStrengthIndex(LastOf(closes, config.period + 1))
       IN Decides(IF held <= 0 /\ rsi <= config.oversold THEN "buy"
                  ELSE IF held > 0 /\ rsi >= config.overbought THEN "sell" ELSE "skip",
                  Last(closes), quantity)

EvaluateBollingerBands(config, quantity, closes, held) ==
  IF ~config.valid THEN Invalid
  ELSE IF Len(closes) < config.period THEN Decides("skip", LastPrice(closes), quantity)
  ELSE LET window == LastOf(closes, config.period)
           sma == MovingAverage(window)
           width == config.multiplier * StandardDeviation(window, sma)
           upper == Rounded(sma * Scale + width, Scale)
           lower == Rounded(sma * Scale - width, Scale)
       IN Decides(IF held <= 0 /\ Last(closes) <= lower THEN "buy"
                  ELSE IF held > 0 /\ Last(closes) >= upper THEN "sell" ELSE "skip",
                  Last(closes), quantity)

StrategyTypes == {"price_threshold", "moving_average_cross", "rsi_threshold",
                  "bollinger_bands", "macd_crossover"}

\* evaluate
StrategyDecision(type, parameters, profile, price, held, closes) ==
  LET quantity == QuantityOf(parameters, profile)
  IN CASE type = "price_threshold" ->
            EvaluatePriceThreshold(PriceThresholdConfig(parameters, profile), quantity, price, held)
       [] type = "moving_average_cross" ->
            EvaluateMovingAverageCross(MovingAverageConfig(parameters), quantity, closes, held)
       [] type = "rsi_threshold" ->
            EvaluateRsiThreshold(RsiConfig(parameters), quantity, closes, held)
       [] type = "bollinger_bands" ->
            EvaluateBollingerBands(BollingerConfig(parameters), quantity, closes, held)
       [] type = "macd_crossover" ->
            EvaluateMacdCrossover(MacdConfig(parameters), quantity, closes, held)
       [] OTHER -> Decides("skip", 0, 0)
=============================================================================
