--------------------------- MODULE StrategyProofs ---------------------------
(***************************************************************************)
(* Proofs about stored strategies (StrategyStore): what the schema lets    *)
(* through the engine can run, and an optimisation puts the right run on   *)
(* top; and about what is decided by comparing runs (RunComparison) and    *)
(* shown of it in reports (ComparisonReport).                              *)
(***************************************************************************)
EXTENDS StrategyStore, ComparisonReport, FiniteSetTheorems, WellFoundedInduction, TLAPS

----------------------------------------------------------------------------
(* The validators and the engine                                           *)

LEMMA ScaleIsPositive == Scale \in Nat /\ Scale > 0
BY ScaleAssumption

\* The whole numbers under whole multiples of Scale keep their order.
LEMMA WholesKeepOrder ==
  ASSUME NEW a \in Int, NEW b \in Int, a % Scale = 0, b % Scale = 0, a < b
  PROVE  (a \div Scale) < (b \div Scale)
<1>1. Scale \in Nat /\ Scale > 0
  BY ScaleIsPositive
<1>2. /\ a = Scale * (a \div Scale) + (a % Scale) /\ (a \div Scale) \in Int
      /\ b = Scale * (b \div Scale) + (b % Scale) /\ (b \div Scale) \in Int
  BY <1>1
<1> DEFINE p == a \div Scale
           q == b \div Scale
<1>3. p \in Int /\ q \in Int /\ a = Scale * p /\ b = Scale * q
  <2>1. Scale * p \in Int /\ Scale * q \in Int
    BY <1>1, <1>2
  <2> QED
    BY <1>2, <2>1
<1> HIDE DEF p, q
<1>4. Scale * p < Scale * q
  BY <1>3
<1>5. p < q
  <2> SUFFICES ASSUME q <= p PROVE FALSE
    BY <1>3
  <2>1. p - q \in Nat
    BY <1>3
  <2>2. Scale * (p - q) \in Nat
    BY <1>1, <2>1
  <2>3. Scale * (p - q) = Scale * p - Scale * q
    BY <1>1, <1>3
  <2> QED
    BY <1>1, <1>3, <1>4, <2>2, <2>3
<1> QED
  BY <1>5 DEF p, q

LEMMA WholeAtLeastTwo ==
  ASSUME NEW a \in Int, a % Scale = 0, a >= 2 * Scale
  PROVE  (a \div Scale) >= 2
<1>1. Scale \in Nat /\ Scale > 0
  BY ScaleIsPositive
<1> DEFINE p == a \div Scale
<1>2. p \in Int /\ a = Scale * p
  BY <1>1
<1> HIDE DEF p
<1>3. p >= 2
  <2> SUFFICES ASSUME p <= 1 PROVE FALSE
    BY <1>2
  <2>1. 1 - p \in Nat
    BY <1>2
  <2>2. Scale * (1 - p) \in Nat
    BY <1>1, <2>1
  <2>3. Scale * (1 - p) = Scale - Scale * p
    BY <1>1, <1>2
  <2> QED
    BY <1>1, <1>2, <2>2, <2>3
<1> QED
  BY <1>3 DEF p

\* The numbers that are not refused.
LEMMA WholesOf ==
  ASSUME NEW parameters, IsTable(parameters), NEW key, ~RefusedWhole(parameters, key),
         key \in DOMAIN parameters
  PROVE  parameters[key] \in Int /\ parameters[key] % Scale = 0
BY DEF IsTable, RefusedWhole

\* What the validators of the schema accept the engine resolves, but for a window
\* given without its partner.
LEMMA ThresholdsRun ==
  ASSUME NEW parameters, IsTable(parameters), ParametersValid("price_threshold", parameters)
  PROVE  EngineAccepts("price_threshold", parameters)
<1>1. \A key \in {"buy_below", "sell_above", "quantity"} : ~Refused(parameters, key)
  BY DEF ParametersValid, NumbersValid, NumberKeys
<1>2. PriceThresholdConfig(parameters, [entryBelow |-> 0, exitAbove |-> 0]).valid
  BY <1>1 DEF PriceThresholdConfig
<1> QED
  BY <1>2 DEF EngineAccepts

LEMMA AveragesRun ==
  ASSUME NEW parameters, IsTable(parameters),
         ParametersValid("moving_average_cross", parameters)
  PROVE  \/ EngineAccepts("moving_average_cross", parameters)
         \/ OneSided("moving_average_cross", parameters)
<1>1. /\ ~RefusedWhole(parameters, "short_window") /\ ~RefusedWhole(parameters, "long_window")
      /\ ~Refused(parameters, "quantity")
  BY DEF ParametersValid, NumbersValid, NumberKeys, WholeKeys
<1>2. Ascending(parameters, "short_window", "long_window")
  BY DEF ParametersValid
<1> DEFINE short == WholeOr(parameters, "short_window", 5)
           long == WholeOr(parameters, "long_window", 20)
           valid == MovingAverageConfig(parameters).valid
<1>3. valid <=> short < long
  BY <1>1 DEF MovingAverageConfig
<1>4. EngineAccepts("moving_average_cross", parameters) <=> valid
  BY DEF EngineAccepts
<1>5. CASE "short_window" \in DOMAIN parameters /\ "long_window" \in DOMAIN parameters
  <2>1. parameters["short_window"] < parameters["long_window"]
    BY <1>2, <1>5 DEF Ascending, Given
  <2>2. /\ parameters["short_window"] \in Int /\ parameters["short_window"] % Scale = 0
        /\ parameters["long_window"] \in Int /\ parameters["long_window"] % Scale = 0
    BY <1>1, <1>5, WholesOf
  <2>3. short < long
    BY <1>5, <2>1, <2>2, WholesKeepOrder DEF WholeOr
  <2> QED
    BY <1>3, <1>4, <2>3
<1>6. CASE "short_window" \notin DOMAIN parameters /\ "long_window" \notin DOMAIN parameters
  <2>1. short = 5 /\ long = 20
    BY <1>6 DEF WholeOr
  <2> QED
    BY <1>3, <1>4, <2>1
<1>7. CASE ~("short_window" \in DOMAIN parameters <=> "long_window" \in DOMAIN parameters)
  <2> DEFINE pair == <<"short_window", "long_window">>
  <2>1. Given(parameters, {pair[1]}) # Given(parameters, {pair[2]})
    BY <1>7 DEF Given
  <2>2. {pair[1], pair[2]} \subseteq KeysOf("moving_average_cross")
    BY DEF KeysOf, WholeKeys, NumberKeys
  <2> QED
    BY <2>1, <2>2 DEF OneSided
<1> QED
  BY <1>5, <1>6, <1>7

LEMMA MacdRuns ==
  ASSUME NEW parameters, IsTable(parameters), ParametersValid("macd_crossover", parameters)
  PROVE  \/ EngineAccepts("macd_crossover", parameters)
         \/ OneSided("macd_crossover", parameters)
<1>1. /\ \A key \in {"fast_period", "slow_period", "signal_period"} :
           ~RefusedWhole(parameters, key)
      /\ ~Refused(parameters, "quantity")
  BY DEF ParametersValid, NumbersValid, NumberKeys, WholeKeys
<1>2. Ascending(parameters, "fast_period", "slow_period")
  BY DEF ParametersValid
<1> DEFINE fast == WholeOr(parameters, "fast_period", 12)
           slow == WholeOr(parameters, "slow_period", 26)
           valid == MacdConfig(parameters).valid
<1>3. valid <=> fast < slow
  BY <1>1 DEF MacdConfig
<1>4. EngineAccepts("macd_crossover", parameters) <=> valid
  BY DEF EngineAccepts
<1>5. CASE "fast_period" \in DOMAIN parameters /\ "slow_period" \in DOMAIN parameters
  <2>1. parameters["fast_period"] < parameters["slow_period"]
    BY <1>2, <1>5 DEF Ascending, Given
  <2>2. /\ parameters["fast_period"] \in Int /\ parameters["fast_period"] % Scale = 0
        /\ parameters["slow_period"] \in Int /\ parameters["slow_period"] % Scale = 0
    BY <1>1, <1>5, WholesOf
  <2>3. fast < slow
    BY <1>5, <2>1, <2>2, WholesKeepOrder DEF WholeOr
  <2> QED
    BY <1>3, <1>4, <2>3
<1>6. CASE "fast_period" \notin DOMAIN parameters /\ "slow_period" \notin DOMAIN parameters
  <2>1. fast = 12 /\ slow = 26
    BY <1>6 DEF WholeOr
  <2> QED
    BY <1>3, <1>4, <2>1
<1>7. CASE ~("fast_period" \in DOMAIN parameters <=> "slow_period" \in DOMAIN parameters)
  <2> DEFINE pair == <<"fast_period", "slow_period">>
  <2>1. Given(parameters, {pair[1]}) # Given(parameters, {pair[2]})
    BY <1>7 DEF Given
  <2>2. {pair[1], pair[2]} \subseteq KeysOf("macd_crossover")
    BY DEF KeysOf, WholeKeys, NumberKeys
  <2> QED
    BY <2>1, <2>2 DEF OneSided
<1> QED
  BY <1>5, <1>6, <1>7

LEMMA RsiRuns ==
  ASSUME NEW parameters, IsTable(parameters), ParametersValid("rsi_threshold", parameters)
  PROVE  EngineAccepts("rsi_threshold", parameters)
<1>1. /\ ~RefusedWhole(parameters, "period")
      /\ \A key \in {"oversold", "overbought", "quantity"} : ~Refused(parameters, key)
  BY DEF ParametersValid, NumbersValid, NumberKeys, WholeKeys
<1>2. ThresholdsValid(parameters)
  BY DEF ParametersValid
<1> DEFINE oversold == ValueOr(parameters, "oversold", 30 * Scale)
           overbought == ValueOr(parameters, "overbought", 70 * Scale)
<1>3. /\ oversold \in Int /\ overbought \in Int
      /\ oversold < 100 * Scale /\ overbought < 100 * Scale
  <2>1. Scale \in Nat /\ Scale > 0
    BY ScaleIsPositive
  <2> QED
    BY <1>2, <2>1 DEF IsTable, ThresholdsValid, ValueOr, Given
<1>4. oversold < overbought
  <2>1. CASE "oversold" \in DOMAIN parameters \/ "overbought" \in DOMAIN parameters
    BY <1>2, <2>1 DEF ThresholdsValid, Given
  <2>2. CASE ~("oversold" \in DOMAIN parameters \/ "overbought" \in DOMAIN parameters)
    <3>1. oversold = 30 * Scale /\ overbought = 70 * Scale
      BY <2>2 DEF ValueOr
    <3> QED
      BY <3>1, ScaleIsPositive
  <2> QED
    BY <2>1, <2>2
<1>5. RsiConfig(parameters).valid
  BY <1>1, <1>3, <1>4 DEF RsiConfig
<1> QED
  BY <1>5 DEF EngineAccepts

LEMMA BandsRun ==
  ASSUME NEW parameters, IsTable(parameters), ParametersValid("bollinger_bands", parameters)
  PROVE  EngineAccepts("bollinger_bands", parameters)
<1>1. /\ ~RefusedWhole(parameters, "period")
      /\ \A key \in {"stddev_multiplier", "quantity"} : ~Refused(parameters, key)
  BY DEF ParametersValid, NumbersValid, NumberKeys, WholeKeys
<1>2. WholeOr(parameters, "period", 20) >= 2
  <2>1. CASE "period" \in DOMAIN parameters
    <3>1. parameters["period"] >= 2 * Scale
      BY <2>1 DEF ParametersValid, Given
    <3>2. parameters["period"] \in Int /\ parameters["period"] % Scale = 0
      BY <1>1, <2>1, WholesOf
    <3> QED
      BY <2>1, <3>1, <3>2, WholeAtLeastTwo DEF WholeOr
  <2>2. CASE "period" \notin DOMAIN parameters
    BY <2>2 DEF WholeOr
  <2> QED
    BY <2>1, <2>2
<1>3. BollingerConfig(parameters).valid
  BY <1>1, <1>2 DEF BollingerConfig
<1> QED
  BY <1>3 DEF EngineAccepts

LEMMA ValidRuns ==
  ASSUME NEW type \in StrategyTypes, NEW parameters, IsTable(parameters),
         ParametersValid(type, parameters)
  PROVE  EngineAccepts(type, parameters) \/ OneSided(type, parameters)
BY ThresholdsRun, AveragesRun, RsiRuns, BandsRun, MacdRuns DEF StrategyTypes

----------------------------------------------------------------------------
(* An order of the numbers 1..n that is strict and total                   *)

IsStrictOrder(R, n) ==
  /\ \A i \in 1..n : <<i, i>> \notin R
  /\ \A i, j, k \in 1..n : <<i, j>> \in R /\ <<j, k>> \in R => <<i, k>> \in R
  /\ \A i, j \in 1..n : i # j => <<i, j>> \in R \/ <<j, i>> \in R

\* The numbers can be listed in such an order.
LEMMA OrderCanBeListed ==
  ASSUME NEW n \in Nat, NEW R, IsStrictOrder(R, n)
  PROVE  \E r \in [1..n -> 1..n] : \A i, j \in 1..n : i < j => <<r[i], r[j]>> \in R
<1> DEFINE S == 1..n
           Below(i) == {j \in S : <<j, i>> \in R}
           rank == [i \in S |-> Cardinality(Below(i)) + 1]
<1>1. IsFiniteSet(S) /\ Cardinality(S) = n
  BY FS_Interval
<1>2. ASSUME NEW i \in S
      PROVE  /\ IsFiniteSet(Below(i)) /\ Cardinality(Below(i)) \in Nat
             /\ Cardinality(Below(i)) < n
  <2>1. Below(i) \in SUBSET S /\ Below(i) # S
    BY DEF IsStrictOrder
  <2> HIDE DEF Below, S
  <2>2. IsFiniteSet(Below(i)) /\ Cardinality(Below(i)) <= n
    BY <1>1, <2>1, FS_Subset
  <2>3. Cardinality(Below(i)) # n
    BY <1>1, <2>1, FS_Subset
  <2>4. Cardinality(Below(i)) \in Nat
    BY <2>2, FS_CardinalityType
  <2> QED
    BY <2>2, <2>3, <2>4
<1>3. rank \in [S -> S]
  <2> HIDE DEF Below
  <2>1. \A i \in S : Cardinality(Below(i)) + 1 \in S
    BY <1>2
  <2> QED
    BY <2>1
<1>4. ASSUME NEW i \in S, NEW j \in S, <<i, j>> \in R
      PROVE  rank[i] < rank[j]
  <2>1. Below(i) \in SUBSET Below(j)
    BY <1>4 DEF IsStrictOrder
  <2>2. i \in Below(j) /\ i \notin Below(i)
    BY <1>4 DEF IsStrictOrder
  <2> HIDE DEF Below
  <2>3. IsFiniteSet(Below(j)) /\ Cardinality(Below(i)) \in Nat /\ Cardinality(Below(j)) \in Nat
    BY <1>2
  <2>4. /\ Cardinality(Below(i)) <= Cardinality(Below(j))
        /\ Cardinality(Below(i)) # Cardinality(Below(j))
    BY <2>1, <2>2, <2>3, FS_Subset
  <2> QED
    BY <2>3, <2>4
<1>5. \A i \in S : rank[i] \in Int
  BY <1>3
<1> HIDE DEF rank
<1>6. rank \in Injection(S, S)
  <2>1. ASSUME NEW i \in S, NEW j \in S, rank[i] = rank[j], i # j
        PROVE  FALSE
    <3>1. <<i, j>> \in R \/ <<j, i>> \in R
      BY <2>1 DEF IsStrictOrder
    <3>2. rank[i] < rank[j] \/ rank[j] < rank[i]
      BY <1>4, <3>1
    <3> QED
      BY <1>5, <2>1, <3>2
  <2> QED
    BY <1>3, <2>1 DEF Injection, IsInjective
<1>7. rank \in Surjection(S, S)
  <2> HIDE DEF S
  <2> QED
    BY <1>1, <1>6, FS_Injection
<1>8. \A k \in S : \E i \in S : rank[i] = k
  BY <1>7 DEF Surjection
<1> DEFINE r == [k \in S |-> CHOOSE i \in S : rank[i] = k]
<1>9. r \in [S -> S] /\ \A k \in S : rank[r[k]] = k
  BY <1>8
<1> HIDE DEF r
<1>10. ASSUME NEW i \in S, NEW j \in S, i < j
       PROVE  <<r[i], r[j]>> \in R
  <2>1. r[i] \in S /\ r[j] \in S /\ rank[r[i]] = i /\ rank[r[j]] = j
    BY <1>9
  <2>2. <<r[j], r[i]>> \notin R
    <3> SUFFICES ASSUME <<r[j], r[i]>> \in R PROVE FALSE
      OBVIOUS
    <3>1. rank[r[j]] < rank[r[i]]
      BY <1>4, <2>1
    <3> QED
      BY <1>10, <2>1, <3>1
  <2>3. r[i] # r[j]
    BY <1>10, <2>1
  <2> QED
    BY <2>1, <2>2, <2>3 DEF IsStrictOrder
<1> QED
  BY <1>9, <1>10

----------------------------------------------------------------------------
(* The invariant                                                           *)

\* What is stored is a strategy, and the schema accepts it unless patches crossed.
StoredIsValid ==
  /\ strategy = NoStrategy \/ IsStrategy(strategy)
  /\ strategy # NoStrategy /\ ~crossed =>
       ParametersValid(strategy.strategy_type, strategy.parameters)

\* A patch under way was accepted for the row it read.
IsJudged(patch) ==
  /\ IsStrategy(patch.row)
  /\ patch.payload \in PatchPayloads
  /\ PatchAccepted(patch.row, patch.payload)
PatchesWereJudged ==
  /\ DOMAIN patches = Editors
  /\ \A e \in Editors : patches[e] # NoPatch => IsJudged(patches[e])

\* An answer is for the strategy as it is: it does not outlast a patch.
AnswerIsCurrent ==
  /\ strategy = NoStrategy => optimised = NoAnswer
  /\ \A e \in Editors : patches[e] # NoPatch => optimised = NoAnswer

\* Its runs are of sets that were accepted, listed as they rank.
IsRun(run) ==
  /\ IsTable(run.submitted) /\ SetAccepted(run.submitted)
  /\ run.effective = Effective(run.submitted)
  /\ run.outcome \in Outcomes /\ run.passes \in BOOLEAN /\ run.index \in Nat
RunsRank(runs) ==
  \A i, j \in DOMAIN runs : i < j => RanksBefore(runs[i], runs[j])
AnswerIsRanked ==
  /\ \A i \in DOMAIN optimised : i \in Nat /\ i >= 1 /\ 1 \in DOMAIN optimised
  /\ \A i \in DOMAIN optimised : IsRun(optimised[i])
  /\ RunsRank(optimised)

StrategyInv ==
  /\ StoredIsValid /\ PatchesWereJudged /\ AnswerIsCurrent /\ AnswerIsRanked

----------------------------------------------------------------------------
(* Columns and parameters                                                  *)

LEMMA NoStrategyIsNone == ~IsStrategy(NoStrategy)
BY DEF IsStrategy, NoStrategy, StrategyTypes

LEMMA PatchedIsStrategy ==
  ASSUME NEW row, IsStrategy(row), NEW payload \in PatchPayloads
  PROVE  /\ IsStrategy(Patched(row, payload))
         /\ Patched(row, payload) # NoStrategy
<1>1. DOMAIN row = {"strategy_type", "parameters"}
  BY DEF IsStrategy
<1>2. /\ row.strategy_type \in StrategyTypes /\ IsTable(row.parameters)
      /\ "strategy_type" \in DOMAIN payload => payload.strategy_type \in StrategyTypes
      /\ "parameters" \in DOMAIN payload => IsTable(payload.parameters)
  BY StrategyAssumption DEF IsStrategy
<1> DEFINE new == Patched(row, payload)
<1>3. /\ new = [strategy_type |-> new.strategy_type, parameters |-> new.parameters]
      /\ new.strategy_type \in StrategyTypes
      /\ IsTable(new.parameters)
  BY <1>1, <1>2 DEF Patched
<1> QED
  BY <1>3, NoStrategyIsNone DEF IsStrategy

\* The columns a commit writes to the row that was judged make the patched row.
LEMMA WrittenIsPatched ==
  ASSUME NEW row, IsStrategy(row), NEW payload
  PROVE  [column \in DOMAIN row |->
            IF column \in DOMAIN payload /\ payload[column] # row[column]
            THEN payload[column] ELSE row[column]] = Patched(row, payload)
BY DEF Patched

\* What a commit writes to any row is a strategy.
LEMMA WrittenIsStrategy ==
  ASSUME NEW row, IsStrategy(row), NEW payload \in PatchPayloads, NEW judged
  PROVE  IsStrategy([column \in DOMAIN row |->
            IF column \in DOMAIN payload /\ payload[column] # judged[column]
            THEN payload[column] ELSE row[column]])
<1>1. DOMAIN row = {"strategy_type", "parameters"}
  BY DEF IsStrategy
<1>2. /\ row.strategy_type \in StrategyTypes /\ IsTable(row.parameters)
      /\ "strategy_type" \in DOMAIN payload => payload.strategy_type \in StrategyTypes
      /\ "parameters" \in DOMAIN payload => IsTable(payload.parameters)
  BY StrategyAssumption DEF IsStrategy
<1> DEFINE new == [column \in DOMAIN row |->
                     IF column \in DOMAIN payload /\ payload[column] # judged[column]
                     THEN payload[column] ELSE row[column]]
<1>3. /\ new = [strategy_type |-> new.strategy_type, parameters |-> new.parameters]
      /\ new.strategy_type \in StrategyTypes
      /\ IsTable(new.parameters)
  BY <1>1, <1>2
<1> QED
  BY <1>3 DEF IsStrategy

LEMMA AliasesAreTable ==
  ASSUME NEW submitted, IsTable(submitted)
  PROVE  /\ IsTable(WithAliases(submitted))
         /\ DOMAIN submitted \subseteq DOMAIN WithAliases(submitted)
         /\ \A key \in DOMAIN submitted : WithAliases(submitted)[key] = submitted[key]
<1> DEFINE added == {k \in DOMAIN AliasOf : Given(submitted, {AliasOf[k]})}
<1>1. \A k \in added : AliasOf[k] \in DOMAIN submitted
  BY DEF Given
<1> HIDE DEF added
<1>2. WithAliases(submitted) = [key \in DOMAIN submitted \cup added |->
        IF key \in DOMAIN submitted THEN submitted[key] ELSE submitted[AliasOf[key]]]
  BY DEF WithAliases, added
<1>3. \A key \in DOMAIN submitted : submitted[key] \in Int
  BY DEF IsTable
<1> QED
  BY <1>1, <1>2, <1>3 DEF IsTable

\* A set is merged with the stored parameters: the keys of the strategy come from
\* the set, the rest from what is stored.
LEMMA EffectiveMerges ==
  ASSUME IsStrategy(strategy), NEW submitted, IsTable(submitted)
  PROVE  LET type == strategy.strategy_type IN
         /\ IsTable(Effective(submitted))
         /\ \A key \in KeysOf(type) \cap DOMAIN submitted :
              Effective(submitted)[key] = submitted[key]
         /\ DOMAIN Effective(submitted) \subseteq DOMAIN strategy.parameters \cup KeysOf(type)
<1> DEFINE type == strategy.strategy_type
           stored == strategy.parameters
           named == IF type = "price_threshold" THEN WithAliases(submitted) ELSE submitted
           own == Normalised(type, submitted)
<1>1. /\ IsTable(named) /\ DOMAIN submitted \subseteq DOMAIN named
      /\ \A key \in DOMAIN submitted : named[key] = submitted[key]
  BY AliasesAreTable
<1>2. own = [key \in DOMAIN named \cap KeysOf(type) |-> named[key]]
  BY DEF Normalised, Restrict
<1> HIDE DEF named
<1>3. /\ DOMAIN own = DOMAIN named \cap KeysOf(type)
      /\ \A key \in DOMAIN own : own[key] = named[key] /\ own[key] \in Int
  BY <1>1, <1>2 DEF IsTable
<1>4. \A key \in DOMAIN stored : stored[key] \in Int
  BY DEF IsStrategy, IsTable
<1>5. Effective(submitted) =
        [key \in DOMAIN own \cup DOMAIN stored |->
           IF key \in DOMAIN own THEN own[key] ELSE stored[key]]
  BY DEF Effective
<1> HIDE DEF own
<1>6. IsTable(Effective(submitted))
  BY <1>3, <1>4, <1>5 DEF IsTable
<1>7. \A key \in KeysOf(type) \cap DOMAIN submitted :
        Effective(submitted)[key] = submitted[key]
  BY <1>1, <1>3, <1>5
<1>8. DOMAIN Effective(submitted) \subseteq DOMAIN stored \cup KeysOf(type)
  BY <1>3, <1>5
<1> QED
  BY <1>6, <1>7, <1>8

----------------------------------------------------------------------------
(* Ranks                                                                   *)

IsRankable(run) ==
  run.outcome \in Outcomes /\ run.passes \in BOOLEAN /\ run.index \in Nat

\* Runs with indices of their own are ranked strictly, whatever they returned.
LEMMA RanksAreStrict ==
  ASSUME NEW a, NEW b, NEW c, IsRankable(a), IsRankable(b), IsRankable(c)
  PROVE  /\ ~RanksBefore(a, a)
         /\ RanksBefore(a, b) /\ RanksBefore(b, c) => RanksBefore(a, c)
         /\ a.index # b.index => RanksBefore(a, b) \/ RanksBefore(b, a)
<1>1. /\ a.outcome.return \in Int /\ a.outcome.closed \in Nat
      /\ b.outcome.return \in Int /\ b.outcome.closed \in Nat
      /\ c.outcome.return \in Int /\ c.outcome.closed \in Nat
      /\ a.index \in Nat /\ b.index \in Nat /\ c.index \in Nat
      /\ a.passes \in BOOLEAN /\ b.passes \in BOOLEAN /\ c.passes \in BOOLEAN
  BY StrategyAssumption DEF IsRankable
<1>2. ~RanksBefore(a, a)
  BY <1>1 DEF RanksBefore
<1>3. RanksBefore(a, b) /\ RanksBefore(b, c) => RanksBefore(a, c)
  BY <1>1 DEF RanksBefore
<1>4. a.index # b.index => RanksBefore(a, b) \/ RanksBefore(b, a)
  BY <1>1 DEF RanksBefore
<1> QED
  BY <1>2, <1>3, <1>4

\* So there is an order to list them in, and InRankOrder takes one.
LEMMA RunsAreListed ==
  ASSUME NEW n \in Nat, NEW runs, DOMAIN runs = 1..n,
         \A i \in 1..n : IsRankable(runs[i]) /\ runs[i].index = i
  PROVE  /\ DOMAIN InRankOrder(runs) = 1..n
         /\ \A i \in 1..n : \E k \in 1..n : InRankOrder(runs)[i] = runs[k]
         /\ RunsRank(InRankOrder(runs))
<1> DEFINE R == {pair \in (1..n) \X (1..n) : RanksBefore(runs[pair[1]], runs[pair[2]])}
           IsOrder(r) == \A i, j \in DOMAIN runs : i < j => RanksBefore(runs[r[i]], runs[r[j]])
           order == CHOOSE r \in [DOMAIN runs -> DOMAIN runs] : IsOrder(r)
<1>1. \A i, j \in 1..n : <<i, j>> \in R <=> RanksBefore(runs[i], runs[j])
  OBVIOUS
<1> HIDE DEF R
<1>2. IsStrictOrder(R, n)
  BY <1>1, RanksAreStrict DEF IsStrictOrder
<1>3. PICK r \in [1..n -> 1..n] : \A i, j \in 1..n : i < j => <<r[i], r[j]>> \in R
  BY <1>2, OrderCanBeListed
<1>4. IsOrder(r)
  BY <1>1, <1>3
<1>5. order \in [DOMAIN runs -> DOMAIN runs] /\ IsOrder(order)
  BY <1>3, <1>4
<1>6. InRankOrder(runs) = [i \in DOMAIN runs |-> runs[order[i]]]
  BY DEF InRankOrder
<1> HIDE DEF order
<1>7. DOMAIN InRankOrder(runs) = 1..n
  BY <1>6
<1>8. \A i \in 1..n : \E k \in 1..n : InRankOrder(runs)[i] = runs[k]
  BY <1>5, <1>6
<1>9. RunsRank(InRankOrder(runs))
  BY <1>5, <1>6 DEF RunsRank
<1> QED
  BY <1>7, <1>8, <1>9

----------------------------------------------------------------------------
(* The invariant is inductive                                              *)

LEMMA StrategyInvInit == StrategyInit => StrategyInv
BY DEF StrategyInit, StrategyInv, StoredIsValid, PatchesWereJudged, AnswerIsCurrent,
       AnswerIsRanked, RunsRank, NoAnswer

LEMMA CreatePreserves ==
  ASSUME StrategyInv, CreateStrategy
  PROVE  StrategyInv'
<1>1. PICK new \in NewStrategies :
        ParametersValid(new.strategy_type, new.parameters) /\ strategy' = new
  BY DEF CreateStrategy
<1>2. StoredIsValid'
  BY <1>1, StrategyAssumption DEF StoredIsValid
<1>3. optimised = NoAnswer /\ UNCHANGED <<patches, optimised>>
  BY DEF StrategyInv, AnswerIsCurrent, CreateStrategy
<1>4. PatchesWereJudged'
  BY <1>3 DEF StrategyInv, PatchesWereJudged, IsJudged
<1>5. AnswerIsCurrent' /\ AnswerIsRanked'
  BY <1>3 DEF AnswerIsCurrent, AnswerIsRanked, RunsRank, NoAnswer
<1> QED
  BY <1>2, <1>4, <1>5 DEF StrategyInv

LEMMA BeginPreserves ==
  ASSUME StrategyInv, NEW e \in Editors, BeginPatch(e)
  PROVE  StrategyInv'
<1>1. PICK payload \in PatchPayloads :
        /\ PatchAccepted(strategy, payload)
        /\ patches' = [patches EXCEPT ![e] =
                         [at |-> "judged", row |-> strategy, payload |-> payload]]
  BY DEF BeginPatch
<1>2. IsStrategy(strategy) /\ UNCHANGED <<strategy, crossed>> /\ optimised' = NoAnswer
  BY DEF StrategyInv, StoredIsValid, BeginPatch
<1>3. StoredIsValid'
  BY <1>2 DEF StrategyInv, StoredIsValid
<1> DEFINE patch == [at |-> "judged", row |-> strategy, payload |-> payload]
<1>4. IsJudged(patch)
  BY <1>1, <1>2 DEF IsJudged
<1> HIDE DEF patch
<1>5. PatchesWereJudged'
  <2>1. /\ DOMAIN patches' = Editors /\ patches'[e] = patch
        /\ \A other \in Editors : other # e => patches'[other] = patches[other]
    BY <1>1 DEF StrategyInv, PatchesWereJudged, patch
  <2>2. \A other \in Editors : patches'[other] # NoPatch => IsJudged(patches'[other])
    BY <1>4, <2>1 DEF StrategyInv, PatchesWereJudged
  <2> QED
    BY <2>1, <2>2 DEF PatchesWereJudged, IsJudged
<1>6. AnswerIsCurrent' /\ AnswerIsRanked'
  BY <1>2 DEF AnswerIsCurrent, AnswerIsRanked, RunsRank, NoAnswer
<1> QED
  BY <1>3, <1>5, <1>6 DEF StrategyInv

\* A patch that ends leaves the others as they were.
LEMMA EndedPatchLeavesOthers ==
  ASSUME StrategyInv, NEW e \in Editors, patches' = [patches EXCEPT ![e] = NoPatch]
  PROVE  PatchesWereJudged'
<1>1. /\ DOMAIN patches' = Editors /\ patches'[e] = NoPatch
      /\ \A other \in Editors : other # e => patches'[other] = patches[other]
  BY DEF StrategyInv, PatchesWereJudged
<1>2. \A other \in Editors : patches'[other] # NoPatch => IsJudged(patches'[other])
  BY <1>1 DEF StrategyInv, PatchesWereJudged
<1> QED
  BY <1>1, <1>2 DEF PatchesWereJudged, IsJudged

LEMMA CommitPreserves ==
  ASSUME StrategyInv, NEW e \in Editors, CommitPatch(e)
  PROVE  StrategyInv'
<1> DEFINE patch == patches[e]
           written == [column \in DOMAIN strategy |->
                         IF column \in DOMAIN patch.payload
                            /\ patch.payload[column] # patch.row[column]
                         THEN patch.payload[column] ELSE strategy[column]]
<1>1. /\ patch # NoPatch /\ strategy # NoStrategy
      /\ strategy' = written
      /\ crossed' = (crossed \/ strategy # patch.row)
      /\ UNCHANGED optimised
  BY DEF CommitPatch
<1>2. IsStrategy(strategy) /\ IsJudged(patch) /\ optimised = NoAnswer
  BY <1>1 DEF StrategyInv, StoredIsValid, PatchesWereJudged, AnswerIsCurrent
<1>3. IsStrategy(written)
  BY <1>2, WrittenIsStrategy DEF IsJudged
<1>4. strategy = patch.row => written = Patched(patch.row, patch.payload)
  BY <1>2, WrittenIsPatched
<1> HIDE DEF written
<1>5. StoredIsValid'
  <2>1. ~crossed' => ParametersValid(strategy'.strategy_type, strategy'.parameters)
    BY <1>1, <1>2, <1>4 DEF IsJudged, PatchAccepted
  <2> QED
    BY <1>1, <1>3, <2>1 DEF StoredIsValid
<1>6. PatchesWereJudged'
  BY EndedPatchLeavesOthers DEF CommitPatch
<1>7. AnswerIsCurrent' /\ AnswerIsRanked'
  BY <1>1, <1>2 DEF AnswerIsCurrent, AnswerIsRanked, RunsRank, NoAnswer
<1> QED
  BY <1>5, <1>6, <1>7 DEF StrategyInv

LEMMA LosePreserves ==
  ASSUME StrategyInv, NEW e \in Editors, LosePatch(e)
  PROVE  StrategyInv'
<1>1. UNCHANGED <<strategy, crossed, optimised>> /\ optimised = NoAnswer
  BY DEF StrategyInv, AnswerIsCurrent, LosePatch
<1>2. StoredIsValid'
  BY <1>1 DEF StrategyInv, StoredIsValid
<1>3. PatchesWereJudged'
  BY EndedPatchLeavesOthers DEF LosePatch
<1>4. AnswerIsCurrent' /\ AnswerIsRanked'
  BY <1>1 DEF AnswerIsCurrent, AnswerIsRanked, RunsRank, NoAnswer
<1> QED
  BY <1>2, <1>3, <1>4 DEF StrategyInv

LEMMA DeletePreserves ==
  ASSUME StrategyInv, DeleteStrategy
  PROVE  StrategyInv'
<1>1. /\ strategy' = NoStrategy /\ optimised' = NoAnswer
      /\ patches' = [e \in Editors |-> NoPatch]
  BY DEF DeleteStrategy
<1>2. StoredIsValid'
  BY <1>1 DEF StoredIsValid
<1>3. PatchesWereJudged'
  BY <1>1 DEF PatchesWereJudged
<1>4. AnswerIsCurrent' /\ AnswerIsRanked'
  BY <1>1 DEF AnswerIsCurrent, AnswerIsRanked, RunsRank, NoAnswer
<1> QED
  BY <1>2, <1>3, <1>4 DEF StrategyInv

LEMMA OptimisePreserves ==
  ASSUME StrategyInv, Optimise
  PROVE  StrategyInv'
<1>1. PICK sets \in ParameterRequests, filter \in Filters :
        /\ \A i \in DOMAIN sets : SetAccepted(sets[i])
        /\ \E outcomes \in [DOMAIN sets -> Outcomes] :
             optimised' = InRankOrder(
               [i \in DOMAIN sets |->
                  [index |-> i, submitted |-> sets[i], effective |-> Effective(sets[i]),
                   outcome |-> outcomes[i], passes |-> Passes(outcomes[i], filter)]])
  BY DEF Optimise
<1>2. PICK outcomes \in [DOMAIN sets -> Outcomes] :
        optimised' = InRankOrder(
          [i \in DOMAIN sets |->
             [index |-> i, submitted |-> sets[i], effective |-> Effective(sets[i]),
              outcome |-> outcomes[i], passes |-> Passes(outcomes[i], filter)]])
  BY <1>1
<1> DEFINE n == Len(sets)
           runs == [i \in DOMAIN sets |->
             [index |-> i, submitted |-> sets[i], effective |-> Effective(sets[i]),
              outcome |-> outcomes[i], passes |-> Passes(outcomes[i], filter)]]
<1>3. /\ n \in Nat /\ DOMAIN sets = 1..n
      /\ \A i \in 1..n : IsTable(sets[i]) /\ SetAccepted(sets[i])
  BY <1>1, StrategyAssumption
<1>4. \A i \in 1..n : Passes(outcomes[i], filter) \in BOOLEAN
  BY DEF Passes
<1>5. DOMAIN runs = 1..n /\ \A i \in 1..n : IsRun(runs[i]) /\ runs[i].index = i
  BY <1>3, <1>4 DEF IsRun
<1>6. optimised' = InRankOrder(runs)
  BY <1>2
<1> HIDE DEF runs, n
<1>7. /\ DOMAIN optimised' = 1..n
      /\ \A i \in 1..n : \E k \in 1..n : optimised'[i] = runs[k]
      /\ RunsRank(optimised')
  <2>1. \A i \in 1..n : IsRankable(runs[i]) /\ runs[i].index = i
    BY <1>5 DEF IsRun, IsRankable
  <2>2. n \in Nat /\ DOMAIN runs = 1..n
    BY <1>3, <1>5
  <2>3. /\ DOMAIN InRankOrder(runs) = 1..n
        /\ \A i \in 1..n : \E k \in 1..n : InRankOrder(runs)[i] = runs[k]
        /\ RunsRank(InRankOrder(runs))
    BY <2>1, <2>2, RunsAreListed
  <2> QED
    BY <1>6, <2>3
<1>8. UNCHANGED <<strategy, patches, crossed>>
  BY DEF Optimise
<1>9. \A i \in 1..n : IsRun(optimised'[i])
  BY <1>5, <1>7
<1>10. \A run : IsRun(run) => IsRun(run)'
  BY <1>8 DEF IsRun, SetAccepted, Effective
<1>11. AnswerIsRanked'
  <2>1. \A i \in DOMAIN optimised' : i \in Nat /\ i >= 1 /\ 1 \in DOMAIN optimised'
    BY <1>3, <1>7
  <2>2. \A i \in 1..n : IsRun(optimised[i])'
    BY <1>8, <1>9 DEF IsRun, SetAccepted, Effective
  <2>3. RunsRank(optimised)'
    BY <1>7 DEF RunsRank
  <2> QED
    BY <1>7, <2>1, <2>2, <2>3 DEF AnswerIsRanked
<1>12. StoredIsValid'
  BY <1>8 DEF StrategyInv, StoredIsValid
<1>13. PatchesWereJudged'
  BY <1>8 DEF StrategyInv, PatchesWereJudged, IsJudged
<1>14. AnswerIsCurrent'
  BY <1>8 DEF AnswerIsCurrent, Optimise
<1> QED
  BY <1>11, <1>12, <1>13, <1>14 DEF StrategyInv

LEMMA StrategyInvNext == StrategyInv /\ [StrategyNext]_strategyVars => StrategyInv'
<1> SUFFICES ASSUME StrategyInv, [StrategyNext]_strategyVars PROVE StrategyInv'
  OBVIOUS
<1>1. CASE CreateStrategy
  BY <1>1, CreatePreserves
<1>2. CASE DeleteStrategy
  BY <1>2, DeletePreserves
<1>3. CASE Optimise
  BY <1>3, OptimisePreserves
<1>4. ASSUME NEW e \in Editors, BeginPatch(e) PROVE StrategyInv'
  BY <1>4, BeginPreserves
<1>5. ASSUME NEW e \in Editors, CommitPatch(e) PROVE StrategyInv'
  BY <1>5, CommitPreserves
<1>6. ASSUME NEW e \in Editors, LosePatch(e) PROVE StrategyInv'
  BY <1>6, LosePreserves
<1>7. CASE UNCHANGED strategyVars
  BY <1>7 DEF strategyVars, StrategyInv, StoredIsValid, PatchesWereJudged, IsJudged,
              AnswerIsCurrent, AnswerIsRanked, IsRun, RunsRank, SetAccepted, Effective
<1> QED
  BY <1>1, <1>2, <1>3, <1>4, <1>5, <1>6, <1>7 DEF StrategyNext

----------------------------------------------------------------------------
(* Theorems                                                                *)

\* The invariant gives what the run checks.
LEMMA AcceptedRun ==
  ASSUME StrategyInv, NEW i \in DOMAIN optimised
  PROVE  LET run == optimised[i]
             type == strategy.strategy_type IN
         /\ EngineAccepts(type, run.effective) \/ OneSided(type, run.effective)
         /\ \A key \in KeysOf(type) \cap DOMAIN run.submitted :
              run.effective[key] = run.submitted[key]
         /\ DOMAIN run.effective \subseteq DOMAIN strategy.parameters \cup KeysOf(type)
<1> DEFINE run == optimised[i]
           type == strategy.strategy_type
<1>1. IsRun(run)
  BY DEF StrategyInv, AnswerIsRanked
<1>2. strategy # NoStrategy
  BY DEF StrategyInv, AnswerIsCurrent, NoAnswer
<1>3. IsStrategy(strategy) /\ type \in StrategyTypes
  BY <1>2 DEF StrategyInv, StoredIsValid, IsStrategy
<1> HIDE DEF run
<1>4. /\ IsTable(run.effective)
      /\ \A key \in KeysOf(type) \cap DOMAIN run.submitted :
           run.effective[key] = run.submitted[key]
      /\ DOMAIN run.effective \subseteq DOMAIN strategy.parameters \cup KeysOf(type)
  BY <1>1, <1>3, EffectiveMerges DEF IsRun
<1>5. ParametersValid(type, run.effective)
  BY <1>1 DEF IsRun, SetAccepted
<1>6. EngineAccepts(type, run.effective) \/ OneSided(type, run.effective)
  BY <1>3, <1>4, <1>5, ValidRuns
<1> QED
  BY <1>4, <1>6 DEF run

LEMMA TopRun ==
  ASSUME StrategyInv, NEW i \in DOMAIN optimised
  PROVE  LET best == optimised[1]
             run == optimised[i] IN
         run.passes => /\ best.passes
                       /\ best.outcome.return >= run.outcome.return
                       /\ best.outcome = run.outcome => best.index <= run.index
<1> DEFINE best == optimised[1]
           run == optimised[i]
<1>1. i \in Nat /\ i >= 1 /\ 1 \in DOMAIN optimised
  BY DEF StrategyInv, AnswerIsRanked
<1>2. IsRun(best) /\ IsRun(run)
  BY <1>1 DEF StrategyInv, AnswerIsRanked
<1>3. i = 1 \/ RanksBefore(best, run)
  BY <1>1 DEF StrategyInv, AnswerIsRanked, RunsRank
<1>4. /\ best.outcome.return \in Int /\ run.outcome.return \in Int
      /\ best.index \in Nat /\ run.index \in Nat
      /\ best.passes \in BOOLEAN /\ run.passes \in BOOLEAN
      /\ best.outcome.closed \in Nat /\ run.outcome.closed \in Nat
  BY <1>2, StrategyAssumption DEF IsRun
<1>5. CASE i = 1
  BY <1>4, <1>5
<1>6. CASE RanksBefore(best, run)
  <2> HIDE DEF best, run
  <2> SUFFICES ASSUME run.passes
               PROVE  /\ best.passes
                      /\ best.outcome.return >= run.outcome.return
                      /\ best.outcome = run.outcome => best.index <= run.index
    BY DEF best, run
  <2>0. /\ best.passes = run.passes
        /\ \/ best.outcome.return > run.outcome.return
           \/ /\ best.outcome.return = run.outcome.return
              /\ \/ best.outcome.closed > run.outcome.closed
                 \/ best.outcome.closed = run.outcome.closed /\ best.index < run.index
    BY <1>6 DEF RanksBefore
  <2>1. best.passes /\ best.outcome.return >= run.outcome.return
    BY <1>4, <2>0
  <2>2. ASSUME best.outcome = run.outcome PROVE best.index <= run.index
    BY <1>4, <1>6, <2>2 DEF RanksBefore
  <2> QED
    BY <2>1, <2>2
<1> QED
  BY <1>3, <1>5, <1>6

LEMMA StrategyInvHolds == StrategyInv => StrategiesHold
<1> SUFFICES ASSUME StrategyInv PROVE StrategiesHold
  OBVIOUS
<1>1. StrategyTypeOK
  BY DEF StrategyInv, StoredIsValid, PatchesWereJudged, IsJudged, IsStrategy, StrategyTypeOK
<1>2. StoredStrategiesRun
  BY ValidRuns DEF StrategyInv, StoredIsValid, IsStrategy, StoredStrategiesRun
<1>3. AcceptedSetsRun
  BY AcceptedRun DEF AcceptedSetsRun
<1>4. BestRunIsOnTop
  BY TopRun DEF BestRunIsOnTop
<1> QED
  BY <1>1, <1>2, <1>3, <1>4 DEF StrategiesHold

\* What was stored or accepted runs, for any strategies, patches and requests:
\* what the schema's validators let through, however types and parameters were
\* patched, the engine resolves, but for a window given without its partner or
\* after two patches crossed; and an optimisation runs what was submitted, merged
\* with what is stored, and lists first the run to take.
THEOREM StrategiesHoldAlways == StrategySpec => []StrategiesHold
<1>1. StrategySpec => []StrategyInv
  BY StrategyInvInit, StrategyInvNext, PTL DEF StrategySpec
<1> QED
  BY <1>1, StrategyInvHolds, PTL

----------------------------------------------------------------------------
(* Comparisons: least elements                                             *)

\* Every nonempty set of natural numbers has a least element: no induction over
\* data, the order of the natural numbers is well-founded.
LEMMA HasLeast ==
  ASSUME NEW S \in SUBSET Nat, S # {}
  PROVE  \E m \in S : \A n \in S : m <= n
<1>1. PICK m \in S : \A n \in S : ~(<<n, m>> \in OpToRel(<, Nat))
  BY NatLessThanWellFounded, WFMin
<1>2. ASSUME NEW n \in S PROVE m <= n
  <2>1. ~ (n < m)
    BY <1>1 DEF OpToRel
  <2> QED BY <2>1
<1> QED
  BY <1>2

----------------------------------------------------------------------------
(* Rankings                                                                *)

\* Keys: for each run a tuple of as many numbers, the last of them its index.
AreKeys(keys, n, m) ==
  /\ n \in Nat /\ m \in Nat \ {0} /\ DOMAIN keys = 1..n
  /\ \A i \in 1..n : /\ DOMAIN keys[i] = 1..m /\ keys[i][m] = i
                     /\ \A k \in 1..m : keys[i][k] \in Int

\* Tuples that end in numbers of their own are strictly ordered, the first number
\* in which they differ first.
LEMMA KeysAreStrict ==
  ASSUME NEW keys, NEW n, NEW m, AreKeys(keys, n, m)
  PROVE  IsStrictOrder({pair \in (1..n) \X (1..n) : Precedes(keys[pair[1]], keys[pair[2]])}, n)
<1> DEFINE R == {pair \in (1..n) \X (1..n) : Precedes(keys[pair[1]], keys[pair[2]])}
<1>1. \A i, j \in 1..n : <<i, j>> \in R <=> Precedes(keys[i], keys[j])
  OBVIOUS
<1> HIDE DEF R
<1>2. \A i \in 1..n : ~Precedes(keys[i], keys[i])
  BY DEF AreKeys, Precedes
<1>3. ASSUME NEW i \in 1..n, NEW j \in 1..n, NEW k \in 1..n,
             Precedes(keys[i], keys[j]), Precedes(keys[j], keys[k])
      PROVE  Precedes(keys[i], keys[k])
  <2>1. PICK p \in 1..m : keys[i][p] < keys[j][p] /\ \A l \in 1..(p - 1) : keys[i][l] = keys[j][l]
    BY <1>3 DEF AreKeys, Precedes
  <2>2. PICK q \in 1..m : keys[j][q] < keys[k][q] /\ \A l \in 1..(q - 1) : keys[j][l] = keys[k][l]
    BY <1>3 DEF AreKeys, Precedes
  <2>3. CASE p <= q
    <3>1. keys[i][p] < keys[k][p]
      BY <2>1, <2>2, <2>3 DEF AreKeys
    <3>2. \A l \in 1..(p - 1) : keys[i][l] = keys[k][l]
      BY <2>1, <2>2, <2>3 DEF AreKeys
    <3> QED
      BY <3>1, <3>2 DEF AreKeys, Precedes
  <2>4. CASE q < p
    <3>1. keys[i][q] < keys[k][q]
      BY <2>1, <2>2, <2>4 DEF AreKeys
    <3>2. \A l \in 1..(q - 1) : keys[i][l] = keys[k][l]
      BY <2>1, <2>2, <2>4 DEF AreKeys
    <3> QED
      BY <3>1, <3>2 DEF AreKeys, Precedes
  <2> QED
    BY <2>3, <2>4 DEF AreKeys
<1>4. ASSUME NEW i \in 1..n, NEW j \in 1..n, i # j
      PROVE  Precedes(keys[i], keys[j]) \/ Precedes(keys[j], keys[i])
  <2> DEFINE D == {k \in 1..m : keys[i][k] # keys[j][k]}
  <2>1. m \in D /\ D \in SUBSET Nat
    BY <1>4 DEF AreKeys
  <2>2. PICK k \in D : \A l \in D : k <= l
    BY <2>1, HasLeast
  <2>3. ASSUME NEW l \in 1..(k - 1) PROVE keys[i][l] = keys[j][l]
    <3>1. k \in 1..m /\ l \in 1..m /\ ~(k <= l)
      BY <2>2 DEF AreKeys
    <3>2. l \notin D
      BY <2>2, <3>1
    <3> QED
      BY <3>1, <3>2
  <2>4. keys[i][k] < keys[j][k] \/ keys[j][k] < keys[i][k]
    BY <2>2 DEF AreKeys
  <2> QED
    BY <2>2, <2>3, <2>4 DEF AreKeys, Precedes
<1>5. n \in Nat
  BY DEF AreKeys
<1> QED
  BY <1>1, <1>2, <1>3, <1>4 DEF IsStrictOrder, R

\* Ranked lists the runs in the order of their keys, each once.
LEMMA RankedRanks ==
  ASSUME NEW keys, NEW n, NEW m, AreKeys(keys, n, m)
  PROVE  /\ Ranked(keys) \in [1..n -> 1..n]
         /\ \A i, j \in 1..n : i < j => Precedes(keys[Ranked(keys)[i]], keys[Ranked(keys)[j]])
         /\ \A i, j \in 1..n : Ranked(keys)[i] = Ranked(keys)[j] => i = j
         /\ \A k \in 1..n : \E i \in 1..n : Ranked(keys)[i] = k
<1> DEFINE R == {pair \in (1..n) \X (1..n) : Precedes(keys[pair[1]], keys[pair[2]])}
           IsOrder(r) == \A i, j \in DOMAIN keys : i < j => Precedes(keys[r[i]], keys[r[j]])
           order == CHOOSE r \in [DOMAIN keys -> DOMAIN keys] : IsOrder(r)
<1>1. IsStrictOrder(R, n)
  BY KeysAreStrict
<1>2. n \in Nat /\ DOMAIN keys = 1..n
  BY DEF AreKeys
<1>3. \A i, j \in 1..n : <<i, j>> \in R <=> Precedes(keys[i], keys[j])
  OBVIOUS
<1> HIDE DEF R
<1>4. PICK r \in [1..n -> 1..n] : \A i, j \in 1..n : i < j => <<r[i], r[j]>> \in R
  BY <1>1, <1>2, OrderCanBeListed
<1>5. IsOrder(r)
  BY <1>2, <1>3, <1>4
<1>6. order \in [1..n -> 1..n] /\ IsOrder(order)
  BY <1>2, <1>4, <1>5
<1>7. order = Ranked(keys)
  BY DEF Ranked
<1> HIDE DEF order
<1>8. \A i, j \in 1..n : order[i] = order[j] => i = j
  <2> SUFFICES ASSUME NEW i \in 1..n, NEW j \in 1..n, order[i] = order[j], i # j PROVE FALSE
    OBVIOUS
  <2>1. i < j \/ j < i
    OBVIOUS
  <2>2. Precedes(keys[order[i]], keys[order[i]])
    BY <1>2, <1>6, <2>1
  <2>3. <<order[i], order[i]>> \in R /\ order[i] \in 1..n
    BY <1>3, <1>6, <2>2
  <2> QED
    BY <1>1, <2>3 DEF IsStrictOrder
<1>9. \A k \in 1..n : \E i \in 1..n : order[i] = k
  <2> DEFINE S == 1..n
  <2>1. IsFiniteSet(S)
    BY <1>2, FS_Interval
  <2>2. order \in Injection(S, S)
    BY <1>6, <1>8 DEF Injection, IsInjective
  <2> HIDE DEF S
  <2>3. order \in Surjection(S, S)
    BY <2>1, <2>2, FS_Injection
  <2> QED
    BY <2>3 DEF Surjection, S
<1> QED
  BY <1>2, <1>6, <1>7, <1>8, <1>9

----------------------------------------------------------------------------
(* Scores                                                                  *)

IsSummary(s) ==
  /\ \A metric \in DOMAIN s : s[metric] \in Int
  /\ \A metric \in DOMAIN s \cap NeverNegative : s[metric] >= 0

LEMMA SummariesAre == \A s \in Summaries : IsSummary(s)
BY ComparisonAssumption DEF IsSummary

LEMMA MaxOfTwo ==
  ASSUME NEW a \in Int, NEW b \in Int
  PROVE  Max({a, b}) = IF a >= b THEN a ELSE b
<1> DEFINE m == IF a >= b THEN a ELSE b
<1>1. m \in {a, b} /\ \A y \in {a, b} : m >= y
  OBVIOUS
<1>2. \A x \in {a, b} : (\A y \in {a, b} : x >= y) => x = m
  OBVIOUS
<1> QED
  BY <1>1, <1>2 DEF Max

LEMMA MinOfTwo ==
  ASSUME NEW a \in Int, NEW b \in Int
  PROVE  Min({a, b}) = IF a <= b THEN a ELSE b
<1> DEFINE m == IF a <= b THEN a ELSE b
<1>1. m \in {a, b} /\ \A y \in {a, b} : m <= y
  OBVIOUS
<1>2. \A x \in {a, b} : (\A y \in {a, b} : x <= y) => x = m
  OBVIOUS
<1> QED
  BY <1>1, <1>2 DEF Min

LEMMA BoundedIs ==
  ASSUME NEW score \in Int
  PROVE  Bounded(score) = IF score < 0 THEN 0 ELSE IF score > 300 THEN 300 ELSE score
<1>1. Min({300, score}) = IF 300 <= score THEN 300 ELSE score
  BY MinOfTwo
<1>2. Min({300, score}) \in Int
  BY <1>1
<1>3. Max({0, Min({300, score})}) = IF 0 >= Min({300, score}) THEN 0 ELSE Min({300, score})
  BY <1>2, MaxOfTwo
<1> QED
  BY <1>1, <1>3 DEF Bounded

LEMMA BoundedGrows ==
  ASSUME NEW a \in Int, NEW b \in Int, a >= b
  PROVE  Bounded(a) >= Bounded(b) /\ Bounded(a) \in 0..300 /\ Bounded(b) \in 0..300
BY BoundedIs

LEMMA BoundedIn ==
  ASSUME NEW a \in Int
  PROVE  Bounded(a) \in 0..300
BY BoundedIs

\* A quotient grows with what is divided.
LEMMA QuotientGrows ==
  ASSUME NEW d \in Int, d > 0, NEW a \in Int, NEW b \in Int, a >= b
  PROVE  (a \div d) >= (b \div d)
<1>1. /\ a = d * (a \div d) + (a % d) /\ (a \div d) \in Int /\ (a % d) \in 0..(d - 1)
      /\ b = d * (b \div d) + (b % d) /\ (b \div d) \in Int /\ (b % d) \in 0..(d - 1)
  OBVIOUS
<1> DEFINE p == a \div d
           q == b \div d
           u == a % d
           v == b % d
<1>2. /\ p \in Int /\ q \in Int /\ u \in 0..(d - 1) /\ v \in 0..(d - 1)
      /\ a = d * p + u /\ b = d * q + v
  BY <1>1
<1> HIDE DEF p, q, u, v
<1>3. p >= q
  <2> SUFFICES ASSUME p + 1 <= q PROVE FALSE
    BY <1>2
  <2>1. q - p - 1 \in Nat
    BY <1>2
  <2>2. d * (q - p - 1) \in Nat
    BY <2>1
  <2>3. d * (q - p - 1) = d * q - d * p - d
    BY <1>2
  <2>4. d * p \in Int /\ d * q \in Int
    BY <1>2
  <2> QED
    BY <1>2, <2>2, <2>3, <2>4
<1> QED
  BY <1>3 DEF p, q

LEMMA MagnitudeIsNat ==
  ASSUME NEW n \in Int
  PROVE  Magnitude(n) \in Nat /\ (n >= 0 => Magnitude(n) = n)
BY DEF Magnitude

\* What the metrics of a summary are.
LEMMA MetricsAreNumbers ==
  ASSUME NEW s, IsSummary(s)
  PROVE  /\ HasReturn(s) => ReturnPct(s) \in Int
         /\ HasDrawdown(s) => DrawdownPct(s) \in Nat
         /\ HasTrades(s) => TradeCount(s) \in Nat
<1>1. HasReturn(s) => ReturnPct(s) \in Int
  <2>1. CASE Has(s, "total_return_pct")
    BY <2>1 DEF IsSummary, Has, ReturnPct
  <2>2. CASE ~Has(s, "total_return_pct") /\ Has(s, "total_return") /\ Balanced(s)
    <3>1. /\ s["starting_balance"] \in Int /\ s["starting_balance"] > 0
          /\ 100 * s["total_return"] \in Int
      BY <2>2 DEF IsSummary, Has, Balanced, NeverNegative
    <3> QED
      BY <2>2, <3>1 DEF ReturnPct, InPercent
  <2> QED
    BY <2>1, <2>2 DEF HasReturn
<1>2. HasDrawdown(s) => DrawdownPct(s) \in Nat
  <2>1. CASE Has(s, "max_drawdown_pct")
    BY <2>1, MagnitudeIsNat DEF IsSummary, Has, DrawdownPct
  <2>2. CASE ~Has(s, "max_drawdown_pct") /\ Has(s, "max_drawdown_amount") /\ Balanced(s)
    <3> DEFINE d == s["starting_balance"]
               a == 100 * Magnitude(s["max_drawdown_amount"])
    <3>1. d \in Int /\ d > 0 /\ s["max_drawdown_amount"] \in Int
      BY <2>2 DEF IsSummary, Has, Balanced, NeverNegative
    <3>2. a \in Nat
      BY <3>1, MagnitudeIsNat
    <3>3. DrawdownPct(s) = a \div d
      BY <2>2 DEF DrawdownPct, InPercent
    <3> HIDE DEF a, d
    <3>4. (a \div d) >= (0 \div d) /\ (0 \div d) = 0 /\ (a \div d) \in Int
      BY <3>1, <3>2, QuotientGrows
    <3> QED
      BY <3>3, <3>4
  <2> QED
    BY <2>1, <2>2 DEF HasDrawdown
<1>3. HasTrades(s) => TradeCount(s) \in Nat
  BY DEF HasTrades, TradeCount, IsSummary, Has, NeverNegative
<1> QED
  BY <1>1, <1>2, <1>3

Weighted(s) ==
  30 * ReturnScore(s) + 25 * DrawdownScore(s) + 15 * ProfitFactorScore(s)
  + 10 * WinRateScore(s) + 15 * TradeCountScore(s) + 5 * ExposureScore(s)

\* A score is a number of points, at most 60 for a few trades and 20 for none.
LEMMA ScoreIs ==
  ASSUME NEW s, IsSummary(s)
  PROVE  /\ ReturnScore(s) \in Nat /\ DrawdownScore(s) \in Nat
         /\ ProfitFactorScore(s) \in Nat /\ WinRateScore(s) \in Nat
         /\ TradeCountScore(s) \in Nat /\ ExposureScore(s) \in Nat
<1>1. ReturnScore(s) \in Nat
  <2>1. HasReturn(s) => 6 * (ReturnPct(s) + 20) \in Int
    BY MetricsAreNumbers
  <2> QED
    BY <2>1, BoundedIn DEF ReturnScore
<1>2. DrawdownScore(s) \in Nat
  <2>1. HasDrawdown(s) => 300 - 10 * DrawdownPct(s) \in Int
    BY MetricsAreNumbers
  <2> QED
    BY <2>1, BoundedIn DEF DrawdownScore
<1>3. ProfitFactorScore(s) \in Nat
  <2>1. Has(s, "profit_factor") => 10 * s["profit_factor"] \in Int
    BY DEF Has, IsSummary
  <2> QED
    BY <2>1, BoundedIn DEF ProfitFactorScore
<1>4. WinRateScore(s) \in Nat
  <2>1. Has(s, "win_rate_pct") => 3 * s["win_rate_pct"] \in Int
    BY DEF Has, IsSummary
  <2> QED
    BY <2>1, BoundedIn DEF WinRateScore
<1>5. TradeCountScore(s) \in Nat
  <2>1. HasTrades(s) => 30 * TradeCount(s) \in Int
    BY MetricsAreNumbers
  <2> QED
    BY <2>1, BoundedIn DEF TradeCountScore
<1>6. ExposureScore(s) \in Nat
  <2>1. Has(s, "exposure_pct") => 300 - 6 * Max({0, s["exposure_pct"] - 80}) \in Int
    <3> SUFFICES ASSUME Has(s, "exposure_pct")
                 PROVE  300 - 6 * Max({0, s["exposure_pct"] - 80}) \in Int
      OBVIOUS
    <3>1. s["exposure_pct"] - 80 \in Int
      BY DEF Has, IsSummary
    <3>2. Max({0, s["exposure_pct"] - 80}) \in Int
      BY <3>1, MaxOfTwo
    <3> QED
      BY <3>2
  <2> QED
    BY <2>1, BoundedIn DEF ExposureScore
<1> QED
  BY <1>1, <1>2, <1>3, <1>4, <1>5, <1>6

\* The codes among a summary's warnings.
LEMMA WarningsTell ==
  ASSUME NEW s
  PROVE  LET W == ScoreWarnings(s) IN
         /\ "no_trades" \in W <=> HasTrades(s) /\ TradeCount(s) = 0
         /\ "too_few_trades" \in W <=> HasTrades(s) /\ TradeCount(s) \in 1..4
         /\ "high_drawdown" \in W <=> HasDrawdown(s) /\ DrawdownPct(s) >= 20
         /\ "negative_return" \in W <=> HasReturn(s) /\ ReturnPct(s) < 0
         /\ "infinite_or_unavailable_profit_factor" \in W <=> ~Has(s, "profit_factor")
         /\ W \subseteq {"missing_metric", "infinite_or_unavailable_profit_factor",
                         "negative_return", "high_drawdown", "no_trades", "too_few_trades"}
BY DEF ScoreWarnings, Flag

LEMMA ScoreIsWeighted ==
  ASSUME NEW s, IsSummary(s)
  PROVE  /\ Weighted(s) \in Nat
         /\ Score(s) = IF HasTrades(s) /\ TradeCount(s) = 0
                       THEN (IF Weighted(s) <= 6000 THEN Weighted(s) ELSE 6000)
                       ELSE IF HasTrades(s) /\ TradeCount(s) \in 1..4
                       THEN (IF Weighted(s) <= 18000 THEN Weighted(s) ELSE 18000)
                       ELSE Weighted(s)
<1>1. Weighted(s) \in Nat
  <2>1. /\ ReturnScore(s) \in Nat /\ DrawdownScore(s) \in Nat
        /\ ProfitFactorScore(s) \in Nat /\ WinRateScore(s) \in Nat
        /\ TradeCountScore(s) \in Nat /\ ExposureScore(s) \in Nat
    BY ScoreIs
  <2>2. /\ 30 * ReturnScore(s) + 25 * DrawdownScore(s) \in Nat
        /\ 15 * ProfitFactorScore(s) + 10 * WinRateScore(s) \in Nat
        /\ 15 * TradeCountScore(s) + 5 * ExposureScore(s) \in Nat
    BY <2>1
  <2> QED
    BY <2>1, <2>2 DEF Weighted
<1>2. /\ Min({Weighted(s), Points(20)}) = IF Weighted(s) <= 6000 THEN Weighted(s) ELSE 6000
      /\ Min({Weighted(s), Points(60)}) = IF Weighted(s) <= 18000 THEN Weighted(s) ELSE 18000
  <2>1. Weighted(s) \in Int
    BY <1>1
  <2>2. Points(20) = 6000 /\ Points(60) = 18000
    BY DEF Points
  <2> QED
    BY <2>1, <2>2, MinOfTwo
<1>3. Score(s) = IF "no_trades" \in ScoreWarnings(s) THEN Min({Weighted(s), Points(20)})
                 ELSE IF "too_few_trades" \in ScoreWarnings(s) THEN Min({Weighted(s), Points(60)})
                 ELSE Weighted(s)
  BY DEF Score, Weighted
<1> HIDE DEF Weighted
<1> QED
  BY <1>1, <1>2, <1>3, WarningsTell

\* A summary at least as good in every metric has at least the other's score.
LEMMA GoodMetrics ==
  ASSUME NEW s, NEW t, IsSummary(s), IsSummary(t), AtLeastAsGood(s, t)
  PROVE  /\ \A metric : Has(s, metric) <=> Has(t, metric)
         /\ Has(s, "starting_balance") => s["starting_balance"] = t["starting_balance"]
         /\ \A metric \in {"max_drawdown_pct", "max_drawdown_amount"} :
              Has(s, metric) => Magnitude(s[metric]) <= Magnitude(t[metric])
         /\ \A metric \in {"exposure_pct", "loss_count"} : Has(s, metric) => s[metric] <= t[metric]
         /\ \A metric \in {"total_return_pct", "total_return", "profit_factor", "win_rate_pct",
                           "win_count", "completed_round_trips", "trades_count"} :
              Has(s, metric) => s[metric] >= t[metric]
BY DEF AtLeastAsGood, Has

LEMMA GoodReturns ==
  ASSUME NEW s, NEW t, IsSummary(s), IsSummary(t), AtLeastAsGood(s, t)
  PROVE  /\ HasReturn(s) <=> HasReturn(t)
         /\ HasReturn(s) => ReturnPct(s) >= ReturnPct(t)
<1>1. /\ Balanced(s) <=> Balanced(t)
      /\ Has(s, "total_return_pct") <=> Has(t, "total_return_pct")
      /\ Has(s, "total_return") <=> Has(t, "total_return")
  BY GoodMetrics DEF Balanced
<1>2. HasReturn(s) <=> HasReturn(t)
  BY <1>1 DEF HasReturn
<1>3. CASE Has(s, "total_return_pct")
  BY <1>1, <1>2, <1>3, GoodMetrics DEF ReturnPct
<1>4. CASE ~Has(s, "total_return_pct") /\ Has(s, "total_return") /\ Balanced(s)
  <2> DEFINE d == s["starting_balance"]
             a == 100 * s["total_return"]
             b == 100 * t["total_return"]
  <2>1. d \in Int /\ d > 0
    BY <1>4 DEF IsSummary, Has, Balanced, NeverNegative
  <2>2. s["total_return"] \in Int /\ t["total_return"] \in Int
        /\ s["total_return"] >= t["total_return"]
    BY <1>1, <1>4, GoodMetrics DEF IsSummary, Has
  <2>3. a \in Int /\ b \in Int /\ a >= b
    BY <2>2
  <2>4. ReturnPct(s) = a \div d
    BY <1>4 DEF ReturnPct, InPercent
  <2>5. t["starting_balance"] = d
    BY <1>4, GoodMetrics DEF Balanced
  <2>6. ReturnPct(t) = b \div d
    BY <1>1, <1>4, <2>5 DEF ReturnPct, InPercent
  <2> HIDE DEF a, b, d
  <2> QED
    BY <1>2, <2>1, <2>3, <2>4, <2>6, QuotientGrows
<1>5. HasReturn(s) => Has(s, "total_return_pct") \/ (Has(s, "total_return") /\ Balanced(s))
  BY DEF HasReturn
<1> QED
  BY <1>2, <1>3, <1>4, <1>5

LEMMA GoodDrawdowns ==
  ASSUME NEW s, NEW t, IsSummary(s), IsSummary(t), AtLeastAsGood(s, t)
  PROVE  /\ HasDrawdown(s) <=> HasDrawdown(t)
         /\ HasDrawdown(s) => DrawdownPct(s) <= DrawdownPct(t)
<1>1. /\ Balanced(s) <=> Balanced(t)
      /\ Has(s, "max_drawdown_pct") <=> Has(t, "max_drawdown_pct")
      /\ Has(s, "max_drawdown_amount") <=> Has(t, "max_drawdown_amount")
  BY GoodMetrics DEF Balanced
<1>2. HasDrawdown(s) <=> HasDrawdown(t)
  BY <1>1 DEF HasDrawdown
<1>3. CASE Has(s, "max_drawdown_pct")
  BY <1>1, <1>2, <1>3, GoodMetrics DEF DrawdownPct
<1>4. CASE ~Has(s, "max_drawdown_pct") /\ Has(s, "max_drawdown_amount") /\ Balanced(s)
  <2> DEFINE d == s["starting_balance"]
             x == Magnitude(s["max_drawdown_amount"])
             y == Magnitude(t["max_drawdown_amount"])
             a == 100 * x
             b == 100 * y
  <2>1. d \in Int /\ d > 0
    BY <1>4 DEF IsSummary, Has, Balanced, NeverNegative
  <2>2. s["max_drawdown_amount"] \in Int /\ t["max_drawdown_amount"] \in Int
    BY <1>1, <1>4 DEF IsSummary, Has
  <2>3. x \in Nat /\ y \in Nat /\ x <= y
    BY <1>4, <2>2, GoodMetrics, MagnitudeIsNat
  <2>4. DrawdownPct(s) = a \div d
    BY <1>4 DEF DrawdownPct, InPercent
  <2>5. t["starting_balance"] = d
    BY <1>4, GoodMetrics DEF Balanced
  <2>6. DrawdownPct(t) = b \div d
    BY <1>1, <1>4, <2>5 DEF DrawdownPct, InPercent
  <2> HIDE DEF d, x, y
  <2>7. a \in Int /\ b \in Int /\ b >= a
    BY <2>3
  <2>8. a \div d \in Int /\ b \div d \in Int
    BY <2>1, <2>7
  <2> HIDE DEF a, b
  <2> QED
    BY <1>2, <2>1, <2>4, <2>6, <2>7, <2>8, QuotientGrows
<1>5. HasDrawdown(s) => Has(s, "max_drawdown_pct") \/ (Has(s, "max_drawdown_amount") /\ Balanced(s))
  BY DEF HasDrawdown
<1> QED
  BY <1>2, <1>3, <1>4, <1>5

LEMMA GoodTrades ==
  ASSUME NEW s, NEW t, IsSummary(s), IsSummary(t), AtLeastAsGood(s, t)
  PROVE  /\ HasTrades(s) <=> HasTrades(t)
         /\ HasTrades(s) => TradeCount(s) >= TradeCount(t)
<1>1. /\ Has(s, "completed_round_trips") <=> Has(t, "completed_round_trips")
      /\ Has(s, "trades_count") <=> Has(t, "trades_count")
  BY GoodMetrics
<1>2. HasTrades(s) <=> HasTrades(t)
  BY <1>1 DEF HasTrades
<1>3. CASE Has(s, "completed_round_trips")
  BY <1>1, <1>2, <1>3, GoodMetrics DEF TradeCount
<1>4. CASE ~Has(s, "completed_round_trips") /\ Has(s, "trades_count")
  <2>1. /\ s["trades_count"] \in Int /\ t["trades_count"] \in Int
        /\ s["trades_count"] >= t["trades_count"]
    BY <1>1, <1>4, GoodMetrics DEF IsSummary, Has
  <2>2. (s["trades_count"] \div 2) >= (t["trades_count"] \div 2)
    BY <2>1, QuotientGrows
  <2> QED
    BY <1>1, <1>2, <1>4, <2>2 DEF TradeCount
<1> QED
  BY <1>2, <1>3, <1>4 DEF HasTrades

LEMMA GoodComponents ==
  ASSUME NEW s, NEW t, IsSummary(s), IsSummary(t), AtLeastAsGood(s, t)
  PROVE  /\ ReturnScore(s) >= ReturnScore(t) /\ DrawdownScore(s) >= DrawdownScore(t)
         /\ ProfitFactorScore(s) >= ProfitFactorScore(t) /\ WinRateScore(s) >= WinRateScore(t)
         /\ TradeCountScore(s) >= TradeCountScore(t) /\ ExposureScore(s) >= ExposureScore(t)
<1>1. ReturnScore(s) >= ReturnScore(t)
  <2>1. CASE HasReturn(s)
    <3>1. /\ 6 * (ReturnPct(s) + 20) \in Int /\ 6 * (ReturnPct(t) + 20) \in Int
          /\ 6 * (ReturnPct(s) + 20) >= 6 * (ReturnPct(t) + 20)
      BY <2>1, GoodReturns, MetricsAreNumbers
    <3> QED
      BY <2>1, <3>1, BoundedGrows, GoodReturns DEF ReturnScore
  <2>2. CASE ~HasReturn(s)
    BY <2>2, GoodReturns DEF ReturnScore
  <2> QED
    BY <2>1, <2>2
<1>2. DrawdownScore(s) >= DrawdownScore(t)
  <2>1. CASE HasDrawdown(s)
    <3>1. /\ 300 - 10 * DrawdownPct(s) \in Int /\ 300 - 10 * DrawdownPct(t) \in Int
          /\ 300 - 10 * DrawdownPct(s) >= 300 - 10 * DrawdownPct(t)
      BY <2>1, GoodDrawdowns, MetricsAreNumbers
    <3> QED
      BY <2>1, <3>1, BoundedGrows, GoodDrawdowns DEF DrawdownScore
  <2>2. CASE ~HasDrawdown(s)
    BY <2>2, GoodDrawdowns DEF DrawdownScore
  <2> QED
    BY <2>1, <2>2
<1>3. ProfitFactorScore(s) >= ProfitFactorScore(t)
  <2>1. CASE Has(s, "profit_factor")
    <3>1. Has(t, "profit_factor") /\ s["profit_factor"] >= t["profit_factor"]
      BY <2>1, GoodMetrics
    <3>2. s["profit_factor"] \in Int /\ t["profit_factor"] \in Int
      BY <2>1, <3>1 DEF Has, IsSummary
    <3>3. /\ 10 * s["profit_factor"] \in Int /\ 10 * t["profit_factor"] \in Int
          /\ 10 * s["profit_factor"] >= 10 * t["profit_factor"]
      BY <3>1, <3>2
    <3> QED
      BY <2>1, <3>1, <3>3, BoundedGrows DEF ProfitFactorScore
  <2>2. CASE ~Has(s, "profit_factor")
    <3>1. ~Has(t, "profit_factor")
      BY <2>2, GoodMetrics
    <3>2. OnlyWins(t) => OnlyWins(s)
      <4> SUFFICES ASSUME OnlyWins(t) PROVE OnlyWins(s)
        OBVIOUS
      <4>1. /\ Has(s, "win_count") /\ s["win_count"] >= t["win_count"]
            /\ Has(s, "loss_count") /\ s["loss_count"] <= t["loss_count"]
        BY GoodMetrics DEF OnlyWins
      <4>2. /\ t["win_count"] \in Int /\ t["win_count"] > 0 /\ s["win_count"] \in Int
            /\ s["loss_count"] \in Int /\ s["loss_count"] >= 0
        BY <4>1 DEF OnlyWins, Has, IsSummary, NeverNegative
      <4> QED
        BY <4>1, <4>2 DEF OnlyWins
    <3> QED
      BY <2>2, <3>1, <3>2 DEF ProfitFactorScore
  <2> QED
    BY <2>1, <2>2
<1>4. WinRateScore(s) >= WinRateScore(t)
  <2>1. CASE Has(s, "win_rate_pct")
    <3>1. Has(t, "win_rate_pct") /\ s["win_rate_pct"] >= t["win_rate_pct"]
      BY <2>1, GoodMetrics
    <3>2. s["win_rate_pct"] \in Int /\ t["win_rate_pct"] \in Int
      BY <2>1, <3>1 DEF Has, IsSummary
    <3>3. /\ 3 * s["win_rate_pct"] \in Int /\ 3 * t["win_rate_pct"] \in Int
          /\ 3 * s["win_rate_pct"] >= 3 * t["win_rate_pct"]
      BY <3>1, <3>2
    <3> QED
      BY <2>1, <3>1, <3>3, BoundedGrows DEF WinRateScore
  <2>2. CASE ~Has(s, "win_rate_pct")
    BY <2>2, GoodMetrics DEF WinRateScore
  <2> QED
    BY <2>1, <2>2
<1>5. TradeCountScore(s) >= TradeCountScore(t)
  <2>1. CASE HasTrades(s)
    <3>1. /\ 30 * TradeCount(s) \in Int /\ 30 * TradeCount(t) \in Int
          /\ 30 * TradeCount(s) >= 30 * TradeCount(t)
      BY <2>1, GoodTrades, MetricsAreNumbers
    <3> QED
      BY <2>1, <3>1, BoundedGrows, GoodTrades DEF TradeCountScore
  <2>2. CASE ~HasTrades(s)
    BY <2>2, GoodTrades DEF TradeCountScore
  <2> QED
    BY <2>1, <2>2
<1>6. ExposureScore(s) >= ExposureScore(t)
  <2>1. CASE Has(s, "exposure_pct")
    <3>1. Has(t, "exposure_pct") /\ s["exposure_pct"] <= t["exposure_pct"]
      BY <2>1, GoodMetrics
    <3> DEFINE x == s["exposure_pct"] - 80
               y == t["exposure_pct"] - 80
    <3>2. x \in Int /\ y \in Int /\ x <= y
      BY <2>1, <3>1 DEF Has, IsSummary
    <3>3. /\ ExposureScore(s) = Bounded(300 - 6 * Max({0, x}))
          /\ ExposureScore(t) = Bounded(300 - 6 * Max({0, y}))
      BY <2>1, <3>1 DEF ExposureScore
    <3> HIDE DEF x, y
    <3>4. Max({0, x}) \in Int /\ Max({0, y}) \in Int /\ Max({0, x}) <= Max({0, y})
      <4>1. Max({0, x}) = IF 0 >= x THEN 0 ELSE x
        BY <3>2, MaxOfTwo
      <4>2. Max({0, y}) = IF 0 >= y THEN 0 ELSE y
        BY <3>2, MaxOfTwo
      <4> QED
        BY <3>2, <4>1, <4>2
    <3>5. /\ 300 - 6 * Max({0, x}) \in Int /\ 300 - 6 * Max({0, y}) \in Int
          /\ 300 - 6 * Max({0, x}) >= 300 - 6 * Max({0, y})
      BY <3>4
    <3> QED
      BY <3>3, <3>5, BoundedGrows
  <2>2. CASE ~Has(s, "exposure_pct")
    BY <2>2, GoodMetrics DEF ExposureScore
  <2> QED
    BY <2>1, <2>2
<1> QED
  BY <1>1, <1>2, <1>3, <1>4, <1>5, <1>6

LEMMA GoodScore ==
  ASSUME NEW s, NEW t, IsSummary(s), IsSummary(t), AtLeastAsGood(s, t)
  PROVE  Score(s) >= Score(t) /\ Score(s) \in Nat /\ Score(t) \in Nat
<1>1. Weighted(s) >= Weighted(t)
  <2>1. /\ ReturnScore(s) \in Nat /\ DrawdownScore(s) \in Nat
        /\ ProfitFactorScore(s) \in Nat /\ WinRateScore(s) \in Nat
        /\ TradeCountScore(s) \in Nat /\ ExposureScore(s) \in Nat
    BY ScoreIs
  <2>2. /\ ReturnScore(t) \in Nat /\ DrawdownScore(t) \in Nat
        /\ ProfitFactorScore(t) \in Nat /\ WinRateScore(t) \in Nat
        /\ TradeCountScore(t) \in Nat /\ ExposureScore(t) \in Nat
    BY ScoreIs
  <2>3. /\ ReturnScore(s) >= ReturnScore(t) /\ DrawdownScore(s) >= DrawdownScore(t)
        /\ ProfitFactorScore(s) >= ProfitFactorScore(t) /\ WinRateScore(s) >= WinRateScore(t)
        /\ TradeCountScore(s) >= TradeCountScore(t) /\ ExposureScore(s) >= ExposureScore(t)
    BY GoodComponents
  <2>4. /\ 30 * ReturnScore(s) + 25 * DrawdownScore(s) >= 30 * ReturnScore(t) + 25 * DrawdownScore(t)
        /\ 15 * ProfitFactorScore(s) + 10 * WinRateScore(s)
             >= 15 * ProfitFactorScore(t) + 10 * WinRateScore(t)
        /\ 15 * TradeCountScore(s) + 5 * ExposureScore(s)
             >= 15 * TradeCountScore(t) + 5 * ExposureScore(t)
    BY <2>1, <2>2, <2>3
  <2> QED
    BY <2>1, <2>2, <2>4 DEF Weighted
<1>2. HasTrades(s) => TradeCount(s) \in Nat /\ TradeCount(t) \in Nat
  BY GoodTrades, MetricsAreNumbers
<1>3. /\ HasTrades(s) <=> HasTrades(t)
      /\ HasTrades(s) => TradeCount(s) >= TradeCount(t)
  BY GoodTrades
<1> HIDE DEF Weighted
<1> QED
  BY <1>1, <1>2, <1>3, ScoreIsWeighted

----------------------------------------------------------------------------
(* The best run                                                            *)

Items == {Item(s, place) : s \in Summaries, place \in 1..MaxRuns}

LEMMA ItemsAre ==
  ASSUME NEW run \in Items
  PROVE  /\ run.summary \in Summaries /\ IsSummary(run.summary) /\ run.place \in Nat
         /\ run.score = Score(run.summary) /\ run.score \in Nat
         /\ run.warnings = ScoreWarnings(run.summary)
<1>1. PICK s \in Summaries, place \in 1..MaxRuns : run = Item(s, place)
  BY DEF Items
<1>2. IsSummary(s)
  BY SummariesAre
<1>3. /\ run.summary = s /\ run.place = place /\ run.score = Score(s)
      /\ run.warnings = ScoreWarnings(s)
  BY <1>1 DEF Item
<1>4. Score(s) \in Nat
  <2> HIDE DEF Weighted
  <2> QED
    BY <1>2, ScoreIsWeighted
<1> QED
  BY <1>2, <1>3, <1>4, ComparisonAssumption

LEMMA SummaryKeys ==
  ASSUME NEW s, IsSummary(s)
  PROVE  /\ ReturnKey(s) \in Int /\ DrawdownKey(s) \in Int /\ Worst \in Int
         /\ Has(s, "total_return_pct") => s["total_return_pct"] \in Int
         /\ Has(s, "max_drawdown_pct") => s["max_drawdown_pct"] \in Nat
<1>1. Worst \in Int /\ -Worst \in Int
  BY DEF Worst
<1>2. \A metric : Has(s, metric) => s[metric] \in Int
  BY DEF IsSummary, Has
<1>3. \A metric : \A default \in Int : OrElse(s, metric, default) \in Int
  BY <1>2 DEF OrElse
<1>4. Has(s, "max_drawdown_pct") => s["max_drawdown_pct"] \in Nat
  BY DEF IsSummary, Has, NeverNegative
<1> HIDE DEF Worst
<1> QED
  BY <1>1, <1>2, <1>3, <1>4 DEF ReturnKey, DrawdownKey

\* What the order of a comparison says of two runs.
Ahead(a, c) ==
  \/ a.score > c.score
  \/ /\ a.score = c.score
     /\ \/ ReturnKey(a.summary) > ReturnKey(c.summary)
        \/ /\ ReturnKey(a.summary) = ReturnKey(c.summary)
           /\ DrawdownKey(a.summary) <= DrawdownKey(c.summary)

SweepReturnKey(s) == IF Has(s, "total_return_pct") THEN -s["total_return_pct"] ELSE Worst
SweepDrawdownKey(s) == IF Has(s, "max_drawdown_pct") THEN s["max_drawdown_pct"] ELSE -Worst

\* And the order of a sweep.
SweepAhead(a, c) ==
  \/ a.score > c.score
  \/ /\ a.score = c.score
     /\ \/ SweepReturnKey(a.summary) < SweepReturnKey(c.summary)
        \/ /\ SweepReturnKey(a.summary) = SweepReturnKey(c.summary)
           /\ SweepDrawdownKey(a.summary) <= SweepDrawdownKey(c.summary)

LEMMA NegationTurns ==
  ASSUME NEW a \in Int, NEW b \in Int
  PROVE  (-a < -b <=> a > b) /\ (-a = -b <=> a = b)
OBVIOUS

\* Runs with scores, those they were given or those found in the rankings.
AreScored(runs, n) ==
  /\ n \in Nat /\ DOMAIN runs = 1..n
  /\ \A i \in 1..n : IsSummary(runs[i].summary) /\ runs[i].score \in Nat

LEMMA ItemsAreScored ==
  ASSUME NEW runs \in Seq(Items)
  PROVE  AreScored(runs, Len(runs))
BY ItemsAre DEF AreScored

LEMMA SortKeysRank ==
  ASSUME NEW runs, NEW n, AreScored(runs, n)
  PROVE  /\ AreKeys(SortKeys(runs), n, 4)
         /\ \A i, j \in 1..n :
              Precedes(SortKeys(runs)[i], SortKeys(runs)[j]) => Ahead(runs[i], runs[j])
<1> DEFINE keys == SortKeys(runs)
<1>1. /\ n \in Nat /\ DOMAIN runs = 1..n
      /\ \A i \in 1..n : IsSummary(runs[i].summary) /\ runs[i].score \in Nat
  BY DEF AreScored
<1>2. DOMAIN keys = 1..n /\ \A i \in 1..n :
        keys[i] = <<-runs[i].score, -ReturnKey(runs[i].summary), DrawdownKey(runs[i].summary), i>>
  BY <1>1 DEF SortKeys
<1>3. \A i \in 1..n : /\ runs[i].score \in Nat /\ ReturnKey(runs[i].summary) \in Int
                      /\ DrawdownKey(runs[i].summary) \in Int
  BY <1>1, SummaryKeys
<1> HIDE DEF keys
<1>4. AreKeys(keys, n, 4)
  <2>1. ASSUME NEW i \in 1..n
        PROVE  /\ DOMAIN keys[i] = 1..4 /\ keys[i][4] = i
               /\ \A k \in 1..4 : keys[i][k] \in Int
    <3>1. /\ -runs[i].score \in Int /\ -ReturnKey(runs[i].summary) \in Int
          /\ DrawdownKey(runs[i].summary) \in Int /\ i \in Int
      BY <1>1, <1>3
    <3>2. /\ keys[i][1] = -runs[i].score /\ keys[i][2] = -ReturnKey(runs[i].summary)
          /\ keys[i][3] = DrawdownKey(runs[i].summary) /\ keys[i][4] = i
          /\ DOMAIN keys[i] = 1..4
      BY <1>2
    <3>3. \A k \in 1..4 : k = 1 \/ k = 2 \/ k = 3 \/ k = 4
      OBVIOUS
    <3> QED
      BY <3>1, <3>2, <3>3
  <2> QED
    BY <1>1, <1>2, <2>1 DEF AreKeys
<1>5. ASSUME NEW i \in 1..n, NEW j \in 1..n, Precedes(keys[i], keys[j])
      PROVE  Ahead(runs[i], runs[j])
  <2>1. /\ keys[i][1] = -runs[i].score /\ keys[i][2] = -ReturnKey(runs[i].summary)
        /\ keys[i][3] = DrawdownKey(runs[i].summary) /\ DOMAIN keys[i] = 1..4
        /\ keys[j][1] = -runs[j].score /\ keys[j][2] = -ReturnKey(runs[j].summary)
        /\ keys[j][3] = DrawdownKey(runs[j].summary)
    BY <1>2
  <2>2. PICK k \in 1..4 : keys[i][k] < keys[j][k] /\ \A l \in 1..(k - 1) : keys[i][l] = keys[j][l]
    BY <1>5, <2>1 DEF Precedes
  <2>3. /\ k > 1 => keys[i][1] = keys[j][1]
        /\ k > 2 => keys[i][2] = keys[j][2]
        /\ k > 3 => keys[i][3] = keys[j][3]
        /\ k = 1 \/ k = 2 \/ k = 3 \/ k = 4
    BY <2>2
  <2>4. /\ runs[i].score \in Nat /\ ReturnKey(runs[i].summary) \in Int
        /\ DrawdownKey(runs[i].summary) \in Int
        /\ runs[j].score \in Nat /\ ReturnKey(runs[j].summary) \in Int
        /\ DrawdownKey(runs[j].summary) \in Int
    BY <1>3
  <2>5. /\ keys[i][1] < keys[j][1] => runs[i].score > runs[j].score
        /\ keys[i][1] = keys[j][1] => runs[i].score = runs[j].score
    <3>1. runs[i].score \in Int /\ runs[j].score \in Int
      BY <2>4
    <3> QED
      BY <2>1, <3>1, NegationTurns
  <2>6. /\ keys[i][2] < keys[j][2] => ReturnKey(runs[i].summary) > ReturnKey(runs[j].summary)
        /\ keys[i][2] = keys[j][2] => ReturnKey(runs[i].summary) = ReturnKey(runs[j].summary)
    BY <2>1, <2>4, NegationTurns
  <2>7. /\ keys[i][3] < keys[j][3] => DrawdownKey(runs[i].summary) <= DrawdownKey(runs[j].summary)
        /\ keys[i][3] = keys[j][3] => DrawdownKey(runs[i].summary) <= DrawdownKey(runs[j].summary)
    BY <2>1, <2>4
  <2>8. CASE k = 1
    BY <2>2, <2>5, <2>8 DEF Ahead
  <2>9. CASE k = 2
    BY <2>2, <2>3, <2>5, <2>6, <2>9 DEF Ahead
  <2>10. CASE k = 3
    BY <2>2, <2>3, <2>5, <2>6, <2>7, <2>10 DEF Ahead
  <2>11. CASE k = 4
    BY <2>3, <2>5, <2>6, <2>7, <2>11 DEF Ahead
  <2> QED
    BY <2>3, <2>8, <2>9, <2>10, <2>11
<1> QED
  BY <1>4, <1>5 DEF keys

LEMMA SweepKeysRank ==
  ASSUME NEW runs \in Seq(Items)
  PROVE  /\ AreKeys(SweepSortKeys(runs), Len(runs), 5)
         /\ \A i, j \in 1..Len(runs) :
              Precedes(SweepSortKeys(runs)[i], SweepSortKeys(runs)[j]) => SweepAhead(runs[i], runs[j])
<1> DEFINE n == Len(runs)
           keys == SweepSortKeys(runs)
<1>1. /\ n \in Nat /\ DOMAIN runs = 1..n
      /\ \A i \in 1..n : runs[i] \in Items
  OBVIOUS
<1>2. DOMAIN keys = 1..n /\ \A i \in 1..n :
        keys[i] = <<-runs[i].score, SweepReturnKey(runs[i].summary),
                    SweepDrawdownKey(runs[i].summary), runs[i].place, i>>
  BY <1>1 DEF SweepSortKeys, SweepReturnKey, SweepDrawdownKey
<1>3. \A i \in 1..n : /\ runs[i].score \in Nat /\ SweepReturnKey(runs[i].summary) \in Int
                      /\ SweepDrawdownKey(runs[i].summary) \in Int /\ runs[i].place \in Nat
  BY <1>1, ItemsAre, SummaryKeys DEF SweepReturnKey, SweepDrawdownKey
<1> HIDE DEF keys, n
<1>4. AreKeys(keys, n, 5)
  <2>1. ASSUME NEW i \in 1..n
        PROVE  /\ DOMAIN keys[i] = 1..5 /\ keys[i][5] = i
               /\ \A k \in 1..5 : keys[i][k] \in Int
    <3>1. /\ -runs[i].score \in Int /\ SweepReturnKey(runs[i].summary) \in Int
          /\ SweepDrawdownKey(runs[i].summary) \in Int /\ runs[i].place \in Int /\ i \in Int
      BY <1>1, <1>3
    <3>2. /\ keys[i][1] = -runs[i].score /\ keys[i][2] = SweepReturnKey(runs[i].summary)
          /\ keys[i][3] = SweepDrawdownKey(runs[i].summary) /\ keys[i][4] = runs[i].place
          /\ keys[i][5] = i /\ DOMAIN keys[i] = 1..5
      BY <1>2
    <3>3. \A k \in 1..5 : k = 1 \/ k = 2 \/ k = 3 \/ k = 4 \/ k = 5
      OBVIOUS
    <3> QED
      BY <3>1, <3>2, <3>3
  <2> QED
    BY <1>1, <1>2, <2>1 DEF AreKeys
<1>5. ASSUME NEW i \in 1..n, NEW j \in 1..n, Precedes(keys[i], keys[j])
      PROVE  SweepAhead(runs[i], runs[j])
  <2>1. /\ keys[i][1] = -runs[i].score /\ keys[i][2] = SweepReturnKey(runs[i].summary)
        /\ keys[i][3] = SweepDrawdownKey(runs[i].summary) /\ DOMAIN keys[i] = 1..5
        /\ keys[j][1] = -runs[j].score /\ keys[j][2] = SweepReturnKey(runs[j].summary)
        /\ keys[j][3] = SweepDrawdownKey(runs[j].summary)
    BY <1>2
  <2>2. PICK k \in 1..5 : keys[i][k] < keys[j][k] /\ \A l \in 1..(k - 1) : keys[i][l] = keys[j][l]
    BY <1>5, <2>1 DEF Precedes
  <2>3. /\ k > 1 => keys[i][1] = keys[j][1]
        /\ k > 2 => keys[i][2] = keys[j][2]
        /\ k > 3 => keys[i][3] = keys[j][3]
        /\ k = 1 \/ k = 2 \/ k = 3 \/ k > 3
    BY <2>2
  <2>4. /\ runs[i].score \in Nat /\ SweepReturnKey(runs[i].summary) \in Int
        /\ SweepDrawdownKey(runs[i].summary) \in Int
        /\ runs[j].score \in Nat /\ SweepReturnKey(runs[j].summary) \in Int
        /\ SweepDrawdownKey(runs[j].summary) \in Int
    BY <1>3
  <2> HIDE DEF SweepReturnKey, SweepDrawdownKey
  <2>5. /\ keys[i][1] < keys[j][1] => runs[i].score > runs[j].score
        /\ keys[i][1] = keys[j][1] => runs[i].score = runs[j].score
    <3>1. runs[i].score \in Int /\ runs[j].score \in Int
      BY <2>4
    <3> QED
      BY <2>1, <3>1, NegationTurns
  <2>6. /\ keys[i][2] < keys[j][2] => SweepReturnKey(runs[i].summary) < SweepReturnKey(runs[j].summary)
        /\ keys[i][2] = keys[j][2] => SweepReturnKey(runs[i].summary) = SweepReturnKey(runs[j].summary)
    BY <2>1
  <2>7. /\ keys[i][3] < keys[j][3] => SweepDrawdownKey(runs[i].summary) <= SweepDrawdownKey(runs[j].summary)
        /\ keys[i][3] = keys[j][3] => SweepDrawdownKey(runs[i].summary) <= SweepDrawdownKey(runs[j].summary)
    BY <2>1, <2>4
  <2>8. CASE k = 1
    BY <2>2, <2>5, <2>8 DEF SweepAhead
  <2>9. CASE k = 2
    BY <2>2, <2>3, <2>5, <2>6, <2>9 DEF SweepAhead
  <2>10. CASE k = 3
    BY <2>2, <2>3, <2>5, <2>6, <2>7, <2>10 DEF SweepAhead
  <2>11. CASE k > 3
    BY <2>3, <2>5, <2>6, <2>7, <2>11 DEF SweepAhead
  <2> QED
    BY <2>3, <2>8, <2>9, <2>10, <2>11
<1> QED
  BY <1>4, <1>5 DEF keys, n

\* The first of the ranking is ahead of all others, the second of the rest.
LEMMA BestIsAhead ==
  ASSUME NEW runs \in Seq(Items), Len(runs) > 0
  PROVE  LET ranked == Ranked(SortKeys(runs)) IN
         /\ ranked[1] \in DOMAIN runs
         /\ \A i \in DOMAIN runs : i # ranked[1] => Ahead(runs[ranked[1]], runs[i])
         /\ Len(runs) > 1 =>
              /\ ranked[2] \in DOMAIN runs /\ ranked[2] # ranked[1]
              /\ \A i \in DOMAIN runs : i \notin {ranked[1], ranked[2]} =>
                   Ahead(runs[ranked[2]], runs[i])
<1> DEFINE n == Len(runs)
           keys == SortKeys(runs)
           ranked == Ranked(keys)
<1>1. n \in Nat /\ n > 0 /\ DOMAIN runs = 1..n
  OBVIOUS
<1>2. /\ ranked \in [1..n -> 1..n]
      /\ \A i, j \in 1..n : i < j => Precedes(keys[ranked[i]], keys[ranked[j]])
      /\ \A i, j \in 1..n : ranked[i] = ranked[j] => i = j
      /\ \A k \in 1..n : \E i \in 1..n : ranked[i] = k
  BY ItemsAreScored, SortKeysRank, RankedRanks
<1>3. \A i, j \in 1..n : Precedes(keys[i], keys[j]) => Ahead(runs[i], runs[j])
  BY ItemsAreScored, SortKeysRank
<1> HIDE DEF n, keys, ranked
<1>4. 1 \in 1..n
  BY <1>1
<1>5. \A i \in 1..n : i # ranked[1] => Ahead(runs[ranked[1]], runs[i])
  <2> SUFFICES ASSUME NEW i \in 1..n, i # ranked[1] PROVE Ahead(runs[ranked[1]], runs[i])
    OBVIOUS
  <2>1. PICK k \in 1..n : ranked[k] = i
    BY <1>2
  <2>2. 1 < k
    BY <1>4, <2>1
  <2>3. Precedes(keys[ranked[1]], keys[ranked[k]])
    BY <1>2, <1>4, <2>2
  <2> QED
    BY <1>2, <1>3, <1>4, <2>1, <2>3
<1>6. ASSUME n > 1
      PROVE  /\ ranked[2] \in 1..n /\ ranked[2] # ranked[1]
             /\ \A i \in 1..n : i \notin {ranked[1], ranked[2]} => Ahead(runs[ranked[2]], runs[i])
  <2>1. 2 \in 1..n
    BY <1>1, <1>6
  <2>2. ranked[2] \in 1..n /\ ranked[2] # ranked[1]
    <3>1. ranked[2] = ranked[1] => 2 = 1
      BY <1>2, <1>4, <2>1
    <3> QED
      BY <1>2, <2>1, <3>1
  <2>3. ASSUME NEW i \in 1..n, i \notin {ranked[1], ranked[2]}
        PROVE  Ahead(runs[ranked[2]], runs[i])
    <3>1. PICK k \in 1..n : ranked[k] = i
      BY <1>2
    <3>2. 2 < k
      BY <2>3, <3>1
    <3>3. Precedes(keys[ranked[2]], keys[ranked[k]])
      BY <1>2, <2>1, <3>2
    <3> QED
      BY <1>2, <1>3, <2>2, <3>1, <3>3
  <2> QED
    BY <2>2, <2>3
<1> QED
  BY <1>1, <1>2, <1>4, <1>5, <1>6 DEF n, keys, ranked

LEMMA SweepBestIsAhead ==
  ASSUME NEW runs \in Seq(Items), Len(runs) > 0
  PROVE  /\ SweepBest(runs) \in DOMAIN runs
         /\ \A i \in DOMAIN runs : i # SweepBest(runs) => SweepAhead(runs[SweepBest(runs)], runs[i])
<1> DEFINE n == Len(runs)
           keys == SweepSortKeys(runs)
           ranked == Ranked(keys)
<1>1. n \in Nat /\ n > 0 /\ DOMAIN runs = 1..n
  OBVIOUS
<1>2. /\ ranked \in [1..n -> 1..n]
      /\ \A i, j \in 1..n : i < j => Precedes(keys[ranked[i]], keys[ranked[j]])
      /\ \A k \in 1..n : \E i \in 1..n : ranked[i] = k
  BY SweepKeysRank, RankedRanks
<1>3. \A i, j \in 1..n : Precedes(keys[i], keys[j]) => SweepAhead(runs[i], runs[j])
  BY SweepKeysRank
<1>4. SweepBest(runs) = ranked[1]
  BY DEF SweepBest
<1> HIDE DEF n, keys, ranked
<1>5. 1 \in 1..n
  BY <1>1
<1>6. \A i \in 1..n : i # ranked[1] => SweepAhead(runs[ranked[1]], runs[i])
  <2> SUFFICES ASSUME NEW i \in 1..n, i # ranked[1] PROVE SweepAhead(runs[ranked[1]], runs[i])
    OBVIOUS
  <2>1. PICK k \in 1..n : ranked[k] = i
    BY <1>2
  <2>2. 1 < k
    BY <1>5, <2>1
  <2>3. Precedes(keys[ranked[1]], keys[ranked[k]])
    BY <1>2, <1>5, <2>2
  <2> QED
    BY <1>2, <1>3, <1>5, <2>1, <2>3
<1> QED
  BY <1>1, <1>2, <1>4, <1>5, <1>6

----------------------------------------------------------------------------
(* Recommendation and acceptance                                           *)

LEMMA FlagIs == \A condition, code, x : x \in Flag(condition, code) <=> condition /\ x = code
BY DEF Flag

\* What keeps a run from being recommended.
Severe(best) == \E code \in {"no_trades", "negative_return", "high_drawdown"} : code \in best.warnings

LEMMA RecommendationWarningsTell ==
  ASSUME NEW runs
  PROVE  LET W == RecommendationWarnings(runs)
             best == BestOf(runs) IN
         /\ "best_run_has_low_score" \in W <=>
              "best_run_has_low_score" \in best.warnings \/ best.score < Points(50)
         /\ "best_run_has_high_drawdown" \in W <=>
              "best_run_has_high_drawdown" \in best.warnings \/ "high_drawdown" \in best.warnings
         /\ "best_run_has_negative_return" \in W <=>
              "best_run_has_negative_return" \in best.warnings \/ "negative_return" \in best.warnings
         /\ "best_run_has_no_trades" \in W <=>
              "best_run_has_no_trades" \in best.warnings \/ "no_trades" \in best.warnings
         /\ "no_clear_winner" \in W <=>
              \/ "no_clear_winner" \in best.warnings
              \/ Len(runs) > 1 /\ best.score - RunnerUpOf(runs).score < Points(5)
         /\ \A code \in {"no_trades", "negative_return", "high_drawdown", "non_positive_return",
                         "drawdown_too_high", "missing_profit_factor",
                         "infinite_or_unavailable_profit_factor"} :
              code \in W <=> code \in best.warnings
<1> DEFINE best == BestOf(runs)
           second == RunnerUpOf(runs)
<1>1. RecommendationWarnings(runs) =
        best.warnings
        \cup Flag(best.score < Points(50), "best_run_has_low_score")
        \cup Flag("too_few_trades" \in best.warnings, "best_run_has_too_few_trades")
        \cup Flag("high_drawdown" \in best.warnings, "best_run_has_high_drawdown")
        \cup Flag("negative_return" \in best.warnings, "best_run_has_negative_return")
        \cup Flag("no_trades" \in best.warnings, "best_run_has_no_trades")
        \cup Flag(Len(runs) > 1 /\ best.score - second.score < Points(5), "no_clear_winner")
        \cup Flag(\A i \in DOMAIN runs : runs[i].score < Points(70), "all_runs_weak")
  BY DEF RecommendationWarnings
<1> DEFINE low == best.score < Points(50)
           close == Len(runs) > 1 /\ best.score - second.score < Points(5)
           weak == \A i \in DOMAIN runs : runs[i].score < Points(70)
           warnings == best.warnings
<1>2. RecommendationWarnings(runs) =
        warnings
        \cup Flag(low, "best_run_has_low_score")
        \cup Flag("too_few_trades" \in warnings, "best_run_has_too_few_trades")
        \cup Flag("high_drawdown" \in warnings, "best_run_has_high_drawdown")
        \cup Flag("negative_return" \in warnings, "best_run_has_negative_return")
        \cup Flag("no_trades" \in warnings, "best_run_has_no_trades")
        \cup Flag(close, "no_clear_winner")
        \cup Flag(weak, "all_runs_weak")
  BY <1>1
<1> HIDE DEF low, close, weak, warnings
<1>3. \A x : x \in RecommendationWarnings(runs) <=>
        \/ x \in warnings
        \/ low /\ x = "best_run_has_low_score"
        \/ "too_few_trades" \in warnings /\ x = "best_run_has_too_few_trades"
        \/ "high_drawdown" \in warnings /\ x = "best_run_has_high_drawdown"
        \/ "negative_return" \in warnings /\ x = "best_run_has_negative_return"
        \/ "no_trades" \in warnings /\ x = "best_run_has_no_trades"
        \/ close /\ x = "no_clear_winner"
        \/ weak /\ x = "all_runs_weak"
  BY <1>2, FlagIs
<1>4. /\ "best_run_has_low_score" \in RecommendationWarnings(runs)
           <=> "best_run_has_low_score" \in warnings \/ low
      /\ "best_run_has_high_drawdown" \in RecommendationWarnings(runs)
           <=> "best_run_has_high_drawdown" \in warnings \/ "high_drawdown" \in warnings
      /\ "best_run_has_negative_return" \in RecommendationWarnings(runs)
           <=> "best_run_has_negative_return" \in warnings \/ "negative_return" \in warnings
      /\ "best_run_has_no_trades" \in RecommendationWarnings(runs)
           <=> "best_run_has_no_trades" \in warnings \/ "no_trades" \in warnings
      /\ "no_clear_winner" \in RecommendationWarnings(runs)
           <=> "no_clear_winner" \in warnings \/ close
  BY <1>3
<1>5. \A code \in {"no_trades", "negative_return", "high_drawdown", "non_positive_return",
                   "drawdown_too_high", "missing_profit_factor",
                   "infinite_or_unavailable_profit_factor"} :
        code \in RecommendationWarnings(runs) <=> code \in warnings
  BY <1>3
<1> QED
  BY <1>4, <1>5 DEF low, close, warnings

\* A run of a comparison warns of itself, and of nothing else.
LEMMA ItemWarns ==
  ASSUME NEW run \in Items
  PROVE  /\ run.warnings = ScoreWarnings(run.summary)
         /\ \A code \in {"best_run_has_low_score", "best_run_has_high_drawdown",
                         "best_run_has_negative_return", "best_run_has_no_trades",
                         "no_clear_winner", "non_positive_return", "drawdown_too_high",
                         "missing_profit_factor"} : code \notin run.warnings
<1>1. run.warnings = ScoreWarnings(run.summary)
  BY ItemsAre
<1>2. run.warnings \subseteq {"missing_metric", "infinite_or_unavailable_profit_factor",
                              "negative_return", "high_drawdown", "no_trades", "too_few_trades"}
  BY <1>1, WarningsTell
<1> QED
  BY <1>1, <1>2

\* What the acceptance of a comparison holds against its best run, and all it
\* depends on.
FailuresOf(best) ==
  LET s == best.summary IN
  Flag(best.score < Points(50) \/ Severe(best), "recommendation_not_strong_enough")
  \cup Flag(best.score < Points(70), "score_below_minimum")
  \cup Flag(~HasGateTrades(s) \/ GateTrades(s) < 5, "too_few_trades")
  \cup Flag(~Has(s, "total_return_pct") \/ s["total_return_pct"] <= 0, "non_positive_return")
  \cup Flag(Has(s, "max_drawdown_pct") /\ s["max_drawdown_pct"] > 25, "drawdown_too_high")
  \cup Flag(Has(s, "profit_factor") /\ s["profit_factor"] < 11, "profit_factor_below_minimum")
  \cup Flag(best.score < Points(50) \/ Severe(best), "severe_recommendation_warning")
  \cup Flag("no_trades" \in best.warnings, "too_few_trades")
  \cup Flag("negative_return" \in best.warnings, "negative_return")

LEMMA StatusTells ==
  ASSUME NEW runs, runs # <<>>, BestOf(runs).score \in Nat
  PROVE  /\ RecommendationStatus(runs) \in {"recommended", "weak_recommendation"} <=>
              BestOf(runs).score >= Points(50) /\ ~Severe(BestOf(runs))
         /\ RecommendationStatus(runs) # "weak_recommendation" /\ BestOf(runs).score >= Points(70)
              /\ ~Severe(BestOf(runs)) => RecommendationStatus(runs) = "recommended"
<1> DEFINE best == BestOf(runs)
           close == "no_clear_winner" \in RecommendationWarnings(runs)
           few == "too_few_trades" \in best.warnings
           score == best.score
<1>1. best.warnings \cap {"no_trades", "negative_return", "high_drawdown"} # {} <=> Severe(best)
  BY DEF Severe
<1>2. RecommendationStatus(runs) =
        IF score >= Points(70) /\ ~Severe(best) /\ ~few /\ ~close THEN "recommended"
        ELSE IF score >= Points(50) /\ ~Severe(best) THEN "weak_recommendation"
        ELSE "not_recommended"
  BY <1>1 DEF RecommendationStatus
<1>3. score \in Nat /\ Points(50) = 15000 /\ Points(70) = 21000
  BY DEF Points
<1> HIDE DEF close, few, score
<1>4. score >= Points(70) => score >= Points(50)
  BY <1>3
<1>5. /\ RecommendationStatus(runs) \in {"recommended", "weak_recommendation"} <=>
              score >= Points(50) /\ ~Severe(best)
      /\ RecommendationStatus(runs) # "weak_recommendation" /\ score >= Points(70)
              /\ ~Severe(best) => RecommendationStatus(runs) = "recommended"
  BY <1>2, <1>4
<1> QED
  BY <1>5 DEF score

LEMMA FailuresAre ==
  ASSUME NEW runs, runs # <<>>, BestOf(runs) \in Items
  PROVE  AcceptanceFailures(runs) = FailuresOf(BestOf(runs))
<1> DEFINE best == BestOf(runs)
           W == RecommendationWarnings(runs)
           severe == {"best_run_has_low_score", "best_run_has_high_drawdown",
                      "best_run_has_negative_return", "best_run_has_no_trades"}
<1>1. best.score \in Nat /\ Points(50) \in Nat
  BY ItemsAre DEF Points
<1>2. RecommendationStatus(runs) \notin {"recommended", "weak_recommendation"} <=>
        best.score < Points(50) \/ Severe(best)
  BY <1>1, StatusTells
<1>3. W \cap severe # {} <=> best.score < Points(50) \/ Severe(best)
  <2>1. /\ "best_run_has_low_score" \in W <=> best.score < Points(50)
        /\ "best_run_has_high_drawdown" \in W <=> "high_drawdown" \in best.warnings
        /\ "best_run_has_negative_return" \in W <=> "negative_return" \in best.warnings
        /\ "best_run_has_no_trades" \in W <=> "no_trades" \in best.warnings
    BY RecommendationWarningsTell, ItemWarns
  <2> HIDE DEF W, best
  <2>2. W \cap severe # {} <=> \/ "best_run_has_low_score" \in W
                               \/ "best_run_has_high_drawdown" \in W
                               \/ "best_run_has_negative_return" \in W
                               \/ "best_run_has_no_trades" \in W
    OBVIOUS
  <2> QED
    BY <2>1, <2>2 DEF Severe
<1>4. /\ "no_trades" \in W <=> "no_trades" \in best.warnings
      /\ "negative_return" \in W <=> "negative_return" \in best.warnings
  BY RecommendationWarningsTell
<1> DEFINE s == best.summary
           notStrong == best.score < Points(50) \/ Severe(best)
<1>5. AcceptanceFailures(runs) =
        Flag(notStrong, "recommendation_not_strong_enough")
        \cup Flag(best.score < Points(70), "score_below_minimum")
        \cup Flag(~HasGateTrades(s) \/ GateTrades(s) < 5, "too_few_trades")
        \cup Flag(~Has(s, "total_return_pct") \/ s["total_return_pct"] <= 0, "non_positive_return")
        \cup Flag(Has(s, "max_drawdown_pct") /\ s["max_drawdown_pct"] > 25, "drawdown_too_high")
        \cup Flag(Has(s, "profit_factor") /\ s["profit_factor"] < 11, "profit_factor_below_minimum")
        \cup Flag(notStrong, "severe_recommendation_warning")
        \cup Flag("no_trades" \in best.warnings, "too_few_trades")
        \cup Flag("negative_return" \in best.warnings, "negative_return")
  <2>1. /\ Flag(RecommendationStatus(runs) \notin {"recommended", "weak_recommendation"},
                "recommendation_not_strong_enough")
             = Flag(notStrong, "recommendation_not_strong_enough")
        /\ Flag(W \cap severe # {}, "severe_recommendation_warning")
             = Flag(notStrong, "severe_recommendation_warning")
        /\ Flag("no_trades" \in W, "too_few_trades")
             = Flag("no_trades" \in best.warnings, "too_few_trades")
        /\ Flag("negative_return" \in W, "negative_return")
             = Flag("negative_return" \in best.warnings, "negative_return")
    BY <1>2, <1>3, <1>4 DEF Flag
  <2> QED
    BY <2>1 DEF AcceptanceFailures
<1> QED
  BY <1>5 DEF FailuresOf

LEMMA FailuresTell ==
  ASSUME NEW best \in Items
  PROVE  LET s == best.summary
             Stands == /\ best.score >= Points(70) /\ ~Severe(best)
                       /\ Has(s, "total_return_pct") /\ s["total_return_pct"] > 0
                       /\ Has(s, "max_drawdown_pct") => s["max_drawdown_pct"] <= 25
         IN /\ FailuresOf(best) = {} <=>
                 /\ Stands
                 /\ HasGateTrades(s) /\ GateTrades(s) >= 5
                 /\ Has(s, "profit_factor") => s["profit_factor"] >= 11
            /\ Stands => FailuresOf(best) \subseteq {"too_few_trades", "profit_factor_below_minimum"}
            /\ "non_positive_return" \in FailuresOf(best) =>
                 ~Has(s, "total_return_pct") \/ s["total_return_pct"] <= 0
            /\ "drawdown_too_high" \in FailuresOf(best) =>
                 Has(s, "max_drawdown_pct") /\ s["max_drawdown_pct"] > 25
            /\ "negative_return" \in FailuresOf(best) => "negative_return" \in best.warnings
            /\ \A code \in {"best_run_has_high_drawdown", "high_drawdown",
                            "best_run_has_negative_return", "missing_profit_factor",
                            "infinite_or_unavailable_profit_factor"} : code \notin FailuresOf(best)
<1> DEFINE s == best.summary
           score == best.score
           weak == score < Points(50) \/ Severe(best)
           low == score < Points(70)
           few == ~HasGateTrades(s) \/ GateTrades(s) < 5
           unpaid == ~Has(s, "total_return_pct") \/ s["total_return_pct"] <= 0
           deep == Has(s, "max_drawdown_pct") /\ s["max_drawdown_pct"] > 25
           poor == Has(s, "profit_factor") /\ s["profit_factor"] < 11
           none == "no_trades" \in best.warnings
           negative == "negative_return" \in best.warnings
           F == FailuresOf(best)
<1>1. F = Flag(weak, "recommendation_not_strong_enough") \cup Flag(low, "score_below_minimum")
          \cup Flag(few, "too_few_trades") \cup Flag(unpaid, "non_positive_return")
          \cup Flag(deep, "drawdown_too_high") \cup Flag(poor, "profit_factor_below_minimum")
          \cup Flag(weak, "severe_recommendation_warning")
          \cup Flag(none, "too_few_trades") \cup Flag(negative, "negative_return")
  BY DEF FailuresOf
<1>2. IsSummary(s) /\ score \in Nat
  BY ItemsAre
<1>3. /\ Points(50) = 15000 /\ Points(70) = 21000
      /\ none => Severe(best)
      /\ negative => Severe(best)
  BY DEF Points, Severe
<1>4. HasGateTrades(s) => GateTrades(s) \in Int
  BY <1>2 DEF HasGateTrades, GateTrades, HasTrades, Has, IsSummary
<1>5. /\ Has(s, "total_return_pct") => s["total_return_pct"] \in Int
      /\ Has(s, "max_drawdown_pct") => s["max_drawdown_pct"] \in Int
      /\ Has(s, "profit_factor") => s["profit_factor"] \in Int
  BY <1>2 DEF Has, IsSummary
<1>6. /\ ~weak /\ ~low <=> score >= Points(70) /\ ~Severe(best)
      /\ ~few <=> HasGateTrades(s) /\ GateTrades(s) >= 5
      /\ ~unpaid <=> Has(s, "total_return_pct") /\ s["total_return_pct"] > 0
      /\ ~deep <=> (Has(s, "max_drawdown_pct") => s["max_drawdown_pct"] <= 25)
      /\ ~poor <=> (Has(s, "profit_factor") => s["profit_factor"] >= 11)
      /\ none => weak
      /\ negative => weak
  <2>1. ~weak /\ ~low <=> score >= Points(70) /\ ~Severe(best)
    BY <1>2, <1>3
  <2>2. ~few <=> HasGateTrades(s) /\ GateTrades(s) >= 5
    BY <1>4
  <2>3. ~unpaid <=> Has(s, "total_return_pct") /\ s["total_return_pct"] > 0
    BY <1>5
  <2>4. ~deep <=> (Has(s, "max_drawdown_pct") => s["max_drawdown_pct"] <= 25)
    BY <1>5
  <2>5. ~poor <=> (Has(s, "profit_factor") => s["profit_factor"] >= 11)
    BY <1>5
  <2>6. (none => weak) /\ (negative => weak)
    BY <1>3
  <2> QED
    BY <2>1, <2>2, <2>3, <2>4, <2>5, <2>6
<1>7. unpaid => ~Has(s, "total_return_pct") \/ s["total_return_pct"] <= 0
  OBVIOUS
<1>8. deep => Has(s, "max_drawdown_pct") /\ s["max_drawdown_pct"] > 25
  OBVIOUS
<1>9. negative => "negative_return" \in best.warnings
  OBVIOUS
<1> HIDE DEF weak, low, few, unpaid, deep, poor, none, negative, F
<1>10. \A x : x \in F <=> \/ weak /\ x = "recommendation_not_strong_enough"
                          \/ low /\ x = "score_below_minimum"
                          \/ few /\ x = "too_few_trades"
                          \/ unpaid /\ x = "non_positive_return"
                          \/ deep /\ x = "drawdown_too_high"
                          \/ poor /\ x = "profit_factor_below_minimum"
                          \/ weak /\ x = "severe_recommendation_warning"
                          \/ none /\ x = "too_few_trades"
                          \/ negative /\ x = "negative_return"
  BY <1>1, FlagIs
<1>11. F = {} <=> ~weak /\ ~low /\ ~few /\ ~unpaid /\ ~deep /\ ~poor /\ ~none /\ ~negative
  BY <1>10
<1>12. ~weak /\ ~low /\ ~unpaid /\ ~deep /\ ~none /\ ~negative =>
         F \subseteq {"too_few_trades", "profit_factor_below_minimum"}
  BY <1>10
<1>13. /\ "non_positive_return" \in F => unpaid
       /\ "drawdown_too_high" \in F => deep
       /\ "negative_return" \in F => negative
       /\ \A code \in {"best_run_has_high_drawdown", "high_drawdown",
                       "best_run_has_negative_return", "missing_profit_factor",
                       "infinite_or_unavailable_profit_factor"} : code \notin F
  BY <1>10
<1>14. ~weak => ~none /\ ~negative
  BY <1>6
<1>15. /\ F = {} <=> ~weak /\ ~low /\ ~unpaid /\ ~deep /\ ~few /\ ~poor
       /\ ~weak /\ ~low /\ ~unpaid /\ ~deep =>
            F \subseteq {"too_few_trades", "profit_factor_below_minimum"}
  BY <1>11, <1>12, <1>14
<1> DEFINE passes == /\ score >= Points(70) /\ ~Severe(best)
                     /\ Has(s, "total_return_pct") /\ s["total_return_pct"] > 0
                     /\ Has(s, "max_drawdown_pct") => s["max_drawdown_pct"] <= 25
           trades == HasGateTrades(s) /\ GateTrades(s) >= 5
           gains == Has(s, "profit_factor") => s["profit_factor"] >= 11
<1>16. /\ passes <=> ~weak /\ ~low /\ ~unpaid /\ ~deep
       /\ trades <=> ~few
       /\ gains <=> ~poor
  <2>1. passes <=> ~weak /\ ~low /\ ~unpaid /\ ~deep
    BY <1>6
  <2>2. (trades <=> ~few) /\ (gains <=> ~poor)
    BY <1>6
  <2> QED
    BY <2>1, <2>2
<1> HIDE DEF passes, trades, gains
<1>17. /\ F = {} <=> passes /\ trades /\ gains
       /\ passes => F \subseteq {"too_few_trades", "profit_factor_below_minimum"}
  BY <1>15, <1>16
<1> QED
  BY <1>7, <1>8, <1>9, <1>13, <1>17 DEF passes, trades, gains, F

\* What it means to be accepted.
LEMMA AcceptedMeans ==
  ASSUME NEW runs, runs # <<>>, BestOf(runs) \in Items
  PROVE  /\ Accepted(runs) <=> FailuresOf(BestOf(runs)) = {}
         /\ Acceptance(runs) = "accepted" => AcceptanceWarnings(runs) = {}
<1>1. AcceptanceFailures(runs) = FailuresOf(BestOf(runs))
  BY FailuresAre
<1>2. Acceptance(runs) = IF FailuresOf(BestOf(runs)) # {} THEN "rejected"
                         ELSE IF AcceptanceWarnings(runs) # {} THEN "accepted_with_warnings"
                         ELSE "accepted"
  BY <1>1 DEF Acceptance
<1> QED
  BY <1>2 DEF Accepted

LEMMA AcceptanceWarningsTell ==
  ASSUME NEW runs
  PROVE  LET W == AcceptanceWarnings(runs)
             s == BestOf(runs).summary IN
         /\ W = {} => /\ "no_clear_winner" \notin RecommendationWarnings(runs)
                      /\ Has(s, "profit_factor") /\ Has(s, "max_drawdown_pct")
         /\ "missing_profit_factor" \in W <=> ~Has(s, "profit_factor")
         /\ \A code \in {"drawdown_too_high", "best_run_has_high_drawdown", "high_drawdown",
                         "negative_return", "non_positive_return", "best_run_has_negative_return",
                         "infinite_or_unavailable_profit_factor"} : code \notin W
<1> DEFINE s == BestOf(runs).summary
           weak == RecommendationStatus(runs) = "weak_recommendation"
           few == HasGateTrades(s) /\ GateTrades(s) < 10
           blind == ~Has(s, "max_drawdown_pct")
           unknown == ~Has(s, "profit_factor")
           close == "no_clear_winner" \in RecommendationWarnings(runs)
           W == AcceptanceWarnings(runs)
<1>1. W = Flag(weak, "weak_recommendation_only") \cup Flag(few, "low_trade_confidence")
          \cup Flag(blind, "missing_drawdown_metric") \cup Flag(unknown, "missing_profit_factor")
          \cup Flag(close, "no_clear_winner")
  BY DEF AcceptanceWarnings
<1> HIDE DEF weak, few, blind, unknown, close, W
<1>2. \A x : x \in W <=> \/ weak /\ x = "weak_recommendation_only"
                         \/ few /\ x = "low_trade_confidence"
                         \/ blind /\ x = "missing_drawdown_metric"
                         \/ unknown /\ x = "missing_profit_factor"
                         \/ close /\ x = "no_clear_winner"
  BY <1>1, FlagIs
<1>3. W = {} => ~close /\ ~unknown /\ ~blind
  BY <1>2
<1>4. "missing_profit_factor" \in W <=> unknown
  BY <1>2
<1>5. \A code \in {"drawdown_too_high", "best_run_has_high_drawdown", "high_drawdown",
                   "negative_return", "non_positive_return", "best_run_has_negative_return",
                   "infinite_or_unavailable_profit_factor"} : code \notin W
  BY <1>2
<1> QED
  BY <1>3, <1>4, <1>5 DEF blind, unknown, close, W

LEMMA BestIsItem ==
  ASSUME NEW runs \in Seq(Items), runs # <<>>
  PROVE  /\ Len(runs) > 0 /\ Len(runs) \in Nat
         /\ Ranked(SortKeys(runs))[1] \in DOMAIN runs
         /\ BestOf(runs) = runs[Ranked(SortKeys(runs))[1]]
         /\ BestOf(runs) \in Items
<1>1. Len(runs) > 0 /\ Len(runs) \in Nat
  OBVIOUS
<1>2. Ranked(SortKeys(runs))[1] \in DOMAIN runs
  BY <1>1, BestIsAhead
<1> QED
  BY <1>1, <1>2 DEF BestOf

\* Compared with nothing a run is its own best.
LEMMA AloneIsBest ==
  ASSUME NEW run \in Items
  PROVE  BestOf(<<run>>) = run /\ <<run>> # <<>>
<1>1. <<run>> \in Seq(Items) /\ <<run>> # <<>> /\ DOMAIN <<run>> = {1} /\ <<run>>[1] = run
  OBVIOUS
<1> QED
  BY <1>1, BestIsItem

\* An accepted run has made its trades: what few or none there are caps the score.
LEMMA AcceptedHasTraded ==
  ASSUME NEW best \in Items, FailuresOf(best) = {}
  PROVE  LET s == best.summary IN
         /\ best.score >= Points(70)
         /\ Has(s, "total_return_pct") /\ s["total_return_pct"] > 0 /\ ReturnPct(s) > 0
         /\ HasDrawdown(s) => DrawdownPct(s) < 20
         /\ Has(s, "completed_round_trips") => s["completed_round_trips"] >= 5
         /\ ~Has(s, "completed_round_trips") => s["trades_count"] >= 10
<1> DEFINE s == best.summary
<1>1. /\ best.score >= Points(70) /\ ~Severe(best)
      /\ Has(s, "total_return_pct") /\ s["total_return_pct"] > 0
      /\ HasGateTrades(s)
  BY FailuresTell
<1>2. /\ IsSummary(s) /\ best.score = Score(s) /\ best.warnings = ScoreWarnings(s)
  BY ItemsAre
<1> HIDE DEF s
<1>3. ReturnPct(s) > 0
  BY <1>1 DEF ReturnPct
<1>4. HasDrawdown(s) => DrawdownPct(s) < 20
  <2>1. "high_drawdown" \notin ScoreWarnings(s)
    BY <1>1, <1>2 DEF Severe
  <2>2. ~(HasDrawdown(s) /\ DrawdownPct(s) >= 20)
    BY <2>1, WarningsTell
  <2> QED
    BY <1>2, <2>2, MetricsAreNumbers
<1>5. HasTrades(s) /\ TradeCount(s) \in Nat
  BY <1>1, <1>2, MetricsAreNumbers DEF HasGateTrades
<1>6. TradeCount(s) >= 5
  <2> HIDE DEF Weighted
  <2>1. Score(s) >= 21000 /\ Weighted(s) \in Nat
    BY <1>1, <1>2, ScoreIsWeighted DEF Points
  <2>2. TradeCount(s) # 0 /\ TradeCount(s) \notin 1..4
    BY <1>2, <1>5, <2>1, ScoreIsWeighted
  <2> QED
    BY <1>5, <2>2
<1>7. Has(s, "completed_round_trips") => s["completed_round_trips"] >= 5
  BY <1>6 DEF TradeCount
<1>8. ~Has(s, "completed_round_trips") => s["trades_count"] >= 10
  <2> SUFFICES ASSUME ~Has(s, "completed_round_trips") PROVE s["trades_count"] >= 10
    OBVIOUS
  <2>1. s["trades_count"] \in Int /\ (s["trades_count"] \div 2) >= 5
    BY <1>2, <1>5, <1>6 DEF HasTrades, Has, IsSummary, TradeCount
  <2> QED
    BY <2>1
<1> QED
  BY <1>1, <1>3, <1>4, <1>7, <1>8 DEF s

\* A clear winner is ahead of the runner-up by five points, and so of all.
LEMMA WinnersAreClear ==
  ASSUME NEW runs \in Seq(Items), runs # <<>>,
         "no_clear_winner" \notin RecommendationWarnings(runs)
  PROVE  \A i \in DOMAIN runs \ {Ranked(SortKeys(runs))[1]} :
           BestOf(runs).score >= runs[i].score + Points(5)
<1> DEFINE first == Ranked(SortKeys(runs))[1]
           second == Ranked(SortKeys(runs))[2]
           n == Len(runs)
<1>1. /\ n > 0 /\ n \in Nat /\ DOMAIN runs = 1..n
      /\ first \in DOMAIN runs /\ BestOf(runs) = runs[first] /\ BestOf(runs) \in Items
  BY BestIsItem
<1>2. /\ n > 1 => /\ second \in DOMAIN runs /\ second # first
                  /\ \A i \in DOMAIN runs : i \notin {first, second} => Ahead(runs[second], runs[i])
  BY <1>1, BestIsAhead
<1>3. RunnerUpOf(runs) = runs[second]
  BY DEF RunnerUpOf
<1>4. \A i \in DOMAIN runs : runs[i].score \in Nat
  BY ItemsAre
<1>5. ~(n > 1 /\ runs[first].score - runs[second].score < Points(5))
  BY <1>1, <1>3, RecommendationWarningsTell
<1> HIDE DEF first, second, n
<1> SUFFICES ASSUME NEW i \in DOMAIN runs, i # first
             PROVE  runs[first].score >= runs[i].score + 1500
  BY <1>1 DEF first, Points
<1>6. n > 1
  BY <1>1
<1>7. /\ runs[first].score \in Nat /\ runs[second].score \in Nat /\ runs[i].score \in Nat
      /\ ~(runs[first].score - runs[second].score < 1500)
  BY <1>1, <1>2, <1>4, <1>5, <1>6 DEF Points
<1>8. runs[second].score >= runs[i].score
  <2>1. CASE i = second
    BY <1>7, <2>1
  <2>2. CASE i # second
    <3>1. Ahead(runs[second], runs[i])
      BY <1>2, <1>6, <2>2
    <3> QED
      BY <1>7, <3>1 DEF Ahead
  <2> QED
    BY <2>1, <2>2
<1> QED
  BY <1>7, <1>8

LEMMA SoundWhenAccepted ==
  ASSUME compared \in Seq(Items)
  PROVE  AcceptedRunsAreSound
<1> SUFFICES ASSUME compared # <<>>, Accepted(compared)
             PROVE  LET best == BestOf(compared).summary IN
                    /\ ReturnPct(best) > 0
                    /\ HasDrawdown(best) => DrawdownPct(best) < 20
                    /\ Has(best, "completed_round_trips") => best["completed_round_trips"] >= 5
                    /\ ~Has(best, "completed_round_trips") => best["trades_count"] >= 10
                    /\ Acceptance(compared) = "accepted" =>
                         /\ \A i \in DOMAIN compared \ {Ranked(SortKeys(compared))[1]} :
                              BestOf(compared).score >= compared[i].score + Points(5)
                         /\ Has(best, "profit_factor") /\ Has(best, "max_drawdown_pct")
                         /\ NextAction(compared) = "promote_to_further_local_testing"
  BY DEF AcceptedRunsAreSound
<1>1. BestOf(compared) \in Items
  BY BestIsItem
<1>2. FailuresOf(BestOf(compared)) = {}
  BY <1>1, AcceptedMeans
<1>3. LET best == BestOf(compared).summary IN
      /\ ReturnPct(best) > 0
      /\ HasDrawdown(best) => DrawdownPct(best) < 20
      /\ Has(best, "completed_round_trips") => best["completed_round_trips"] >= 5
      /\ ~Has(best, "completed_round_trips") => best["trades_count"] >= 10
  BY <1>1, <1>2, AcceptedHasTraded
<1>4. ASSUME Acceptance(compared) = "accepted"
      PROVE  /\ \A i \in DOMAIN compared \ {Ranked(SortKeys(compared))[1]} :
                  BestOf(compared).score >= compared[i].score + Points(5)
             /\ Has(BestOf(compared).summary, "profit_factor")
             /\ Has(BestOf(compared).summary, "max_drawdown_pct")
             /\ NextAction(compared) = "promote_to_further_local_testing"
  <2>1. AcceptanceWarnings(compared) = {}
    BY <1>1, <1>4, AcceptedMeans
  <2>2. "no_clear_winner" \notin RecommendationWarnings(compared)
    BY <2>1, AcceptanceWarningsTell
  <2>3. \A i \in DOMAIN compared \ {Ranked(SortKeys(compared))[1]} :
          BestOf(compared).score >= compared[i].score + Points(5)
    BY <2>2, WinnersAreClear
  <2>4. NextAction(compared) = "promote_to_further_local_testing"
    BY <1>4 DEF NextAction
  <2> QED
    BY <2>1, <2>3, <2>4, AcceptanceWarningsTell
<1> QED
  BY <1>3, <1>4

\* A summary at least as good in every metric has keys at least as good, unless
\* they read as missing.
LEMMA GoodKeys ==
  ASSUME NEW s, NEW t, IsSummary(s), IsSummary(t), AtLeastAsGood(s, t), ~ReadsAsMissing(s)
  PROVE  ReturnKey(s) >= ReturnKey(t) /\ DrawdownKey(s) <= DrawdownKey(t)
<1>1. /\ Has(s, "total_return_pct") <=> Has(t, "total_return_pct")
      /\ Has(s, "total_return") <=> Has(t, "total_return")
      /\ Has(s, "max_drawdown_pct") <=> Has(t, "max_drawdown_pct")
      /\ Has(s, "total_return_pct") => s["total_return_pct"] >= t["total_return_pct"]
      /\ Has(s, "total_return") => s["total_return"] >= t["total_return"]
      /\ Has(s, "max_drawdown_pct") => Magnitude(s["max_drawdown_pct"]) <= Magnitude(t["max_drawdown_pct"])
  BY GoodMetrics
<1>2. /\ \A metric : Has(s, metric) => s[metric] \in Int
      /\ \A metric : Has(t, metric) => t[metric] \in Int
  BY DEF IsSummary, Has
<1>3. ReturnKey(s) >= ReturnKey(t)
  <2>1. CASE Has(s, "total_return_pct")
    BY <1>1, <2>1 DEF ReturnKey
  <2>2. CASE ~Has(s, "total_return_pct") /\ Has(s, "total_return")
    <3>1. /\ s["total_return"] \in Int /\ t["total_return"] \in Int
          /\ s["total_return"] >= t["total_return"]
          /\ s["total_return"] # 0
      BY <1>1, <1>2, <2>2 DEF ReadsAsMissing
    <3>2. /\ ReturnKey(s) = s["total_return"]
          /\ ReturnKey(t) = IF t["total_return"] # 0 THEN t["total_return"] ELSE -Worst
      BY <1>1, <2>2, <3>1 DEF ReturnKey, OrElse
    <3>3. -Worst <= 0 /\ -Worst \in Int
      BY DEF Worst
    <3> HIDE DEF Worst
    <3> QED
      BY <3>1, <3>2, <3>3
  <2>3. CASE ~Has(s, "total_return_pct") /\ ~Has(s, "total_return")
    <3>1. ReturnKey(s) = -Worst /\ ReturnKey(t) = -Worst
      BY <1>1, <2>3 DEF ReturnKey, OrElse
    <3>2. -Worst \in Int
      BY DEF Worst
    <3> QED
      BY <3>1, <3>2
  <2> QED
    BY <2>1, <2>2, <2>3
<1>4. DrawdownKey(s) <= DrawdownKey(t)
  <2>1. CASE Has(s, "max_drawdown_pct")
    <3>1. /\ s["max_drawdown_pct"] \in Nat /\ t["max_drawdown_pct"] \in Nat
          /\ s["max_drawdown_pct"] # 0
      BY <1>1, <2>1 DEF ReadsAsMissing, IsSummary, Has, NeverNegative
    <3>2. s["max_drawdown_pct"] <= t["max_drawdown_pct"]
      BY <1>1, <2>1, <3>1 DEF Magnitude
    <3> QED
      BY <1>1, <2>1, <3>1, <3>2 DEF DrawdownKey, OrElse
  <2>2. CASE ~Has(s, "max_drawdown_pct")
    <3>1. DrawdownKey(s) = Worst /\ DrawdownKey(t) = Worst
      BY <1>1, <2>2 DEF DrawdownKey, OrElse
    <3>2. Worst \in Int
      BY DEF Worst
    <3> QED
      BY <3>1, <3>2
  <2> QED
    BY <2>1, <2>2
<1> QED
  BY <1>3, <1>4

LEMMA BestIsUndominated ==
  ASSUME compared \in Seq(Items)
  PROVE  RecommendedIsUndominated
<1> SUFFICES ASSUME compared # <<>>, NEW i \in DOMAIN compared,
                    AtLeastAsGood(compared[i].summary, BestOf(compared).summary),
                    ~ReadsAsMissing(compared[i].summary)
             PROVE  /\ compared[i].score = BestOf(compared).score
                    /\ ReturnKey(compared[i].summary) = ReturnKey(BestOf(compared).summary)
                    /\ DrawdownKey(compared[i].summary) = DrawdownKey(BestOf(compared).summary)
  BY DEF RecommendedIsUndominated
<1> DEFINE first == Ranked(SortKeys(compared))[1]
           best == BestOf(compared)
           run == compared[i]
<1>1. /\ Len(compared) > 0 /\ first \in DOMAIN compared /\ best = compared[first]
      /\ best \in Items /\ run \in Items
  BY BestIsItem
<1>2. /\ IsSummary(run.summary) /\ run.score = Score(run.summary) /\ run.score \in Nat
      /\ IsSummary(best.summary) /\ best.score = Score(best.summary) /\ best.score \in Nat
  BY <1>1, ItemsAre
<1>3. i # first => Ahead(best, run)
  BY <1>1, BestIsAhead
<1> HIDE DEF first, best, run
<1>4. run.score >= best.score
  <2>1. AtLeastAsGood(run.summary, best.summary)
    BY DEF best, run
  <2> QED
    BY <1>2, <2>1, GoodScore
<1>5. /\ ReturnKey(run.summary) >= ReturnKey(best.summary)
      /\ DrawdownKey(run.summary) <= DrawdownKey(best.summary)
  BY <1>2, GoodKeys DEF best, run
<1>6. /\ ReturnKey(run.summary) \in Int /\ ReturnKey(best.summary) \in Int
      /\ DrawdownKey(run.summary) \in Int /\ DrawdownKey(best.summary) \in Int
  BY <1>2, SummaryKeys
<1>7. CASE i = first
  BY <1>1, <1>7 DEF best, run
<1>8. CASE i # first
  <2>1. run.score = best.score /\ ReturnKey(run.summary) = ReturnKey(best.summary)
        /\ DrawdownKey(run.summary) = DrawdownKey(best.summary)
    BY <1>2, <1>3, <1>4, <1>5, <1>6, <1>8 DEF Ahead
  <2> QED
    BY <2>1 DEF best, run
<1> QED
  BY <1>7, <1>8

\* Where every run has a drawdown, the sweep's best is one of those that tie with
\* the recommended run.
LEMMA SweepBestTies ==
  ASSUME NEW runs \in Seq(Items), runs # <<>>,
         FailuresOf(BestOf(runs)) = {},
         \A i \in DOMAIN runs : OrElse(runs[i].summary, "max_drawdown_pct", 0) # 0
  PROVE  LET best == BestOf(runs)
             run == runs[SweepBest(runs)] IN
         /\ run \in Items
         /\ run.score = best.score
         /\ \A metric \in {"total_return_pct", "max_drawdown_pct"} :
              /\ Has(run.summary, metric) /\ Has(best.summary, metric)
              /\ run.summary[metric] = best.summary[metric]
<1> DEFINE first == Ranked(SortKeys(runs))[1]
           top == SweepBest(runs)
           best == BestOf(runs)
           run == runs[top]
           s == run.summary
           t == best.summary
<1>1. /\ Len(runs) > 0 /\ first \in DOMAIN runs /\ best = runs[first] /\ best \in Items
  BY BestIsItem
<1>2. top \in DOMAIN runs /\ run \in Items
  <2>1. top \in DOMAIN runs
    BY <1>1, SweepBestIsAhead
  <2> QED
    BY <2>1
<1>3. /\ first # top => Ahead(best, run)
      /\ first # top => SweepAhead(run, best)
  BY <1>1, <1>2, BestIsAhead, SweepBestIsAhead
<1>4. /\ IsSummary(s) /\ run.score \in Nat /\ IsSummary(t) /\ best.score \in Nat
  BY <1>1, <1>2, ItemsAre
<1>5. Has(t, "total_return_pct") /\ t["total_return_pct"] > 0
  BY <1>1, AcceptedHasTraded
<1>6. /\ Has(s, "max_drawdown_pct") /\ s["max_drawdown_pct"] # 0
      /\ Has(t, "max_drawdown_pct") /\ t["max_drawdown_pct"] # 0
  BY <1>1, <1>2 DEF OrElse
<1>7. /\ \A metric : Has(s, metric) => s[metric] \in Int
      /\ \A metric : Has(t, metric) => t[metric] \in Int
  BY <1>4 DEF IsSummary, Has
<1>8. /\ ReturnKey(t) = t["total_return_pct"] /\ SweepReturnKey(t) = -t["total_return_pct"]
      /\ DrawdownKey(t) = t["max_drawdown_pct"] /\ SweepDrawdownKey(t) = t["max_drawdown_pct"]
      /\ DrawdownKey(s) = s["max_drawdown_pct"] /\ SweepDrawdownKey(s) = s["max_drawdown_pct"]
  BY <1>5, <1>6 DEF ReturnKey, SweepReturnKey, DrawdownKey, SweepDrawdownKey, OrElse
<1>9. /\ Has(s, "total_return_pct") =>
           ReturnKey(s) = s["total_return_pct"] /\ SweepReturnKey(s) = -s["total_return_pct"]
      /\ ~Has(s, "total_return_pct") => SweepReturnKey(s) = Worst
      /\ Worst \in Nat
  BY DEF ReturnKey, SweepReturnKey, Worst
<1>10. CASE first = top
  <2>1. run = best
    BY <1>1, <1>10
  <2> QED
    BY <1>2, <1>5, <1>6, <2>1
<1>11. CASE first # top
  <2> HIDE DEF first, top, best, run, s, t, Worst, ReturnKey, DrawdownKey, SweepReturnKey, SweepDrawdownKey
  <2>1. /\ \/ best.score > run.score
           \/ /\ best.score = run.score
              /\ \/ ReturnKey(t) > ReturnKey(s)
                 \/ ReturnKey(t) = ReturnKey(s) /\ DrawdownKey(t) <= DrawdownKey(s)
        /\ \/ run.score > best.score
           \/ /\ run.score = best.score
              /\ \/ SweepReturnKey(s) < SweepReturnKey(t)
                 \/ SweepReturnKey(s) = SweepReturnKey(t) /\ SweepDrawdownKey(s) <= SweepDrawdownKey(t)
    BY <1>3, <1>11 DEF Ahead, SweepAhead, s, t
  <2>2. run.score = best.score
    BY <1>4, <2>1
  <2>3. /\ \/ ReturnKey(t) > ReturnKey(s)
           \/ ReturnKey(t) = ReturnKey(s) /\ DrawdownKey(t) <= DrawdownKey(s)
        /\ \/ SweepReturnKey(s) < SweepReturnKey(t)
           \/ SweepReturnKey(s) = SweepReturnKey(t) /\ SweepDrawdownKey(s) <= SweepDrawdownKey(t)
    <3>1. ~(best.score > run.score) /\ ~(run.score > best.score)
      BY <1>4, <2>2
    <3> QED
      BY <2>1, <3>1, Zenon
  <2>4. /\ t["total_return_pct"] \in Int /\ t["max_drawdown_pct"] \in Int
        /\ s["max_drawdown_pct"] \in Int
        /\ Has(s, "total_return_pct") => s["total_return_pct"] \in Int
    BY <1>5, <1>6, <1>7
  <2>5. Has(s, "total_return_pct")
    BY <1>5, <1>8, <1>9, <2>3, <2>4
  <2>6. s["total_return_pct"] = t["total_return_pct"]
    BY <1>8, <1>9, <2>3, <2>4, <2>5
  <2>7. s["max_drawdown_pct"] = t["max_drawdown_pct"]
    BY <1>8, <1>9, <2>3, <2>4, <2>5, <2>6
  <2> QED
    BY <1>2, <1>5, <1>6, <2>2, <2>5, <2>6, <2>7 DEF s, t, best, run, top
<1> QED
  BY <1>10, <1>11

\* Which, accepted on its own, is refused for its trades or its profit factor only.
LEMMA TiedIsFit ==
  ASSUME NEW run \in Items, NEW best \in Items, FailuresOf(best) = {},
         run.score = best.score,
         \A metric \in {"total_return_pct", "max_drawdown_pct"} :
           /\ Has(run.summary, metric) /\ Has(best.summary, metric)
           /\ run.summary[metric] = best.summary[metric]
  PROVE  FailuresOf(run) \subseteq {"too_few_trades", "profit_factor_below_minimum"}
<1> DEFINE s == run.summary
           t == best.summary
<1>1. /\ IsSummary(s) /\ run.score = Score(s) /\ run.warnings = ScoreWarnings(s)
      /\ IsSummary(t)
  BY ItemsAre
<1>2. /\ run.score >= Points(70)
      /\ Has(s, "total_return_pct") /\ s["total_return_pct"] > 0
      /\ Has(s, "max_drawdown_pct") /\ s["max_drawdown_pct"] = t["max_drawdown_pct"]
      /\ Has(t, "max_drawdown_pct")
      /\ HasDrawdown(t) => DrawdownPct(t) < 20
  BY AcceptedHasTraded
<1> HIDE DEF s, t
<1>3. s["max_drawdown_pct"] \in Nat
  BY <1>1, <1>2 DEF IsSummary, Has, NeverNegative
<1>4. /\ HasDrawdown(s) /\ DrawdownPct(s) = s["max_drawdown_pct"]
      /\ s["max_drawdown_pct"] < 20
  BY <1>2, <1>3, MagnitudeIsNat DEF HasDrawdown, DrawdownPct
<1>5. s["total_return_pct"] \in Int /\ ReturnPct(s) = s["total_return_pct"]
  BY <1>1, <1>2 DEF ReturnPct, IsSummary, Has
<1>6. ~Severe(run)
  <2>1. "high_drawdown" \notin ScoreWarnings(s)
    BY <1>3, <1>4, WarningsTell
  <2>2. "negative_return" \notin ScoreWarnings(s)
    BY <1>2, <1>5, WarningsTell
  <2>3. "no_trades" \notin ScoreWarnings(s)
    <3> HIDE DEF Weighted
    <3>1. Score(s) >= 21000 /\ Weighted(s) \in Nat
      BY <1>1, <1>2, ScoreIsWeighted DEF Points
    <3>2. ~(HasTrades(s) /\ TradeCount(s) = 0)
      BY <1>1, <3>1, ScoreIsWeighted
    <3> QED
      BY <3>2, WarningsTell
  <2> QED
    BY <1>1, <2>1, <2>2, <2>3 DEF Severe
<1>7. s["max_drawdown_pct"] <= 25
  BY <1>3, <1>4
<1> QED
  BY <1>2, <1>6, <1>7, FailuresTell DEF s

LEMMA SweepAgrees ==
  ASSUME compared \in Seq(Items)
  PROVE  SweepAgreesWithItself
<1> SUFFICES ASSUME compared # <<>>, Accepted(compared)
             PROVE  /\ AcceptedCount(compared) > 0
                    /\ (\A i \in DOMAIN compared : OrElse(compared[i].summary, "max_drawdown_pct", 0) # 0) =>
                         LET best == BestOf(compared)
                             run == compared[SweepBest(compared)] IN
                         /\ run.score = best.score
                         /\ \A metric \in {"total_return_pct", "max_drawdown_pct"} :
                              Has(run.summary, metric) /\ run.summary[metric] = best.summary[metric]
                         /\ AcceptanceFailures(<<run>>)
                              \subseteq {"too_few_trades", "profit_factor_below_minimum"}
  BY DEF SweepAgreesWithItself
<1> DEFINE first == Ranked(SortKeys(compared))[1]
           best == BestOf(compared)
<1>1. /\ Len(compared) \in Nat /\ first \in DOMAIN compared /\ best = compared[first] /\ best \in Items
  BY BestIsItem
<1>2. FailuresOf(best) = {}
  BY <1>1, AcceptedMeans
<1>3. AcceptedCount(compared) > 0
  <2> DEFINE S == {i \in DOMAIN compared : AcceptedAlone(compared, i)}
  <2>1. AcceptedAlone(compared, first)
    BY <1>1, <1>2, AloneIsBest, AcceptedMeans DEF AcceptedAlone
  <2>2. first \in S
    BY <1>1, <2>1
  <2>3. IsFiniteSet(S)
    <3>1. IsFiniteSet(DOMAIN compared) /\ S \in SUBSET DOMAIN compared
      BY <1>1, FS_Interval
    <3> HIDE DEF S
    <3> QED
      BY <3>1, FS_Subset
  <2>4. AcceptedCount(compared) = Cardinality(S)
    BY DEF AcceptedCount
  <2> HIDE DEF S
  <2>5. Cardinality(S) \in Nat /\ Cardinality(S) # 0
    BY <2>2, <2>3, FS_CardinalityType, FS_EmptySet
  <2> QED
    BY <2>4, <2>5
<1>4. ASSUME \A i \in DOMAIN compared : OrElse(compared[i].summary, "max_drawdown_pct", 0) # 0
      PROVE  LET run == compared[SweepBest(compared)] IN
             /\ run.score = best.score
             /\ \A metric \in {"total_return_pct", "max_drawdown_pct"} :
                  Has(run.summary, metric) /\ run.summary[metric] = best.summary[metric]
             /\ AcceptanceFailures(<<run>>) \subseteq {"too_few_trades", "profit_factor_below_minimum"}
  <2> DEFINE run == compared[SweepBest(compared)]
  <2>1. /\ run \in Items /\ run.score = best.score
        /\ \A metric \in {"total_return_pct", "max_drawdown_pct"} :
             /\ Has(run.summary, metric) /\ Has(best.summary, metric)
             /\ run.summary[metric] = best.summary[metric]
    BY <1>2, <1>4, SweepBestTies
  <2> HIDE DEF run, best
  <2>2. FailuresOf(run) \subseteq {"too_few_trades", "profit_factor_below_minimum"}
    BY <1>1, <1>2, <2>1, TiedIsFit
  <2>3. AcceptanceFailures(<<run>>) = FailuresOf(run)
    BY <2>1, AloneIsBest, FailuresAre
  <2> QED
    BY <2>1, <2>2, <2>3 DEF run
<1> QED
  BY <1>3, <1>4

LEMMA StrengthsAgree ==
  ASSUME compared \in Seq(Items)
  PROVE  StrengthsDoNotContradictRisks
<1> SUFFICES ASSUME compared # <<>>,
                    {"total_return_pct", "max_drawdown_pct"} \subseteq DOMAIN BestOf(compared).summary
             PROVE  /\ "acceptable_drawdown" \in Strengths(compared) => "high_drawdown" \notin Risks(compared)
                    /\ /\ "positive_return" \in Strengths(compared)
                       /\ BestOf(compared).summary["total_return_pct"] # 0
                       => "negative_return" \notin Risks(compared)
                    /\ "acceptable_profit_factor" \in Strengths(compared) =>
                         "missing_profit_factor" \notin Risks(compared)
  BY DEF StrengthsDoNotContradictRisks
<1> DEFINE best == BestOf(compared)
           s == best.summary
           codes == AcceptanceFailures(compared) \cup AcceptanceWarnings(compared)
                    \cup RecommendationWarnings(compared)
<1>1. /\ best \in Items /\ IsSummary(s) /\ best.warnings = ScoreWarnings(s)
  BY BestIsItem, ItemsAre
<1>2. /\ Has(s, "total_return_pct") /\ Has(s, "max_drawdown_pct")
      /\ s["total_return_pct"] \in Int /\ s["max_drawdown_pct"] \in Nat
  BY <1>1 DEF Has, IsSummary, NeverNegative
<1>3. /\ HasReturn(s) /\ ReturnPct(s) = s["total_return_pct"]
      /\ HasDrawdown(s) /\ DrawdownPct(s) = s["max_drawdown_pct"]
  BY <1>2, MagnitudeIsNat DEF HasReturn, ReturnPct, HasDrawdown, DrawdownPct
<1>4. /\ "high_drawdown" \in best.warnings <=> s["max_drawdown_pct"] >= 20
      /\ "negative_return" \in best.warnings <=> s["total_return_pct"] < 0
      /\ "infinite_or_unavailable_profit_factor" \in best.warnings <=> ~Has(s, "profit_factor")
  BY <1>1, <1>3, WarningsTell
<1>5. AcceptanceFailures(compared) = FailuresOf(best)
  BY <1>1, FailuresAre
<1> DEFINE F == FailuresOf(best)
           W == AcceptanceWarnings(compared)
           R == RecommendationWarnings(compared)
<1>6. \A code : code \in codes <=> code \in F \/ code \in W \/ code \in R
  BY <1>5
<1>7. /\ "non_positive_return" \in F => s["total_return_pct"] <= 0
      /\ "drawdown_too_high" \in F => s["max_drawdown_pct"] > 25
      /\ "negative_return" \in F => "negative_return" \in best.warnings
      /\ \A code \in {"best_run_has_high_drawdown", "high_drawdown",
                      "best_run_has_negative_return", "missing_profit_factor",
                      "infinite_or_unavailable_profit_factor"} : code \notin F
  BY <1>1, <1>2, FailuresTell
<1>8. /\ "missing_profit_factor" \in W <=> ~Has(s, "profit_factor")
      /\ \A code \in {"drawdown_too_high", "best_run_has_high_drawdown", "high_drawdown",
                      "negative_return", "non_positive_return", "best_run_has_negative_return",
                      "infinite_or_unavailable_profit_factor"} : code \notin W
  BY AcceptanceWarningsTell
<1>9. /\ \A code \in {"best_run_has_high_drawdown", "best_run_has_negative_return",
                      "non_positive_return", "drawdown_too_high", "missing_profit_factor"} :
            code \notin best.warnings
      /\ "best_run_has_high_drawdown" \in R <=> "high_drawdown" \in best.warnings
      /\ "best_run_has_negative_return" \in R <=> "negative_return" \in best.warnings
      /\ \A code \in {"negative_return", "high_drawdown", "non_positive_return", "drawdown_too_high",
                      "missing_profit_factor", "infinite_or_unavailable_profit_factor"} :
            code \in R <=> code \in best.warnings
  BY <1>1, ItemWarns, RecommendationWarningsTell
<1> HIDE DEF codes, F, W, R
<1>10. Risks(compared) = RisksAmong(codes)
  BY DEF Risks, codes
<1>11. /\ "high_drawdown" \in RisksAmong(codes) =>
            \E code \in {"drawdown_too_high", "best_run_has_high_drawdown", "high_drawdown"} : code \in codes
       /\ "negative_return" \in RisksAmong(codes) =>
            \E code \in {"negative_return", "non_positive_return", "best_run_has_negative_return"} :
              code \in codes
       /\ "missing_profit_factor" \in RisksAmong(codes) =>
            \E code \in {"missing_profit_factor", "infinite_or_unavailable_profit_factor"} : code \in codes
  BY DEF RisksAmong, Flag
<1>12. /\ "acceptable_drawdown" \in Strengths(compared) => OrElse(s, "max_drawdown_pct", 0) < 20
       /\ "positive_return" \in Strengths(compared) =>
            OrElse(s, "total_return_pct", OrElse(s, "total_return", 0)) > 0
       /\ "acceptable_profit_factor" \in Strengths(compared) => Has(s, "profit_factor")
  BY DEF Strengths, Reasons, Flag
<1> HIDE DEF best, s
<1>13. ASSUME "acceptable_drawdown" \in Strengths(compared)
       PROVE  "high_drawdown" \notin Risks(compared)
  <2>1. s["max_drawdown_pct"] < 20
    BY <1>2, <1>12, <1>13 DEF OrElse
  <2>2. ~(s["max_drawdown_pct"] >= 20) /\ ~(s["max_drawdown_pct"] > 25)
    BY <1>2, <2>1
  <2>3. "high_drawdown" \notin best.warnings
    BY <1>4, <2>2
  <2>4. \A code \in {"drawdown_too_high", "best_run_has_high_drawdown", "high_drawdown"} : code \notin codes
    BY <1>6, <1>7, <1>8, <1>9, <2>2, <2>3
  <2> QED
    BY <1>10, <1>11, <2>4
<1>14. ASSUME "positive_return" \in Strengths(compared), s["total_return_pct"] # 0
       PROVE  "negative_return" \notin Risks(compared)
  <2>1. s["total_return_pct"] > 0
    BY <1>2, <1>12, <1>14 DEF OrElse
  <2>2. ~(s["total_return_pct"] < 0) /\ ~(s["total_return_pct"] <= 0)
    BY <1>2, <2>1
  <2>3. "negative_return" \notin best.warnings
    BY <1>4, <2>2
  <2>4. \A code \in {"negative_return", "non_positive_return", "best_run_has_negative_return"} :
          code \notin codes
    BY <1>6, <1>7, <1>8, <1>9, <2>2, <2>3
  <2> QED
    BY <1>10, <1>11, <2>4
<1>15. ASSUME "acceptable_profit_factor" \in Strengths(compared)
       PROVE  "missing_profit_factor" \notin Risks(compared)
  <2>1. Has(s, "profit_factor")
    BY <1>12, <1>15
  <2>2. \A code \in {"missing_profit_factor", "infinite_or_unavailable_profit_factor"} : code \notin codes
    BY <1>4, <1>6, <1>7, <1>8, <1>9, <2>1
  <2> QED
    BY <1>10, <1>11, <2>2
<1> QED
  BY <1>13, <1>14, <1>15 DEF s, best

LEMMA ComparedHolds ==
  ASSUME compared \in Seq(Items)
  PROVE  ComparisonsHold
BY SoundWhenAccepted, BestIsUndominated, SweepAgrees, StrengthsAgree DEF ComparisonsHold

LEMMA CompareRunKeepsItems ==
  ASSUME compared \in Seq(Items), CompareRun
  PROVE  compared' \in Seq(Items)
<1>1. PICK s \in Summaries, place \in 1..MaxRuns : compared' = Append(compared, Item(s, place))
  BY DEF CompareRun
<1>2. Item(s, place) \in Items
  BY DEF Items
<1> QED
  BY <1>1, <1>2

\* Whatever runs are compared, with whatever metrics known or missing: an
\* accepted run has earned it, nobody at least as good in every metric is ranked
\* behind the recommended one, a sweep agrees with itself, and no strength
\* contradicts a risk (backtest_run_comparison.py, backtest_parameter_sweep.py).
THEOREM ComparisonsHoldAlways == ComparisonSpec => []ComparisonsHold
<1>1. ComparisonInit => compared \in Seq(Items)
  BY DEF ComparisonInit
<1>2. compared \in Seq(Items) /\ [CompareRun]_compared => (compared \in Seq(Items))'
  BY CompareRunKeepsItems
<1>3. compared \in Seq(Items) => ComparisonsHold
  BY ComparedHolds
<1> QED
  BY <1>1, <1>2, <1>3, PTL DEF ComparisonSpec

----------------------------------------------------------------------------
(* Reports: scores and advice                                              *)

\* Names come with the runs; nothing is known of them.
LEMMA HasGreatest ==
  ASSUME NEW n \in Nat, NEW S \in SUBSET (1..n), S # {}
  PROVE  Max(S) \in S /\ \A x \in S : Max(S) >= x
<1> DEFINE T == {n - k : k \in S}
<1>1. T \in SUBSET Nat /\ T # {}
  <2>1. \A k \in S : k \in 1..n /\ n - k \in Nat
    OBVIOUS
  <2> QED
    BY <2>1
<1>2. PICK m \in T : \A l \in T : m <= l
  <2> HIDE DEF T
  <2> QED
    BY <1>1, HasLeast
<1>3. PICK k \in S : m = n - k
  BY <1>2
<1>4. \A x \in S : k >= x
  <2> SUFFICES ASSUME NEW x \in S PROVE k >= x
    OBVIOUS
  <2>1. m <= n - x
    BY <1>2
  <2> QED
    BY <1>3, <2>1
<1> QED
  BY <1>4 DEF Max

LEMMA HydratedIsScored ==
  ASSUME NEW runs \in Seq(Items), NEW names
  PROVE  /\ AreScored(Hydrated(runs, names), Len(runs))
         /\ (\A i, j \in DOMAIN runs : names[i] = names[j] => i = j) => Hydrated(runs, names) = runs
<1> DEFINE n == Len(runs)
           ranked == Ranked(SortKeys(runs))
           Places(name) == {k \in DOMAIN runs : names[ranked[k]] = name}
<1>1. n \in Nat /\ DOMAIN runs = 1..n
  OBVIOUS
<1>2. AreKeys(SortKeys(runs), n, 4)
  BY ItemsAreScored, SortKeysRank
<1>3. /\ ranked \in [1..n -> 1..n]
      /\ \A i, j \in 1..n : ranked[i] = ranked[j] => i = j
      /\ \A k \in 1..n : \E i \in 1..n : ranked[i] = k
  BY <1>2, RankedRanks
<1>4. Hydrated(runs, names) =
        [i \in 1..n |-> [runs[i] EXCEPT !.score = runs[ranked[Max(Places(names[i]))]].score]]
  BY <1>1 DEF Hydrated
<1> HIDE DEF ranked
<1>5. ASSUME NEW i \in 1..n
      PROVE  /\ Max(Places(names[i])) \in 1..n
             /\ names[ranked[Max(Places(names[i]))]] = names[i]
  <2>1. PICK k \in 1..n : ranked[k] = i
    BY <1>3
  <2>2. k \in Places(names[i]) /\ Places(names[i]) \in SUBSET (1..n)
    BY <1>1, <2>1
  <2>3. Max(Places(names[i])) \in Places(names[i])
    <3> HIDE DEF Places, n
    <3> QED
      BY <1>1, <2>2, HasGreatest
  <2> QED
    BY <1>1, <2>3
<1> HIDE DEF Places
<1>6. \A i \in 1..n : /\ IsSummary(runs[i].summary) /\ runs[i].score \in Nat
                      /\ runs[i] = [summary |-> runs[i].summary, place |-> runs[i].place,
                                    score |-> runs[i].score, warnings |-> runs[i].warnings]
  <2> SUFFICES ASSUME NEW i \in 1..n
               PROVE  /\ IsSummary(runs[i].summary) /\ runs[i].score \in Nat
                      /\ runs[i] = [summary |-> runs[i].summary, place |-> runs[i].place,
                                    score |-> runs[i].score, warnings |-> runs[i].warnings]
    OBVIOUS
  <2>1. runs[i] \in Items
    OBVIOUS
  <2>2. PICK s \in Summaries, place \in 1..MaxRuns : runs[i] = Item(s, place)
    BY <2>1 DEF Items
  <2> QED
    BY <2>1, <2>2, ItemsAre DEF Item
<1> HIDE DEF n
<1>7. AreScored(Hydrated(runs, names), n)
  <2> DEFINE found == Hydrated(runs, names)
  <2>1. DOMAIN found = 1..n
    BY <1>4
  <2>2. ASSUME NEW i \in 1..n
        PROVE  IsSummary(found[i].summary) /\ found[i].score \in Nat
    <3>1. PICK k \in 1..n : k = ranked[Max(Places(names[i]))]
      BY <1>3, <1>5
    <3>2. found[i] = [runs[i] EXCEPT !.score = runs[k].score]
      BY <1>4, <3>1
    <3> HIDE DEF found
    <3>3. found[i].summary = runs[i].summary /\ found[i].score = runs[k].score
      BY <1>6, <3>2
    <3> QED
      BY <1>6, <3>3
  <2> QED
    BY <1>1, <2>1, <2>2 DEF AreScored
<1>8. ASSUME \A i, j \in DOMAIN runs : names[i] = names[j] => i = j
      PROVE  Hydrated(runs, names) = runs
  <2>1. ASSUME NEW i \in 1..n
        PROVE  [runs[i] EXCEPT !.score = runs[ranked[Max(Places(names[i]))]].score] = runs[i]
    <3>1. ranked[Max(Places(names[i]))] = i
      <4>1. PICK k \in 1..n : k = ranked[Max(Places(names[i]))]
        BY <1>3, <1>5
      <4>2. names[k] = names[i]
        BY <1>5, <4>1
      <4> QED
        BY <1>1, <1>8, <4>1, <4>2
    <3>2. [runs[i] EXCEPT !.score = runs[i].score] = runs[i]
      BY <1>6
    <3> QED
      BY <3>1, <3>2
  <2>2. runs = [i \in 1..n |-> runs[i]]
    BY <1>1
  <2> QED
    BY <1>4, <2>1, <2>2
<1> QED
  BY <1>7, <1>8 DEF n

Statuses == {"no_valid_runs", "recommended", "weak_recommendation", "not_recommended"}
Acceptances == {"not_evaluated", "rejected", "accepted_with_warnings", "accepted"}

\* The places an advice names are places of runs.
LEMMA AdviceIsTyped ==
  ASSUME NEW runs, NEW n, AreScored(runs, n), Len(runs) = n
  PROVE  /\ Advice(runs).status \in Statuses /\ Advice(runs).acceptance \in Acceptances
         /\ Advice(runs).named \in Seq(1..n)
<1>1. Ranked(SortKeys(runs)) \in [1..n -> 1..n] /\ n \in Nat
  BY SortKeysRank, RankedRanks DEF AreScored
<1>2. Min({3, n}) = IF 3 <= n THEN 3 ELSE n
  BY <1>1, MinOfTwo
<1>3. SubSeq(Ranked(SortKeys(runs)), 1, Min({3, n})) \in Seq(1..n)
  <2> DEFINE ranked == Ranked(SortKeys(runs))
             m == Min({3, n})
  <2>1. m \in 0..n
    BY <1>1, <1>2
  <2>2. ranked \in [1..n -> 1..n]
    BY <1>1
  <2> HIDE DEF ranked, m
  <2>3. SubSeq(ranked, 1, m) = [i \in 1..m |-> ranked[i]]
    BY <1>1, <2>1, <2>2
  <2>4. \A i \in 1..m : ranked[i] \in 1..n
    BY <1>1, <2>1, <2>2
  <2>5. [i \in 1..m |-> ranked[i]] \in Seq(1..n)
    BY <1>1, <2>1, <2>4
  <2> QED
    BY <2>3, <2>5 DEF ranked, m
<1>4. RecommendationStatus(runs) \in Statuses
  BY DEF RecommendationStatus, Statuses
<1>5. Acceptance(runs) \in Acceptances
  BY DEF Acceptance, Acceptances
<1> QED
  BY <1>3, <1>4, <1>5 DEF Advice

LEMMA LengthIs ==
  ASSUME NEW f, NEW n \in Nat, DOMAIN f = 1..n, f = [i \in DOMAIN f |-> f[i]]
  PROVE  f \in Seq({f[i] : i \in 1..n}) /\ Len(f) = n
<1>1. \A i \in 1..n : f[i] \in {f[j] : j \in 1..n}
  OBVIOUS
<1>2. f \in [1..n -> {f[j] : j \in 1..n}]
  BY <1>1
<1> QED
  BY <1>2

LEMMA AdviceOfIsTyped ==
  ASSUME NEW runs \in Seq(Items), NEW names, NEW scores \in ScoreSources
  PROVE  LET advice == AdviceOf(scores, runs, names) IN
         /\ advice.status \in Statuses /\ advice.acceptance \in Acceptances
         /\ advice.named \in Seq(1..Len(runs))
<1>1. Len(runs) \in Nat
  OBVIOUS
<1>2. CASE scores = "runs"
  <2>1. AdviceOf(scores, runs, names) = Advice(runs)
    BY <1>2 DEF AdviceOf
  <2> QED
    BY <2>1, ItemsAreScored, AdviceIsTyped
<1>3. CASE scores = "rankings"
  <2>1. AdviceOf(scores, runs, names) = Advice(Hydrated(runs, names))
    BY <1>3 DEF AdviceOf
  <2>2. AreScored(Hydrated(runs, names), Len(runs))
    BY HydratedIsScored
  <2>3. Hydrated(runs, names) = [i \in DOMAIN Hydrated(runs, names) |-> Hydrated(runs, names)[i]]
    BY DEF Hydrated
  <2>4. Len(Hydrated(runs, names)) = Len(runs)
    BY <1>1, <2>2, <2>3, LengthIs DEF AreScored
  <2> QED
    BY <2>1, <2>2, <2>4, AdviceIsTyped
<1>4. CASE scores = "nowhere"
  <2>1. AdviceOf(scores, runs, names) = Advice(<<>>)
    BY <1>4 DEF AdviceOf
  <2>2. AreScored(<<>>, 0) /\ Len(<<>>) = 0
    BY DEF AreScored
  <2>3. Advice(<<>>).named \in Seq(1..0)
    BY <2>2, AdviceIsTyped
  <2>4. Advice(<<>>).named \in Seq(1..Len(runs))
    BY <1>1, <2>3
  <2> QED
    BY <2>1, <2>2, <2>4, AdviceIsTyped
<1> QED
  BY <1>2, <1>3, <1>4 DEF ScoreSources

----------------------------------------------------------------------------
(* Reports: the file                                                       *)

Refs == [name : ToSet(NameOrder), path : Forms]
Advices == [status : Statuses, acceptance : Acceptances, named : Seq(Refs)]
Reports == [runs : Seq(Refs), count : Nat, rows : Nat, ranked : SUBSET Refs,
            advice : Advices \cup {NoAdvice}, scores : ScoreSources, rooted : BOOLEAN]

\* All that a report says of runs.
AllRefs(file) == ToSet(file.runs) \cup file.ranked \cup Named(file)

\* As it was written: complete, and with paths the validator takes where names do.
IsWhole(file) ==
  /\ file.count = Len(file.runs) /\ file.rows = Len(file.runs)
  /\ file.ranked = ToSet(file.runs) /\ Named(file) \subseteq ToSet(file.runs)
  /\ file.rooted => \A ref \in ToSet(file.runs) : ref.path = "relative" \/ ref.name = ".."

\* No path that names a place outside is left in a report that has a root.
IsRooted(file) == file.rooted => \A ref \in AllRefs(file) : ref.path # "absolute"

LEMMA PathsAre ==
  ASSUME NEW form \in Forms, NEW inside \in BOOLEAN, NEW rooted \in BOOLEAN
  PROVE  /\ SafeRunPath(form, inside, rooted) \in Forms
         /\ rooted => SafeRunPath(form, inside, rooted) \in {"relative", "parent"}
         /\ rooted /\ form # "parent" => SafeRunPath(form, inside, rooted) = "relative"
         /\ form # "absolute" => SafeRunPath(form, inside, rooted) # "absolute"
BY DEF SafeRunPath, Forms

LEMMA ReferencesAre ==
  ASSUME NEW dir \in RunDirs, NEW rooted \in BOOLEAN
  PROVE  /\ Reference(dir, rooted) \in Refs
         /\ Reference(dir, rooted).name = dir.name
         /\ rooted => /\ Reference(dir, rooted).path # "absolute"
                      /\ Reference(dir, rooted).path = "relative" \/ dir.name = ".."
<1>1. /\ dir.name \in ToSet(NameOrder) /\ dir.form \in Forms
      /\ dir.form = "parent" <=> dir.name = ".."
  BY ReportAssumption
<1>2. /\ SafeRunPath(dir.form, dir.inside, rooted) \in Forms
      /\ rooted => SafeRunPath(dir.form, dir.inside, rooted) \in {"relative", "parent"}
      /\ rooted /\ dir.form # "parent" => SafeRunPath(dir.form, dir.inside, rooted) = "relative"
  BY <1>1 DEF SafeRunPath, Forms
<1> QED
  BY <1>1, <1>2 DEF Reference, Refs

LEMMA WrittenIs ==
  ASSUME NEW runs \in Seq(Items), NEW dirs \in [DOMAIN runs -> RunDirs],
         NEW rooted \in BOOLEAN, NEW scores \in ScoreSources
  PROVE  LET file == BuiltReport(runs, dirs, rooted, scores) IN
         /\ file \in Reports /\ IsWhole(file) /\ IsRooted(file)
         /\ {dirs[i].name : i \in DOMAIN dirs} = {ref.name : ref \in file.ranked}
<1> DEFINE n == Len(runs)
           references == [i \in DOMAIN dirs |-> Reference(dirs[i], rooted)]
           advice == AdviceOf(scores, runs, [i \in DOMAIN dirs |-> dirs[i].name])
           named == [k \in DOMAIN advice.named |-> references[advice.named[k]]]
           file == BuiltReport(runs, dirs, rooted, scores)
<1>1. file = [runs |-> references, count |-> n, rows |-> n, ranked |-> ToSet(references),
              advice |-> [status |-> advice.status, acceptance |-> advice.acceptance, named |-> named],
              scores |-> scores, rooted |-> rooted]
  BY DEF BuiltReport
<1>2. /\ n \in Nat /\ DOMAIN runs = 1..n /\ DOMAIN dirs = 1..n
      /\ \A i \in 1..n : dirs[i] \in RunDirs
  OBVIOUS
<1>3. /\ advice.status \in Statuses /\ advice.acceptance \in Acceptances
      /\ advice.named \in Seq(1..n)
  BY AdviceOfIsTyped
<1>4. /\ DOMAIN references = 1..n
      /\ \A i \in 1..n : /\ references[i] \in Refs
                         /\ references[i].name = dirs[i].name
                         /\ rooted => /\ references[i].path # "absolute"
                                      /\ references[i].path = "relative" \/ references[i].name = ".."
  BY <1>2, ReferencesAre
<1>5. references = [i \in 1..n |-> references[i]]
  BY <1>2
<1> HIDE DEF references, advice
<1>6. references \in Seq(Refs) /\ Len(references) = n
  <2>1. references \in [1..n -> Refs]
    BY <1>4, <1>5
  <2> QED
    BY <1>2, <2>1
<1>7. /\ named \in Seq(Refs)
      /\ ToSet(named) \subseteq ToSet(references)
  <2> DEFINE m == Len(advice.named)
  <2>1. m \in Nat /\ DOMAIN advice.named = 1..m /\ \A k \in 1..m : advice.named[k] \in 1..n
    BY <1>3
  <2>2. named = [k \in 1..m |-> references[advice.named[k]]]
    BY <2>1
  <2> HIDE DEF m
  <2>3. \A k \in 1..m : references[advice.named[k]] \in Refs
    BY <1>4, <2>1
  <2>4. named \in Seq(Refs)
    BY <2>1, <2>2, <2>3
  <2>5. ToSet(named) \subseteq ToSet(references)
    BY <1>4, <2>1, <2>2 DEF ToSet
  <2> QED
    BY <2>4, <2>5
<1>8. ToSet(references) = {references[i] : i \in 1..n}
  BY <1>4 DEF ToSet
<1>9. ToSet(references) \in SUBSET Refs
  BY <1>4, <1>8
<1>10. [status |-> advice.status, acceptance |-> advice.acceptance, named |-> named] \in Advices
  BY <1>3, <1>7 DEF Advices
<1> DEFINE given == [status |-> advice.status, acceptance |-> advice.acceptance, named |-> named]
<1>11. given.named = named
  OBVIOUS
<1> HIDE DEF named, given
<1>12. file \in Reports
  BY <1>1, <1>2, <1>6, <1>9, <1>10 DEF Reports, given
<1>13. /\ file.runs = references /\ file.count = n /\ file.rows = n /\ file.ranked = ToSet(references)
       /\ file.advice = given /\ file.rooted = rooted
  BY <1>1 DEF given
<1> HIDE DEF file
<1>14. Named(file) \subseteq ToSet(references)
  <2>1. Named(file) = {} \/ Named(file) = ToSet(named)
    BY <1>11, <1>13 DEF Named
  <2> QED
    BY <1>7, <2>1
<1>15. IsWhole(file)
  BY <1>4, <1>6, <1>8, <1>13, <1>14 DEF IsWhole
<1>16. IsRooted(file)
  BY <1>4, <1>8, <1>13, <1>14 DEF IsRooted, AllRefs
<1>17. {dirs[i].name : i \in DOMAIN dirs} = {ref.name : ref \in file.ranked}
  BY <1>2, <1>4, <1>8, <1>13
<1> QED
  BY <1>12, <1>15, <1>16, <1>17 DEF file

NamesIn(refs) == {ref.name : ref \in refs}

\* A report shows no absolute path once it had a root, its rankings name every run
\* that was exported, and as written it is whole and advises what was compared.
ReportInv ==
  /\ compared \in Seq(Items) /\ changes \in Nat
  /\ report # NoReport =>
       /\ report \in Reports /\ IsRooted(report)
       /\ exported \subseteq NamesIn(report.ranked)
       /\ changes = 0 => IsWhole(report) /\ exported = NamesIn(report.ranked)
  /\ RebuiltAdviceAgrees

LEMMA ReportInvHolds == ReportInv => ReportsHold
<1> SUFFICES ASSUME ReportInv PROVE ReportsHold
  OBVIOUS
<1>1. ASSUME report # NoReport, report.rooted
      PROVE  \A ref \in ToSet(report.runs) \cup report.ranked \cup Named(report) : ref.path # "absolute"
  BY <1>1 DEF ReportInv, IsRooted, AllRefs
<1>2. ASSUME report # NoReport, report.rooted, changes = 0, exported \cap {"", ".."} = {}
      PROVE  Errors(report) = {}
  <2>1. /\ report.count = Len(report.runs) /\ report.rows = Len(report.runs)
        /\ report.ranked = ToSet(report.runs) /\ Named(report) \subseteq ToSet(report.runs)
        /\ \A ref \in ToSet(report.runs) : ref.path = "relative" \/ ref.name = ".."
        /\ exported = NamesIn(ToSet(report.runs))
    BY <1>2 DEF ReportInv, IsWhole
  <2>2. \A ref \in ToSet(report.runs) : ref.name # "" /\ ref.name # ".."
    BY <1>2, <2>1 DEF NamesIn
  <2>3. \A ref \in ToSet(report.runs) : ref.name \in RunNames(report)
    BY <2>2 DEF RunNames
  <2>4. UnknownRanked(report) \cup UnknownAdvised(report) = {}
    BY <2>1, <2>3 DEF UnknownRanked, UnknownAdvised, Unknown
  <2>5. \A ref \in ToSet(report.runs) \cup report.ranked \cup Named(report) : ~UnsafePath(ref.path)
    BY <2>1, <2>2 DEF UnsafePath
  <2> QED
    BY <2>1, <2>2, <2>4, <2>5 DEF Errors, Flag
<1>3. RootedReportsPass
  BY <1>1, <1>2 DEF RootedReportsPass
<1>4. MissingRunsShow
  <2> SUFFICES ASSUME report # NoReport, ~(exported \subseteq RunNames(report))
               PROVE  Errors(report) # {}
    BY DEF MissingRunsShow
  <2>1. PICK name \in exported : name \notin RunNames(report)
    OBVIOUS
  <2>2. PICK ref \in report.ranked : ref.name = name
    BY <2>1 DEF ReportInv, NamesIn
  <2>3. ref \in UnknownRanked(report)
    BY <2>1, <2>2 DEF UnknownRanked, Unknown
  <2>4. "unknown_run" \in Errors(report)
    BY <2>3 DEF Errors, Flag
  <2> QED
    BY <2>4
<1> QED
  BY <1>3, <1>4 DEF ReportsHold, ReportInv

\* With names of their own the runs are found in the rankings with their scores.
LEMMA ExportAdvises ==
  ASSUME compared \in Seq(Items), Export
  PROVE  RebuiltAdviceAgrees'
<1>1. PICK dirs \in OrderedDirs(DOMAIN compared), rooted \in BOOLEAN, scores \in ScoreSources :
        /\ report' = BuiltReport(compared, dirs, rooted, scores)
        /\ exported' = {dirs[i].name : i \in DOMAIN dirs}
  BY DEF Export
<1>2. compared' = compared /\ changes' = 0
  BY DEF Export
<1> DEFINE n == Len(compared)
           names == [i \in DOMAIN dirs |-> dirs[i].name]
           references == [i \in DOMAIN dirs |-> Reference(dirs[i], rooted)]
<1>3. n \in Nat /\ DOMAIN compared = 1..n /\ dirs \in [1..n -> RunDirs]
  BY DEF OrderedDirs
<1> SUFFICES ASSUME report'.scores = "rankings", Cardinality(exported') = n
             PROVE  /\ report'.advice.status = Advice(compared).status
                    /\ report'.advice.acceptance = Advice(compared).acceptance
                    /\ report'.advice.named = [k \in DOMAIN Advice(compared).named |->
                                                 report'.runs[Advice(compared).named[k]]]
  BY <1>2 DEF RebuiltAdviceAgrees
<1>4. report'.runs = references /\ report'.scores = scores
      /\ LET advice == AdviceOf(scores, compared, names) IN
         report'.advice = [status |-> advice.status, acceptance |-> advice.acceptance,
                           named |-> [k \in DOMAIN advice.named |-> references[advice.named[k]]]]
  BY <1>1 DEF BuiltReport
<1>5. \A i, j \in DOMAIN compared : names[i] = names[j] => i = j
  <2> DEFINE S == 1..n
             T == {dirs[i].name : i \in DOMAIN dirs}
  <2>1. IsFiniteSet(S) /\ Cardinality(S) = n
    <3>1. n \in Nat
      BY <1>3
    <3> HIDE DEF n
    <3> QED
      BY <3>1, FS_Interval
  <2>2. DOMAIN names = S /\ \A i \in S : names[i] \in T
    BY <1>3
  <2>3. \A t \in T : \E i \in S : names[i] = t
    BY <1>3
  <2>4. names \in [S -> T]
    <3>1. names = [i \in S |-> names[i]]
      BY <1>3
    <3> QED
      BY <2>2, <3>1
  <2>5. T = exported'
    BY <1>1
  <2> HIDE DEF S, T, names, n
  <2>6. names \in Surjection(S, T)
    BY <2>3, <2>4 DEF Surjection
  <2>7. names \in Injection(S, T)
    BY <2>1, <2>5, <2>6, FS_Surjection
  <2>8. \A i, j \in S : names[i] = names[j] => i = j
    BY <2>7 DEF Injection, IsInjective
  <2> QED
    BY <1>3, <2>8 DEF S
<1>6. Hydrated(compared, names) = compared
  BY <1>5, HydratedIsScored
<1>7. AdviceOf(scores, compared, names) = Advice(compared)
  BY <1>4, <1>6 DEF AdviceOf
<1> HIDE DEF references, names
<1> QED
  BY <1>4, <1>7

LEMMA ExportInv ==
  ASSUME ReportInv, Export
  PROVE  ReportInv'
<1>1. PICK dirs \in OrderedDirs(DOMAIN compared), rooted \in BOOLEAN, scores \in ScoreSources :
        /\ report' = BuiltReport(compared, dirs, rooted, scores)
        /\ exported' = {dirs[i].name : i \in DOMAIN dirs}
  BY DEF Export
<1>2. compared' = compared /\ changes' = 0 /\ compared \in Seq(Items)
  BY DEF Export, ReportInv
<1>3. dirs \in [DOMAIN compared -> RunDirs]
  BY DEF OrderedDirs
<1>4. /\ report' \in Reports /\ IsWhole(report') /\ IsRooted(report')
      /\ exported' = NamesIn(report'.ranked)
  BY <1>1, <1>2, <1>3, WrittenIs DEF NamesIn
<1>5. RebuiltAdviceAgrees'
  BY <1>2, ExportAdvises
<1> QED
  BY <1>2, <1>4, <1>5 DEF ReportInv

\* What a change has to keep.
LEMMA ChangeInv ==
  ASSUME ReportInv, NEW file, Change(file),
         file \in Reports, IsRooted(file), file.ranked \in SUBSET Refs,
         NamesIn(file.ranked) = NamesIn(report.ranked)
  PROVE  ReportInv'
<1>1. /\ report # NoReport /\ report' = file /\ changes' = changes + 1
      /\ compared' = <<>> /\ exported' = exported
  BY DEF Change
<1>2. changes' \in Nat /\ changes' # 0 /\ compared' \in Seq(Items)
  BY <1>1 DEF ReportInv
<1>3. exported' \subseteq NamesIn(report'.ranked)
  BY <1>1 DEF ReportInv
<1>4. RebuiltAdviceAgrees'
  BY <1>2 DEF RebuiltAdviceAgrees
<1> QED
  BY <1>1, <1>2, <1>3, <1>4 DEF ReportInv
LEMMA DropRunInv ==
  ASSUME ReportInv, report # NoReport, DropRun
  PROVE  ReportInv'
<1>1. PICK i \in DOMAIN report.runs, recounted \in SUBSET {"count", "rows"} :
        Change([report EXCEPT !.runs = RemoveAt(report.runs, i),
                              !.count = IF "count" \in recounted THEN Len(RemoveAt(report.runs, i)) ELSE @,
                              !.rows = IF "rows" \in recounted THEN Len(RemoveAt(report.runs, i)) ELSE @])
  BY DEF DropRun
<1> DEFINE runs == report.runs
           left == RemoveAt(runs, i)
           count == IF "count" \in recounted THEN Len(left) ELSE report.count
           rows == IF "rows" \in recounted THEN Len(left) ELSE report.rows
           file == [report EXCEPT !.runs = left, !.count = count, !.rows = rows]
<1>2. /\ report \in Reports /\ IsRooted(report) /\ runs \in Seq(Refs)
      /\ report.ranked \in SUBSET Refs /\ report.count \in Nat /\ report.rows \in Nat
  BY DEF ReportInv, Reports
<1>3. left \in Seq(Refs) /\ ToSet(left) \subseteq ToSet(runs)
  <2> HIDE DEF runs
  <2>1. Len(runs) \in Nat /\ DOMAIN runs = 1..Len(runs) /\ i \in 1..Len(runs)
    BY <1>2 DEF runs
  <2> DEFINE T == ToSet(runs)
             a == SubSeq(runs, 1, i - 1)
             c == SubSeq(runs, i + 1, Len(runs))
  <2>2. T \in SUBSET Refs /\ runs \in Seq(T)
    <3>1. \A k \in 1..Len(runs) : runs[k] \in T /\ runs[k] \in Refs
      BY <1>2, <2>1 DEF ToSet
    <3>2. T \in SUBSET Refs
      BY <2>1, <3>1 DEF ToSet
    <3>3. runs = [k \in 1..Len(runs) |-> runs[k]]
      BY <1>2, <2>1
    <3> HIDE DEF T
    <3>4. [k \in 1..Len(runs) |-> runs[k]] \in [1..Len(runs) -> T]
      BY <3>1
    <3>5. runs \in [1..Len(runs) -> T]
      BY <3>3, <3>4
    <3> QED
      BY <2>1, <3>2, <3>5
  <2> HIDE DEF T
  <2>3. a \in Seq(T) /\ c \in Seq(T)
    BY <2>1, <2>2
  <2>4. left = a \o c
    BY DEF RemoveAt
  <2> HIDE DEF a, c, left
  <2>5. left \in Seq(T)
    BY <2>3, <2>4
  <2>6. left \in Seq(Refs)
    BY <2>2, <2>5
  <2> QED
    BY <2>5, <2>6 DEF ToSet, T
<1>4. count \in Nat /\ rows \in Nat
  BY <1>2, <1>3
<1>5. Change(file)
  BY <1>1
<1> HIDE DEF left, count, rows
<1>6. /\ file.runs = left /\ file.ranked = report.ranked /\ file.advice = report.advice
      /\ file.rooted = report.rooted /\ file \in Reports
  BY <1>2, <1>3, <1>4 DEF Reports
<1> HIDE DEF file
<1>7. AllRefs(file) \subseteq AllRefs(report)
  BY <1>3, <1>6 DEF AllRefs, Named
<1>8. IsRooted(file)
  BY <1>2, <1>6, <1>7 DEF IsRooted
<1> QED
  BY <1>2, <1>5, <1>6, <1>8, ChangeInv

LEMMA RenameRunInv ==
  ASSUME ReportInv, report # NoReport, RenameRun
  PROVE  ReportInv'
<1>1. PICK i \in DOMAIN report.runs, name \in ToSet(NameOrder) :
        Change([report EXCEPT !.runs[i].name = name])
  BY DEF RenameRun
<1> DEFINE runs == report.runs
           renamed == [runs EXCEPT ![i] = [runs[i] EXCEPT !.name = name]]
           file == [report EXCEPT !.runs = renamed]
<1>2. /\ report \in Reports /\ IsRooted(report) /\ runs \in Seq(Refs)
      /\ report.ranked \in SUBSET Refs
  BY DEF ReportInv, Reports
<1>3. renamed \in Seq(Refs) /\ \A k \in DOMAIN renamed : k \in DOMAIN runs /\ renamed[k].path = runs[k].path
  <2> HIDE DEF runs
  <2>1. runs[i] \in Refs /\ i \in DOMAIN runs
    BY <1>2 DEF runs
  <2>2. [runs[i] EXCEPT !.name = name] \in Refs /\ [runs[i] EXCEPT !.name = name].path = runs[i].path
    BY <2>1 DEF Refs
  <2> QED
    BY <1>2, <2>1, <2>2
<1>4. Change(file)
  BY <1>1
<1> HIDE DEF renamed
<1>5. /\ file.runs = renamed /\ file.ranked = report.ranked /\ file.advice = report.advice
      /\ file.rooted = report.rooted /\ file \in Reports
  BY <1>2, <1>3 DEF Reports
<1> HIDE DEF file
<1>6. \A ref \in AllRefs(file) : \E old \in AllRefs(report) : ref.path = old.path
  BY <1>3, <1>5 DEF AllRefs, Named, ToSet
<1>7. IsRooted(file)
  BY <1>2, <1>5, <1>6 DEF IsRooted
<1> QED
  BY <1>2, <1>4, <1>5, <1>7, ChangeInv

LEMMA StripAdviceInv ==
  ASSUME ReportInv, report # NoReport, StripAdvice
  PROVE  ReportInv'
<1> DEFINE file == [report EXCEPT !.advice = NoAdvice]
<1>1. Change(file)
  BY DEF StripAdvice
<1>2. /\ report \in Reports /\ IsRooted(report) /\ report.ranked \in SUBSET Refs
  BY DEF ReportInv, Reports
<1>3. /\ file.runs = report.runs /\ file.ranked = report.ranked /\ file.advice = NoAdvice
      /\ file.rooted = report.rooted /\ file \in Reports
  BY <1>2 DEF Reports
<1> HIDE DEF file
<1>4. AllRefs(file) \subseteq AllRefs(report)
  BY <1>3 DEF AllRefs, Named
<1>5. IsRooted(file)
  BY <1>2, <1>3, <1>4 DEF IsRooted
<1> QED
  BY <1>1, <1>2, <1>3, <1>5, ChangeInv

LEMMA ReExportInv ==
  ASSUME ReportInv, report # NoReport, ReExport
  PROVE  ReportInv'
<1> DEFINE Again(ref, rooted, inside) == [ref EXCEPT !.path = SafeRunPath(ref.path, inside, rooted)]
           None == [status |-> "no_valid_runs", acceptance |-> "not_evaluated", named |-> <<>>]
           runs == report.runs
           advice == report.advice
<1>1. PICK rooted \in BOOLEAN, inside \in BOOLEAN :
        Change([report EXCEPT
          !.runs = [i \in DOMAIN runs |-> Again(runs[i], rooted, inside)],
          !.count = Len([i \in DOMAIN runs |-> Again(runs[i], rooted, inside)]),
          !.rows = Len([i \in DOMAIN runs |-> Again(runs[i], rooted, inside)]),
          !.ranked = {Again(ref, rooted, inside) : ref \in report.ranked},
          !.advice = IF advice = NoAdvice THEN None
                     ELSE [advice EXCEPT !.named = [k \in DOMAIN advice.named |->
                                                      Again(advice.named[k], rooted, inside)]],
          !.rooted = report.rooted \/ rooted])
  BY DEF ReExport
<1> DEFINE Moved(ref) == Again(ref, rooted, inside)
           moved == [i \in DOMAIN runs |-> Moved(runs[i])]
           ranked == {Moved(ref) : ref \in report.ranked}
           again == [k \in DOMAIN advice.named |-> Moved(advice.named[k])]
           newAdvice == IF advice = NoAdvice THEN None ELSE [advice EXCEPT !.named = again]
           file == [report EXCEPT !.runs = moved, !.count = Len(moved), !.rows = Len(moved),
                                  !.ranked = ranked, !.advice = newAdvice,
                                  !.rooted = report.rooted \/ rooted]
<1>2. Change(file)
  BY <1>1
<1>3. /\ report \in Reports /\ IsRooted(report) /\ runs \in Seq(Refs)
      /\ report.ranked \in SUBSET Refs /\ report.rooted \in BOOLEAN
      /\ advice # NoAdvice => advice \in Advices
  BY DEF ReportInv, Reports
<1>4. ASSUME NEW ref \in Refs
      PROVE  /\ Moved(ref) \in Refs /\ Moved(ref).name = ref.name
             /\ rooted => Moved(ref).path # "absolute"
             /\ ref.path # "absolute" => Moved(ref).path # "absolute"
  <2>1. ref.path \in Forms
    BY DEF Refs
  <2>2. /\ SafeRunPath(ref.path, inside, rooted) \in Forms
        /\ rooted => SafeRunPath(ref.path, inside, rooted) \in {"relative", "parent"}
        /\ ref.path # "absolute" => SafeRunPath(ref.path, inside, rooted) # "absolute"
    BY <2>1, PathsAre
  <2>3. /\ Moved(ref).path = SafeRunPath(ref.path, inside, rooted) /\ Moved(ref).name = ref.name
        /\ Moved(ref) \in Refs
    BY <2>2 DEF Refs
  <2> HIDE DEF Moved
  <2> QED
    BY <2>2, <2>3
<1> HIDE DEF Moved, Again
<1>5. /\ moved \in Seq(Refs) /\ Len(moved) \in Nat
      /\ \A ref \in ToSet(moved) : \E old \in ToSet(runs) : old \in Refs /\ ref = Moved(old)
  <2> HIDE DEF runs
  <2>1. Len(runs) \in Nat /\ DOMAIN runs = 1..Len(runs) /\ \A i \in DOMAIN runs : runs[i] \in Refs
    BY <1>3
  <2>2. moved \in [1..Len(runs) -> Refs]
    BY <1>4, <2>1
  <2>3. moved \in Seq(Refs)
    BY <2>1, <2>2
  <2>4. \A i \in DOMAIN moved : i \in DOMAIN runs /\ moved[i] = Moved(runs[i])
    BY <2>1
  <2> HIDE DEF moved
  <2>5. Len(moved) \in Nat
    BY <2>3
  <2> QED
    BY <2>1, <2>3, <2>4, <2>5 DEF ToSet
<1>6. /\ ranked \in SUBSET Refs /\ NamesIn(ranked) = NamesIn(report.ranked)
      /\ \A ref \in ranked : \E old \in report.ranked : old \in Refs /\ ref = Moved(old)
  <2>1. \A ref \in report.ranked : ref \in Refs /\ Moved(ref) \in Refs /\ Moved(ref).name = ref.name
    BY <1>3, <1>4
  <2> QED
    BY <2>1 DEF NamesIn
<1>7. ASSUME advice # NoAdvice
      PROVE  /\ again \in Seq(Refs)
             /\ \A ref \in ToSet(again) : \E old \in ToSet(advice.named) : old \in Refs /\ ref = Moved(old)
  <2> DEFINE named == advice.named
  <2>1. named \in Seq(Refs)
    BY <1>3, <1>7 DEF Advices
  <2>2. again = [k \in DOMAIN named |-> Moved(named[k])]
    OBVIOUS
  <2> HIDE DEF named, again
  <2>3. Len(named) \in Nat /\ DOMAIN named = 1..Len(named) /\ \A i \in DOMAIN named : named[i] \in Refs
    BY <2>1
  <2>4. again \in [1..Len(named) -> Refs]
    BY <1>4, <2>2, <2>3
  <2>5. again \in Seq(Refs)
    BY <2>3, <2>4
  <2>6. \A i \in DOMAIN again : i \in DOMAIN named /\ again[i] = Moved(named[i])
    BY <2>2
  <2> QED
    BY <2>3, <2>5, <2>6 DEF ToSet, named
<1> HIDE DEF moved, ranked, again
<1>8. newAdvice \in Advices
  <2>1. CASE advice = NoAdvice
    <3>1. <<>> \in Seq(Refs)
      OBVIOUS
    <3> QED
      BY <2>1, <3>1 DEF Advices, Statuses, Acceptances
  <2>2. CASE advice # NoAdvice
    BY <1>3, <1>7, <2>2 DEF Advices
  <2> QED
    BY <2>1, <2>2
<1>9. /\ advice = NoAdvice => ToSet(newAdvice.named) = {}
      /\ advice # NoAdvice => newAdvice.named = again
  <2>1. advice = NoAdvice => newAdvice.named = <<>>
    OBVIOUS
  <2>2. advice # NoAdvice => newAdvice.named = again
    BY <1>3 DEF Advices
  <2> HIDE DEF newAdvice
  <2> QED
    BY <2>1, <2>2 DEF ToSet
<1> HIDE DEF newAdvice
<1>10. /\ file.runs = moved /\ file.ranked = ranked /\ file.advice = newAdvice
       /\ file.rooted = (report.rooted \/ rooted) /\ file \in Reports
  BY <1>3, <1>5, <1>6, <1>8 DEF Reports
<1> HIDE DEF file
<1>11. \A ref \in AllRefs(file) : \E old \in AllRefs(report) : old \in Refs /\ ref = Moved(old)
  <2>1. \A ref \in Named(file) : \E old \in Named(report) : old \in Refs /\ ref = Moved(old)
    <3>1. CASE advice = NoAdvice
      BY <1>9, <1>10, <3>1 DEF Named
    <3>2. CASE advice # NoAdvice
      BY <1>7, <1>9, <1>10, <3>2 DEF Named
    <3> QED
      BY <3>1, <3>2
  <2> QED
    BY <1>5, <1>6, <1>10, <2>1 DEF AllRefs
<1>12. IsRooted(file)
  BY <1>3, <1>4, <1>10, <1>11 DEF IsRooted
<1> QED
  BY <1>2, <1>6, <1>10, <1>12, ChangeInv

\* However runs are compared and exported, and whatever is then done to the file:
\* what was exported with a root passes the validator and never shows an absolute
\* path, an old comparison is advised on as it was judged, and a run that was
\* taken out is missed (backtest_comparison_report.py and its validation).
THEOREM ReportsHoldAlways == ReportSpec => []ReportsHold
<1>1. ComparisonInit /\ ReportInit => ReportInv
  BY DEF ComparisonInit, ReportInit, ReportInv, RebuiltAdviceAgrees
<1>2. ReportInv /\ [ReportNext]_<<compared, reportVars>> => ReportInv'
  <2> SUFFICES ASSUME ReportInv, [ReportNext]_<<compared, reportVars>> PROVE ReportInv'
    OBVIOUS
  <2>1. CASE report = NoReport /\ CompareRun /\ UNCHANGED reportVars
    <3>1. compared' \in Seq(Items)
      BY <2>1, CompareRunKeepsItems DEF ReportInv
    <3> QED
      BY <2>1, <3>1 DEF ReportInv, reportVars, RebuiltAdviceAgrees
  <2>2. CASE Export
    BY <2>2, ExportInv
  <2>3. CASE report # NoReport /\ (DropRun \/ RenameRun \/ StripAdvice \/ ReExport)
    BY <2>3, DropRunInv, RenameRunInv, StripAdviceInv, ReExportInv
  <2>4. CASE UNCHANGED <<compared, reportVars>>
    BY <2>4 DEF ReportInv, reportVars, RebuiltAdviceAgrees
  <2> QED
    BY <2>1, <2>2, <2>3, <2>4 DEF ReportNext
<1> QED
  BY <1>1, <1>2, ReportInvHolds, PTL DEF ReportSpec
=============================================================================
