---------------------------- MODULE StrategyStore ----------------------------
(***************************************************************************)
(* A stored strategy: creating, patching and deleting it, and the request  *)
(* that tries parameter sets on it.                                        *)
(*                                                                         *)
(* Three places judge parameters: the schema's validators when a strategy  *)
(* is written, the normalisation of an optimisation, and the resolve_*     *)
(* functions of the engine (StrategySignals) whenever it runs.             *)
(*                                                                         *)
(* A PATCH reads the row, judges its payload against what it read, and     *)
(* writes the columns that changed: two steps, since API processes share   *)
(* the database.  An optimisation reads the row once and writes nothing;   *)
(* it is taken between patches and its answer is gone when the next one    *)
(* begins.  What the replay of a parameter set yields is any of Outcomes.  *)
(***************************************************************************)
EXTENDS StrategySignals

CONSTANTS
  Editors,              \* requests that patch the strategy
  NewStrategies,        \* payloads of POST: strategy_type and parameters
  PatchPayloads,        \* payloads of PATCH: either column or both
  ParameterRequests,    \* parameter_sets of optimisations (sequences)
  Outcomes,             \* results of a replay: return, closed trades, open position
  Filters,              \* min_closed_trades and require_closed_position
  MaxPatches            \* bound of the model: patches

\* Parameters are names that have numbers.
IsTable(parameters) ==
  /\ parameters = [key \in DOMAIN parameters |-> parameters[key]]
  /\ \A key \in DOMAIN parameters : parameters[key] \in Int
IsStrategy(row) ==
  /\ row = [strategy_type |-> row.strategy_type, parameters |-> row.parameters]
  /\ row.strategy_type \in StrategyTypes /\ IsTable(row.parameters)

ASSUME StrategyAssumption ==
  /\ \A new \in NewStrategies : IsStrategy(new)
  /\ \A payload \in PatchPayloads :
       /\ "strategy_type" \in DOMAIN payload => payload.strategy_type \in StrategyTypes
       /\ "parameters" \in DOMAIN payload => IsTable(payload.parameters)
  /\ \A sets \in ParameterRequests :
       Len(sets) \in Nat /\ DOMAIN sets = 1..Len(sets) /\ \A i \in DOMAIN sets : IsTable(sets[i])
  /\ \A outcome \in Outcomes : outcome.return \in Int /\ outcome.closed \in Nat

VARIABLES
  strategy,    \* the row
  patches,     \* the PATCH of each editor
  patched,     \* patches so far
  crossed,     \* whether a patch was judged by a row that had changed when it was written
  optimised    \* the latest optimisation

strategyVars == <<strategy, patches, patched, crossed, optimised>>

NoStrategy == [strategy_type |-> "none", parameters |-> <<>>]
NoPatch == [at |-> "none"]
NoAnswer == <<>>

StrategyInit ==
  /\ strategy = NoStrategy
  /\ patches = [e \in Editors |-> NoPatch]
  /\ patched = 0
  /\ crossed = FALSE
  /\ optimised = NoAnswer

----------------------------------------------------------------------------
(* The validators of the schema                                            *)

WholeKeys ==
  [price_threshold |-> {},
   moving_average_cross |-> {"short_window", "long_window"},
   rsi_threshold |-> {"period"},
   bollinger_bands |-> {"period"},
   macd_crossover |-> {"fast_period", "slow_period", "signal_period"}]
NumberKeys ==
  [price_threshold |-> {"buy_below", "sell_above", "quantity"},
   moving_average_cross |-> {"quantity"},
   rsi_threshold |-> {"oversold", "overbought", "quantity"},
   bollinger_bands |-> {"stddev_multiplier", "quantity"},
   macd_crossover |-> {"quantity"}]
KeysOf(type) == WholeKeys[type] \cup NumberKeys[type]

NumbersValid(type, parameters) ==
  /\ \A key \in WholeKeys[type] : ~RefusedWhole(parameters, key)
  /\ \A key \in NumberKeys[type] : ~Refused(parameters, key)

Given(parameters, keys) == keys \subseteq DOMAIN parameters

\* A pair is compared when both are given.
Ascending(parameters, low, high) ==
  Given(parameters, {low, high}) => parameters[low] < parameters[high]

\* One that is given is compared with the default of the other.
ThresholdsValid(parameters) ==
  /\ \A key \in {"oversold", "overbought"} :
       Given(parameters, {key}) => parameters[key] < 100 * Scale
  /\ Given(parameters, {"oversold"}) \/ Given(parameters, {"overbought"}) =>
       ValueOr(parameters, "oversold", 30 * Scale) < ValueOr(parameters, "overbought", 70 * Scale)

\* validate_strategy_parameters
ParametersValid(type, parameters) ==
  /\ NumbersValid(type, parameters)
  /\ type = "price_threshold" => Ascending(parameters, "buy_below", "sell_above")
  /\ type = "moving_average_cross" => Ascending(parameters, "short_window", "long_window")
  /\ type = "rsi_threshold" => ThresholdsValid(parameters)
  /\ type = "bollinger_bands" /\ Given(parameters, {"period"}) => parameters["period"] >= 2 * Scale
  /\ type = "macd_crossover" => Ascending(parameters, "fast_period", "slow_period")

----------------------------------------------------------------------------
(* StrategyService                                                         *)

\* One strategy is followed: its number of patches is bounded.
CreateStrategy ==
  /\ strategy = NoStrategy
  /\ patched = 0
  /\ \E new \in NewStrategies :
       /\ ParametersValid(new.strategy_type, new.parameters)
       /\ strategy' = new
  /\ UNCHANGED <<patches, patched, crossed, optimised>>

\* The parameters that come are held against the type that comes or stays, a
\* type that comes against the parameters that stay.
Patched(row, payload) ==
  [column \in DOMAIN row |->
     IF column \in DOMAIN payload THEN payload[column] ELSE row[column]]
PatchAccepted(row, payload) ==
  LET new == Patched(row, payload) IN ParametersValid(new.strategy_type, new.parameters)

\* get_by_id and the validation.
BeginPatch(e) ==
  /\ strategy # NoStrategy
  /\ patches[e] = NoPatch
  /\ patched < MaxPatches
  /\ \E payload \in PatchPayloads :
       /\ PatchAccepted(strategy, payload)
       /\ patches' = [patches EXCEPT ![e] = [at |-> "judged", row |-> strategy, payload |-> payload]]
  /\ patched' = patched + 1
  /\ optimised' = NoAnswer
  /\ UNCHANGED <<strategy, crossed>>

\* The columns whose value changed are written.
CommitPatch(e) ==
  LET patch == patches[e] IN
  /\ patch # NoPatch
  /\ strategy # NoStrategy
  /\ strategy' = [column \in DOMAIN strategy |->
                    IF column \in DOMAIN patch.payload /\ patch.payload[column] # patch.row[column]
                    THEN patch.payload[column] ELSE strategy[column]]
  /\ crossed' = (crossed \/ strategy # patch.row)
  /\ patches' = [patches EXCEPT ![e] = NoPatch]
  /\ UNCHANGED <<patched, optimised>>

\* The process died.
LosePatch(e) ==
  /\ patches[e] # NoPatch
  /\ patches' = [patches EXCEPT ![e] = NoPatch]
  /\ UNCHANGED <<strategy, patched, crossed, optimised>>

\* Of a strategy no bot refers to; patches under way find no row.
DeleteStrategy ==
  /\ strategy # NoStrategy
  /\ strategy' = NoStrategy
  /\ patches' = [e \in Editors |-> NoPatch]
  /\ crossed' = FALSE
  /\ optimised' = NoAnswer
  /\ UNCHANGED patched

----------------------------------------------------------------------------
(* POST /backtests/optimize                                                *)

\* The names of the execution profile serve where the strategy's are missing.
AliasOf == [buy_below |-> "entry_below", sell_above |-> "exit_above"]
WithAliases(submitted) ==
  [key \in DOMAIN submitted \cup {k \in DOMAIN AliasOf : Given(submitted, {AliasOf[k]})} |->
     IF key \in DOMAIN submitted THEN submitted[key] ELSE submitted[AliasOf[key]]]

\* normalize_optimization_parameters: only the keys of the strategy stay.
Normalised(type, submitted) ==
  LET named == IF type = "price_threshold" THEN WithAliases(submitted) ELSE submitted
  IN Restrict(named, DOMAIN named \cap KeysOf(type))

\* What was submitted, and what is stored for the rest.
Effective(submitted) ==
  LET own == Normalised(strategy.strategy_type, submitted)
      stored == strategy.parameters
  IN [key \in DOMAIN own \cup DOMAIN stored |->
        IF key \in DOMAIN own THEN own[key] ELSE stored[key]]

\* Mutant: a set is judged without the parameters it is merged with.
SetAcceptedAlone(submitted) ==
  ParametersValid(strategy.strategy_type, Normalised(strategy.strategy_type, submitted))

SetAccepted(submitted) ==
  /\ NumbersValid(strategy.strategy_type, Normalised(strategy.strategy_type, submitted))
  /\ ParametersValid(strategy.strategy_type, Effective(submitted))

Passes(outcome, filter) ==
  outcome.closed >= filter.minClosed /\ (filter.closedOnly => ~outcome.open)

\* ranked_optimization_results: passing the filters, return, closed trades, and
\* the order of the request.
RanksBefore(a, b) ==
  \/ a.passes /\ ~b.passes
  \/ /\ a.passes = b.passes
     /\ \/ a.outcome.return > b.outcome.return
        \/ /\ a.outcome.return = b.outcome.return
           /\ \/ a.outcome.closed > b.outcome.closed
              \/ a.outcome.closed = b.outcome.closed /\ a.index < b.index

InRankOrder(runs) ==
  LET order == CHOOSE r \in [DOMAIN runs -> DOMAIN runs] :
                 \A i, j \in DOMAIN runs : i < j => RanksBefore(runs[r[i]], runs[r[j]])
  IN [i \in DOMAIN runs |-> runs[order[i]]]

\* All sets are judged before one runs, and one that is refused refuses all.
Optimise ==
  /\ strategy # NoStrategy
  /\ optimised = NoAnswer
  /\ \A e \in Editors : patches[e] = NoPatch
  /\ \E sets \in ParameterRequests, filter \in Filters :
       /\ \A i \in DOMAIN sets : SetAccepted(sets[i])
       /\ \E outcomes \in [DOMAIN sets -> Outcomes] :
            optimised' = InRankOrder(
              [i \in DOMAIN sets |->
                 [index |-> i, submitted |-> sets[i], effective |-> Effective(sets[i]),
                  outcome |-> outcomes[i], passes |-> Passes(outcomes[i], filter)]])
  /\ UNCHANGED <<strategy, patches, patched, crossed>>

StrategyNext ==
  \/ CreateStrategy \/ DeleteStrategy \/ Optimise
  \/ \E e \in Editors : BeginPatch(e) \/ CommitPatch(e) \/ LosePatch(e)

StrategySpec == StrategyInit /\ [][StrategyNext]_strategyVars

----------------------------------------------------------------------------
(* Properties                                                              *)

\* The engine resolves the parameters to a configuration.
EngineAccepts(type, parameters) ==
  CASE type = "price_threshold" ->
         PriceThresholdConfig(parameters, [entryBelow |-> 0, exitAbove |-> 0]).valid
    [] type = "moving_average_cross" -> MovingAverageConfig(parameters).valid
    [] type = "rsi_threshold" -> RsiConfig(parameters).valid
    [] type = "bollinger_bands" -> BollingerConfig(parameters).valid
    [] type = "macd_crossover" -> MacdConfig(parameters).valid

\* One window of a pair is given, and the default of the other does not fit it.
OneSided(type, parameters) ==
  \E pair \in {<<"short_window", "long_window">>, <<"fast_period", "slow_period">>} :
    /\ {pair[1], pair[2]} \subseteq KeysOf(type)
    /\ Given(parameters, {pair[1]}) # Given(parameters, {pair[2]})

\* strategy_type is one the table's check constraint admits, and what waits to
\* be written was judged valid.
StrategyTypeOK ==
  /\ strategy = NoStrategy \/ strategy.strategy_type \in StrategyTypes
  /\ \A e \in Editors : patches[e] # NoPatch =>
       PatchAccepted(patches[e].row, patches[e].payload)

\* However types and parameters are patched, together or one by one, the engine
\* can run the row, but for a window given without its partner, which the
\* schema lets pass; unless two patches crossed.
StoredStrategiesRun ==
  strategy # NoStrategy /\ ~crossed =>
    \/ EngineAccepts(strategy.strategy_type, strategy.parameters)
    \/ OneSided(strategy.strategy_type, strategy.parameters)

\* The engine can run every set an optimisation accepts, even on a row that
\* crossed patches left invalid; it runs it with what was submitted, under
\* either name, and what is stored for the rest.
AcceptedSetsRun ==
  \A i \in DOMAIN optimised :
    LET run == optimised[i]
        type == strategy.strategy_type IN
    /\ EngineAccepts(type, run.effective) \/ OneSided(type, run.effective)
    /\ \A key \in KeysOf(type) \cap DOMAIN run.submitted : run.effective[key] = run.submitted[key]
    /\ DOMAIN run.effective \subseteq DOMAIN strategy.parameters \cup KeysOf(type)

\* The run at the top is the one to take: none that passes the filters returned
\* more, none that does as well was asked for before, and it fails them only if
\* all do.
BestRunIsOnTop ==
  \A i \in DOMAIN optimised :
    LET best == optimised[1]
        run == optimised[i] IN
    run.passes => /\ best.passes
                  /\ best.outcome.return >= run.outcome.return
                  /\ best.outcome = run.outcome => best.index <= run.index

\* What was stored or accepted runs, and what an optimisation puts first is the
\* one to take.
StrategiesHold ==
  /\ StrategyTypeOK
  /\ StoredStrategiesRun
  /\ AcceptedSetsRun
  /\ BestRunIsOnTop
=============================================================================
