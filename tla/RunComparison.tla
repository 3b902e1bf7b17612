---------------------------- MODULE RunComparison ----------------------------
(***************************************************************************)
(* How backtest runs are scored, ranked, recommended and accepted          *)
(* (services/backtest_run_comparison.py), and how a parameter sweep sums   *)
(* that up (services/backtest_parameter_sweep.py).                         *)
(*                                                                         *)
(* A summary is a function from the metrics it has to whole numbers:       *)
(* percents, money, counts, and the profit factor in tenths.  A score is   *)
(* counted in units of 1/300, so that its weights leave whole numbers.     *)
(***************************************************************************)
EXTENDS Integers, Sequences, SequencesExt, FiniteSetsExt

CONSTANTS
  Summaries,  \* summaries that may be compared
  MaxRuns     \* bound of the model: runs in a comparison

\* What the backtesters do not write below zero (csv_backtest.py:170).
NeverNegative == {"starting_balance", "max_drawdown_pct", "completed_round_trips", "trades_count",
                  "win_count", "loss_count"}
ASSUME ComparisonAssumption ==
  /\ MaxRuns \in Nat
  /\ \A s \in Summaries :
       /\ \A metric \in DOMAIN s : s[metric] \in Int
       /\ \A metric \in DOMAIN s \cap NeverNegative : s[metric] >= 0

VARIABLE compared  \* the runs in the order of their names, scored; `place` is a
                   \* run's place in the order of its parameters as text

----------------------------------------------------------------------------
(* Metrics and scores                                                      *)

Has(s, metric) == metric \in DOMAIN s
Flag(condition, code) == IF condition THEN {code} ELSE {}
Magnitude(n) == IF n < 0 THEN -n ELSE n

Balanced(s) == Has(s, "starting_balance") /\ s["starting_balance"] # 0
InPercent(s, amount) == (100 * amount) \div s["starting_balance"]

HasReturn(s) == Has(s, "total_return_pct") \/ (Has(s, "total_return") /\ Balanced(s))
ReturnPct(s) == IF Has(s, "total_return_pct") THEN s["total_return_pct"]
                ELSE InPercent(s, s["total_return"])

HasDrawdown(s) == Has(s, "max_drawdown_pct") \/ (Has(s, "max_drawdown_amount") /\ Balanced(s))

DrawdownPct(s) == IF Has(s, "max_drawdown_pct") THEN Magnitude(s["max_drawdown_pct"])
                  ELSE InPercent(s, Magnitude(s["max_drawdown_amount"]))

OnlyWins(s) == Has(s, "win_count") /\ s["win_count"] # 0 /\ Has(s, "loss_count") /\ s["loss_count"] = 0

HasTrades(s) == Has(s, "completed_round_trips") \/ Has(s, "trades_count")

\* Mutant: every trade counts as a round trip.
TradeCountWhole(s) ==
  IF Has(s, "completed_round_trips") THEN s["completed_round_trips"] ELSE s["trades_count"]

\* Two trades make a round trip.
TradeCount(s) == IF Has(s, "completed_round_trips") THEN s["completed_round_trips"]
                 ELSE s["trades_count"] \div 2

ScoreWarnings(s) ==
  Flag(\/ ~HasReturn(s) \/ ~HasDrawdown(s) \/ ~HasTrades(s)
       \/ ~Has(s, "win_rate_pct") \/ ~Has(s, "exposure_pct"), "missing_metric")
  \cup Flag(~Has(s, "profit_factor"), "infinite_or_unavailable_profit_factor")
  \cup Flag(HasReturn(s) /\ ReturnPct(s) < 0, "negative_return")
  \cup Flag(HasDrawdown(s) /\ DrawdownPct(s) >= 20, "high_drawdown")
  \cup Flag(HasTrades(s) /\ TradeCount(s) = 0, "no_trades")
  \cup Flag(HasTrades(s) /\ TradeCount(s) \in 1..4, "too_few_trades")

\* Components, in thirds of a point out of a hundred.
Bounded(score) == Max({0, Min({300, score})})

DrawdownScore(s) == IF HasDrawdown(s) THEN Bounded(300 - 10 * DrawdownPct(s)) ELSE 150
ReturnScore(s) == IF HasReturn(s) THEN Bounded(6 * (ReturnPct(s) + 20)) ELSE 105
ProfitFactorScore(s) ==
  IF Has(s, "profit_factor") THEN Bounded(10 * s["profit_factor"])
  ELSE IF OnlyWins(s) THEN 300 ELSE 105
WinRateScore(s) == IF Has(s, "win_rate_pct") THEN Bounded(3 * s["win_rate_pct"]) ELSE 120
TradeCountScore(s) == IF HasTrades(s) THEN Bounded(30 * TradeCount(s)) ELSE 75
ExposureScore(s) ==
  IF Has(s, "exposure_pct") THEN Bounded(300 - 6 * Max({0, s["exposure_pct"] - 80})) ELSE 210

Points(n) == 300 * n

Score(s) ==
  LET weighted == 30 * ReturnScore(s) + 25 * DrawdownScore(s) + 15 * ProfitFactorScore(s)
                  + 10 * WinRateScore(s) + 15 * TradeCountScore(s) + 5 * ExposureScore(s)
  IN IF "no_trades" \in ScoreWarnings(s) THEN Min({weighted, Points(20)})
     ELSE IF "too_few_trades" \in ScoreWarnings(s) THEN Min({weighted, Points(60)})
     ELSE weighted

\* A run as the rankings see it.
Item(s, place) == [summary |-> s, place |-> place, score |-> Score(s), warnings |-> ScoreWarnings(s)]

----------------------------------------------------------------------------
(* Rankings.  A key that is missing or 0 is replaced by the worst there is, *)
(* in a sweep a missing one sorts as minus infinity.                        *)

Worst == 999999999
OrElse(s, metric, default) == IF Has(s, metric) /\ s[metric] # 0 THEN s[metric] ELSE default

ReturnKey(s) == IF Has(s, "total_return_pct") THEN s["total_return_pct"]
                ELSE OrElse(s, "total_return", -Worst)
DrawdownKey(s) == OrElse(s, "max_drawdown_pct", Worst)

\* Lexicographic order of tuples of equal length.
Precedes(a, b) ==
  \E i \in DOMAIN a : a[i] < b[i] /\ \A j \in 1..(i - 1) : a[j] = b[j]

\* _overall_score_sort_key
SortKeys(runs) ==
  [i \in DOMAIN runs |-> LET s == runs[i].summary IN
     <<-runs[i].score, -ReturnKey(s), DrawdownKey(s), i>>]

\* _sweep_run_sort_key
SweepSortKeys(runs) ==
  [i \in DOMAIN runs |-> LET s == runs[i].summary IN
     <<-runs[i].score,
       IF Has(s, "total_return_pct") THEN -s["total_return_pct"] ELSE Worst,
       IF Has(s, "max_drawdown_pct") THEN s["max_drawdown_pct"] ELSE -Worst,
       runs[i].place, i>>]

\* The runs' indices in the order of their keys.
Ranked(keys) ==
  CHOOSE r \in [DOMAIN keys -> DOMAIN keys] :
    \A i, j \in DOMAIN keys : i < j => Precedes(keys[r[i]], keys[r[j]])

----------------------------------------------------------------------------
(* Recommendation                                                          *)

BestOf(runs) == runs[Ranked(SortKeys(runs))[1]]
RunnerUpOf(runs) == runs[Ranked(SortKeys(runs))[2]]

RecommendationWarnings(runs) ==
  LET best == BestOf(runs)
      warnings == best.warnings
  IN warnings
     \cup Flag(best.score < Points(50), "best_run_has_low_score")
     \cup Flag("too_few_trades" \in warnings, "best_run_has_too_few_trades")
     \cup Flag("high_drawdown" \in warnings, "best_run_has_high_drawdown")
     \cup Flag("negative_return" \in warnings, "best_run_has_negative_return")
     \cup Flag("no_trades" \in warnings, "best_run_has_no_trades")
     \cup Flag(Len(runs) > 1 /\ best.score - RunnerUpOf(runs).score < Points(5), "no_clear_winner")
     \cup Flag(\A i \in DOMAIN runs : runs[i].score < Points(70), "all_runs_weak")

RecommendationStatus(runs) ==
  LET best == BestOf(runs)
      severe == best.warnings \cap {"no_trades", "negative_return", "high_drawdown"} # {}
  IN IF runs = <<>> THEN "no_valid_runs"
     ELSE IF /\ best.score >= Points(70) /\ ~severe
             /\ "too_few_trades" \notin best.warnings
             /\ "no_clear_winner" \notin RecommendationWarnings(runs)
          THEN "recommended"
     ELSE IF best.score >= Points(50) /\ ~severe THEN "weak_recommendation"
     ELSE "not_recommended"

\* recommendation_reason, the reasons that are true.
Reasons(runs) ==
  LET best == BestOf(runs).summary IN
  {"highest_overall_score"}
  \cup Flag(OrElse(best, "total_return_pct", OrElse(best, "total_return", 0)) > 0, "positive_return")
  \cup Flag(OrElse(best, "max_drawdown_pct", 0) < 20, "acceptable_drawdown")
  \cup Flag(OrElse(best, "completed_round_trips", 0) >= 5, "sufficient_trade_count")
  \cup Flag(/\ RecommendationStatus(runs) \in {"recommended", "weak_recommendation"}
            /\ "no_clear_winner" \notin RecommendationWarnings(runs), "better_risk_adjusted_profile")

----------------------------------------------------------------------------
(* Acceptance                                                              *)

\* trade_count of _recommendation_run
HasGateTrades(s) == HasTrades(s)
GateTrades(s) == IF Has(s, "completed_round_trips") THEN s["completed_round_trips"] ELSE s["trades_count"]

AcceptanceFailures(runs) ==
  LET best == BestOf(runs).summary
      warnings == RecommendationWarnings(runs)
  IN Flag(RecommendationStatus(runs) \notin {"recommended", "weak_recommendation"},
          "recommendation_not_strong_enough")
     \cup Flag(BestOf(runs).score < Points(70), "score_below_minimum")
     \cup Flag(~HasGateTrades(best) \/ GateTrades(best) < 5, "too_few_trades")
     \cup Flag(~Has(best, "total_return_pct") \/ best["total_return_pct"] <= 0, "non_positive_return")
     \cup Flag(Has(best, "max_drawdown_pct") /\ best["max_drawdown_pct"] > 25, "drawdown_too_high")
     \cup Flag(Has(best, "profit_factor") /\ best["profit_factor"] < 11, "profit_factor_below_minimum")
     \cup Flag(warnings \cap {"best_run_has_low_score", "best_run_has_high_drawdown",
                              "best_run_has_negative_return", "best_run_has_no_trades"} # {},
               "severe_recommendation_warning")
     \cup Flag("no_trades" \in warnings, "too_few_trades")
     \cup Flag("negative_return" \in warnings, "negative_return")

AcceptanceWarnings(runs) ==
  LET best == BestOf(runs).summary IN
  Flag(RecommendationStatus(runs) = "weak_recommendation", "weak_recommendation_only")
  \cup Flag(HasGateTrades(best) /\ GateTrades(best) < 10, "low_trade_confidence")
  \cup Flag(~Has(best, "max_drawdown_pct"), "missing_drawdown_metric")
  \cup Flag(~Has(best, "profit_factor"), "missing_profit_factor")
  \cup Flag("no_clear_winner" \in RecommendationWarnings(runs), "no_clear_winner")

Acceptance(runs) ==
  IF runs = <<>> THEN "not_evaluated"
  ELSE IF AcceptanceFailures(runs) # {} THEN "rejected"
  ELSE IF AcceptanceWarnings(runs) # {} THEN "accepted_with_warnings" ELSE "accepted"

Accepted(runs) == Acceptance(runs) \in {"accepted", "accepted_with_warnings"}

----------------------------------------------------------------------------
(* Executive summary and sweep                                             *)

Strengths(runs) ==
  Reasons(runs) \cup Flag(Has(BestOf(runs).summary, "profit_factor") /\ BestOf(runs).summary["profit_factor"] >= 11,
                          "acceptable_profit_factor")

RisksAmong(codes) ==
  LET Among(causes) == codes \cap causes # {}
  IN Flag(Among({"too_few_trades", "best_run_has_too_few_trades", "low_trade_confidence"}), "too_few_trades")
     \cup Flag(Among({"drawdown_too_high", "best_run_has_high_drawdown", "high_drawdown"}), "high_drawdown")
     \cup Flag(Among({"negative_return", "non_positive_return", "best_run_has_negative_return"}), "negative_return")
     \cup Flag(Among({"score_below_minimum", "best_run_has_low_score"}), "low_score")
     \cup Flag(Among({"missing_profit_factor", "infinite_or_unavailable_profit_factor"}), "missing_profit_factor")
     \cup (codes \cap {"missing_drawdown_metric", "no_clear_winner", "weak_recommendation_only"})

Risks(runs) ==
  RisksAmong(AcceptanceFailures(runs) \cup AcceptanceWarnings(runs) \cup RecommendationWarnings(runs))

NextAction(runs) ==
  CASE Acceptance(runs) = "accepted" -> "promote_to_further_local_testing"
    [] Acceptance(runs) = "accepted_with_warnings" ->
         IF Risks(runs) \cap {"too_few_trades", "missing_profit_factor", "missing_drawdown_metric"} # {}
         THEN "add_more_data_and_rerun" ELSE "review_with_caution"
    [] Acceptance(runs) = "rejected" -> "reject_or_adjust_strategy"
    [] Acceptance(runs) = "not_evaluated" -> "no_action_available"

\* _parameter_acceptance: a parameter set is accepted on its own.
AcceptedAlone(runs, i) == Accepted(<<runs[i]>>)
AcceptedCount(runs) == Cardinality({i \in DOMAIN runs : AcceptedAlone(runs, i)})
SweepBest(runs) == Ranked(SweepSortKeys(runs))[1]

----------------------------------------------------------------------------
(* A comparison is given its runs one by one.                              *)

ComparisonInit == compared = <<>>

CompareRun ==
  /\ Len(compared) < MaxRuns
  /\ \E s \in Summaries, place \in 1..MaxRuns :
       compared' = Append(compared, Item(s, place))

ComparisonSpec == ComparisonInit /\ [][CompareRun]_compared

----------------------------------------------------------------------------
(* Properties                                                              *)

\* An accepted run deserves it: it has gained, lost less than a fifth on the
\* way, and made five round trips, although the gate on the trade count takes
\* single trades where round trips are missing and the one on the drawdown
\* passes when the percentage is (backtest_run_comparison.py:508).
AcceptedRunsAreSound ==
  compared # <<>> /\ Accepted(compared) =>
    LET best == BestOf(compared).summary IN
    /\ ReturnPct(best) > 0
    /\ HasDrawdown(best) => DrawdownPct(best) < 20
    /\ Has(best, "completed_round_trips") => best["completed_round_trips"] >= 5
    /\ ~Has(best, "completed_round_trips") => best["trades_count"] >= 10
    /\ Acceptance(compared) = "accepted" =>
         /\ \A i \in DOMAIN compared \ {Ranked(SortKeys(compared))[1]} :
              BestOf(compared).score >= compared[i].score + Points(5)
         /\ Has(best, "profit_factor") /\ Has(best, "max_drawdown_pct")
         /\ NextAction(compared) = "promote_to_further_local_testing"

\* Nobody who is at least as good in every metric, and better in one the order
\* looks at, is ranked behind: the recommended run is undominated.  The
\* exceptions are a run without any drawdown, and one without a return or a
\* percentage of it, whose keys read as missing
\* (backtest_run_comparison.py:1022).
AtLeastAsGood(s, t) ==
  /\ DOMAIN s = DOMAIN t
  /\ \A metric \in DOMAIN s :
       CASE metric = "starting_balance" -> s[metric] = t[metric]
         [] metric \in {"max_drawdown_pct", "max_drawdown_amount"} ->
              Magnitude(s[metric]) <= Magnitude(t[metric])
         [] metric \in {"exposure_pct", "loss_count"} -> s[metric] <= t[metric]
         [] OTHER -> s[metric] >= t[metric]

ReadsAsMissing(s) ==
  \/ Has(s, "max_drawdown_pct") /\ s["max_drawdown_pct"] = 0
  \/ ~Has(s, "total_return_pct") /\ Has(s, "total_return") /\ s["total_return"] = 0

RecommendedIsUndominated ==
  compared # <<>> =>
    LET best == BestOf(compared) IN
    \A i \in DOMAIN compared :
      LET run == compared[i]
          s == run.summary
      IN AtLeastAsGood(s, best.summary) =>
           \/ /\ run.score = best.score
              /\ ReturnKey(s) = ReturnKey(best.summary)
              /\ DrawdownKey(s) = DrawdownKey(best.summary)
           \/ ReadsAsMissing(s)

\* A sweep does not contradict itself: when the sweep as a whole is accepted
\* at least one parameter set is, and the one it calls the best, which it picks
\* by an order of its own, has the score, return and drawdown of the one that is
\* recommended and is itself accepted, but for the trades and the profit factor
\* neither order looks at - unless there are sets without a drawdown
\* (backtest_parameter_sweep.py:376).
SweepAgreesWithItself ==
  compared # <<>> /\ Accepted(compared) =>
    /\ AcceptedCount(compared) > 0
    /\ (\A i \in DOMAIN compared : OrElse(compared[i].summary, "max_drawdown_pct", 0) # 0) =>
         LET best == BestOf(compared)
             run == compared[SweepBest(compared)] IN
         /\ run.score = best.score
         /\ \A metric \in {"total_return_pct", "max_drawdown_pct"} :
              Has(run.summary, metric) /\ run.summary[metric] = best.summary[metric]
         /\ AcceptanceFailures(<<run>>) \subseteq {"too_few_trades", "profit_factor_below_minimum"}

\* The executive summary does not list as a strength what it lists as a risk,
\* for summaries that give their returns and drawdowns in percent; a return of
\* zero percent reads as missing there too (backtest_run_comparison.py:718).
StrengthsDoNotContradictRisks ==
  compared # <<>> /\ {"total_return_pct", "max_drawdown_pct"} \subseteq DOMAIN BestOf(compared).summary =>
    /\ "acceptable_drawdown" \in Strengths(compared) => "high_drawdown" \notin Risks(compared)
    /\ /\ "positive_return" \in Strengths(compared)
       /\ BestOf(compared).summary["total_return_pct"] # 0
       => "negative_return" \notin Risks(compared)
    /\ "acceptable_profit_factor" \in Strengths(compared) => "missing_profit_factor" \notin Risks(compared)

\* A comparison is a ground for a decision: nothing worse is put first, nothing
\* unsound accepted, and its parts do not contradict each other.
ComparisonsHold ==
  /\ AcceptedRunsAreSound
  /\ RecommendedIsUndominated
  /\ SweepAgreesWithItself
  /\ StrengthsDoNotContradictRisks
==============================================================================
