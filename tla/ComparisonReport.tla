-------------------------- MODULE ComparisonReport --------------------------
(***************************************************************************)
(* A comparison of runs exported as a report that may be shown around      *)
(* (services/backtest_comparison_report.py) and the validator such a       *)
(* report has to pass (services/backtest_comparison_report_validation.py). *)
(* The report is a file: between the two somebody may edit it, and a       *)
(* report is itself accepted as a comparison to export again.              *)
(*                                                                         *)
(* A path is what matters of it: "relative"; "absolute"; "upward", with    *)
(* .. before its last part; "parent", with .. as its last part.            *)
(* A directory is [name, form, inside]: what Path.name gives for it, the   *)
(* form of its path, and whether it lies under the artifact root.          *)
(***************************************************************************)
EXTENDS RunComparison

CONSTANTS
  ReportedSummaries,  \* summaries of the runs that are reported
  RunDirs,            \* directories the runs may have
  NameOrder,          \* the names in the order of their text
  NoReport, NoAdvice,
  MaxChanges          \* bound of the model: edits and exports of one report

Forms == {"relative", "absolute", "upward", "parent"}
ASSUME ReportAssumption ==
  /\ ReportedSummaries \subseteq Summaries
  /\ MaxChanges \in Nat
  /\ \A dir \in RunDirs : /\ dir.name \in ToSet(NameOrder) /\ dir.form \in Forms
                          /\ dir.form = "parent" <=> dir.name = ".."

VARIABLES
  report,    \* the report file, or NoReport
  exported,  \* names in the report when it was first written
  changes    \* edits and exports since then

reportVars == <<report, exported, changes>>

\* Where a comparison has its scores: the runs carry them; only the rankings
\* do, as in files from before the runs did; nowhere.
ScoreSources == {"runs", "rankings", "nowhere"}

----------------------------------------------------------------------------
(* Export                                                                  *)

\* _safe_run_path: relative to the root, or else the last part of the path.
SafeRunPath(form, inside, rooted) ==
  IF rooted /\ (inside \/ form # "parent") THEN "relative" ELSE form

\* _runs_with_overall_scores_from_rankings, for runs without scores: the last
\* score the ranking has for a run's name.
Hydrated(runs, names) ==
  LET ranked == Ranked(SortKeys(runs))
      LastPlace(name) == Max({k \in DOMAIN runs : names[ranked[k]] = name})
  IN [i \in DOMAIN runs |-> [runs[i] EXCEPT !.score = runs[ranked[LastPlace(names[i])]].score]]

\* The recommendation, with the places of the runs it names.
Advice(runs) ==
  [status |-> RecommendationStatus(runs), acceptance |-> Acceptance(runs),
   named |-> SubSeq(Ranked(SortKeys(runs)), 1, Min({3, Len(runs)}))]

AdviceOf(scores, runs, names) ==
  CASE scores = "runs" -> Advice(runs)
    [] scores = "rankings" -> Advice(Hydrated(runs, names))
    [] scores = "nowhere" -> Advice(<<>>)

Reference(dir, rooted) ==
  [name |-> dir.name, path |-> SafeRunPath(dir.form, dir.inside, rooted)]

\* Directories whose names come in the order the runs were compared in.
OrderedDirs(places) ==
  {dirs \in [places -> RunDirs] :
     \A i, j \in DOMAIN NameOrder, m, n \in places :
       NameOrder[i] = dirs[m].name /\ NameOrder[j] = dirs[n].name /\ i < j => m < n}

\* build_backtest_comparison_report: the runs, everything the rankings and the
\* recommendation say of runs, run_count, and the manifest's comparison_row_count.
BuiltReport(runs, dirs, rooted, scores) ==
  LET references == [i \in DOMAIN dirs |-> Reference(dirs[i], rooted)]
      advice == AdviceOf(scores, runs, [i \in DOMAIN dirs |-> dirs[i].name])
  IN [runs |-> references, count |-> Len(runs), rows |-> Len(runs), ranked |-> ToSet(references),
      advice |-> [status |-> advice.status, acceptance |-> advice.acceptance,
                  named |-> [k \in DOMAIN advice.named |-> references[advice.named[k]]]],
      scores |-> scores, rooted |-> rooted]

\* export_backtest_comparison_report, of a file with the comparison
Export ==
  /\ report = NoReport
  /\ Len(compared) >= 2
  /\ \A i \in DOMAIN compared : compared[i].summary \in ReportedSummaries /\ compared[i].place = i
  /\ \E dirs \in OrderedDirs(DOMAIN compared), rooted \in BOOLEAN, scores \in ScoreSources :
       /\ report' = BuiltReport(compared, dirs, rooted, scores)
       /\ exported' = {dirs[i].name : i \in DOMAIN dirs}
  /\ changes' = 0
  /\ UNCHANGED compared

----------------------------------------------------------------------------
(* Validation                                                              *)

UnsafePath(path) == path # "relative"

Named(file) == IF file.advice = NoAdvice THEN {} ELSE ToSet(file.advice.named)
RunNames(file) == {run.name : run \in ToSet(file.runs)} \ {""}

Unknown(file, refs) == {ref \in refs : ref.name \notin RunNames(file)}

\* _check_recommendation: the recommended run and the runners-up
UnknownAdvised(file) == Unknown(file, Named(file))

\* Mutant: the rankings are not held against the runs.
UnknownRankedNone(file) == {}

\* _check_rankings
UnknownRanked(file) == Unknown(file, file.ranked)

\* validate_backtest_comparison_report
Errors(file) ==
  Flag(file.count # Len(file.runs), "run_count_mismatch")
  \cup Flag(file.rows # Len(file.runs), "comparison_row_count_mismatch")
  \cup Flag(\E run \in ToSet(file.runs) : run.name = "", "run_name_empty")
  \cup Flag(UnknownRanked(file) \cup UnknownAdvised(file) # {}, "unknown_run")
  \cup Flag(\E ref \in ToSet(file.runs) \cup file.ranked \cup Named(file) : UnsafePath(ref.path),
            "unsafe_path")

----------------------------------------------------------------------------
(* The life of the file                                                    *)

\* What was compared is forgotten, the file is all there is.
Change(file) ==
  /\ report # NoReport
  /\ changes < MaxChanges
  /\ report' = file
  /\ changes' = changes + 1
  /\ compared' = <<>>
  /\ UNCHANGED exported

\* Somebody takes a run out, and corrects the counts or forgets to.
DropRun ==
  \E i \in DOMAIN report.runs, recounted \in SUBSET {"count", "rows"} :
    LET left == RemoveAt(report.runs, i) IN
    Change([report EXCEPT !.runs = left,
                          !.count = IF "count" \in recounted THEN Len(left) ELSE @,
                          !.rows = IF "rows" \in recounted THEN Len(left) ELSE @])

\* Somebody gives a run another name.
RenameRun ==
  \E i \in DOMAIN report.runs, name \in ToSet(NameOrder) :
    /\ name # report.runs[i].name
    /\ Change([report EXCEPT !.runs[i].name = name])

\* Somebody takes the recommendation out.
StripAdvice ==
  /\ report.advice # NoAdvice
  /\ Change([report EXCEPT !.advice = NoAdvice])

\* The report is exported as if it were a comparison: counts and manifest are
\* made anew, rankings and recommendation are passed on.  A recommendation made
\* anew sorts the runs that have a score by run_dir too, which a report does not
\* have: the export fails and writes nothing.
ReExport ==
  \E rooted, inside \in BOOLEAN :
    LET Again(ref) == [ref EXCEPT !.path = SafeRunPath(ref.path, inside, rooted)]
        runs == [i \in DOMAIN report.runs |-> Again(report.runs[i])]
        advice == report.advice
    IN /\ advice = NoAdvice => runs = <<>> \/ report.scores = "nowhere"
       /\ Change([report EXCEPT
            !.runs = runs, !.count = Len(runs), !.rows = Len(runs),
            !.ranked = {Again(ref) : ref \in report.ranked},
            !.advice = IF advice = NoAdvice
                       THEN [status |-> "no_valid_runs", acceptance |-> "not_evaluated", named |-> <<>>]
                       ELSE [advice EXCEPT !.named = [k \in DOMAIN advice.named |-> Again(advice.named[k])]],
            !.rooted = report.rooted \/ rooted])

ReportInit == report = NoReport /\ exported = {} /\ changes = 0

ReportNext ==
  \/ report = NoReport /\ CompareRun /\ UNCHANGED reportVars
  \/ Export
  \/ report # NoReport /\ (DropRun \/ RenameRun \/ StripAdvice \/ ReExport)

ReportSpec == ComparisonInit /\ ReportInit /\ [][ReportNext]_<<compared, reportVars>>

----------------------------------------------------------------------------
(* Properties                                                              *)

\* What the exporter writes the validator takes, wherever the runs are: with a
\* root, any runs whose directories are given by their names pass, today's
\* comparisons and old ones, and so does a report exported again; and no report
\* that was ever given a root shows an absolute path
\* (backtest_comparison_report.py:457).
RootedReportsPass ==
  report # NoReport /\ report.rooted =>
    /\ \A ref \in ToSet(report.runs) \cup report.ranked \cup Named(report) : ref.path # "absolute"
    /\ changes = 0 /\ exported \cap {"", ".."} = {} => Errors(report) = {}

\* An old comparison is judged as it would have been: the recommendation the
\* exporter makes up from the scores in the rankings is the one the runs' own
\* scores give, as long as no two runs have one name
\* (backtest_comparison_report.py:267).
RebuiltAdviceAgrees ==
  report # NoReport /\ changes = 0 /\ report.scores = "rankings"
  /\ Cardinality(exported) = Len(compared) =>
    LET advice == Advice(compared) IN
    /\ report.advice.status = advice.status
    /\ report.advice.acceptance = advice.acceptance
    /\ report.advice.named = [k \in DOMAIN advice.named |-> report.runs[advice.named[k]]]

\* A run cannot be made to disappear: in a report whose runs are no longer the
\* ones that were exported the validator finds something, also when the counts
\* were corrected, the recommendation was taken out, and the file was laundered
\* by exporting it again (backtest_comparison_report_validation.py:228).
MissingRunsShow ==
  report # NoReport /\ ~(exported \subseteq RunNames(report)) => Errors(report) # {}

\* What a report shows is what was compared, also after it was edited.
ReportsHold == RootedReportsPass /\ RebuiltAdviceAgrees /\ MissingRunsShow
==============================================================================
