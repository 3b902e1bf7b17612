---------------------------- MODULE BotLifecycle ----------------------------
(***************************************************************************)
(* One bot, its runs, and the processes that start, stop, pause, resume,   *)
(* evaluate and reconfigure it (engine/bot_runner.py, services/bot_run.py, *)
(* services/bot.py and the endpoints that call them).                      *)
(*                                                                         *)
(* A process does one operation at a time: handlers and the runner's task  *)
(* share one event loop and never await in the middle.  An operation is a  *)
(* row of transactions, and an action is one of them.  Several processes   *)
(* (API servers, one-shot runners) share the database; any of them may die *)
(* between two transactions.                                               *)
(***************************************************************************)
EXTENDS Integers, FiniteSets

CONSTANTS
  Processes,    \* server processes and one-shot runners
  Cooldown,     \* ticks a bot must not buy after a sell
  MaxRuns,      \* bound of the model: rows of bot_runs
  MaxRequests,  \* bound of the model: requests by clients
  MaxCrashes    \* bound of the model: failures considered

ASSUME BoundAssumption ==
  /\ Cooldown \in Nat
  /\ MaxRuns \in Nat
  /\ MaxRequests \in Nat
  /\ MaxCrashes \in Nat

VARIABLES
  status,    \* bots.status, "deleted" when the row is gone
  profile,   \* the execution profile: missing, disabled or enabled
  runs,      \* bot_runs
  ends,      \* per run, the ends its lifecycle events report
  position,  \* whether the bot holds its lot
  quiet,     \* ticks until the cooldown after the last sell is over
  noted,     \* the same as the latest order_filled event of a sell has it
  process,   \* the processes
  overlap,   \* two operations have been under way at once
  requests,  \* requests so far
  crashes    \* failures so far

vars == <<status, profile, runs, ends, position, quiet, noted, process,
          overlap, requests, crashes>>

----------------------------------------------------------------------------
(* Runs                                                                    *)

RunIds == 1..MaxRuns
Active == {"requested", "running"}
Terminal == {"succeeded", "failed", "cancelled"}
Statuses == Active \cup Terminal

Run == [status: Statuses \cup {"none"}, started: BOOLEAN, finished: BOOLEAN]
NoRun == [status |-> "none", started |-> FALSE, finished |-> FALSE]
RequestedRun == [NoRun EXCEPT !.status = "requested"]

\* What _record_manual_skip inserts when no run is active.
SkippedRun == [status |-> "succeeded", started |-> TRUE, finished |-> TRUE]

\* Mutant: a cancelled run may be started again.
AllowedAgain(from) ==
  IF from = "requested" THEN {"running", "cancelled"}
  ELSE IF from = "running" THEN Terminal ELSE {"running"}

\* ALLOWED_TRANSITIONS
Allowed(from) ==
  IF from = "requested" THEN {"running", "cancelled"}
  ELSE IF from = "running" THEN Terminal ELSE {}

InProgress(r) == runs[r].status \in Active

\* Mutant: get_active_for_bot looks for running runs only.
RunningRuns == {r \in RunIds : runs[r].status = "running"}

\* get_active_for_bot answers with any of these: there is no ORDER BY and no
\* unique index.
ActiveRuns == {r \in RunIds : InProgress(r)}

Unused == {r \in RunIds : runs[r].status = "none"}
Fresh(r) == r \in Unused /\ \A q \in Unused : r <= q

\* Mutant: a run that ends is not stamped.
StampedStart(run, seen, next) ==
  [run EXCEPT !.status = next,
              !.started = @ \/ (next = "running" /\ ~seen.started)]

\* BotRunService.update: the columns it changes, decided from the row it read.
Stamped(run, seen, next) ==
  [status |-> next,
   started |-> run.started
               \/ (next = "running" /\ ~seen.started)
               \/ (next \in Terminal /\ ~seen.finished /\ seen.status = "running"),
   finished |-> run.finished \/ (next \in Terminal /\ ~seen.finished)]

----------------------------------------------------------------------------
(* Processes.  seen is the run as the session read it; fresh says that the  *)
(* session has committed, so that it reads the bot again.                   *)

Ensuring == {"start", "resume", "evaluate"}
Ending == {"stop", "shutdown"}
Operations == Ensuring \cup Ending \cup {"create", "patch"}

Process == [at: {"idle", "down", "look", "check", "insert", "note", "read",
                 "write", "report", "trade", "bought", "sold"},
            op: Operations \cup {"none"},
            run: RunIds \cup {0},
            next: Statuses,
            seen: Run,
            fresh: BOOLEAN]

Idle == [at |-> "idle", op |-> "none", run |-> 0, next |-> "requested",
         seen |-> NoRun, fresh |-> FALSE]
Down == [Idle EXCEPT !.at = "down"]

Busy(p) == process[p].at \notin {"idle", "down"}

Begun(op) == [Idle EXCEPT !.at = "look", !.op = op]

Becomes(p, state) == process' = [process EXCEPT ![p] = state]

\* An operation that has done its work.
Ended(state) == IF state.op = "shutdown" THEN Down ELSE Idle

Evaluating(place) == [Idle EXCEPT !.at = place, !.op = "evaluate"]

\* _ensure_running_run has its run: an evaluation goes on.
Ensured(state) ==
  IF state.op = "evaluate"
  THEN [Evaluating("trade") EXCEPT !.fresh = state.fresh]
  ELSE Idle

Meets(p) == overlap' = (overlap \/ \E q \in Processes \ {p} : Busy(q))

\* A request a client sends to an idle process.
Receives(p) ==
  /\ process[p].at = "idle"
  /\ status # "deleted"
  /\ requests < MaxRequests
  /\ requests' = requests + 1
  /\ Meets(p)
  /\ UNCHANGED crashes

TypeOK ==
  /\ status \in {"draft", "active", "paused", "deleted"}
  /\ profile \in {"missing", "disabled", "enabled"}
  /\ runs \in [RunIds -> Run]
  /\ ends \in [RunIds -> SUBSET Terminal]
  /\ position \in BOOLEAN
  /\ quiet \in 0..Cooldown
  /\ noted \in 0..Cooldown
  /\ process \in [Processes -> Process]
  /\ overlap \in BOOLEAN
  /\ requests \in 0..MaxRequests
  /\ crashes \in 0..MaxCrashes

\* A bot as BotService.create leaves it, given a profile.
Init ==
  /\ status \in {"draft", "active"}
  /\ profile = "enabled"
  /\ runs = [r \in RunIds |-> NoRun]
  /\ ends = [r \in RunIds |-> {}]
  /\ position = FALSE
  /\ quiet = 0
  /\ noted = 0
  /\ process = [p \in Processes |-> Idle]
  /\ overlap = FALSE
  /\ requests = 0
  /\ crashes = 0

----------------------------------------------------------------------------
(* Requests                                                                *)

\* start_bot answers 404 without a profile; otherwise the status is committed
\* before the run is looked for.
Start(p) ==
  /\ Receives(p)
  /\ profile # "missing"
  /\ status' = "active"
  /\ Becomes(p, Begun("start"))
  /\ UNCHANGED <<profile, runs, ends, position, quiet, noted>>

\* resume_bot does not ask for a profile before it commits the status.
Resume(p) ==
  /\ Receives(p)
  /\ status' = "active"
  /\ Becomes(p, Begun("resume"))
  /\ UNCHANGED <<profile, runs, ends, position, quiet, noted>>

Stop(p) ==
  /\ Receives(p)
  /\ status' = "paused"
  /\ Becomes(p, Begun("stop"))
  /\ UNCHANGED <<profile, runs, ends, position, quiet, noted>>

\* pause_bot (the run stays as it is) and the PATCH of a bot's status.  A bot
\* that is a draft again is treated as a paused one.
SetStatus(p) ==
  /\ Receives(p)
  /\ status' \in {"active", "paused"} \ {status}
  /\ UNCHANGED <<profile, runs, ends, position, quiet, noted, process>>

SetProfile(p) ==
  /\ Receives(p)
  /\ profile' \in {"missing", "disabled", "enabled"} \ {profile}
  /\ UNCHANGED <<status, runs, ends, position, quiet, noted, process>>

\* Runs, events and profile go with the bot.
DeleteBot(p) ==
  /\ Receives(p)
  /\ status' = "deleted"
  /\ profile' = "missing"
  /\ runs' = [r \in RunIds |-> NoRun]
  /\ ends' = [r \in RunIds |-> {}]
  /\ UNCHANGED <<position, quiet, noted, process>>

\* POST /runs: BotRunService.create without the rest of the runner.
CreateRun(p) ==
  /\ Receives(p)
  /\ status = "active"
  /\ profile # "missing"
  /\ Becomes(p, [Begun("create") EXCEPT !.at = "check"])
  /\ UNCHANGED <<status, profile, runs, ends, position, quiet, noted>>

\* PATCH /runs/{run_id}.  "failed" is handled as "succeeded" is, and a PATCH to
\* "requested" is refused or changes nothing.
PatchRun(p) ==
  /\ Receives(p)
  /\ \E r \in RunIds \ Unused, next \in {"running", "succeeded", "cancelled"} :
       Becomes(p, [Begun("patch") EXCEPT !.at = "read", !.run = r, !.next = next])
  /\ UNCHANGED <<status, profile, runs, ends, position, quiet, noted>>

\* run_bot_once on a bot that is not to be evaluated: a skip is recorded, on a
\* run made for it if none is active.
SkipManually(p) ==
  /\ Receives(p)
  /\ status # "active" \/ profile # "enabled"
  /\ ActiveRuns = {}
  /\ \E r \in RunIds : /\ Fresh(r)
                       /\ runs' = [runs EXCEPT ![r] = SkippedRun]
  /\ UNCHANGED <<status, profile, ends, position, quiet, noted, process>>

\* BotRunner.stop: the runs of active bots are cancelled, then the process ends.
Shutdown(p) ==
  /\ Receives(p)
  /\ Becomes(p, IF status = "active" THEN Begun("shutdown") ELSE Down)
  /\ UNCHANGED <<status, profile, runs, ends, position, quiet, noted>>

Boot(p) ==
  /\ process[p].at = "down"
  /\ Becomes(p, Idle)
  /\ UNCHANGED <<status, profile, runs, ends, position, quiet, noted, overlap,
                 requests, crashes>>

\* The runner's cycle, a manual run, or the one-shot runner.
Evaluate(p) ==
  /\ process[p].at = "idle"
  /\ status = "active"
  /\ profile = "enabled"
  /\ Becomes(p, Begun("evaluate"))
  /\ Meets(p)
  /\ UNCHANGED <<status, profile, runs, ends, position, quiet, noted, requests,
                 crashes>>

----------------------------------------------------------------------------
(* The transactions of an operation                                        *)

At(p, place) == process[p].at = place /\ status # "deleted"

\* What a transaction leaves alone unless it says otherwise.
Elsewhere == UNCHANGED <<status, profile, overlap, requests, crashes>>

\* Mutant: a run that was only requested counts as running.
LookSettles(seen) == seen.status \in Active

\* _ensure_running_run needs nothing more.
IsRunning(seen) == seen.status = "running"

\* get_active_for_bot.  The object stays in the session, so the update that
\* follows decides from what was read here.
Look(p) ==
  /\ At(p, "look")
  /\ \/ \E r \in ActiveRuns :
          LET found == [process[p] EXCEPT !.run = r, !.seen = runs[r]]
          IN  Becomes(p,
                IF found.op \in Ending
                THEN [found EXCEPT !.at = "write", !.next = "cancelled"]
                ELSE IF IsRunning(found.seen)
                THEN Ensured(found)
                ELSE [found EXCEPT !.at = "write", !.next = "running"])
     \/ /\ ActiveRuns = {}
        /\ Becomes(p, IF process[p].op \in Ending
                      THEN Ended(process[p])
                      ELSE [process[p] EXCEPT !.at = "check"])
  /\ Elsewhere /\ UNCHANGED <<runs, ends, position, quiet, noted>>

\* Mutant: BotRunService.create does not look for a run in progress.
MayAlwaysCreate == profile # "missing"

\* What BotRunService.create asks before it inserts.  The bot's status is that
\* of the object in the session, which every caller found or made active.
MayCreate == profile # "missing" /\ ActiveRuns = {}

\* A refusal is a 404 or 409 for a client, and an error event of an evaluation.
Check(p) ==
  /\ At(p, "check")
  /\ Becomes(p, IF MayCreate THEN [process[p] EXCEPT !.at = "insert"] ELSE Idle)
  /\ Elsewhere /\ UNCHANGED <<runs, ends, position, quiet, noted>>

Insert(p) ==
  /\ At(p, "insert")
  /\ \E r \in RunIds :
       /\ Fresh(r)
       /\ runs' = [runs EXCEPT ![r] = RequestedRun]
       /\ Becomes(p, [process[p] EXCEPT !.at = "note", !.run = r])
  /\ Elsewhere /\ UNCHANGED <<ends, position, quiet, noted>>

\* The event "Run requested" is a transaction of its own.
NoteRequest(p) ==
  /\ At(p, "note")
  /\ Becomes(p, IF process[p].op = "create"
                THEN Idle
                ELSE [process[p] EXCEPT !.at = "read", !.next = "running"])
  /\ Elsewhere /\ UNCHANGED <<runs, ends, position, quiet, noted>>

\* BotRunService.update reads the run and validates the transition.
Read(p) ==
  LET seen == runs[process[p].run]
  IN  /\ At(p, "read")
      /\ Becomes(p,
           IF process[p].next \in Allowed(seen.status)
           THEN [process[p] EXCEPT !.at = "write", !.seen = seen]
           ELSE IF process[p].next = seen.status /\ process[p].op # "patch"
           THEN Ensured([process[p] EXCEPT !.fresh = TRUE])
           ELSE Idle)
      /\ Elsewhere /\ UNCHANGED <<runs, ends, position, quiet, noted>>

\* Its UPDATE goes by primary key.
Write(p) ==
  LET r == process[p].run
  IN  /\ At(p, "write")
      /\ runs' = [runs EXCEPT ![r] = Stamped(@, process[p].seen, process[p].next)]
      /\ Becomes(p, [process[p] EXCEPT !.at = "report", !.seen = NoRun])
      /\ Elsewhere /\ UNCHANGED <<ends, position, quiet, noted>>

\* The event "Run status changed", after the commit of the change.
Report(p) ==
  /\ At(p, "report")
  /\ ends' = [ends EXCEPT ![process[p].run] = @ \cup ({process[p].next} \cap Terminal)]
  /\ Becomes(p, IF process[p].op \in Ensuring
                THEN Ensured([process[p] EXCEPT !.fresh = TRUE])
                ELSE Ended(process[p]))
  /\ Elsewhere /\ UNCHANGED <<runs, position, quiet, noted>>

\* _evaluate_bot under the bot's row lock.  Only a session that has committed
\* since it read the bot sees that it was paused.
StillWanted(p) == process[p].fresh => status = "active" /\ profile = "enabled"

\* Inactive strategy, no signal, cooldown, risk, gate, guard, or no longer wanted.
Hold(p) ==
  /\ At(p, "trade")
  /\ Becomes(p, Idle)
  /\ Elsewhere /\ UNCHANGED <<runs, ends, position, quiet, noted>>

\* The fill commits and releases the bot's row; the event that tells of it is a
\* later transaction.
Buy(p) ==
  /\ At(p, "trade")
  /\ StillWanted(p)
  /\ ~position
  /\ noted = 0
  /\ position' = TRUE
  /\ Becomes(p, Evaluating("bought"))
  /\ Elsewhere /\ UNCHANGED <<runs, ends, quiet, noted>>

Sell(p) ==
  /\ At(p, "trade")
  /\ StillWanted(p)
  /\ position
  /\ position' = FALSE
  /\ quiet' = Cooldown
  /\ Becomes(p, Evaluating("sold"))
  /\ Elsewhere /\ UNCHANGED <<runs, ends, noted>>

\* Mutant: the cooldown counts from the latest fill of a buy.
NotedAfterBuy(at) == IF at = "bought" THEN Cooldown ELSE noted

\* get_latest_order_filled_for_bot(side="sell") plus cooldown_seconds.
NotedAfter(at) == IF at = "sold" THEN Cooldown ELSE noted

\* The event "order_filled".
NoteFill(p) ==
  /\ At(p, "bought") \/ At(p, "sold")
  /\ noted' = NotedAfter(process[p].at)
  /\ Becomes(p, Idle)
  /\ Elsewhere /\ UNCHANGED <<runs, ends, position, quiet>>

----------------------------------------------------------------------------
(* Failures and time                                                       *)

\* The process dies, or a statement raises: what is committed stays.
Fail(p) ==
  /\ Busy(p)
  /\ crashes < MaxCrashes
  /\ crashes' = crashes + 1
  /\ Becomes(p, Idle)
  /\ UNCHANGED <<status, profile, runs, ends, position, quiet, noted, overlap,
                 requests>>

\* After the bot was deleted every next statement of an operation raises.
Vanish(p) ==
  /\ Busy(p)
  /\ status = "deleted"
  /\ Becomes(p, Ended(process[p]))
  /\ UNCHANGED <<status, profile, runs, ends, position, quiet, noted, overlap,
                 requests, crashes>>

Tick ==
  /\ quiet + noted > 0
  /\ quiet' = IF quiet > 0 THEN quiet - 1 ELSE 0
  /\ noted' = IF noted > 0 THEN noted - 1 ELSE 0
  /\ UNCHANGED <<status, profile, runs, ends, position, process, overlap,
                 requests, crashes>>

----------------------------------------------------------------------------
Request(p) ==
  \/ Start(p) \/ Resume(p) \/ Stop(p) \/ SetStatus(p) \/ SetProfile(p)
  \/ DeleteBot(p) \/ CreateRun(p) \/ PatchRun(p) \/ SkipManually(p)
  \/ Shutdown(p)

Step(p) ==
  \/ Look(p) \/ Check(p) \/ Insert(p) \/ NoteRequest(p) \/ Read(p) \/ Write(p)
  \/ Report(p) \/ Hold(p) \/ Buy(p) \/ Sell(p) \/ NoteFill(p) \/ Vanish(p)

Next ==
  \/ \E p \in Processes : Request(p) \/ Evaluate(p) \/ Step(p) \/ Boot(p) \/ Fail(p)
  \/ Tick

Spec == Init /\ [][Next]_vars

\* An operation that has begun goes on; a server that was shut down is started
\* again; the runner's task, which sleeps between cycles, gets its turn between
\* the requests of its process.
Fairness ==
  \A p \in Processes : /\ WF_vars(Step(p))
                       /\ WF_vars(Boot(p))
                       /\ SF_vars(Evaluate(p))

FairSpec == Spec /\ Fairness

----------------------------------------------------------------------------
(* Why it is safe: the inductive invariant.                                *)

\* An operation has a row to work on, and what its session read of the row has
\* not been taken back: the stamps of a row are only ever set.
ReadsStand ==
  \A p \in Processes : status # "deleted" =>
    /\ process[p].at \in {"note", "read", "write", "report"} =>
         process[p].run \in RunIds /\ runs[process[p].run].status # "none"
    /\ process[p].at = "write" =>
         /\ process[p].next \in Allowed(process[p].seen.status)
         /\ process[p].seen.started => runs[process[p].run].started
         /\ process[p].seen.finished => runs[process[p].run].finished

\* Who ends a run looks for it and cancels it.
EndingCancels ==
  \A p \in Processes : process[p].op \in Ending =>
    \/ process[p].at = "look"
    \/ process[p].at \in {"write", "report"} /\ process[p].next = "cancelled"

\* Runs go with their bot.
NoOrphans == status = "deleted" => \A r \in RunIds : ~InProgress(r)

\* While nothing overlaps one process is at work, and what it read is so.
AloneAtWork ==
  ~overlap => \A p \in Processes : Busy(p) =>
    /\ \A q \in Processes : Busy(q) => p = q
    /\ status # "deleted" =>
         /\ process[p].at = "insert" => \A r \in RunIds : ~InProgress(r)
         /\ process[p].at = "write" => runs[process[p].run] = process[p].seen
         /\ process[p].at = "report" => runs[process[p].run].status = process[p].next
         /\ process[p].at = "report" /\ process[p].op \in Ending =>
              \A r \in RunIds : ~InProgress(r)

\* The events know of the cooldown, or the process that sold is about to say so.
CooldownKnown ==
  ~overlap /\ crashes = 0 /\ status # "deleted" =>
    quiet <= noted \/ \E p \in Processes : process[p].at = "sold"

----------------------------------------------------------------------------
(* Properties.  Nothing in the database keeps operations of two processes   *)
(* apart, so most of them are promised only while no two have overlapped.   *)

\* A bot has one run in progress at most (repositories/bot_run.py:38 takes
\* any), whatever sequence of requests, evaluations and failures came before.
OneActiveRun ==
  ~overlap => \A r, q \in RunIds : InProgress(r) /\ InProgress(q) => r = q

\* started_at and finished_at go with the status, also when updates of two
\* processes decided from the same row; without overlap a run in progress has
\* no finished_at and a requested run no started_at.
StampsFit ==
  \A r \in RunIds :
    /\ runs[r].status = "running" => runs[r].started
    /\ runs[r].status \in Terminal => runs[r].finished
    /\ ~overlap /\ runs[r].status \in Active =>
         /\ ~runs[r].finished
         /\ runs[r].started <=> runs[r].status = "running"

\* The lifecycle events of a run report no end but the one it came to.
EventsAgree ==
  ~overlap => \A r \in RunIds : ends[r] \subseteq {runs[r].status}

\* The inductive invariant: it holds initially, every step preserves it, and
\* with it every step keeps the action properties below.
IInv ==
  /\ TypeOK
  /\ ReadsStand
  /\ EndingCancels
  /\ NoOrphans
  /\ AloneAtWork
  /\ CooldownKnown
  /\ OneActiveRun
  /\ StampsFit
  /\ EventsAgree

\* A run that has ended stays as it is, as long as the bot exists.
RunsEndOnce ==
  [][\A r \in RunIds : ~overlap /\ runs[r].status \in Terminal /\ status' # "deleted"
        => runs'[r] = runs[r]]_vars

\* When stop_bot, or the shutdown while the bot is active, comes to its end, no
\* run of the bot is in progress.
EndingLeavesNothing ==
  [][\A p \in Processes :
        /\ Busy(p) /\ process[p].op \in Ending /\ ~Busy(p)'
        /\ ~overlap /\ crashes' = crashes
        => \A r \in RunIds : ~InProgress(r)']_vars

\* A bot does not buy within the cooldown of its last sell, unless a second
\* process or a failure came between the fill and its event.
CooldownKept ==
  [][~position /\ position' => quiet = 0 \/ overlap \/ crashes > 0]_vars

\* The runner gets a run going, and keeps one, for a bot that stays active with
\* an enabled profile.
ActiveBotsRun ==
  <>[](status = "active" /\ profile = "enabled")
    => <>[](\E r \in RunIds : runs[r].status = "running")

=============================================================================
