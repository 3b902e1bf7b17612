------------------------- MODULE TestnetSubmission -------------------------
(***************************************************************************)
(* Submission of market orders to the Binance spot testnet, and the        *)
(* reconciliation of the submissions whose outcome was not heard.          *)
(*                                                                         *)
(* A call of BinanceTestnetBroker.submit_market_order reserves an attempt  *)
(* row (committed before the POST), posts the order once, and finalises    *)
(* the row with what it heard.  A call may crash anywhere.  Each reserved  *)
(* attempt has a delayed reconciliation job; workers claim due jobs under  *)
(* a lease, ask the exchange, and record what they find.  Operators may    *)
(* reconcile an attempt by hand at any time.  While an attempt of a bot is *)
(* unresolved, no other order of that bot may be posted.                   *)
(*                                                                         *)
(* Processes share only the database (PostgreSQL, READ COMMITTED) and the  *)
(* exchange, so an action is what happens between two points where another *)
(* process can be seen: a statement, a commit, or an exchange reply.       *)
(***************************************************************************)
EXTENDS Integers, FiniteSets

CONSTANTS
  Calls,                 \* calls of submit_market_order; also the attempt ids
  Bots,                  \* bots on whose behalf the calls are made
  BotOf,                 \* the bot of each call
  Legacy,                \* calls that may be older than the jobs table (migration 0027)
  Workers,               \* reconciliation worker processes
  Operators,             \* clients of the manual reconciliation endpoint
  NoCall,                \* "works on no attempt"
  NoWorker,              \* "claimed by nobody" (lease_token is NULL)
  InitialDelay,          \* ticks from reservation to the first automatic check
  RetryDelay,            \* ticks between two automatic checks
  LeaseTime,             \* ticks a claim is protected
  MaxAutomaticAttempts,  \* automatic checks before a job is exhausted
  BatchLimit,            \* jobs claimed at once
  MaxCrashes             \* bound of the model: process crashes considered

ASSUME CallAssumption ==
  /\ BotOf \in [Calls -> Bots]
  /\ Legacy \subseteq Calls
  /\ NoCall \notin Calls
  /\ NoWorker \notin Workers

\* app/core/config.py: every one of these settings is declared gt=0.
ASSUME SettingsAssumption ==
  /\ InitialDelay \in Nat \ {0}
  /\ RetryDelay \in Nat \ {0}
  /\ LeaseTime \in Nat \ {0}
  /\ MaxAutomaticAttempts \in Nat \ {0}
  /\ BatchLimit \in Nat \ {0}
  /\ MaxCrashes \in Nat

VARIABLES
  row,       \* execution_attempts: the row of each call
  job,       \* execution_reconciliation_jobs: the job of each attempt
  call,      \* where each call of submit_market_order is
  wire,      \* what became of each POST, seen from the exchange
  quota,     \* execution_daily_quota_usage of the day, per bot
  worker,    \* the reconciliation workers
  operator,  \* the manual reconciliation requests
  crashes    \* crashes so far

vars == <<row, job, call, wire, quota, worker, operator, crashes>>

----------------------------------------------------------------------------
(* Rows                                                                    *)

\* final_status, the family final_reason belongs to, and the metadata keys
\* submission_status_unknown, submission_recovered and
\* reconciliation_resolution, which are only ever written together as
\* absent, TRUE/FALSE/"unresolved" or TRUE/TRUE/"found".
Row == [status: {"none", "created", "order_created", "rejected_by_broker",
                 "blocked_by_safety"},
        reason: {"none", "reserved", "accepted", "rejected", "unresolved",
                 "recovered"},
        resolution: {"absent", "unresolved", "found"}]

NoRow == [status |-> "none", reason |-> "none", resolution |-> "absent"]

BlockedRow ==
  [status |-> "blocked_by_safety", reason |-> "rejected", resolution |-> "absent"]

RejectedRow ==
  [status |-> "rejected_by_broker", reason |-> "rejected", resolution |-> "absent"]

ReservedRow ==
  [status |-> "created", reason |-> "reserved", resolution |-> "unresolved"]

RecoveredRow ==
  [status |-> "order_created", reason |-> "recovered", resolution |-> "found"]

UnresolvedRow ==
  [status |-> "rejected_by_broker", reason |-> "unresolved", resolution |-> "unresolved"]

\* What _finalize_reserved_attempt writes for each outcome of the call.
FinalRow(outcome) ==
  CASE outcome = "accepted"   -> [status |-> "order_created", reason |-> "accepted",
                                  resolution |-> "absent"]
    [] outcome = "recovered"  -> RecoveredRow
    [] outcome = "rejected"   -> RejectedRow
    [] outcome = "unresolved" -> UnresolvedRow

\* The row says that the exchange outcome is still unknown.
Unresolved(r) == r.reason = "unresolved" \/ r.resolution = "unresolved"

\* Mutant: only final_reason is looked at, not the metadata.
GateClosedByReason(b) == \E c \in Calls : BotOf[c] = b /\ row[c].reason = "unresolved"

\* The submission gate: has_unresolved_testnet_submission_for_bot.
GateClosed(b) == \E c \in Calls : BotOf[c] = b /\ Unresolved(row[c])

\* eligibility_reason_for_attempt; also _ensure_reconcilable.
Eligible(r) == r.resolution = "unresolved"

\* _submission_recovered
Recovered(r) == r.resolution = "found"

----------------------------------------------------------------------------
(* Jobs.  timer counts down: to next_attempt_at while pending, to          *)
(* lease_expires_at while claimed.  The lease token is fresh at each claim; *)
(* a worker holds at most one ticket for a job and loses its tickets when   *)
(* it crashes, so the token is named by the worker that drew it.            *)

Job == [state: {"none", "pending", "claimed", "resolved", "exhausted"},
        timer: Nat,
        holder: Workers \cup {NoWorker},
        count: Nat]

NoJob == [state |-> "none", timer |-> 0, holder |-> NoWorker, count |-> 0]

PendingJob(delay, count) ==
  [state |-> "pending", timer |-> delay, holder |-> NoWorker, count |-> count]

ClaimedJob(w, count) ==
  [state |-> "claimed", timer |-> LeaseTime, holder |-> w, count |-> count]

EndedJob(state, count) ==
  [state |-> state, timer |-> 0, holder |-> NoWorker, count |-> count]

\* Mutant: a claim whose lease ran out is not taken over.
DueWhilePending(c) == job[c].state = "pending" /\ job[c].timer = 0

\* pending past next_attempt_at, or claimed past lease_expires_at
Due(c) == job[c].state \in {"pending", "claimed"} /\ job[c].timer = 0

Owns(w, c) == job[c].state = "claimed" /\ job[c].holder = w

\* Mutant: an existing job starts again from zero.
EnqueueAfresh(c, r, delay) ==
  IF Eligible(r) THEN [job EXCEPT ![c] = PendingJob(delay, 0)] ELSE job

\* Mutant: a reservation is not yet worth a job.
EnqueueAfterOutcome(c, r, delay) ==
  IF r.reason = "unresolved" /\ job[c].state = "none"
    THEN [job EXCEPT ![c] = PendingJob(delay, 0)]
    ELSE job

\* ensure_pending_job_for_attempt: a job is made only for an eligible row
\* that has none; a job that exists, in whatever state, stays as it is.
Enqueue(c, r, delay) ==
  IF Eligible(r) /\ job[c].state = "none"
    THEN [job EXCEPT ![c] = PendingJob(delay, 0)]
    ELSE job

\* Mutant: a job that is over is left alone.
ResolveOpenJob(c) ==
  IF job[c].state \in {"none", "resolved", "exhausted"}
    THEN job
    ELSE [job EXCEPT ![c] = EndedJob("resolved", job[c].count)]

\* Mutant: a claimed job is left to the worker that claimed it.
ResolveUnclaimedJob(c) ==
  IF job[c].state \in {"none", "claimed"}
    THEN job
    ELSE [job EXCEPT ![c] = EndedJob("resolved", job[c].count)]

\* mark_job_resolved_for_attempt: whoever holds the claim.
ResolveJob(c) ==
  IF job[c].state = "none"
    THEN job
    ELSE [job EXCEPT ![c] = EndedJob("resolved", job[c].count)]

----------------------------------------------------------------------------
(* Processes                                                               *)

Outcomes == {"accepted", "recovered", "rejected", "unresolved"}

CallState == {"idle", "guarded", "cleared", "reserved", "posted", "unknown", "done", "crashed"}
               \cup Outcomes

WireState == {"unsent", "sent", "placed", "refused", "lost"}

\* ticket[c] is the automatic_attempt_count the job will have when this worker
\* is done with it (next_count); 0 when the worker has no ticket for c.  plan
\* is what the worker is about to write.
WorkerState == [pc: {"idle", "batch", "read", "query", "check", "commit"},
                on: Calls \cup {NoCall},
                plan: {"none", "found", "missed", "settled", "ineligible"},
                ticket: [Calls -> Nat]]

NoTickets == [c \in Calls |-> 0]

IdleWorker == [pc |-> "idle", on |-> NoCall, plan |-> "none", ticket |-> NoTickets]

OperatorState == [pc: {"idle", "query", "read", "write"},
                  on: Calls \cup {NoCall},
                  found: BOOLEAN]

IdleOperator == [pc |-> "idle", on |-> NoCall, found |-> FALSE]

\* The bot row is locked FOR UPDATE from the guard to the reservation's commit.
HoldsBotLock(c) == call[c] \in {"guarded", "cleared"}

\* Mutant: the guard does not lock the bot row.
BotNeverLocked(b) == FALSE

BotLocked(b) == \E c \in Calls : BotOf[c] = b /\ HoldsBotLock(c)

WritesRow(plan) == plan \in {"found", "missed"}

\* Mutant: a worker's UPDATE is flushed only by its commit.
RowNeverLocked(c) == FALSE

\* The attempt row is locked from a worker's flushed UPDATE to its commit.
RowLocked(c) ==
  \E w \in Workers : /\ worker[w].pc = "commit"
                     /\ worker[w].on = c
                     /\ WritesRow(worker[w].plan)

----------------------------------------------------------------------------
\* The attempts in old were made before the upgrade that created the jobs
\* table; their outcome was unresolved and they have no job.
Init ==
  \E old \in SUBSET Legacy :
    /\ row = [c \in Calls |-> IF c \in old THEN UnresolvedRow ELSE NoRow]
    /\ job = [c \in Calls |-> NoJob]
    /\ call = [c \in Calls |-> IF c \in old THEN "done" ELSE "idle"]
    /\ wire \in [Calls -> {"unsent", "placed", "lost"}]
    /\ \A c \in Calls : wire[c] = "unsent" <=> c \notin old
    /\ quota = [b \in Bots |-> 0]
    /\ worker = [w \in Workers |-> IdleWorker]
    /\ operator = [m \in Operators |-> IdleOperator]
    /\ crashes = 0

----------------------------------------------------------------------------
(* The broker: one call of submit_market_order                             *)

\* Broker switches, the safety guard, missing credentials and the dry run
\* refuse the order before the gate is asked.  None of them leaves an outcome
\* to be resolved.
RefuseEarly(c) ==
  /\ call[c] = "idle"
  /\ \E r \in {BlockedRow, RejectedRow} : row' = [row EXCEPT ![c] = r]
  /\ call' = [call EXCEPT ![c] = "done"]
  /\ UNCHANGED <<job, wire, quota, worker, operator, crashes>>

\* _guard_unresolved_submission locks the bot row, then asks the gate.
GuardBlocks(c) ==
  /\ call[c] = "idle"
  /\ ~BotLocked(BotOf[c])
  /\ GateClosed(BotOf[c])
  /\ row' = [row EXCEPT ![c] = BlockedRow]
  /\ call' = [call EXCEPT ![c] = "done"]
  /\ UNCHANGED <<job, wire, quota, worker, operator, crashes>>

GuardAdmits(c) ==
  /\ call[c] = "idle"
  /\ ~BotLocked(BotOf[c])
  /\ ~GateClosed(BotOf[c])
  /\ call' = [call EXCEPT ![c] = "guarded"]
  /\ UNCHANGED <<row, job, wire, quota, worker, operator, crashes>>

\* Exchange filters or the account preflight refuse the order; the caller's
\* commit releases the bot row.
PreflightRejects(c) ==
  /\ call[c] = "guarded"
  /\ row' = [row EXCEPT ![c] = RejectedRow]
  /\ call' = [call EXCEPT ![c] = "done"]
  /\ UNCHANGED <<job, wire, quota, worker, operator, crashes>>

\* _reserve_real_submission_attempt asks the gate again: a manual
\* reconciliation does not lock the bot row and may have closed it.
ReserveBlocked(c) ==
  /\ call[c] = "guarded"
  /\ GateClosed(BotOf[c])
  /\ row' = [row EXCEPT ![c] = BlockedRow]
  /\ call' = [call EXCEPT ![c] = "done"]
  /\ UNCHANGED <<job, wire, quota, worker, operator, crashes>>

ReserveCleared(c) ==
  /\ call[c] = "guarded"
  /\ ~GateClosed(BotOf[c])
  /\ call' = [call EXCEPT ![c] = "cleared"]
  /\ UNCHANGED <<row, job, wire, quota, worker, operator, crashes>>

\* The reservation and its job are committed before the order is posted; the
\* commit releases the bot row.
Reserve(c) ==
  /\ call[c] = "cleared"
  /\ row' = [row EXCEPT ![c] = ReservedRow]
  /\ job' = Enqueue(c, ReservedRow, InitialDelay)
  /\ call' = [call EXCEPT ![c] = "reserved"]
  /\ UNCHANGED <<wire, quota, worker, operator, crashes>>

Post(c) ==
  /\ call[c] = "reserved"
  /\ wire' = [wire EXCEPT ![c] = "sent"]
  /\ call' = [call EXCEPT ![c] = "posted"]
  /\ UNCHANGED <<row, job, quota, worker, operator, crashes>>

\* _submit_signed_order: a usable success, an error that settles the matter,
\* or silence: a timeout, a network error, HTTP 5xx, codes -1006 and -1007, an
\* unusable body.
HearAnswer(c) ==
  /\ call[c] = "posted"
  /\ \/ /\ wire[c] = "placed"
        /\ call' = [call EXCEPT ![c] = "accepted"]
     \/ /\ wire[c] = "refused"
        /\ call' = [call EXCEPT ![c] = "rejected"]
     \/ call' = [call EXCEPT ![c] = "unknown"]
  /\ UNCHANGED <<row, job, wire, quota, worker, operator, crashes>>

\* _reconcile_status_unknown_submission: one query.  Only a matching order
\* counts; everything else, "no such order" included, leaves it unresolved.
AskOnce(c) ==
  /\ call[c] = "unknown"
  /\ \/ /\ wire[c] = "placed"
        /\ call' = [call EXCEPT ![c] = "recovered"]
     \/ call' = [call EXCEPT ![c] = "unresolved"]
  /\ UNCHANGED <<row, job, wire, quota, worker, operator, crashes>>

\* Mutant: everything but a refusal is counted.
CountsUnlessRefused(outcome) == outcome # "rejected"

\* _record_successful_daily_quota is called for these outcomes.
Counts(outcome) == outcome \in {"accepted", "recovered"}

\* The quota and _finalize_reserved_attempt, in one transaction.  The row is
\* overwritten whatever reconciliation wrote meanwhile.
Finalize(c) ==
  /\ call[c] \in Outcomes
  /\ ~RowLocked(c)
  /\ row' = [row EXCEPT ![c] = FinalRow(call[c])]
  /\ job' = IF call[c] = "unresolved"
              THEN Enqueue(c, FinalRow(call[c]), InitialDelay)
              ELSE ResolveJob(c)
  /\ quota' = IF Counts(call[c])
                THEN [quota EXCEPT ![BotOf[c]] = @ + 1]
                ELSE quota
  /\ call' = [call EXCEPT ![c] = "done"]
  /\ UNCHANGED <<wire, worker, operator, crashes>>

\* The process that runs the call dies; its open transaction is rolled back.
CrashCall(c) ==
  /\ call[c] \notin {"idle", "done", "crashed"}
  /\ crashes < MaxCrashes
  /\ crashes' = crashes + 1
  /\ call' = [call EXCEPT ![c] = "crashed"]
  /\ UNCHANGED <<row, job, wire, quota, worker, operator>>

----------------------------------------------------------------------------
(* The exchange (external).  A request may arrive long after the client has *)
(* given up on it, or never.                                                *)

ExchangeDecides(c) ==
  /\ wire[c] = "sent"
  /\ \E s \in {"placed", "refused", "lost"} : wire' = [wire EXCEPT ![c] = s]
  /\ UNCHANGED <<row, job, call, quota, worker, operator, crashes>>

----------------------------------------------------------------------------
(* The reconciliation worker                                               *)

\* claim_due_jobs: as many due jobs as the limit allows, in one transaction.
\* The order by next_attempt_at is left open: any choice is allowed.
Claim(w, S) ==
  /\ worker[w].pc = "idle"
  /\ S # {}
  /\ \A c \in S : Due(c)
  /\ \/ Cardinality(S) = BatchLimit
     \/ Cardinality(S) < BatchLimit /\ \A c \in Calls \ S : ~Due(c)
  /\ job' = [c \in Calls |->
               IF c \in S
                 THEN ClaimedJob(w, job[c].count)
                 ELSE job[c]]
  /\ worker' = [worker EXCEPT ![w] =
                  [pc |-> "batch", on |-> NoCall, plan |-> "none",
                   ticket |-> [c \in Calls |->
                                 IF c \in S THEN job[c].count + 1 ELSE 0]]]
  /\ UNCHANGED <<row, call, wire, quota, operator, crashes>>

\* The worker is done with call c: on to its next ticket, or idle.
NextTicket(w, c) ==
  LET left == [worker[w].ticket EXCEPT ![c] = 0]
  IN  IF \E d \in Calls : left[d] > 0
        THEN [pc |-> "batch", on |-> NoCall, plan |-> "none", ticket |-> left]
        ELSE IdleWorker

\* _process_claimed_job starts with a look at its claim.
CheckClaim(w, c) ==
  /\ worker[w].pc = "batch"
  /\ worker[w].ticket[c] > 0
  /\ worker' = [worker EXCEPT ![w] =
                  IF Owns(w, c) THEN [@ EXCEPT !.pc = "read", !.on = c]
                                ELSE NextTicket(w, c)]
  /\ UNCHANGED <<row, job, call, wire, quota, operator, crashes>>

\* The next statement reads the attempt; another transaction may have
\* committed in between.
ReadAttempt(w) ==
  LET r == row[worker[w].on]
  IN  /\ worker[w].pc = "read"
      /\ worker' = [worker EXCEPT ![w] =
           IF Recovered(r) THEN [@ EXCEPT !.pc = "check", !.plan = "settled"]
           ELSE IF Eligible(r) THEN [@ EXCEPT !.pc = "query"]
           ELSE [@ EXCEPT !.pc = "check", !.plan = "ineligible"]]
      /\ UNCHANGED <<row, job, call, wire, quota, operator, crashes>>

\* query_order_status.  The attempt "re-read" after the query is the object the
\* session already holds, so what was committed meanwhile is not seen.
Query(w) ==
  /\ worker[w].pc = "query"
  /\ \/ /\ wire[worker[w].on] = "placed"
        /\ worker' = [worker EXCEPT ![w].pc = "check", ![w].plan = "found"]
     \/ worker' = [worker EXCEPT ![w].pc = "check", ![w].plan = "missed"]
  /\ UNCHANGED <<row, job, call, wire, quota, operator, crashes>>

\* The UPDATE of the attempt is flushed, which waits for its row lock and keeps
\* it; then the claim is looked at again, and a lost claim rolls back.
CheckAgain(w) ==
  LET c == worker[w].on
  IN  /\ worker[w].pc = "check"
      /\ WritesRow(worker[w].plan) => ~RowLocked(c)
      /\ worker' = [worker EXCEPT ![w] =
                      IF Owns(w, c) THEN [@ EXCEPT !.pc = "commit"]
                                    ELSE NextTicket(w, c)]
      /\ UNCHANGED <<row, job, call, wire, quota, operator, crashes>>

\* Mutant: "no such order" is taken as proof that there is none.
WorkerRowBelievesMiss(r, plan) ==
  CASE plan = "found"  -> RecoveredRow
    [] plan = "missed" -> RejectedRow
    [] OTHER           -> r

WorkerRow(r, plan) ==
  CASE plan = "found"  -> RecoveredRow
    [] plan = "missed" -> [r EXCEPT !.resolution = "unresolved"]
    [] OTHER           -> r

\* Mutant: one check more than the budget.
WorkerJobOneMore(plan, count) ==
  CASE plan \in {"found", "settled"} -> EndedJob("resolved", count)
    [] plan = "ineligible" -> EndedJob("exhausted", count)
    [] plan = "missed" -> IF count > MaxAutomaticAttempts
                            THEN EndedJob("exhausted", count)
                            ELSE PendingJob(RetryDelay, count)

\* mark_claimed_job_resolved, release_claimed_job_for_retry or
\* mark_claimed_job_exhausted.
WorkerJob(plan, count) ==
  CASE plan \in {"found", "settled"} -> EndedJob("resolved", count)
    [] plan = "ineligible" -> EndedJob("exhausted", count)
    [] plan = "missed" -> IF count >= MaxAutomaticAttempts
                            THEN EndedJob("exhausted", count)
                            ELSE PendingJob(RetryDelay, count)

\* The job is updated by primary key, so also if its claim was replaced since
\* the worker looked.
Commit(w) ==
  LET c == worker[w].on
      plan == worker[w].plan
  IN  /\ worker[w].pc = "commit"
      /\ row' = [row EXCEPT ![c] = WorkerRow(@, plan)]
      /\ job' = [job EXCEPT ![c] = WorkerJob(plan, worker[w].ticket[c])]
      /\ worker' = [worker EXCEPT ![w] = NextTicket(w, c)]
      /\ UNCHANGED <<call, wire, quota, operator, crashes>>

\* The worker process dies with its tickets; its leases run out.
CrashWorker(w) ==
  /\ worker[w].pc # "idle"
  /\ crashes < MaxCrashes
  /\ crashes' = crashes + 1
  /\ worker' = [worker EXCEPT ![w] = IdleWorker]
  /\ UNCHANGED <<row, job, call, wire, quota, operator>>

----------------------------------------------------------------------------
(* Manual reconciliation: one request of the endpoint                      *)

\* The guards of manually_reconcile_attempt; a request they refuse changes
\* nothing.  The read transaction ends before the exchange is asked.
ManualBegin(m, c) ==
  /\ operator[m].pc = "idle"
  /\ Eligible(row[c])
  /\ operator' = [operator EXCEPT ![m] = [pc |-> "query", on |-> c, found |-> FALSE]]
  /\ UNCHANGED <<row, job, call, wire, quota, worker, crashes>>

ManualQuery(m) ==
  /\ operator[m].pc = "query"
  /\ \/ /\ wire[operator[m].on] = "placed"
        /\ operator' = [operator EXCEPT ![m].pc = "read", ![m].found = TRUE]
     \/ operator' = [operator EXCEPT ![m].pc = "read"]
  /\ UNCHANGED <<row, job, call, wire, quota, worker, crashes>>

\* A fresh read, since the transaction was ended.  Only a recovery is noticed;
\* whether the row is still reconcilable is not asked again.
ManualRead(m) ==
  /\ operator[m].pc = "read"
  /\ operator' = [operator EXCEPT ![m] = IF Recovered(row[operator[m].on])
                                           THEN IdleOperator
                                           ELSE [@ EXCEPT !.pc = "write"]]
  /\ UNCHANGED <<row, job, call, wire, quota, worker, crashes>>

ManualRow(r, found) ==
  IF found THEN RecoveredRow ELSE [r EXCEPT !.resolution = "unresolved"]

\* A job made here is for an attempt older than the jobs table: it is due at
\* once, because next_attempt_at counts from the attempt's creation.
ManualWrite(m) ==
  LET c == operator[m].on
      r == ManualRow(row[c], operator[m].found)
  IN  /\ operator[m].pc = "write"
      /\ ~RowLocked(c)
      /\ row' = [row EXCEPT ![c] = r]
      /\ job' = IF operator[m].found THEN ResolveJob(c) ELSE Enqueue(c, r, 0)
      /\ operator' = [operator EXCEPT ![m] = IdleOperator]
      /\ UNCHANGED <<call, wire, quota, worker, crashes>>

----------------------------------------------------------------------------
\* Time passes, for every job at once.
Tick ==
  /\ \E c \in Calls : job[c].timer > 0
  /\ job' = [c \in Calls |-> [job[c] EXCEPT !.timer = IF @ > 0 THEN @ - 1 ELSE 0]]
  /\ UNCHANGED <<row, call, wire, quota, worker, operator, crashes>>

BrokerStep(c) ==
  \/ GuardBlocks(c) \/ GuardAdmits(c)
  \/ PreflightRejects(c) \/ ReserveBlocked(c) \/ ReserveCleared(c) \/ Reserve(c)
  \/ Post(c) \/ HearAnswer(c) \/ AskOnce(c) \/ Finalize(c)

WorkerStep(w) ==
  \/ \E S \in SUBSET Calls : Claim(w, S)
  \/ \E c \in Calls : CheckClaim(w, c)
  \/ ReadAttempt(w) \/ Query(w) \/ CheckAgain(w) \/ Commit(w)

OperatorStep(m) ==
  \/ \E c \in Calls : ManualBegin(m, c)
  \/ ManualQuery(m) \/ ManualRead(m) \/ ManualWrite(m)

Next ==
  \/ \E c \in Calls : RefuseEarly(c) \/ BrokerStep(c) \/ CrashCall(c) \/ ExchangeDecides(c)
  \/ \E w \in Workers : WorkerStep(w) \/ CrashWorker(w)
  \/ \E m \in Operators : OperatorStep(m)
  \/ Tick

Spec == Init /\ [][Next]_vars

\* A live process runs on, the poll loop claims what is due, and the clock
\* advances.  Nothing obliges an operator to act, a new call to start, or the
\* exchange to decide.
Fairness ==
  /\ WF_vars(Tick)
  /\ \A w \in Workers : WF_vars(WorkerStep(w))
  /\ \A m \in Operators : WF_vars(ManualQuery(m) \/ ManualRead(m) \/ ManualWrite(m))
  /\ \A c \in Calls : WF_vars(call[c] # "idle" /\ BrokerStep(c))

FairSpec == Spec /\ Fairness

----------------------------------------------------------------------------
(* Properties                                                              *)

\* Every variable holds what its column, or its process, can hold.
TypeOK ==
  /\ row \in [Calls -> Row]
  /\ job \in [Calls -> Job]
  /\ call \in [Calls -> CallState]
  /\ wire \in [Calls -> WireState]
  /\ quota \in [Bots -> Nat]
  /\ worker \in [Workers -> WorkerState]
  /\ operator \in [Operators -> OperatorState]
  /\ crashes \in 0..MaxCrashes

\* The order of the call is, or is about to be, before the exchange without a
\* decision: posted and not decided, or reserved by a call that will post it.
InFlight(c) == wire[c] = "sent" \/ call[c] = "reserved"

\* A bot never has two orders in flight, although calls of several processes,
\* crashes after the reservation, and reconciliation that finds nothing
\* interleave with the gate (_guard_unresolved_submission and the second check
\* in _reserve_real_submission_attempt).
OneOrderInFlight ==
  \A c, d \in Calls :
    c # d /\ BotOf[c] = BotOf[d] => ~(InFlight(c) /\ InFlight(d))

Settled(c) == row[c].status # "none" /\ ~Unresolved(row[c])

\* A row that no longer closes the gate tells the truth about the exchange: an
\* order it calls created was placed, and an order it calls rejected or blocked
\* was not placed and never will be.  "No such order" from a query is no proof
\* of that: the request may still be under way.
SettledRowsTellTheTruth ==
  \A c \in Calls : Settled(c) =>
    IF row[c].status = "order_created"
      THEN wire[c] = "placed"
      ELSE wire[c] \notin {"sent", "placed"} /\ call[c] # "reserved"

\* Giving up automatic reconciliation never reopens the gate: the row of an
\* exhausted job is still unresolved (_finish_terminal).
ExhaustedStillBlocks ==
  \A c \in Calls : job[c].state = "exhausted" => Unresolved(row[c])

\* Automatic checks are counted exactly: a job that may still be tried has
\* budget left, an exhausted one has used all of it, and nobody holds a claim
\* on a job that is over.
BudgetRespected ==
  \A c \in Calls :
    /\ job[c].state \in {"pending", "claimed"} => job[c].count < MaxAutomaticAttempts
    /\ job[c].state = "exhausted" => job[c].count = MaxAutomaticAttempts
    /\ job[c].count <= MaxAutomaticAttempts
    /\ job[c].holder # NoWorker <=> job[c].state = "claimed"

\* An order is counted against the daily quota at most once, and only when the
\* exchange placed it.
QuotaNeverOvercounts ==
  \A b \in Bots :
    quota[b] <= Cardinality({c \in Calls : BotOf[c] = b /\ wire[c] = "placed"})

\* A worker step changes the row of an attempt only from unresolved to
\* recovered: neither a stale copy of the row, nor a lost lease, nor a late
\* "not found" ever undoes what the broker, an operator or another worker
\* wrote.
WorkerOnlyRecovers ==
  [][\A w \in Workers : WorkerStep(w) =>
       \A c \in Calls : row'[c] # row[c] =>
         Unresolved(row[c]) /\ row'[c] = RecoveredRow /\ wire[c] = "placed"]_vars

\* A resolved job is never tried again, an exhausted one can only be resolved,
\* and no job is ever forgotten or tried without being counted.
JobsMoveForward ==
  [][\A c \in Calls :
       /\ job[c].state = "resolved" => job'[c] = job[c]
       /\ job[c].state = "exhausted" => job'[c].state \in {"exhausted", "resolved"}
       /\ job[c].state # "none" => job'[c].state # "none"
       /\ job'[c].count \in {job[c].count, job[c].count + 1}
       /\ job[c].state = "claimed" /\ job'[c].state = "pending"
            => job'[c].count = job[c].count + 1]_vars

\* README.md:1764: "Known successful testnet execution ... should leave no
\* unresolved delayed-reconciliation work."
KnownSuccessLeavesNothingUnresolved ==
  \A c \in Calls : row[c].status = "order_created" => ~Unresolved(row[c])

\* Every job ends: it is resolved, or exhausted after its last check.
JobsEnd ==
  \A c \in Calls :
    job[c].state \in {"pending", "claimed"} ~> job[c].state \in {"resolved", "exhausted"}

\* An order that was placed while the call that posted it crashed is recorded
\* as created, unless the automatic checks all failed to see it.
LostOrdersAreRecorded ==
  \A c \in Calls :
    call[c] = "crashed" /\ wire[c] = "placed"
      ~> row[c].status = "order_created" \/ job[c].state = "exhausted"

----------------------------------------------------------------------------
(* The abstract specification this protocol implements                     *)

\* The order of a call: posted or about to be is open; a call that ended
\* without posting has dropped its order.
OrderOf(c) ==
  CASE wire[c] = "placed" -> "placed"
    [] wire[c] = "sent" -> "open"
    [] wire[c] \in {"refused", "lost"} -> "dropped"
    [] OTHER -> IF call[c] \in {"idle", "guarded", "cleared"} THEN "new"
                ELSE IF call[c] = "reserved" THEN "open"
                ELSE "dropped"

LedgerOf(c) ==
  IF row[c].status = "none" THEN "nothing"
  ELSE IF Unresolved(row[c]) THEN "unknown"
  ELSE IF row[c].status = "order_created" THEN "created"
  ELSE "rejected"

Orders == INSTANCE SerialOrders
  WITH order <- [c \in Calls |-> OrderOf(c)],
       ledger <- [c \in Calls |-> LedgerOf(c)]

\* The protocol implements SerialOrders: crashes, retries, races of workers
\* and operators included, a bot's orders are decided one at a time.
OrdersAreSerial == Orders!Spec

============================================================================
