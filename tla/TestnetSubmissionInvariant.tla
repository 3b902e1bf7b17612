-------------------- MODULE TestnetSubmissionInvariant --------------------
(***************************************************************************)
(* Why the protocol of TestnetSubmission is safe: the inductive invariant   *)
(* IInv.  Each conjunct says what one table, or one kind of process, may    *)
(* rely on; together they imply the safety properties of the protocol.      *)
(***************************************************************************)
EXTENDS TestnetSubmission

\* A row that is unresolved says so in its metadata, so that reconciliation,
\* which reads the metadata, and the gate, which also reads final_reason,
\* agree; a reservation is unresolved until it is finalised or recovered.
RowShape ==
  \A c \in Calls :
    /\ Unresolved(row[c]) => Eligible(row[c])
    /\ row[c].status = "created" => Eligible(row[c])
    /\ row[c].status = "none" => row[c] = NoRow

\* What a call knows is true, and an order before the exchange has an
\* unresolved row.
CallShape ==
  \A c \in Calls :
    /\ call[c] \in {"idle", "guarded", "cleared"} =>
         row[c].status = "none" /\ wire[c] = "unsent"
    /\ call[c] = "reserved" => wire[c] = "unsent" /\ Eligible(row[c])
    /\ call[c] \in {"posted", "unknown"} \cup Outcomes =>
         wire[c] # "unsent" /\ row[c].status # "none"
    /\ call[c] \in {"accepted", "recovered"} => wire[c] = "placed"
    /\ call[c] = "rejected" => wire[c] = "refused"
    /\ wire[c] = "sent" => Eligible(row[c])
    /\ row[c].status = "none" => wire[c] = "unsent" /\ job[c].state = "none"

\* One call of a bot at a time is between the gate and its reservation, and
\* once the gate was found open under the lock no order of the bot is in
\* flight.
GateShape ==
  \A c, d \in Calls : BotOf[c] = BotOf[d] =>
    /\ HoldsBotLock(c) /\ HoldsBotLock(d) => c = d
    /\ call[c] = "cleared" => ~InFlight(d)

\* The job of an attempt that is settled is resolved, or was never made.
JobShape ==
  \A c \in Calls :
    /\ job[c].state \in {"pending", "claimed", "exhausted"} => Eligible(row[c])
    /\ job[c].state \notin {"pending", "claimed"} => job[c].timer = 0
    /\ job[c].state = "none" => job[c] = NoJob

Working(w) == worker[w].pc \in {"read", "query", "check", "commit"}

\* A ticket whose claim still stands carries the job's count; a worker that
\* has seen a settled row has lost its claim for good; the worker that locks
\* a row is alone, and the job cannot be resolved under it.
WorkerShape ==
  \A w \in Workers :
    /\ \A c \in Calls : worker[w].ticket[c] > 0 =>
         /\ job[c].state # "none"
         /\ Owns(w, c) => worker[w].ticket[c] = job[c].count + 1
    /\ Working(w) => worker[w].on \in Calls /\ worker[w].ticket[worker[w].on] > 0
    /\ worker[w].pc \in {"check", "commit"} =>
         /\ worker[w].plan # "none"
         /\ worker[w].plan = "found" => wire[worker[w].on] = "placed"
         /\ worker[w].plan \in {"settled", "ineligible"} =>
              job[worker[w].on].state = "resolved"
    /\ worker[w].pc = "commit" =>
         /\ job[worker[w].on].state = "claimed"
         /\ worker[w].ticket[worker[w].on] = job[worker[w].on].count + 1
         /\ \A v \in Workers :
              worker[v].pc = "commit" /\ worker[v].on = worker[w].on => v = w

\* An operator works on a row that exists, and believes in an order only when
\* there is one.
OperatorShape ==
  \A m \in Operators : operator[m].pc # "idle" =>
    /\ operator[m].on \in Calls
    /\ row[operator[m].on].status # "none"
    /\ operator[m].pc = "query" => ~operator[m].found
    /\ operator[m].found => wire[operator[m].on] = "placed"

\* The inductive invariant: it holds initially, every step preserves it, and
\* it implies the safety properties of the gate, the rows and the jobs.
IInv ==
  /\ TypeOK
  /\ RowShape
  /\ CallShape
  /\ GateShape
  /\ JobShape
  /\ BudgetRespected
  /\ WorkerShape
  /\ OperatorShape
  /\ SettledRowsTellTheTruth
  /\ OneOrderInFlight

============================================================================
