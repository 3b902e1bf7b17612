---------------------------- MODULE WorkerStatus ----------------------------
(***************************************************************************)
(* The status row that reconciliation workers of one name share, as the    *)
(* poll loop keeps it (services/execution_reconciliation_worker_status.py, *)
(* cli/run_execution_reconciliation_worker.py) and a reader judges it.     *)
(*                                                                         *)
(* Every mark is a transaction of its own: it takes the time, reads the    *)
(* row or creates it, and commits.  The UPDATE carries only the columns    *)
(* whose value differs from the one read.                                  *)
(***************************************************************************)
EXTENDS Integers, FiniteSets

CONSTANTS
  StatusWorkers,    \* processes that run the poll loop
  StaleAfter,       \* ticks after which a heartbeat is stale
  MaxLaunches,      \* bound of the model: processes started
  MaxWorkerCrashes  \* bound of the model: processes killed, or ended by an exception

ASSUME StatusBounds == {StaleAfter, MaxLaunches, MaxWorkerCrashes} \subseteq Nat

VARIABLES
  statusRow,      \* the row: state and the age of its heartbeat
  loop,           \* where each process is in run_loop
  stopRequested,  \* the processes that a signal has asked to stop
  quietFor,       \* ticks since a process was last at work
  launches,       \* processes started so far
  killed          \* processes killed so far

statusVars == <<statusRow, loop, stopRequested, quietFor, launches, killed>>

----------------------------------------------------------------------------
\* Ages stop growing where nothing tells them apart.
Oldest == StaleAfter + 1
Ages == 0..Oldest
Older(age) == IF age < Oldest THEN age + 1 ELSE age

NoRow == [state |-> "none", age |-> Oldest]
Row == [state: {"none", "running", "stopped"}, age: Ages]

\* The marks, and the state each leaves in the row.
Marks == {"worker_started", "cycle_started", "cycle_completed", "cycle_failed",
          "worker_stopped"}

\* Mutant: stopping does not write a state of its own.
StateAlwaysRunning(mark) == "running"

StateAfter(mark) == IF mark = "worker_stopped" THEN "stopped" ELSE "running"

Off == [at |-> "off", mark |-> "none", read |-> NoRow, age |-> 0]
Doing(at, mark) == [at |-> at, mark |-> mark, read |-> NoRow, age |-> 0]
Alive(w) == loop[w].at # "off"

StatusInit ==
  /\ statusRow = NoRow
  /\ loop = [w \in StatusWorkers |-> Off]
  /\ stopRequested = {}
  /\ quietFor = 0
  /\ launches = 0
  /\ killed = 0

Goes(w, state) == loop' = [loop EXCEPT ![w] = state]

\* run_loop begins, when the worker is enabled.
Launch(w) ==
  /\ ~Alive(w)
  /\ launches < MaxLaunches
  /\ launches' = launches + 1
  /\ Goes(w, Doing("marking", "worker_started"))
  /\ stopRequested' = stopRequested \ {w}
  /\ quietFor' = 0
  /\ UNCHANGED <<statusRow, killed>>

\* get_or_create reads the row; the heartbeat is the time taken just before.
ReadRow(w) ==
  /\ loop[w].at = "marking"
  /\ Goes(w, [loop[w] EXCEPT !.at = "writing", !.read = statusRow, !.age = 0])
  /\ UNCHANGED <<statusRow, stopRequested, quietFor, launches, killed>>

\* Where run_loop goes after a mark: a cycle follows the start and every sleep,
\* unless a signal has asked the loop to stop.
AfterMark(w) ==
  IF loop[w].mark = "worker_stopped" THEN Off
  ELSE IF loop[w].mark = "cycle_started" THEN Doing("working", "none")
  ELSE IF w \in stopRequested THEN Doing("marking", "worker_stopped")
  ELSE IF loop[w].mark = "worker_started" THEN Doing("marking", "cycle_started")
  ELSE Doing("sleeping", "none")

\* The commit.  A column set to the value read is left alone.
Written(w) ==
  [state |-> IF StateAfter(loop[w].mark) = loop[w].read.state THEN statusRow.state
             ELSE StateAfter(loop[w].mark),
   age |-> loop[w].age]

WriteRow(w) ==
  /\ loop[w].at = "writing"
  /\ loop[w].read = NoRow => statusRow = NoRow
  /\ statusRow' = Written(w)
  /\ Goes(w, AfterMark(w))
  /\ UNCHANGED <<stopRequested, quietFor, launches, killed>>

\* process_due_job returns a summary or raises.
Work(w) ==
  /\ loop[w].at = "working"
  /\ \E mark \in {"cycle_completed", "cycle_failed"} : Goes(w, Doing("marking", mark))
  /\ UNCHANGED <<statusRow, stopRequested, quietFor, launches, killed>>

\* A mark of a cycle raises: the cycle is marked as failed instead.
MarkFails(w) ==
  /\ loop[w].at \in {"marking", "writing"}
  /\ loop[w].mark \in {"cycle_started", "cycle_completed"}
  /\ Goes(w, Doing("marking", "cycle_failed"))
  /\ UNCHANGED <<statusRow, stopRequested, quietFor, launches, killed>>

\* sleep returns.
Wake(w) ==
  /\ loop[w].at = "sleeping"
  /\ Goes(w, IF w \in stopRequested THEN Doing("marking", "worker_stopped")
             ELSE Doing("marking", "cycle_started"))
  /\ UNCHANGED <<statusRow, stopRequested, quietFor, launches, killed>>

\* SIGTERM or SIGINT.
RequestStop(w) ==
  /\ Alive(w)
  /\ stopRequested' = stopRequested \cup {w}
  /\ UNCHANGED <<statusRow, loop, quietFor, launches, killed>>

\* The process is killed, or a mark outside the try block raises: two workers
\* that both create the row, or a database that fails while a failure is marked.
Kill(w) ==
  /\ Alive(w)
  /\ killed < MaxWorkerCrashes
  /\ killed' = killed + 1
  /\ Goes(w, Off)
  /\ UNCHANGED <<statusRow, stopRequested, quietFor, launches>>

StatusTick ==
  /\ statusRow' = [statusRow EXCEPT !.age = Older(@)]
  /\ loop' = [w \in StatusWorkers |->
               IF loop[w].at = "writing" THEN [loop[w] EXCEPT !.age = Older(@)] ELSE loop[w]]
  /\ quietFor' = IF \E w \in StatusWorkers : Alive(w) THEN 0 ELSE Older(quietFor)
  /\ UNCHANGED <<stopRequested, launches, killed>>

StatusNext ==
  \/ \E w \in StatusWorkers :
       \/ Launch(w) \/ ReadRow(w) \/ WriteRow(w) \/ Work(w) \/ MarkFails(w)
       \/ Wake(w) \/ RequestStop(w) \/ Kill(w)
  \/ StatusTick

StatusSpec == StatusInit /\ [][StatusNext]_statusVars

----------------------------------------------------------------------------
(* Properties                                                              *)

\* _is_stale
IsStale == statusRow.state # "none" /\ statusRow.age > StaleAfter

\* Row, processes and counters have the shape the code gives them.
StatusTypeOK ==
  /\ statusRow \in Row
  /\ loop \in [StatusWorkers -> [at: {"off", "marking", "writing", "working", "sleeping"},
                                 mark: Marks \cup {"none"}, read: Row, age: Ages]]
  /\ stopRequested \subseteq StatusWorkers
  /\ quietFor \in Ages
  /\ launches \in 0..MaxLaunches /\ killed \in 0..MaxWorkerCrashes

\* Workers that all ended of their own accord leave a row that says so, in
\* whatever order their reads and writes of the shared row fell
\* (execution_reconciliation_worker_status.py:109).
EndsAreReported ==
  (killed = 0 /\ \A w \in StatusWorkers : ~Alive(w)) => statusRow.state # "running"

\* Once nobody has been at work for longer than the limit, however the
\* processes ended, a reader sees it: the row says stopped, or it is stale, or
\* no worker ever wrote one (execution_reconciliation_worker_status.py:178).
DeadWorkersShow ==
  quietFor > StaleAfter => statusRow.state # "running" \/ IsStale

\* What the shared row tells a reader, over launches, stops and kills of workers
\* of one name in any order.
StatusHolds == StatusTypeOK /\ EndsAreReported /\ DeadWorkersShow
===========================================================================
