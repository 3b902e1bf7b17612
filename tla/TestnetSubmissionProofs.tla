---------------------- MODULE TestnetSubmissionProofs ----------------------
(***************************************************************************)
(* Proofs that TestnetSubmission is safe for every number of calls, bots,   *)
(* workers and operators, every delay, lease, batch limit and retry budget. *)
(* IInv (TestnetSubmissionInvariant) holds initially and is preserved by    *)
(* each action: one lemma per action, one step per conjunct that the action *)
(* can disturb.  The theorems at the end follow from it.                    *)
(***************************************************************************)
EXTENDS TestnetSubmissionInvariant, FiniteSetTheorems, TLAPS

USE CallAssumption, SettingsAssumption
USE DEF Row, Job, CallState, WireState, WorkerState, OperatorState, Outcomes
USE DEF Unresolved, Eligible, Recovered, Settled, InFlight, HoldsBotLock, Owns, Working, Due

\* The initial state satisfies the invariant: rows are absent, or unresolved
\* and left by an earlier deployment without a job.
LEMMA InitIInv == Init => IInv
  <1> SUFFICES ASSUME Init PROVE IInv
    OBVIOUS
  <1>1. TypeOK
    BY DEF Init, TypeOK, UnresolvedRow, NoRow, NoJob, IdleWorker, NoTickets, IdleOperator
  <1>2. RowShape /\ CallShape /\ GateShape
    BY DEF Init, RowShape, CallShape, GateShape, UnresolvedRow, NoRow, NoJob
  <1>3. JobShape /\ BudgetRespected
    BY DEF Init, JobShape, BudgetRespected, NoJob
  <1>4. WorkerShape /\ OperatorShape
    BY DEF Init, WorkerShape, OperatorShape, IdleWorker, NoTickets, IdleOperator
  <1>5. SettledRowsTellTheTruth /\ OneOrderInFlight
    BY DEF Init, SettledRowsTellTheTruth, OneOrderInFlight, UnresolvedRow, NoRow
  <1> QED
    BY <1>1, <1>2, <1>3, <1>4, <1>5 DEF IInv

----------------------------------------------------------------------------
(* The broker                                                              *)

\* A call that ends before its reservation (refused early, stopped by the gate
\* or by the preflight) leaves a settled row and no order.
LEMMA TurnedAwayIInv ==
  ASSUME IInv, NEW c \in Calls, NEW r \in {BlockedRow, RejectedRow},
         call[c] \in {"idle", "guarded"},
         row' = [row EXCEPT ![c] = r],
         call' = [call EXCEPT ![c] = "done"],
         UNCHANGED <<job, wire, quota, worker, operator, crashes>>
  PROVE  IInv'
  <1> USE DEF BlockedRow, RejectedRow
  <1>1. TypeOK'
    BY DEF IInv, TypeOK
  <1>2. /\ row[c].status = "none"
        /\ wire[c] = "unsent"
        /\ job[c].state = "none"
    BY DEF IInv, CallShape
  <1>3. RowShape' /\ CallShape' /\ GateShape'
    BY <1>2 DEF IInv, TypeOK, RowShape, CallShape, GateShape, NoRow
  <1>4. JobShape' /\ BudgetRespected'
    BY <1>2 DEF IInv, TypeOK, JobShape, BudgetRespected, NoJob
  <1>5. WorkerShape' /\ OperatorShape'
    BY <1>2 DEF IInv, TypeOK, WorkerShape, OperatorShape
  <1>6. SettledRowsTellTheTruth' /\ OneOrderInFlight'
    BY <1>2 DEF IInv, TypeOK, SettledRowsTellTheTruth, OneOrderInFlight
  <1> QED
    BY <1>1, <1>3, <1>4, <1>5, <1>6 DEF IInv

\* The guard takes the bot's lock, which nobody else holds.
LEMMA GuardAdmitsIInv ==
  ASSUME IInv, NEW c \in Calls, GuardAdmits(c) PROVE IInv'
  <1>1. TypeOK'
    BY DEF IInv, GuardAdmits, TypeOK
  <1>2. RowShape' /\ JobShape' /\ BudgetRespected' /\ WorkerShape' /\ OperatorShape'
    BY DEF IInv, GuardAdmits, RowShape, JobShape, BudgetRespected, WorkerShape, OperatorShape
  <1>3. CallShape'
    BY DEF IInv, GuardAdmits, CallShape, TypeOK
  <1>4. GateShape'
    BY DEF IInv, GuardAdmits, GateShape, TypeOK, BotLocked
  <1>5. SettledRowsTellTheTruth' /\ OneOrderInFlight'
    BY DEF IInv, GuardAdmits, SettledRowsTellTheTruth, OneOrderInFlight, TypeOK
  <1> QED
    BY <1>1, <1>2, <1>3, <1>4, <1>5 DEF IInv

\* The second look at the gate: with the gate open no order of the bot is in
\* flight, because an order in flight has an unresolved row.
LEMMA ReserveClearedIInv ==
  ASSUME IInv, NEW c \in Calls, ReserveCleared(c) PROVE IInv'
  <1>1. TypeOK'
    BY DEF IInv, ReserveCleared, TypeOK
  <1>2. RowShape' /\ JobShape' /\ BudgetRespected' /\ WorkerShape' /\ OperatorShape'
    BY DEF IInv, ReserveCleared, RowShape, JobShape, BudgetRespected, WorkerShape, OperatorShape
  <1>3. CallShape'
    BY DEF IInv, ReserveCleared, CallShape, TypeOK
  <1>4. \A d \in Calls : BotOf[d] = BotOf[c] => ~InFlight(d)
    BY DEF IInv, ReserveCleared, GateClosed, CallShape
  <1>5. GateShape'
    BY <1>4 DEF IInv, ReserveCleared, GateShape, TypeOK
  <1>6. SettledRowsTellTheTruth' /\ OneOrderInFlight'
    BY DEF IInv, ReserveCleared, SettledRowsTellTheTruth, OneOrderInFlight, TypeOK
  <1> QED
    BY <1>1, <1>2, <1>3, <1>5, <1>6 DEF IInv

\* The reservation puts the order in flight; it was cleared under the lock, so
\* it is the only one of its bot.
LEMMA ReserveIInv ==
  ASSUME IInv, NEW c \in Calls, Reserve(c) PROVE IInv'
  <1>1. /\ row' = [row EXCEPT ![c] = ReservedRow]
        /\ call' = [call EXCEPT ![c] = "reserved"]
        /\ job' = [job EXCEPT ![c] = PendingJob(InitialDelay, 0)]
        /\ UNCHANGED <<wire, quota, worker, operator, crashes>>
        /\ call[c] = "cleared" /\ wire[c] = "unsent" /\ row[c].status = "none"
        /\ job[c].state = "none"
    BY DEF IInv, Reserve, Enqueue, ReservedRow, CallShape
  <1>2. TypeOK'
    BY <1>1 DEF IInv, TypeOK, ReservedRow, PendingJob
  <1>3. RowShape' /\ CallShape' /\ GateShape'
    BY <1>1 DEF IInv, TypeOK, RowShape, CallShape, GateShape, ReservedRow, NoRow
  <1>4. JobShape' /\ BudgetRespected'
    BY <1>1 DEF IInv, TypeOK, JobShape, BudgetRespected, ReservedRow, PendingJob, NoJob
  <1>5. WorkerShape' /\ OperatorShape'
    BY <1>1 DEF IInv, TypeOK, WorkerShape, OperatorShape, ReservedRow, PendingJob
  <1>6. SettledRowsTellTheTruth' /\ OneOrderInFlight'
    BY <1>1 DEF IInv, TypeOK, GateShape, SettledRowsTellTheTruth, OneOrderInFlight, ReservedRow
  <1> QED
    BY <1>2, <1>3, <1>4, <1>5, <1>6 DEF IInv

\* The POST: an order that was about to be sent is sent.
LEMMA PostIInv ==
  ASSUME IInv, NEW c \in Calls, Post(c) PROVE IInv'
  <1>1. TypeOK'
    BY DEF IInv, Post, TypeOK
  <1>2. RowShape' /\ JobShape' /\ BudgetRespected'
    BY DEF IInv, Post, RowShape, JobShape, BudgetRespected
  <1>3. wire[c] = "unsent" /\ Eligible(row[c]) /\ row[c].status # "none"
    BY DEF IInv, Post, CallShape, RowShape, NoRow
  <1>4. CallShape'
    BY <1>3 DEF IInv, Post, CallShape, TypeOK
  <1>5. GateShape'
    BY DEF IInv, Post, GateShape, TypeOK
  <1>6. WorkerShape' /\ OperatorShape'
    BY <1>3 DEF IInv, Post, WorkerShape, OperatorShape, TypeOK
  <1>7. SettledRowsTellTheTruth' /\ OneOrderInFlight'
    BY DEF IInv, Post, SettledRowsTellTheTruth, OneOrderInFlight, TypeOK, CallShape
  <1> QED
    BY <1>1, <1>2, <1>4, <1>5, <1>6, <1>7 DEF IInv

\* What the call learns from the answer of the POST or of its one query is
\* true of the order.
LEMMA LearnIInv ==
  ASSUME IInv, NEW c \in Calls, HearAnswer(c) \/ AskOnce(c) PROVE IInv'
  <1> USE DEF HearAnswer, AskOnce
  <1>1. TypeOK'
    BY DEF IInv, TypeOK
  <1>2. RowShape' /\ JobShape' /\ BudgetRespected' /\ WorkerShape' /\ OperatorShape'
    BY DEF IInv, RowShape, JobShape, BudgetRespected, WorkerShape, OperatorShape
  <1>3. CallShape'
    BY DEF IInv, CallShape, TypeOK
  <1>4. GateShape'
    BY DEF IInv, GateShape, TypeOK
  <1>5. SettledRowsTellTheTruth' /\ OneOrderInFlight'
    BY DEF IInv, SettledRowsTellTheTruth, OneOrderInFlight, TypeOK
  <1> QED
    BY <1>1, <1>2, <1>3, <1>4, <1>5 DEF IInv

\* The outcome of the call overwrites the row.  No worker is between its
\* UPDATE and its commit, and the outcome is true of the order, so whatever
\* reconciliation wrote may be lost, but nothing false is written.
LEMMA FinalizeIInv ==
  ASSUME IInv, NEW c \in Calls, Finalize(c) PROVE IInv'
  <1>1. /\ row' = [row EXCEPT ![c] = FinalRow(call[c])]
        /\ call[c] \in Outcomes
        /\ call' = [call EXCEPT ![c] = "done"]
        /\ UNCHANGED <<wire, worker, operator, crashes>>
    BY DEF Finalize
  <1>2. /\ FinalRow(call[c]) \in Row
        /\ FinalRow(call[c]).status \notin {"none", "created"}
        /\ Unresolved(FinalRow(call[c])) <=> call[c] = "unresolved"
        /\ Eligible(FinalRow(call[c])) <=> call[c] = "unresolved"
        /\ FinalRow(call[c]).status = "order_created" => call[c] \in {"accepted", "recovered"}
    BY <1>1 DEF FinalRow, RecoveredRow, RejectedRow, UnresolvedRow
  <1>3. /\ call[c] \in {"accepted", "recovered"} => wire[c] = "placed"
        /\ call[c] = "rejected" => wire[c] = "refused"
        /\ call[c] = "accepted" => FinalRow(call[c]).status = "order_created"
        /\ call[c] = "recovered" => FinalRow(call[c]).status = "order_created"
        /\ wire[c] # "unsent" /\ row[c].status # "none"
    BY <1>1 DEF IInv, CallShape, FinalRow, RecoveredRow
  <1>4. /\ \A d \in Calls \ {c} : job'[d] = job[d]
        /\ \/ job'[c] = job[c] /\ (call[c] = "unresolved" \/ job[c].state = "none")
           \/ job'[c] = EndedJob("resolved", job[c].count) /\ job[c].state # "none"
           \/ /\ job'[c] = PendingJob(InitialDelay, 0)
              /\ job[c].state = "none" /\ call[c] = "unresolved"
        /\ job' \in [Calls -> Job]
    BY <1>1, <1>2 DEF IInv, TypeOK, Finalize, Enqueue, ResolveJob, EndedJob, PendingJob
  <1>5. \/ job'[c] = job[c] /\ (call[c] = "unresolved" \/ job[c].state = "none")
        \/ /\ job'[c].state = "resolved" /\ job'[c].timer = 0
           /\ job'[c].holder = NoWorker /\ job'[c].count = job[c].count
           /\ job[c].state # "none"
        \/ /\ job'[c].state = "pending" /\ job'[c].timer = InitialDelay
           /\ job'[c].holder = NoWorker /\ job'[c].count = 0
           /\ job[c].state = "none" /\ call[c] = "unresolved"
    BY <1>4 DEF EndedJob, PendingJob
  <1>6. TypeOK'
    BY <1>1, <1>2, <1>4 DEF IInv, TypeOK, Finalize
  <1>7. RowShape' /\ CallShape' /\ GateShape'
    BY <1>1, <1>2, <1>3, <1>4 DEF IInv, TypeOK, RowShape, CallShape, GateShape
  <1>8. JobShape'
    BY <1>1, <1>2, <1>3, <1>4, <1>5 DEF IInv, TypeOK, JobShape
  <1>9. BudgetRespected'
    <2>1. \A d \in Calls : d = c \/ job'[d] = job[d]
      BY <1>4
    <2>2. MaxAutomaticAttempts \in Nat \ {0}
      BY SettingsAssumption
    <2> QED
      BY <1>5, <2>1, <2>2 DEF IInv, BudgetRespected
  <1>10. WorkerShape'
    <2>1. \A w \in Workers : worker[w].pc = "commit" /\ worker[w].on = c =>
            worker[w].plan \in {"settled", "ineligible"}
      BY DEF IInv, TypeOK, WorkerShape, Finalize, RowLocked, WritesRow
    <2>2. \A w \in Workers : worker[w].pc = "commit" => worker[w].on # c
      BY <2>1 DEF IInv, WorkerShape
    <2>3. \A w \in Workers : worker[w].pc = "commit" => job'[worker[w].on] = job[worker[w].on]
      BY <2>2, <1>4 DEF IInv, WorkerShape
    <2>4. \A d \in Calls : job[d].state # "none" => job'[d].state # "none"
      BY <1>4, <1>5
    <2>5. \A d \in Calls : job[d].state = "resolved" => job'[d].state = "resolved"
      BY <1>4, <1>5
    <2>6. \A w \in Workers, d \in Calls : Owns(w, d)' => job'[d] = job[d]
      BY <1>4, <1>5
    <2> QED
      BY <1>1, <2>3, <2>4, <2>5, <2>6 DEF IInv, WorkerShape
  <1>11. OperatorShape'
    BY <1>1, <1>2 DEF IInv, TypeOK, OperatorShape
  <1>12. SettledRowsTellTheTruth' /\ OneOrderInFlight'
    BY <1>1, <1>2, <1>3 DEF IInv, TypeOK, SettledRowsTellTheTruth, OneOrderInFlight
  <1> QED
    BY <1>6, <1>7, <1>8, <1>9, <1>11, <1>12, <1>10 DEF IInv

\* A crash only takes a call away: what it had committed stays.
LEMMA CrashCallIInv ==
  ASSUME IInv, NEW c \in Calls, CrashCall(c) PROVE IInv'
  <1>1. TypeOK'
    BY DEF IInv, CrashCall, TypeOK
  <1>2. RowShape' /\ JobShape' /\ BudgetRespected' /\ WorkerShape' /\ OperatorShape'
    BY DEF IInv, CrashCall, RowShape, JobShape, BudgetRespected, WorkerShape, OperatorShape
  <1>3. CallShape' /\ GateShape'
    BY DEF IInv, CrashCall, CallShape, GateShape, TypeOK
  <1>4. SettledRowsTellTheTruth' /\ OneOrderInFlight'
    BY DEF IInv, CrashCall, SettledRowsTellTheTruth, OneOrderInFlight, TypeOK
  <1> QED
    BY <1>1, <1>2, <1>3, <1>4 DEF IInv

\* The exchange decides an order that was sent; nobody can have learned about
\* it before.
LEMMA ExchangeDecidesIInv ==
  ASSUME IInv, NEW c \in Calls, ExchangeDecides(c) PROVE IInv'
  <1>1. TypeOK'
    BY DEF IInv, ExchangeDecides, TypeOK
  <1>2. RowShape' /\ JobShape' /\ BudgetRespected'
    BY DEF IInv, ExchangeDecides, RowShape, JobShape, BudgetRespected
  <1>3. CallShape' /\ GateShape'
    BY DEF IInv, ExchangeDecides, CallShape, GateShape, TypeOK
  <1>4. WorkerShape' /\ OperatorShape'
    BY DEF IInv, ExchangeDecides, WorkerShape, OperatorShape, TypeOK
  <1>5. SettledRowsTellTheTruth' /\ OneOrderInFlight'
    BY DEF IInv, ExchangeDecides, SettledRowsTellTheTruth, OneOrderInFlight, TypeOK, CallShape
  <1> QED
    BY <1>1, <1>2, <1>3, <1>4, <1>5 DEF IInv

----------------------------------------------------------------------------
(* The reconciliation worker                                               *)

\* A claim takes jobs that are pending or whose lease ran out; the tickets
\* carry their counts.
LEMMA ClaimIInv ==
  ASSUME IInv, NEW w \in Workers, NEW S \in SUBSET Calls, Claim(w, S) PROVE IInv'
  <1> DEFINE mine == [c \in Calls |-> IF c \in S THEN job[c].count + 1 ELSE 0]
  <1>1. /\ UNCHANGED <<row, call, wire, quota, operator, crashes>>
        /\ worker[w].pc = "idle"
        /\ worker' = [worker EXCEPT ![w] =
                        [pc |-> "batch", on |-> NoCall, plan |-> "none", ticket |-> mine]]
        /\ \A c \in S : job[c].state \in {"pending", "claimed"}
    BY DEF Claim
  <1>2. /\ \A c \in Calls \ S : job'[c] = job[c]
        /\ \A c \in S : job'[c] = ClaimedJob(w, job[c].count)
    BY DEF Claim
  <1>3. job' \in [Calls -> Job]
    <2>1. job' = [c \in Calls |-> job'[c]]
      BY DEF Claim
    <2>2. ASSUME NEW c \in Calls PROVE job'[c] \in Job
      <3>1. job[c] \in Job
        BY DEF IInv, TypeOK
      <3>2. ClaimedJob(w, job[c].count) \in Job
        BY <3>1 DEF ClaimedJob
      <3> QED
        BY <1>2, <3>1, <3>2
    <2> QED
      BY <2>1, <2>2
  <1>4. mine \in [Calls -> Nat]
    BY DEF IInv, TypeOK
  <1> HIDE DEF mine
  <1>5. \A c \in S : /\ job'[c].state = "claimed" /\ job'[c].holder = w
                     /\ job'[c].count = job[c].count /\ job'[c].timer = LeaseTime
    <2>1. SUFFICES ASSUME NEW c \in S
                   PROVE  /\ job'[c].state = "claimed" /\ job'[c].holder = w
                          /\ job'[c].count = job[c].count /\ job'[c].timer = LeaseTime
      OBVIOUS
    <2>2. job'[c] = ClaimedJob(w, job[c].count)
      BY <1>2
    <2> QED
      BY <2>2 DEF ClaimedJob
  <1>6. TypeOK'
    BY <1>1, <1>3, <1>4 DEF IInv, TypeOK
  <1>7. RowShape' /\ GateShape'
    BY <1>1 DEF IInv, RowShape, GateShape
  <1>8. CallShape'
    BY <1>1, <1>2 DEF IInv, CallShape
  <1>9. JobShape'
    BY <1>1, <1>2, <1>5 DEF IInv, JobShape
  <1>10. BudgetRespected'
    BY <1>1, <1>2, <1>5 DEF IInv, TypeOK, BudgetRespected
  <1>11. WorkerShape'
    <2>1. \A c \in Calls : mine[c] = IF c \in S THEN job[c].count + 1 ELSE 0
      BY DEF mine
    <2>2. worker'[w] = [pc |-> "batch", on |-> NoCall, plan |-> "none", ticket |-> mine]
      BY <1>1 DEF IInv, TypeOK
    <2>3. \A v \in Workers \ {w} : worker'[v] = worker[v]
      BY <1>1 DEF IInv, TypeOK
    <2>4. \A c \in Calls : job[c].state # "none" => job'[c].state # "none"
      BY <1>2, <1>5
    <2>5. \A c \in Calls : job[c].state \notin {"pending", "claimed"} => job'[c] = job[c]
      BY <1>1, <1>2
    <2>6. \A c \in Calls : job[c].state = "claimed" =>
            job'[c].state = "claimed" /\ job'[c].count = job[c].count
      BY <1>2, <1>5
    <2>7. ASSUME NEW v \in Workers \ {w}, NEW c \in Calls, Owns(v, c)'
          PROVE  job'[c] = job[c]
      BY <1>2, <1>5, <2>7
    <2> SUFFICES ASSUME NEW v \in Workers PROVE
          /\ \A c \in Calls : worker'[v].ticket[c] > 0 =>
               /\ job'[c].state # "none"
               /\ Owns(v, c)' => worker'[v].ticket[c] = job'[c].count + 1
          /\ Working(v)' => worker'[v].on \in Calls /\ worker'[v].ticket[worker'[v].on] > 0
          /\ worker'[v].pc \in {"check", "commit"} =>
               /\ worker'[v].plan # "none"
               /\ worker'[v].plan = "found" => wire'[worker'[v].on] = "placed"
               /\ worker'[v].plan \in {"settled", "ineligible"} =>
                    job'[worker'[v].on].state = "resolved"
          /\ worker'[v].pc = "commit" =>
               /\ job'[worker'[v].on].state = "claimed"
               /\ worker'[v].ticket[worker'[v].on] = job'[worker'[v].on].count + 1
               /\ \A u \in Workers :
                    worker'[u].pc = "commit" /\ worker'[u].on = worker'[v].on => u = v
      BY DEF WorkerShape
    <2>8. CASE v = w
      BY <2>1, <2>2, <2>8, <1>5
    <2>9. CASE v # w
      BY <2>2, <2>3, <2>4, <2>5, <2>6, <2>7, <2>9, <1>1 DEF IInv, WorkerShape
    <2> QED
      BY <2>8, <2>9
  <1>12. OperatorShape'
    BY <1>1 DEF IInv, OperatorShape
  <1>13. SettledRowsTellTheTruth' /\ OneOrderInFlight'
    BY <1>1 DEF IInv, SettledRowsTellTheTruth, OneOrderInFlight
  <1> QED
    BY <1>6, <1>7, <1>8, <1>9, <1>10, <1>11, <1>12, <1>13 DEF IInv

\* Giving up a ticket: the worker goes on with tickets it already had.
LEMMA NextTicketShape ==
  ASSUME TypeOK, NEW w \in Workers, NEW c \in Calls
  PROVE  /\ NextTicket(w, c) \in WorkerState
         /\ NextTicket(w, c).pc \in {"idle", "batch"}
         /\ \A d \in Calls : NextTicket(w, c).ticket[d] > 0 =>
              NextTicket(w, c).ticket[d] = worker[w].ticket[d]
  <1> DEFINE left == [worker[w].ticket EXCEPT ![c] = 0]
  <1>1. worker[w].ticket \in [Calls -> Nat]
    BY DEF TypeOK
  <1>2. /\ left \in [Calls -> Nat]
        /\ \A d \in Calls : left[d] > 0 => left[d] = worker[w].ticket[d]
    BY <1>1
  <1> HIDE DEF left
  <1>3. CASE \E d \in Calls : left[d] > 0
    <2>1. NextTicket(w, c) = [pc |-> "batch", on |-> NoCall, plan |-> "none", ticket |-> left]
      BY <1>3 DEF NextTicket, left
    <2> QED
      BY <1>2, <2>1
  <1>4. CASE ~\E d \in Calls : left[d] > 0
    <2>1. NextTicket(w, c) = IdleWorker
      BY <1>4 DEF NextTicket, left
    <2>2. NoTickets \in [Calls -> Nat] /\ \A d \in Calls : NoTickets[d] = 0
      BY DEF NoTickets
    <2> QED
      BY <2>1, <2>2 DEF IdleWorker
  <1> QED
    BY <1>3, <1>4

\* The worker goes on as next, which has the shape WorkerShape asks for, and
\* nothing else changes but the count of crashes.
MovesTo(w, next) ==
  /\ next \in WorkerState
  /\ worker' = [worker EXCEPT ![w] = next]
  /\ UNCHANGED <<row, job, call, wire, quota, operator>>
  /\ crashes' \in 0..MaxCrashes
  /\ \A c \in Calls : next.ticket[c] > 0 => next.ticket[c] = worker[w].ticket[c]
  /\ next.pc \in {"read", "query", "check", "commit"} =>
       next.on \in Calls /\ next.ticket[next.on] > 0
  /\ next.pc \in {"check", "commit"} =>
       /\ next.plan # "none"
       /\ next.plan = "found" => wire[next.on] = "placed"
       /\ next.plan \in {"settled", "ineligible"} => job[next.on].state = "resolved"
  /\ next.pc = "commit" =>
       /\ job[next.on].state = "claimed"
       /\ next.ticket[next.on] = job[next.on].count + 1
       /\ \A v \in Workers : worker[v].pc = "commit" => worker[v].on # next.on

\* A step that changes only what one worker is doing disturbs the types and
\* that worker's shape, nothing else.
LEMMA WorkerMovesIInv ==
  ASSUME IInv, NEW w \in Workers, NEW next, MovesTo(w, next)
  PROVE  IInv'
  <1>1. TypeOK'
    BY DEF IInv, TypeOK, MovesTo
  <1>2. RowShape' /\ CallShape' /\ GateShape' /\ JobShape' /\ BudgetRespected' /\ OperatorShape'
    BY DEF IInv, MovesTo, RowShape, CallShape, GateShape, JobShape, BudgetRespected, OperatorShape
  <1>3. WorkerShape'
    <2>1. worker'[w] = next /\ \A v \in Workers \ {w} : worker'[v] = worker[v]
      BY DEF IInv, TypeOK, MovesTo
    <2> QED
      BY <2>1 DEF IInv, WorkerShape, MovesTo
  <1>4. SettledRowsTellTheTruth' /\ OneOrderInFlight'
    BY DEF IInv, MovesTo, SettledRowsTellTheTruth, OneOrderInFlight
  <1> QED
    BY <1>1, <1>2, <1>3, <1>4 DEF IInv

\* A worker that gives up its ticket, and changes nothing else.
LEMMA GivesUpIInv ==
  ASSUME IInv, NEW w \in Workers, NEW c \in Calls,
         worker' = [worker EXCEPT ![w] = NextTicket(w, c)],
         UNCHANGED <<row, job, call, wire, quota, operator, crashes>>
  PROVE  IInv'
  <1> DEFINE next == NextTicket(w, c)
  <1>1. /\ next \in WorkerState /\ next.pc \in {"idle", "batch"}
        /\ \A d \in Calls : next.ticket[d] > 0 => next.ticket[d] = worker[w].ticket[d]
    BY NextTicketShape DEF IInv
  <1>2. worker' = [worker EXCEPT ![w] = next]
    OBVIOUS
  <1> HIDE DEF next
  <1>3. MovesTo(w, next)
    BY <1>1, <1>2 DEF MovesTo, IInv, TypeOK
  <1> QED
    BY <1>3, WorkerMovesIInv

\* The first look at the claim.
LEMMA CheckClaimIInv ==
  ASSUME IInv, NEW w \in Workers, NEW c \in Calls, CheckClaim(w, c) PROVE IInv'
  <1>1. TypeOK /\ worker[w] \in WorkerState
    BY DEF IInv, TypeOK
  <1>2. CASE Owns(w, c)
    <2> DEFINE next == [worker[w] EXCEPT !.pc = "read", !.on = c]
    <2>1. next \in WorkerState /\ next.pc = "read" /\ next.on = c /\ next.ticket = worker[w].ticket
      BY <1>1
    <2>2. worker' = [worker EXCEPT ![w] = next]
      BY <1>1, <1>2 DEF CheckClaim, TypeOK
    <2> HIDE DEF next
    <2>3. MovesTo(w, next)
      BY <1>1, <2>1, <2>2 DEF MovesTo, CheckClaim, TypeOK
    <2> QED
      BY <2>3, WorkerMovesIInv
  <1>3. CASE ~Owns(w, c)
    <2>1. worker' = [worker EXCEPT ![w] = NextTicket(w, c)]
      BY <1>3 DEF CheckClaim
    <2> QED
      BY <2>1, GivesUpIInv DEF CheckClaim
  <1> QED
    BY <1>2, <1>3

\* The attempt is read.  A row that is settled already has lost its job: the
\* one that settled it resolved the job in the same transaction.
LEMMA ReadAttemptIInv ==
  ASSUME IInv, NEW w \in Workers, ReadAttempt(w) PROVE IInv'
  <1> DEFINE c == worker[w].on
  <1>1. /\ TypeOK /\ worker[w] \in WorkerState /\ c \in Calls
        /\ worker[w].ticket[c] > 0 /\ job[c].state # "none"
        /\ worker[w].pc = "read"
    BY DEF IInv, TypeOK, WorkerShape, ReadAttempt
  <1>2. PICK next \in WorkerState :
          /\ worker' = [worker EXCEPT ![w] = next]
          /\ next.on = c /\ next.ticket = worker[w].ticket
          /\ \/ next.pc = "query"
             \/ next.pc = "check" /\ next.plan \in {"settled", "ineligible"} /\ ~Eligible(row[c])
    <2>1. row[c] \in Row
      BY <1>1 DEF TypeOK
    <2>2. CASE Recovered(row[c])
      <3> DEFINE n == [worker[w] EXCEPT !.pc = "check", !.plan = "settled"]
      <3>1. worker' = [worker EXCEPT ![w] = n]
        BY <1>1, <2>2 DEF ReadAttempt, TypeOK
      <3>2. n \in WorkerState /\ n.on = c /\ n.ticket = worker[w].ticket
        BY <1>1
      <3>3. n.pc = "check" /\ n.plan \in {"settled", "ineligible"} /\ ~Eligible(row[c])
        BY <1>1, <2>2
      <3> HIDE DEF n
      <3> QED
        BY <3>1, <3>2, <3>3
    <2>3. CASE ~Recovered(row[c]) /\ Eligible(row[c])
      <3> DEFINE n == [worker[w] EXCEPT !.pc = "query"]
      <3>1. worker' = [worker EXCEPT ![w] = n]
        BY <1>1, <2>3 DEF ReadAttempt, TypeOK
      <3>2. n \in WorkerState /\ n.on = c /\ n.ticket = worker[w].ticket
        BY <1>1
      <3>3. n.pc = "query"
        BY <1>1, <2>3
      <3> HIDE DEF n
      <3> QED
        BY <3>1, <3>2, <3>3
    <2>4. CASE ~Recovered(row[c]) /\ ~Eligible(row[c])
      <3> DEFINE n == [worker[w] EXCEPT !.pc = "check", !.plan = "ineligible"]
      <3>1. worker' = [worker EXCEPT ![w] = n]
        BY <1>1, <2>4 DEF ReadAttempt, TypeOK
      <3>2. n \in WorkerState /\ n.on = c /\ n.ticket = worker[w].ticket
        BY <1>1
      <3>3. n.pc = "check" /\ n.plan \in {"settled", "ineligible"} /\ ~Eligible(row[c])
        BY <1>1, <2>4
      <3> HIDE DEF n
      <3> QED
        BY <3>1, <3>2, <3>3
    <2> QED
      BY <2>2, <2>3, <2>4
  <1>3. next.pc = "check" => job[c].state = "resolved"
    <2>1. next.pc = "check" => ~Eligible(row[c])
      BY <1>2
    <2>2. job[c] \in Job /\ job[c].state # "none"
      BY <1>1 DEF TypeOK
    <2>3. job[c].state \in {"pending", "claimed", "exhausted"} => Eligible(row[c])
      BY <1>1 DEF IInv, JobShape
    <2> QED
      BY <2>1, <2>2, <2>3 DEF Job
  <1>4. UNCHANGED <<row, job, call, wire, quota, operator, crashes>>
    BY DEF ReadAttempt
  <1>5. MovesTo(w, next)
    BY <1>1, <1>2, <1>3, <1>4 DEF TypeOK, MovesTo
  <1> QED
    BY <1>5, WorkerMovesIInv

\* The query: an order that is found was placed.
LEMMA QueryIInv ==
  ASSUME IInv, NEW w \in Workers, Query(w) PROVE IInv'
  <1> DEFINE c == worker[w].on
  <1>1. /\ TypeOK /\ worker[w] \in WorkerState /\ c \in Calls
        /\ worker[w].ticket[c] > 0 /\ worker[w].pc = "query"
    BY DEF IInv, TypeOK, WorkerShape, Query
  <1>2. PICK next \in WorkerState :
          /\ worker' = [worker EXCEPT ![w] = next]
          /\ next.on = c /\ next.ticket = worker[w].ticket /\ next.pc = "check"
          /\ next.plan \in {"found", "missed"}
          /\ next.plan = "found" => wire[c] = "placed"
    BY <1>1 DEF Query, TypeOK
  <1>3. UNCHANGED <<row, job, call, wire, quota, operator, crashes>>
    BY DEF Query
  <1>4. MovesTo(w, next)
    BY <1>1, <1>2, <1>3 DEF TypeOK, MovesTo
  <1> QED
    BY <1>4, WorkerMovesIInv

\* The second look at the claim.  The worker that goes on to its commit holds
\* the row alone: any other worker about to commit on the same attempt plans
\* no write, has seen the job resolved, and so the claim would be gone.
LEMMA CheckAgainIInv ==
  ASSUME IInv, NEW w \in Workers, CheckAgain(w) PROVE IInv'
  <1> DEFINE c == worker[w].on
  <1>1. /\ TypeOK /\ worker[w] \in WorkerState /\ c \in Calls
        /\ worker[w].ticket[c] > 0 /\ worker[w].pc = "check"
    BY DEF IInv, TypeOK, WorkerShape, CheckAgain
  <1>2. /\ UNCHANGED <<row, job, call, wire, quota, operator, crashes>>
        /\ crashes' \in 0..MaxCrashes
    BY <1>1 DEF CheckAgain, TypeOK
  <1>3. CASE Owns(w, c)
    <2> DEFINE n == [worker[w] EXCEPT !.pc = "commit"]
    <2>1. worker' = [worker EXCEPT ![w] = n]
      BY <1>1, <1>3 DEF CheckAgain, TypeOK
    <2>2. /\ n \in WorkerState /\ n.pc = "commit" /\ n.on = c
          /\ n.plan = worker[w].plan /\ n.ticket = worker[w].ticket
      BY <1>1
    <2> HIDE DEF n
    <2>3. /\ worker[w].ticket[c] = job[c].count + 1
          /\ worker[w].plan \in {"found", "missed"}
          /\ worker[w].plan = "found" => wire[c] = "placed"
      BY <1>1, <1>3 DEF IInv, WorkerShape
    <2>4. ASSUME NEW v \in Workers, worker[v].pc = "commit", worker[v].on = c
          PROVE  FALSE
      <3>1. worker[v].plan \in {"found", "missed"}
        <4>1. worker[v].plan \notin {"none", "settled", "ineligible"}
          BY <1>3, <2>4 DEF IInv, WorkerShape, Owns
        <4>2. worker[v] \in WorkerState
          BY <1>1 DEF TypeOK
        <4> QED
          BY <4>1, <4>2 DEF WorkerState
      <3> QED
        BY <2>3, <2>4, <3>1 DEF CheckAgain, RowLocked, WritesRow
    <2>5. MovesTo(w, n)
      BY <1>1, <1>2, <1>3, <2>1, <2>2, <2>3, <2>4 DEF MovesTo
    <2> QED
      BY <2>5, WorkerMovesIInv
  <1>4. CASE ~Owns(w, c)
    <2>1. worker' = [worker EXCEPT ![w] = NextTicket(w, c)]
      BY <1>4 DEF CheckAgain
    <2> QED
      BY <1>1, <1>2, <2>1, GivesUpIInv
  <1> QED
    BY <1>3, <1>4

\* A crashed worker keeps no ticket.
LEMMA CrashWorkerIInv ==
  ASSUME IInv, NEW w \in Workers, CrashWorker(w) PROVE IInv'
  <1>1. /\ IdleWorker \in WorkerState /\ IdleWorker.pc = "idle"
        /\ \A c \in Calls : IdleWorker.ticket[c] = 0
    BY DEF IdleWorker, NoTickets
  <1>2. /\ worker' = [worker EXCEPT ![w] = IdleWorker]
        /\ UNCHANGED <<row, job, call, wire, quota, operator>>
        /\ crashes' \in 0..MaxCrashes
    BY DEF IInv, TypeOK, CrashWorker
  <1>3. MovesTo(w, IdleWorker)
    BY <1>1, <1>2 DEF MovesTo
  <1> QED
    BY <1>3, WorkerMovesIInv

\* The commit of a worker.  The job is claimed still, by whomever, and the
\* ticket counts one more check than the job; the row is unresolved, so a
\* recovery is a change for the better and a miss no change.
LEMMA CommitIInv ==
  ASSUME IInv, NEW w \in Workers, Commit(w) PROVE IInv'
  <1> DEFINE c == worker[w].on
             plan == worker[w].plan
             count == worker[w].ticket[c]
  <1>1. /\ TypeOK /\ worker[w] \in WorkerState /\ c \in Calls
        /\ worker[w].pc = "commit"
        /\ job[c].state = "claimed" /\ count = job[c].count + 1 /\ count \in Nat
        /\ plan \in {"found", "missed"}
        /\ plan = "found" => wire[c] = "placed"
    BY DEF IInv, TypeOK, WorkerShape, Commit
  <1>2. /\ Eligible(row[c]) /\ row[c].status # "none"
        /\ job[c].count < MaxAutomaticAttempts /\ job[c].count \in Nat
        /\ row[c] \in Row
    BY <1>1 DEF IInv, TypeOK, JobShape, BudgetRespected, CallShape
  <1> DEFINE next == NextTicket(w, c)
  <1>3. /\ next \in WorkerState
        /\ worker' = [worker EXCEPT ![w] = next]
        /\ next.pc \in {"idle", "batch"}
        /\ \A d \in Calls : next.ticket[d] > 0 => next.ticket[d] = worker[w].ticket[d]
    BY <1>1, NextTicketShape DEF Commit
  <1> HIDE DEF next
  <1>4. UNCHANGED <<call, wire, quota, operator, crashes>>
    BY DEF Commit
  <1>5. /\ row' = [row EXCEPT ![c] = WorkerRow(row[c], plan)]
        /\ row'[c] = IF plan = "found" THEN RecoveredRow ELSE row[c]
        /\ WorkerRow(row[c], plan) \in Row
    BY <1>1, <1>2 DEF Commit, TypeOK, WorkerRow, RecoveredRow
  <1>6. /\ job' = [job EXCEPT ![c] = WorkerJob(plan, count)]
        /\ \/ plan = "found" /\ job'[c] = EndedJob("resolved", count)
           \/ plan = "missed" /\ count >= MaxAutomaticAttempts /\ job'[c] = EndedJob("exhausted", count)
           \/ plan = "missed" /\ count < MaxAutomaticAttempts /\ job'[c] = PendingJob(RetryDelay, count)
        /\ WorkerJob(plan, count) \in Job
    BY <1>1 DEF Commit, TypeOK, WorkerJob, EndedJob, PendingJob
  <1>7. /\ job'[c].count = count /\ job'[c].holder = NoWorker
        /\ \/ plan = "found" /\ job'[c].state = "resolved" /\ job'[c].timer = 0
           \/ plan = "missed" /\ count >= MaxAutomaticAttempts
                /\ job'[c].state = "exhausted" /\ job'[c].timer = 0
           \/ plan = "missed" /\ count < MaxAutomaticAttempts /\ job'[c].state = "pending"
    <2>1. \A state, n : /\ EndedJob(state, n).state = state /\ EndedJob(state, n).timer = 0
                       /\ EndedJob(state, n).count = n /\ EndedJob(state, n).holder = NoWorker
      BY DEF EndedJob
    <2>2. \A delay, n : /\ PendingJob(delay, n).state = "pending" /\ PendingJob(delay, n).count = n
                       /\ PendingJob(delay, n).holder = NoWorker
      BY DEF PendingJob
    <2>3. CASE plan = "found" /\ job'[c] = EndedJob("resolved", count)
      BY <2>1, <2>3
    <2>4. CASE /\ plan = "missed" /\ count >= MaxAutomaticAttempts
               /\ job'[c] = EndedJob("exhausted", count)
      BY <2>1, <2>4
    <2>5. CASE /\ plan = "missed" /\ count < MaxAutomaticAttempts
               /\ job'[c] = PendingJob(RetryDelay, count)
      BY <2>2, <2>5
    <2> QED
      BY <1>6, <2>3, <2>4, <2>5
  <1>8. /\ \A d \in Calls \ {c} : row'[d] = row[d] /\ job'[d] = job[d]
        /\ worker'[w] = next /\ \A v \in Workers \ {w} : worker'[v] = worker[v]
    <2>1. \A d \in Calls \ {c} : row'[d] = row[d]
      BY <1>1, <1>5 DEF TypeOK
    <2>2. \A d \in Calls \ {c} : job'[d] = job[d]
      BY <1>1, <1>6 DEF TypeOK
    <2>3. worker'[w] = next /\ \A v \in Workers \ {w} : worker'[v] = worker[v]
      BY <1>1, <1>3 DEF TypeOK
    <2> QED
      BY <2>1, <2>2, <2>3
  <1>9. /\ plan = "found" => row'[c].status = "order_created" /\ ~Unresolved(row'[c])
        /\ plan = "missed" => row'[c] = row[c]
    BY <1>5 DEF RecoveredRow
  <1> HIDE DEF c, plan, count
  <1>10. TypeOK'
    BY <1>1, <1>3, <1>4, <1>5, <1>6 DEF TypeOK
  <1>11. RowShape'
    BY <1>1, <1>8, <1>9 DEF IInv, RowShape
  <1>12. CallShape'
    BY <1>1, <1>2, <1>4, <1>7, <1>8, <1>9 DEF IInv, CallShape
  <1>13. GateShape'
    BY <1>4 DEF IInv, GateShape
  <1>14. JobShape'
    BY <1>1, <1>2, <1>7, <1>8, <1>9 DEF IInv, JobShape
  <1>15. BudgetRespected'
    <2>1. MaxAutomaticAttempts \in Nat /\ count <= MaxAutomaticAttempts
      BY <1>1, <1>2
    <2>2. \A d \in Calls \ {c} : job'[d] = job[d]
      BY <1>8
    <2> SUFFICES ASSUME NEW d \in Calls PROVE
          /\ job'[d].state \in {"pending", "claimed"} => job'[d].count < MaxAutomaticAttempts
          /\ job'[d].state = "exhausted" => job'[d].count = MaxAutomaticAttempts
          /\ job'[d].count <= MaxAutomaticAttempts
          /\ job'[d].holder # NoWorker <=> job'[d].state = "claimed"
      BY DEF BudgetRespected
    <2>3. CASE d = c
      BY <1>1, <1>7, <2>1, <2>3
    <2>4. CASE d # c
      BY <2>2, <2>4 DEF IInv, BudgetRespected
    <2> QED
      BY <2>3, <2>4
  <1>16. WorkerShape'
    <2>1. \A v \in Workers \ {w} : worker[v].pc = "commit" => worker[v].on # c
      BY <1>1 DEF IInv, WorkerShape, c
    <2>2. \A d \in Calls : /\ job[d].state # "none" => job'[d].state # "none"
                           /\ job[d].state = "resolved" => job'[d].state = "resolved"
      BY <1>1, <1>7, <1>8
    <2>3. \A v \in Workers, d \in Calls : Owns(v, d)' => job'[d] = job[d]
      BY <1>1, <1>7, <1>8
    <2>4. ASSUME NEW v \in Workers \ {w}, worker[v].pc = "commit"
          PROVE  job'[worker[v].on] = job[worker[v].on]
      BY <2>1, <2>4, <1>8 DEF IInv, WorkerShape
    <2> QED
      BY <1>1, <1>3, <1>4, <1>8, <2>2, <2>3, <2>4 DEF IInv, WorkerShape
  <1>17. OperatorShape'
    BY <1>1, <1>2, <1>4, <1>8, <1>9 DEF IInv, OperatorShape
  <1>18. SettledRowsTellTheTruth'
    BY <1>1, <1>2, <1>4, <1>8, <1>9 DEF IInv, SettledRowsTellTheTruth
  <1>19. OneOrderInFlight'
    BY <1>4 DEF IInv, OneOrderInFlight
  <1> QED
    BY <1>10, <1>11, <1>12, <1>13, <1>14, <1>15, <1>16, <1>17, <1>18, <1>19 DEF IInv

----------------------------------------------------------------------------
(* Manual reconciliation and time                                          *)

\* The request goes on as next, which has the shape OperatorShape asks for,
\* and nothing else changes.
OperatorMovesTo(m, next) ==
  /\ next \in OperatorState
  /\ operator' = [operator EXCEPT ![m] = next]
  /\ UNCHANGED <<row, job, call, wire, quota, worker, crashes>>
  /\ next.pc # "idle" =>
       /\ next.on \in Calls
       /\ row[next.on].status # "none"
       /\ next.pc = "query" => ~next.found
       /\ next.found => wire[next.on] = "placed"

\* Then only the types and the shape of that request are disturbed.
LEMMA OperatorMovesIInv ==
  ASSUME IInv, NEW m \in Operators, NEW next, OperatorMovesTo(m, next)
  PROVE  IInv'
  <1>1. operator'[m] = next /\ \A u \in Operators \ {m} : operator'[u] = operator[u]
    BY DEF IInv, TypeOK, OperatorMovesTo
  <1>2. TypeOK'
    BY DEF IInv, TypeOK, OperatorMovesTo
  <1>3. OperatorShape'
    BY <1>1 DEF IInv, OperatorShape, OperatorMovesTo
  <1>4. RowShape' /\ CallShape' /\ GateShape' /\ JobShape' /\ BudgetRespected' /\ WorkerShape'
    BY DEF OperatorMovesTo, IInv, RowShape, CallShape, GateShape, JobShape, BudgetRespected, WorkerShape
  <1>5. SettledRowsTellTheTruth' /\ OneOrderInFlight'
    BY DEF OperatorMovesTo, IInv, SettledRowsTellTheTruth, OneOrderInFlight
  <1> QED
    BY <1>2, <1>3, <1>4, <1>5 DEF IInv

\* A request begins on a row that exists, because it is eligible.
LEMMA ManualBeginIInv ==
  ASSUME IInv, NEW m \in Operators, NEW c \in Calls, ManualBegin(m, c) PROVE IInv'
  <1>1. row[c].status # "none"
    BY DEF ManualBegin, IInv, RowShape, NoRow
  <1>2. OperatorMovesTo(m, [pc |-> "query", on |-> c, found |-> FALSE])
    BY <1>1 DEF ManualBegin, OperatorMovesTo
  <1> QED
    BY <1>2, OperatorMovesIInv

\* The operator believes in an order only when the exchange showed one.
LEMMA ManualQueryIInv ==
  ASSUME IInv, NEW m \in Operators, ManualQuery(m) PROVE IInv'
  <1>1. /\ operator[m] \in OperatorState /\ operator[m].pc = "query"
        /\ operator[m].on \in Calls /\ row[operator[m].on].status # "none"
        /\ operator[m].found = FALSE
    BY DEF IInv, TypeOK, OperatorShape, ManualQuery
  <1>2. CASE /\ wire[operator[m].on] = "placed"
             /\ operator' = [operator EXCEPT ![m].pc = "read", ![m].found = TRUE]
    <2> DEFINE next == [pc |-> "read", on |-> operator[m].on, found |-> TRUE]
    <2>1. operator' = [operator EXCEPT ![m] = next]
      BY <1>1, <1>2 DEF IInv, TypeOK
    <2>2. OperatorMovesTo(m, next)
      BY <1>1, <1>2, <2>1 DEF OperatorMovesTo, ManualQuery
    <2> QED
      BY <2>2, OperatorMovesIInv
  <1>3. CASE operator' = [operator EXCEPT ![m].pc = "read"]
    <2> DEFINE next == [operator[m] EXCEPT !.pc = "read"]
    <2>1. operator' = [operator EXCEPT ![m] = next]
      BY <1>3 DEF IInv, TypeOK
    <2>2. /\ next \in OperatorState /\ next.pc = "read"
          /\ next.on = operator[m].on /\ next.found = operator[m].found
      BY <1>1
    <2> HIDE DEF next
    <2>3. OperatorMovesTo(m, next)
      BY <1>1, <2>1, <2>2 DEF OperatorMovesTo, ManualQuery
    <2> QED
      BY <2>3, OperatorMovesIInv
  <1> QED
    BY <1>2, <1>3 DEF ManualQuery

\* The second read ends the request or lets it write.
LEMMA ManualReadIInv ==
  ASSUME IInv, NEW m \in Operators, ManualRead(m) PROVE IInv'
  <1>1. /\ operator[m] \in OperatorState /\ operator[m].pc = "read"
        /\ operator[m].on \in Calls /\ row[operator[m].on].status # "none"
        /\ operator[m].found => wire[operator[m].on] = "placed"
    BY DEF IInv, TypeOK, OperatorShape, ManualRead
  <1>2. CASE Recovered(row[operator[m].on])
    <2>1. OperatorMovesTo(m, IdleOperator)
      BY <1>1, <1>2 DEF OperatorMovesTo, ManualRead, IdleOperator
    <2> QED
      BY <2>1, OperatorMovesIInv
  <1>3. CASE ~Recovered(row[operator[m].on])
    <2> DEFINE next == [operator[m] EXCEPT !.pc = "write"]
    <2>1. operator' = [operator EXCEPT ![m] = next]
      BY <1>3 DEF ManualRead, IInv, TypeOK
    <2>2. /\ next \in OperatorState /\ next.pc = "write"
          /\ next.on = operator[m].on /\ next.found = operator[m].found
      BY <1>1
    <2> HIDE DEF next
    <2>3. OperatorMovesTo(m, next)
      BY <1>1, <2>1, <2>2 DEF OperatorMovesTo, ManualRead
    <2> QED
      BY <2>3, OperatorMovesIInv
  <1> QED
    BY <1>2, <1>3

\* The write of a manual reconciliation.  A recovery is true; a miss may close
\* the gate over a row that was settled meanwhile, but it settles nothing.
LEMMA ManualWriteIInv ==
  ASSUME IInv, NEW m \in Operators, ManualWrite(m) PROVE IInv'
  <1> DEFINE c == operator[m].on
             found == operator[m].found
             r == ManualRow(row[c], found)
  <1>1. /\ TypeOK /\ operator[m] \in OperatorState /\ c \in Calls /\ found \in BOOLEAN
        /\ row[c] \in Row /\ row[c].status # "none"
        /\ found => wire[c] = "placed"
        /\ ~RowLocked(c)
    BY DEF IInv, TypeOK, OperatorShape, ManualWrite
  <1>2. /\ row' = [row EXCEPT ![c] = r]
        /\ operator' = [operator EXCEPT ![m] = IdleOperator]
        /\ UNCHANGED <<call, wire, quota, worker, crashes>>
    BY DEF ManualWrite
  <1>3. /\ r \in Row /\ r.status # "none"
        /\ found => r.status = "order_created" /\ ~Unresolved(r)
        /\ ~found => r.status = row[c].status /\ Eligible(r)
    BY <1>1 DEF ManualRow, RecoveredRow
  <1>4. /\ \A d \in Calls \ {c} : job'[d] = job[d]
        /\ job' \in [Calls -> Job]
        /\ \/ job'[c] = job[c] /\ (~found \/ job[c].state = "none")
           \/ found /\ job'[c] = EndedJob("resolved", job[c].count) /\ job[c].state # "none"
           \/ ~found /\ job'[c] = PendingJob(0, 0) /\ job[c].state = "none"
    <2>1. job \in [Calls -> Job] /\ job[c] \in Job
      BY <1>1 DEF TypeOK
    <2>2. CASE found
      <3>1. job' = ResolveJob(c)
        BY <2>2 DEF ManualWrite
      <3>2. EndedJob("resolved", job[c].count) \in Job
        BY <2>1 DEF EndedJob
      <3> QED
        BY <1>1, <2>1, <2>2, <3>1, <3>2 DEF ResolveJob
    <2>3. CASE ~found
      <3>1. job' = Enqueue(c, r, 0)
        BY <2>3 DEF ManualWrite
      <3>2. PendingJob(0, 0) \in Job
        BY DEF PendingJob
      <3> QED
        BY <1>1, <1>3, <2>1, <2>3, <3>1, <3>2 DEF Enqueue
    <2> QED
      BY <2>2, <2>3
  <1>5. \/ job'[c] = job[c] /\ (~found \/ job[c].state = "none")
        \/ /\ job'[c].state = "resolved" /\ job'[c].timer = 0 /\ job'[c].holder = NoWorker
           /\ job'[c].count = job[c].count /\ job[c].state # "none" /\ found
        \/ /\ job'[c].state = "pending" /\ job'[c].timer = 0 /\ job'[c].holder = NoWorker
           /\ job'[c].count = 0 /\ job[c].state = "none" /\ ~found
    BY <1>4 DEF EndedJob, PendingJob
  <1>6. /\ row'[c] = r /\ \A d \in Calls \ {c} : row'[d] = row[d]
        /\ operator'[m] = IdleOperator
        /\ \A u \in Operators \ {m} : operator'[u] = operator[u]
    BY <1>1, <1>2 DEF TypeOK
  <1> HIDE DEF c, found, r
  <1>7. TypeOK'
    BY <1>1, <1>2, <1>3, <1>4 DEF TypeOK, IdleOperator
  <1>8. RowShape'
    <2>1. RowShape
      BY DEF IInv
    <2>2. /\ Unresolved(r) => Eligible(r)
          /\ r.status = "created" => Eligible(r)
      BY <1>1, <1>3
    <2> QED
      BY <2>1, <2>2, <1>3, <1>6 DEF RowShape
  <1>9. CallShape'
    BY <1>1, <1>2, <1>3, <1>4, <1>5, <1>6 DEF IInv, CallShape
  <1>10. GateShape' /\ OneOrderInFlight'
    BY <1>2 DEF IInv, GateShape, OneOrderInFlight
  <1>11. JobShape'
    BY <1>1, <1>3, <1>4, <1>5, <1>6 DEF IInv, TypeOK, JobShape
  <1>12. BudgetRespected'
    <2>1. /\ job'[c].count = job[c].count \/ job'[c].count = 0
          /\ job'[c].holder # NoWorker <=> job'[c].state = "claimed"
          /\ job'[c].state \in {"pending", "claimed"} => job'[c].count < MaxAutomaticAttempts
          /\ job'[c].state = "exhausted" => job'[c].count = MaxAutomaticAttempts
          /\ job'[c].count <= MaxAutomaticAttempts
      BY <1>1, <1>5 DEF IInv, BudgetRespected
    <2> QED
      BY <1>4, <2>1 DEF IInv, BudgetRespected
  <1>13. WorkerShape'
    <2>1. \A w \in Workers : worker[w].pc = "commit" => worker[w].on # c
      <3>1. ASSUME NEW w \in Workers, worker[w].pc = "commit"
            PROVE  worker[w].plan \in {"found", "missed"}
        <4>1. worker[w] \in WorkerState
          BY DEF IInv, TypeOK
        <4>2. worker[w].plan # "none" /\ worker[w].plan \notin {"settled", "ineligible"}
          BY <3>1 DEF IInv, WorkerShape
        <4> QED
          BY <4>1, <4>2
      <3> QED
        BY <1>1, <3>1 DEF RowLocked, WritesRow
    <2>2. \A w \in Workers : worker[w].pc = "commit" => job'[worker[w].on] = job[worker[w].on]
      BY <2>1, <1>4 DEF IInv, WorkerShape
    <2>3. \A d \in Calls : /\ job[d].state # "none" => job'[d].state # "none"
                           /\ job[d].state = "resolved" => job'[d].state = "resolved"
      BY <1>4, <1>5
    <2>4. \A w \in Workers, d \in Calls : Owns(w, d)' => job'[d] = job[d]
      BY <1>4, <1>5
    <2> QED
      BY <1>2, <2>2, <2>3, <2>4 DEF IInv, WorkerShape
  <1>14. OperatorShape'
    BY <1>2, <1>3, <1>6 DEF IInv, OperatorShape, IdleOperator
  <1>15. SettledRowsTellTheTruth'
    BY <1>1, <1>2, <1>3, <1>6 DEF IInv, SettledRowsTellTheTruth
  <1> QED
    BY <1>7, <1>8, <1>9, <1>10, <1>11, <1>12, <1>13, <1>14, <1>15 DEF IInv

\* Time changes nothing but the timers.
LEMMA TickIInv ==
  ASSUME IInv, Tick PROVE IInv'
  <1>1. /\ UNCHANGED <<row, call, wire, quota, worker, operator, crashes>>
        /\ job' = [c \in Calls |-> [job[c] EXCEPT !.timer = IF @ > 0 THEN @ - 1 ELSE 0]]
    BY DEF Tick
  <1>2. \A c \in Calls :
          /\ job'[c] \in Job
          /\ job'[c].state = job[c].state /\ job'[c].holder = job[c].holder
          /\ job'[c].count = job[c].count
          /\ job[c].timer = 0 => job'[c] = job[c]
    BY <1>1 DEF IInv, TypeOK
  <1>3. TypeOK'
    BY <1>1, <1>2 DEF IInv, TypeOK
  <1>4. RowShape' /\ GateShape' /\ OperatorShape'
    BY <1>1 DEF IInv, RowShape, GateShape, OperatorShape
  <1>5. CallShape'
    BY <1>1, <1>2 DEF IInv, CallShape
  <1>6. JobShape'
    BY <1>1, <1>2 DEF IInv, JobShape
  <1>7. BudgetRespected'
    BY <1>2 DEF IInv, BudgetRespected
  <1>8. WorkerShape'
    <2>1. \A w \in Workers : Working(w) => worker[w].on \in Calls
      BY DEF IInv, WorkerShape
    <2>2. \A w \in Workers : Working(w) =>
            /\ job'[worker[w].on].state = job[worker[w].on].state
            /\ job'[worker[w].on].count = job[worker[w].on].count
      BY <1>2, <2>1
    <2>3. \A w \in Workers, c \in Calls : Owns(w, c)' <=> Owns(w, c)
      BY <1>2
    <2> QED
      <3>1. worker' = worker /\ wire' = wire
        BY <1>1
      <3>2. \A c \in Calls : job'[c].state = job[c].state /\ job'[c].count = job[c].count
        BY <1>2
      <3> QED
        BY <2>1, <2>2, <2>3, <3>1, <3>2 DEF IInv, WorkerShape, Working
  <1>9. SettledRowsTellTheTruth' /\ OneOrderInFlight'
    BY <1>1 DEF IInv, SettledRowsTellTheTruth, OneOrderInFlight
  <1> QED
    BY <1>3, <1>4, <1>5, <1>6, <1>7, <1>8, <1>9 DEF IInv

----------------------------------------------------------------------------
(* Jobs                                                                    *)

\* What a step may do to the job of call c.
JobForward(c) ==
  /\ job[c].state = "resolved" => job'[c] = job[c]
  /\ job[c].state = "exhausted" => job'[c].state \in {"exhausted", "resolved"}
  /\ job[c].state # "none" => job'[c].state # "none"
  /\ job'[c].count \in {job[c].count, job[c].count + 1}
  /\ job[c].state = "claimed" /\ job'[c].state = "pending"
       => job'[c].count = job[c].count + 1

\* Making a job where there is none, and resolving one, are steps forward.
LEMMA EnqueueForward ==
  ASSUME IInv, NEW c \in Calls, NEW d \in Calls, NEW r, NEW delay,
         job' = Enqueue(c, r, delay) \/ job' = ResolveJob(c)
  PROVE  JobForward(d)
  <1>1. \/ job' = job
        \/ job' = [job EXCEPT ![c] = PendingJob(delay, 0)] /\ job[c].state = "none"
        \/ job' = [job EXCEPT ![c] = EndedJob("resolved", job[c].count)] /\ job[c].state # "none"
    BY DEF Enqueue, ResolveJob
  <1>2. job \in [Calls -> Job]
    BY DEF IInv, TypeOK
  <1>3. CASE job' = job
    BY <1>3 DEF JobForward
  <1>4. CASE job' = [job EXCEPT ![c] = PendingJob(delay, 0)] /\ job[c].state = "none"
    BY <1>2, <1>4 DEF IInv, JobShape, NoJob, PendingJob, JobForward
  <1>5. CASE job' = [job EXCEPT ![c] = EndedJob("resolved", job[c].count)]
    <2>1. CASE job[c].state = "resolved"
      <3>1. job[c].timer = 0 /\ job[c].holder = NoWorker
        BY <2>1 DEF IInv, JobShape, BudgetRespected
      <3>2. EndedJob("resolved", job[c].count) = job[c]
        BY <1>2, <2>1, <3>1 DEF EndedJob
      <3> QED
        BY <1>2, <1>5, <3>2 DEF JobForward
    <2>2. CASE job[c].state # "resolved"
      BY <1>2, <1>5, <2>2 DEF EndedJob, JobForward
    <2> QED
      BY <2>1, <2>2
  <1> QED
    BY <1>1, <1>3, <1>4, <1>5

\* Every step takes every job forward, or leaves it alone.
LEMMA NextForward ==
  ASSUME IInv, [Next]_vars, NEW d \in Calls PROVE JobForward(d)
  <1>1. job \in [Calls -> Job]
    BY DEF IInv, TypeOK
  <1>2. CASE UNCHANGED job
    BY <1>2 DEF JobForward
  <1>3. ASSUME NEW c \in Calls, Reserve(c) \/ Finalize(c) PROVE JobForward(d)
    BY <1>3, EnqueueForward DEF Reserve, Finalize
  <1>4. ASSUME NEW m \in Operators, ManualWrite(m) PROVE JobForward(d)
    <2>1. operator[m].on \in Calls
      BY <1>4 DEF IInv, OperatorShape, ManualWrite
    <2> QED
      BY <1>4, <2>1, EnqueueForward DEF ManualWrite
  <1>5. ASSUME NEW w \in Workers, NEW S \in SUBSET Calls, Claim(w, S) PROVE JobForward(d)
    <2>1. CASE d \in S
      <3>1. job'[d] = ClaimedJob(w, job[d].count) /\ job[d].state \in {"pending", "claimed"}
        BY <1>5, <2>1 DEF Claim
      <3> QED
        BY <3>1 DEF ClaimedJob, JobForward
    <2>2. CASE d \notin S
      BY <1>5, <2>2 DEF Claim, JobForward
    <2> QED
      BY <2>1, <2>2
  <1>6. ASSUME NEW w \in Workers, Commit(w) PROVE JobForward(d)
    <2> DEFINE c == worker[w].on
    <2>1. /\ c \in Calls /\ job[c].state = "claimed"
          /\ worker[w].ticket[c] = job[c].count + 1
          /\ worker[w].plan \in {"found", "missed"}
      BY <1>6 DEF IInv, TypeOK, WorkerShape, Commit
    <2>2. job' = [job EXCEPT ![c] = WorkerJob(worker[w].plan, worker[w].ticket[c])]
      BY <1>6 DEF Commit
    <2>3. WorkerJob(worker[w].plan, worker[w].ticket[c]).count = job[c].count + 1
      BY <2>1 DEF WorkerJob, EndedJob, PendingJob
    <2>4. WorkerJob(worker[w].plan, worker[w].ticket[c]).state # "none"
      BY <2>1 DEF WorkerJob, EndedJob, PendingJob
    <2> QED
      BY <1>1, <2>1, <2>2, <2>3, <2>4 DEF JobForward
  <1>7. CASE Tick
    <2>1. /\ job'[d].state = job[d].state /\ job'[d].count = job[d].count
          /\ job[d].timer = 0 => job'[d] = job[d]
      BY <1>1, <1>7 DEF Tick
    <2>2. job[d].state = "resolved" => job[d].timer = 0
      BY DEF IInv, JobShape
    <2> QED
      BY <2>1, <2>2 DEF JobForward
  <1>8. ASSUME NEW c \in Calls, ~UNCHANGED job,
               RefuseEarly(c) \/ BrokerStep(c) \/ CrashCall(c) \/ ExchangeDecides(c)
        PROVE  JobForward(d)
    BY <1>3, <1>8 DEF RefuseEarly, BrokerStep, GuardBlocks, GuardAdmits, PreflightRejects,
       ReserveBlocked, ReserveCleared, Post, HearAnswer, AskOnce, CrashCall, ExchangeDecides
  <1>9. ASSUME NEW w \in Workers, ~UNCHANGED job, WorkerStep(w) \/ CrashWorker(w)
        PROVE  JobForward(d)
    BY <1>5, <1>6, <1>9 DEF WorkerStep, CheckClaim, ReadAttempt, Query, CheckAgain, CrashWorker
  <1>10. ASSUME NEW m \in Operators, ~UNCHANGED job, OperatorStep(m) PROVE JobForward(d)
    BY <1>4, <1>10 DEF OperatorStep, ManualBegin, ManualQuery, ManualRead
  <1> QED
    BY <1>2, <1>7, <1>8, <1>9, <1>10 DEF Next, vars

----------------------------------------------------------------------------
(* Theorems                                                                *)

\* Every step of the protocol preserves the invariant.
LEMMA NextIInv == IInv /\ [Next]_vars => IInv'
  <1> SUFFICES ASSUME IInv, [Next]_vars PROVE IInv'
    OBVIOUS
  <1>1. ASSUME NEW c \in Calls,
               RefuseEarly(c) \/ GuardBlocks(c) \/ PreflightRejects(c) \/ ReserveBlocked(c)
        PROVE  IInv'
    <2>1. PICK r \in {BlockedRow, RejectedRow} :
            /\ call[c] \in {"idle", "guarded"}
            /\ row' = [row EXCEPT ![c] = r]
            /\ call' = [call EXCEPT ![c] = "done"]
            /\ UNCHANGED <<job, wire, quota, worker, operator, crashes>>
      BY <1>1 DEF RefuseEarly, GuardBlocks, PreflightRejects, ReserveBlocked
    <2> QED
      BY <2>1, TurnedAwayIInv
  <1>2. ASSUME NEW c \in Calls, BrokerStep(c) PROVE IInv'
    BY <1>1, <1>2, GuardAdmitsIInv, ReserveClearedIInv, ReserveIInv, PostIInv, LearnIInv,
       FinalizeIInv DEF BrokerStep
  <1>3. ASSUME NEW w \in Workers, WorkerStep(w) PROVE IInv'
    BY <1>3, ClaimIInv, CheckClaimIInv, ReadAttemptIInv, QueryIInv, CheckAgainIInv,
       CommitIInv DEF WorkerStep
  <1>4. ASSUME NEW m \in Operators, OperatorStep(m) PROVE IInv'
    BY <1>4, ManualBeginIInv, ManualQueryIInv, ManualReadIInv, ManualWriteIInv
       DEF OperatorStep
  <1>5. CASE UNCHANGED vars
    <2>1. TypeOK' /\ RowShape' /\ CallShape' /\ GateShape' /\ JobShape'
      BY <1>5 DEF vars, IInv, TypeOK, RowShape, CallShape, GateShape, JobShape
    <2>2. BudgetRespected' /\ WorkerShape' /\ OperatorShape'
      BY <1>5 DEF vars, IInv, BudgetRespected, WorkerShape, OperatorShape
    <2>3. SettledRowsTellTheTruth' /\ OneOrderInFlight'
      BY <1>5 DEF vars, IInv, SettledRowsTellTheTruth, OneOrderInFlight
    <2> QED
      BY <2>1, <2>2, <2>3 DEF IInv
  <1> QED
    BY <1>1, <1>2, <1>3, <1>4, <1>5, CrashCallIInv, ExchangeDecidesIInv, CrashWorkerIInv, TickIInv
       DEF Next

\* IInv is an invariant of the protocol.
THEOREM Invariance == Spec => []IInv
  BY InitIInv, NextIInv, PTL DEF Spec

\* Every table and every process keeps to its type.
THEOREM TypeCorrect == Spec => []TypeOK
  <1>1. IInv => TypeOK
    BY DEF IInv
  <1> QED
    BY <1>1, Invariance, PTL

\* A bot never has two orders in flight.
THEOREM SerialSubmission == Spec => []OneOrderInFlight
  <1>1. IInv => OneOrderInFlight
    BY DEF IInv
  <1> QED
    BY <1>1, Invariance, PTL

\* A row that no longer closes the gate agrees with the exchange.
THEOREM TruthfulRows == Spec => []SettledRowsTellTheTruth
  <1>1. IInv => SettledRowsTellTheTruth
    BY DEF IInv
  <1> QED
    BY <1>1, Invariance, PTL

\* Exhaustion never reopens the gate.
THEOREM ExhaustionBlocks == Spec => []ExhaustedStillBlocks
  <1>1. IInv => ExhaustedStillBlocks
    BY DEF IInv, JobShape, ExhaustedStillBlocks
  <1> QED
    BY <1>1, Invariance, PTL

\* The retry budget is used exactly.
THEOREM ExactBudget == Spec => []BudgetRespected
  <1>1. IInv => BudgetRespected
    BY DEF IInv
  <1> QED
    BY <1>1, Invariance, PTL

\* A worker step changes a row from unresolved to recovered or not at all.
THEOREM WorkersOnlyRecover == Spec => WorkerOnlyRecovers
  <1> DEFINE OnlyRecovers ==
        \A w \in Workers : WorkerStep(w) =>
          \A c \in Calls : row'[c] # row[c] =>
            Unresolved(row[c]) /\ row'[c] = RecoveredRow /\ wire[c] = "placed"
  <1>1. ASSUME IInv, NEW w \in Workers, WorkerStep(w), NEW c \in Calls, row'[c] # row[c]
        PROVE  Unresolved(row[c]) /\ row'[c] = RecoveredRow /\ wire[c] = "placed"
    <2>1. Commit(w)
      BY <1>1 DEF WorkerStep, Claim, CheckClaim, ReadAttempt, Query, CheckAgain
    <2>2. /\ worker[w].on \in Calls /\ worker[w] \in WorkerState
          /\ job[worker[w].on].state = "claimed"
          /\ worker[w].plan = "found" => wire[worker[w].on] = "placed"
          /\ worker[w].plan \notin {"none", "settled", "ineligible"}
      BY <1>1, <2>1 DEF IInv, TypeOK, WorkerShape, Commit
    <2>3. Eligible(row[worker[w].on]) /\ row[worker[w].on] \in Row
      BY <1>1, <2>2 DEF IInv, TypeOK, JobShape
    <2>4. /\ c = worker[w].on
          /\ row'[c] = WorkerRow(row[c], worker[w].plan)
      BY <1>1, <2>1, <2>2 DEF IInv, TypeOK, Commit
    <2>5. CASE worker[w].plan = "found"
      BY <2>2, <2>3, <2>4, <2>5 DEF WorkerRow
    <2>6. CASE worker[w].plan = "missed"
      <3>1. [row[c] EXCEPT !.resolution = "unresolved"] = row[c]
        BY <2>3, <2>4
      <3> QED
        BY <1>1, <2>4, <2>6, <3>1 DEF WorkerRow
    <2> QED
      BY <2>2, <2>5, <2>6
  <1>2. IInv /\ [Next]_vars => [OnlyRecovers]_vars
    BY <1>1
  <1> QED
    BY <1>2, Invariance, PTL DEF Spec, WorkerOnlyRecovers

\* Jobs never go back: a resolved job is closed for good, an exhausted one can
\* only be resolved, and every automatic check is counted once.
THEOREM JobsOnlyForward == Spec => JobsMoveForward
  <1>1. IInv /\ [Next]_vars => [\A c \in Calls : JobForward(c)]_vars
    BY NextForward
  <1> QED
    BY <1>1, Invariance, PTL DEF Spec, JobsMoveForward, JobForward

----------------------------------------------------------------------------
(* The daily quota                                                         *)

\* The orders of a bot that may have been counted: placed, and their call over.
Countable(b) == {c \in Calls : BotOf[c] = b /\ wire[c] = "placed" /\ call[c] = "done"}

QuotaCounted == \A b \in Bots : quota[b] <= Cardinality(Countable(b))

\* A call that is over stays so, and an order that was placed stays placed.
LEMMA CountableGrows ==
  ASSUME IInv, [Next]_vars
  PROVE  \A b \in Bots : Countable(b) \subseteq Countable(b)'
  <1> SUFFICES ASSUME NEW c \in Calls, wire[c] = "placed", call[c] = "done"
               PROVE  wire'[c] = "placed" /\ call'[c] = "done"
    BY DEF Countable
  <1>1. ASSUME NEW d \in Calls, BrokerStep(d) \/ RefuseEarly(d) \/ CrashCall(d)
        PROVE  wire'[c] = "placed" /\ call'[c] = "done"
    <2>1. /\ call[d] # "done"
          /\ \A e \in Calls : e # d => call'[e] = call[e]
      <3>1. call[d] # "done"
        BY <1>1 DEF BrokerStep, RefuseEarly, CrashCall, GuardBlocks, GuardAdmits,
                  PreflightRejects, ReserveBlocked, ReserveCleared, Reserve, Post, HearAnswer,
                  AskOnce, Finalize
      <3>2. \E s : call' = [call EXCEPT ![d] = s]
        BY <1>1 DEF BrokerStep, RefuseEarly, CrashCall, GuardBlocks, GuardAdmits,
                  PreflightRejects, ReserveBlocked, ReserveCleared, Reserve, Post, HearAnswer,
                  AskOnce, Finalize
      <3> QED
        BY <3>1, <3>2 DEF IInv, TypeOK
    <2>2. wire' = wire \/ Post(d)
      BY <1>1 DEF BrokerStep, RefuseEarly, CrashCall, GuardBlocks, GuardAdmits,
                  PreflightRejects, ReserveBlocked, ReserveCleared, Reserve, HearAnswer,
                  AskOnce, Finalize
    <2>3. wire'[c] = wire[c]
      BY <2>1, <2>2 DEF Post, IInv, TypeOK
    <2> QED
      BY <2>1, <2>3
  <1>2. ASSUME NEW d \in Calls, ExchangeDecides(d)
        PROVE  wire'[c] = "placed" /\ call'[c] = "done"
    BY <1>2 DEF ExchangeDecides, IInv, TypeOK
  <1>3. ASSUME NEW w \in Workers, WorkerStep(w) \/ CrashWorker(w)
        PROVE  wire'[c] = "placed" /\ call'[c] = "done"
    BY <1>3 DEF WorkerStep, Claim, CheckClaim, ReadAttempt, Query, CheckAgain, Commit,
                CrashWorker
  <1>4. ASSUME NEW m \in Operators, OperatorStep(m)
        PROVE  wire'[c] = "placed" /\ call'[c] = "done"
    BY <1>4 DEF OperatorStep, ManualBegin, ManualQuery, ManualRead, ManualWrite
  <1>5. CASE Tick \/ UNCHANGED vars
    BY <1>5 DEF Tick, vars
  <1> QED
    BY <1>1, <1>2, <1>3, <1>4, <1>5 DEF Next

LEMMA CountableIsFinite ==
  ASSUME IsFiniteSet(Calls), NEW b \in Bots
  PROVE  /\ IsFiniteSet(Countable(b)) /\ Cardinality(Countable(b)) \in Nat
         /\ IsFiniteSet(Countable(b)') /\ Cardinality(Countable(b)') \in Nat
  <1>1. Countable(b) \in SUBSET Calls /\ Countable(b)' \in SUBSET Calls
    BY DEF Countable
  <1> QED
    BY <1>1, FS_Subset, FS_CardinalityType

\* The one step that counts an order ends its call: the order was not countable
\* before, and is now.
LEMMA FinalizeCounts ==
  ASSUME IInv, IsFiniteSet(Calls), QuotaCounted, [Next]_vars, NEW c \in Calls, Finalize(c)
  PROVE  QuotaCounted'
  <1> SUFFICES ASSUME NEW b \in Bots PROVE quota'[b] <= Cardinality(Countable(b)')
    BY DEF QuotaCounted
  <1>1. /\ Countable(b) \subseteq Countable(b)'
        /\ quota[b] <= Cardinality(Countable(b))
        /\ quota[b] \in Nat
    BY CountableGrows DEF QuotaCounted, IInv, TypeOK
  <1>2. Cardinality(Countable(b)) <= Cardinality(Countable(b)')
    BY <1>1, CountableIsFinite, FS_Subset
  <1>3. CASE quota'[b] = quota[b]
    BY <1>1, <1>2, <1>3, CountableIsFinite
  <1>4. CASE BotOf[c] = b /\ Counts(call[c]) /\ quota'[b] = quota[b] + 1
    <2>1. wire[c] = "placed" /\ call[c] # "done"
      BY <1>4 DEF Counts, IInv, CallShape
    <2>2. wire'[c] = "placed" /\ call'[c] = "done"
      BY <2>1 DEF Finalize, IInv, TypeOK
    <2>3. c \notin Countable(b) /\ Countable(b) \cup {c} \in SUBSET (Countable(b)')
      BY <1>1, <1>4, <2>1, <2>2 DEF Countable
    <2>4. Cardinality(Countable(b) \cup {c}) = Cardinality(Countable(b)) + 1
      BY <2>3, CountableIsFinite, FS_AddElement
    <2>5. Cardinality(Countable(b) \cup {c}) <= Cardinality(Countable(b)')
      BY <2>3, CountableIsFinite, FS_Subset
    <2> QED
      BY <1>1, <1>4, <2>4, <2>5, CountableIsFinite
  <1> QED
    BY <1>3, <1>4 DEF Finalize, IInv, TypeOK

\* An order is counted at most once and only if the exchange placed it, whatever
\* crashes, retries and recoveries come in between (_record_successful_daily_quota
\* and _finalize_reserved_attempt of binance.py).
THEOREM QuotaNeverOvercountsAlways ==
  ASSUME IsFiniteSet(Calls)
  PROVE  Spec => []QuotaNeverOvercounts
  <1>1. Init => QuotaCounted
    BY CountableIsFinite DEF Init, QuotaCounted
  <1>2. IInv /\ QuotaCounted /\ [Next]_vars => QuotaCounted'
    <2> SUFFICES ASSUME IInv, QuotaCounted, [Next]_vars PROVE QuotaCounted'
      OBVIOUS
    <2>1. CASE \E c \in Calls : Finalize(c)
      BY <2>1, FinalizeCounts
    <2>2. CASE \A c \in Calls : ~Finalize(c)
      <3>1. quota' = quota
        BY <2>2 DEF Next, vars, BrokerStep, RefuseEarly, CrashCall, GuardBlocks, GuardAdmits,
                    PreflightRejects, ReserveBlocked, ReserveCleared, Reserve, Post,
                    HearAnswer, AskOnce, ExchangeDecides, WorkerStep, Claim, CheckClaim,
                    ReadAttempt, Query, CheckAgain, Commit, CrashWorker, OperatorStep,
                    ManualBegin, ManualQuery, ManualRead, ManualWrite, Tick
      <3>2. ASSUME NEW b \in Bots PROVE quota'[b] <= Cardinality(Countable(b)')
        <4>1. Countable(b) \in SUBSET (Countable(b)')
          BY CountableGrows
        <4>2. Cardinality(Countable(b)) <= Cardinality(Countable(b)')
          BY <4>1, CountableIsFinite, FS_Subset
        <4> QED
          BY <3>1, <4>2, CountableIsFinite DEF QuotaCounted, IInv, TypeOK
      <3> QED
        BY <3>2 DEF QuotaCounted
    <2> QED
      BY <2>1, <2>2
  <1>3. IInv /\ QuotaCounted => QuotaNeverOvercounts
    <2> SUFFICES ASSUME IInv, QuotaCounted, NEW b \in Bots
                 PROVE  quota[b] <= Cardinality({c \in Calls : BotOf[c] = b /\ wire[c] = "placed"})
      BY DEF QuotaNeverOvercounts
    <2> DEFINE placed == {c \in Calls : BotOf[c] = b /\ wire[c] = "placed"}
    <2>1. placed \in SUBSET Calls /\ Countable(b) \in SUBSET placed
      BY DEF Countable
    <2>2. IsFiniteSet(placed) /\ Cardinality(placed) \in Nat
      BY <2>1, FS_Subset, FS_CardinalityType
    <2>3. Cardinality(Countable(b)) <= Cardinality(placed)
      BY <2>1, <2>2, FS_Subset
    <2> QED
      BY <2>2, <2>3, CountableIsFinite DEF QuotaCounted, IInv, TypeOK
  <1> QED
    BY <1>1, <1>2, <1>3, Invariance, PTL DEF Spec

====
