-------------------- MODULE TestnetSubmissionRefinement --------------------
(***************************************************************************)
(* TestnetSubmission implements SerialOrders under the refinement mapping   *)
(* OrderOf, LedgerOf: its initial states map to initial states, and each of *)
(* its steps maps to a step of SerialOrders or to a stutter.                *)
(***************************************************************************)
EXTENDS TestnetSubmissionProofs

USE DEF OrderOf, LedgerOf
USE DEF Row, CallState, WireState, WorkerState, OperatorState, Outcomes
USE DEF Unresolved, Settled, InFlight, Working

\* What the exchange and the platform's rows say of a call does not change.
Same(c) == OrderOf(c)' = OrderOf(c) /\ LedgerOf(c)' = LedgerOf(c)

\* A step that changes the mapped state of no call is a stutter.
LEMMA StutterMaps ==
  ASSUME \A c \in Calls : Same(c)
  PROVE  [Orders!Next]_(Orders!vars)
  BY DEF Same, Orders!vars

\* A step that changes the mapped state of one call only.
LEMMA OneCallMaps ==
  ASSUME NEW c \in Calls, \A d \in Calls \ {c} : Same(d),
         \/ Same(c)
         \/ /\ OrderOf(c) = "new" /\ OrderOf(c)' = "dropped"
            /\ LedgerOf(c)' \in {LedgerOf(c), "rejected"}
         \/ /\ OrderOf(c) = "new" /\ OrderOf(c)' = "open" /\ LedgerOf(c)' = "unknown"
            /\ \A d \in Calls : BotOf[d] = BotOf[c] => OrderOf(d) # "open"
         \/ /\ OrderOf(c) = "open" /\ OrderOf(c)' \in {"placed", "dropped"}
            /\ LedgerOf(c)' = LedgerOf(c)
         \/ /\ LedgerOf(c) = "unknown" /\ OrderOf(c)' = OrderOf(c)
            /\ \/ OrderOf(c) = "placed" /\ LedgerOf(c)' = "created"
               \/ OrderOf(c) = "dropped" /\ LedgerOf(c)' = "rejected"
         \/ /\ LedgerOf(c) \in {"created", "rejected"} /\ LedgerOf(c)' = "unknown"
            /\ OrderOf(c)' = OrderOf(c)
  PROVE  [Orders!Next]_(Orders!vars)
  <1> DEFINE order == [d \in Calls |-> OrderOf(d)]
             ledger == [d \in Calls |-> LedgerOf(d)]
  <1> HIDE DEF OrderOf, LedgerOf
  <1>1. /\ order' = [order EXCEPT ![c] = OrderOf(c)']
        /\ ledger' = [ledger EXCEPT ![c] = LedgerOf(c)']
    BY DEF Same
  <1>2. /\ \A d \in Calls : order[d] = OrderOf(d) /\ ledger[d] = LedgerOf(d)
        /\ LedgerOf(c)' = LedgerOf(c) => ledger' = ledger
        /\ OrderOf(c)' = OrderOf(c) => order' = order
    BY DEF Same
  <1> USE DEF Orders!Next, Orders!vars
  <1>3. CASE Same(c)
    BY <1>3, StutterMaps
  <1>4. CASE /\ OrderOf(c) = "new" /\ OrderOf(c)' = "dropped"
             /\ LedgerOf(c)' \in {LedgerOf(c), "rejected"}
    <2>1. Orders!TurnAway(c)
      BY <1>1, <1>2, <1>4 DEF Orders!TurnAway
    <2> QED
      BY <2>1
  <1>5. CASE /\ OrderOf(c) = "new" /\ OrderOf(c)' = "open" /\ LedgerOf(c)' = "unknown"
             /\ \A d \in Calls : BotOf[d] = BotOf[c] => OrderOf(d) # "open"
    <2>1. Orders!Submit(c)
      BY <1>1, <1>2, <1>5 DEF Orders!Submit
    <2> QED
      BY <2>1
  <1>6. CASE /\ OrderOf(c) = "open" /\ OrderOf(c)' \in {"placed", "dropped"}
             /\ LedgerOf(c)' = LedgerOf(c)
    <2>1. Orders!Decide(c)
      BY <1>1, <1>2, <1>6 DEF Orders!Decide
    <2> QED
      BY <2>1
  <1>7. CASE /\ LedgerOf(c) = "unknown" /\ OrderOf(c)' = OrderOf(c)
             /\ \/ OrderOf(c) = "placed" /\ LedgerOf(c)' = "created"
                \/ OrderOf(c) = "dropped" /\ LedgerOf(c)' = "rejected"
    <2>1. Orders!Learn(c)
      BY <1>1, <1>2, <1>7 DEF Orders!Learn
    <2> QED
      BY <2>1
  <1>8. CASE /\ LedgerOf(c) \in {"created", "rejected"} /\ LedgerOf(c)' = "unknown"
             /\ OrderOf(c)' = OrderOf(c)
    <2>1. Orders!Forget(c)
      BY <1>1, <1>2, <1>8 DEF Orders!Forget
    <2> QED
      BY <2>1
  <1> QED
    BY <1>3, <1>4, <1>5, <1>6, <1>7, <1>8

\* A step that rewrites the row of one attempt, whoever does it: the platform
\* learns what the exchange decided, or forgets it, but never changes its
\* mind, because both rows tell the truth about the same order.
LEMMA RewriteMaps ==
  ASSUME IInv, IInv', NEW c \in Calls,
         UNCHANGED wire, \A d \in Calls : OrderOf(d)' = OrderOf(d),
         \A d \in Calls \ {c} : row'[d] = row[d],
         row[c].status # "none", row'[c].status # "none"
  PROVE  [Orders!Next]_(Orders!vars)
  <1>1. \A d \in Calls \ {c} : Same(d)
    BY DEF Same
  <1>2. /\ LedgerOf(c) \in {"unknown", "created", "rejected"}
        /\ LedgerOf(c)' \in {"unknown", "created", "rejected"}
    OBVIOUS
  <1>3. /\ LedgerOf(c) = "created" => wire[c] = "placed"
        /\ LedgerOf(c) = "rejected" => wire[c] \notin {"sent", "placed"} /\ call[c] # "reserved"
    <2>1. /\ LedgerOf(c) = "created" => Settled(c) /\ row[c].status = "order_created"
          /\ LedgerOf(c) = "rejected" => Settled(c) /\ row[c].status # "order_created"
      OBVIOUS
    <2> HIDE DEF LedgerOf, Settled
    <2> QED
      BY <2>1 DEF IInv, SettledRowsTellTheTruth
  <1>4. /\ LedgerOf(c)' = "created" => wire'[c] = "placed"
        /\ LedgerOf(c)' = "rejected" => wire'[c] \notin {"sent", "placed"} /\ call'[c] # "reserved"
    <2>1. /\ LedgerOf(c)' = "created" => Settled(c)' /\ row'[c].status = "order_created"
          /\ LedgerOf(c)' = "rejected" => Settled(c)' /\ row'[c].status # "order_created"
      OBVIOUS
    <2> HIDE DEF LedgerOf, Settled
    <2> QED
      BY <2>1 DEF IInv, SettledRowsTellTheTruth
  <1>5. wire'[c] \in WireState /\ wire'[c] = wire[c]
    BY DEF IInv, TypeOK
  <1>6. wire'[c] \notin {"sent", "placed"} /\ call'[c] # "reserved" => OrderOf(c)' = "dropped"
    BY <1>5 DEF IInv, CallShape
  <1> QED
    BY <1>1, <1>2, <1>3, <1>4, <1>5, <1>6, OneCallMaps DEF Same

\* The initial states: attempts of an earlier deployment are unknown, all
\* other orders are new.
LEMMA InitMaps == Init => Orders!Init
  <1> SUFFICES ASSUME Init PROVE Orders!Init
    OBVIOUS
  <1> DEFINE order == [d \in Calls |-> OrderOf(d)]
             ledger == [d \in Calls |-> LedgerOf(d)]
  <1>1. ASSUME NEW c \in Calls
        PROVE  /\ OrderOf(c) \in {"new", "placed", "dropped"}
               /\ LedgerOf(c) = IF OrderOf(c) = "new" THEN "nothing" ELSE "unknown"
    <2> PICK old \in SUBSET Legacy :
          /\ row[c] = IF c \in old THEN UnresolvedRow ELSE NoRow
          /\ call[c] = IF c \in old THEN "done" ELSE "idle"
          /\ wire[c] \in {"unsent", "placed", "lost"}
          /\ wire[c] = "unsent" <=> c \notin old
      BY DEF Init
    <2>1. CASE c \in old
      BY <2>1 DEF UnresolvedRow
    <2>2. CASE c \notin old
      BY <2>2 DEF NoRow
    <2> QED
      BY <2>1, <2>2
  <1> HIDE DEF OrderOf, LedgerOf
  <1> QED
    BY <1>1 DEF Orders!Init, Orders!OrderState

\* The steps of the broker that rewrite no attempt row.
LEMMA BrokerMaps ==
  ASSUME IInv, IInv', NEW c \in Calls,
         \/ RefuseEarly(c) \/ GuardBlocks(c) \/ PreflightRejects(c) \/ ReserveBlocked(c)
         \/ GuardAdmits(c) \/ ReserveCleared(c) \/ Reserve(c) \/ Post(c)
         \/ HearAnswer(c) \/ AskOnce(c) \/ CrashCall(c) \/ ExchangeDecides(c)
  PROVE  [Orders!Next]_(Orders!vars)
  <1>1. TypeOK
    BY DEF IInv
  <1>2. \A d \in Calls \ {c} : row'[d] = row[d] /\ call'[d] = call[d] /\ wire'[d] = wire[d]
    BY <1>1 DEF TypeOK, RefuseEarly, GuardBlocks, PreflightRejects, ReserveBlocked, GuardAdmits,
       ReserveCleared, Reserve, Post, HearAnswer, AskOnce, CrashCall, ExchangeDecides
  <1>3. \A d \in Calls \ {c} : Same(d)
    BY <1>2 DEF Same
  <1>4. call[c] \in {"idle", "guarded", "cleared"} =>
          OrderOf(c) = "new" /\ LedgerOf(c) = "nothing"
    BY DEF IInv, CallShape
  <1>5. CASE RefuseEarly(c) \/ GuardBlocks(c) \/ PreflightRejects(c) \/ ReserveBlocked(c)
    <2>1. /\ call[c] \in {"idle", "guarded"} /\ call'[c] = "done" /\ wire' = wire
          /\ row'[c] \in {BlockedRow, RejectedRow}
      BY <1>1, <1>5 DEF TypeOK, RefuseEarly, GuardBlocks, PreflightRejects, ReserveBlocked
    <2>2. wire[c] = "unsent"
      BY <2>1 DEF IInv, CallShape
    <2>3. OrderOf(c)' = "dropped" /\ LedgerOf(c)' = "rejected"
      BY <2>1, <2>2 DEF BlockedRow, RejectedRow
    <2> QED
      BY <1>3, <1>4, <2>1, <2>3, OneCallMaps
  <1>6. CASE Reserve(c)
    <2>1. /\ call[c] = "cleared" /\ call'[c] = "reserved" /\ wire' = wire
          /\ row'[c] = ReservedRow
      BY <1>1, <1>6 DEF TypeOK, Reserve
    <2>2. wire[c] = "unsent"
      BY <2>1 DEF IInv, CallShape
    <2>3. OrderOf(c)' = "open" /\ LedgerOf(c)' = "unknown"
      BY <2>1, <2>2 DEF ReservedRow
    <2>4. \A d \in Calls : BotOf[d] = BotOf[c] => OrderOf(d) # "open"
      BY <2>1 DEF IInv, GateShape
    <2> QED
      BY <1>3, <1>4, <2>1, <2>3, <2>4, OneCallMaps
  <1>7. CASE GuardAdmits(c) \/ ReserveCleared(c) \/ Post(c) \/ HearAnswer(c) \/ AskOnce(c)
    <2>1. row' = row
      BY <1>7 DEF GuardAdmits, ReserveCleared, Post, HearAnswer, AskOnce
    <2>2. OrderOf(c)' = OrderOf(c)
      <3>1. CASE Post(c)
        BY <1>1, <3>1 DEF IInv, CallShape, TypeOK, Post
      <3>2. CASE GuardAdmits(c) \/ ReserveCleared(c)
        BY <1>1, <3>2 DEF TypeOK, GuardAdmits, ReserveCleared
      <3>3. CASE HearAnswer(c) \/ AskOnce(c)
        BY <1>1, <3>3 DEF TypeOK, HearAnswer, AskOnce
      <3> QED
        BY <1>7, <3>1, <3>2, <3>3
    <2> QED
      BY <1>3, <2>1, <2>2, OneCallMaps DEF Same
  <1>8. CASE CrashCall(c)
    <2>1. row' = row /\ wire' = wire /\ call'[c] = "crashed" /\ call[c] \notin {"idle", "done", "crashed"}
      BY <1>1, <1>8 DEF TypeOK, CrashCall
    <2>2. LedgerOf(c)' = LedgerOf(c)
      BY <2>1
    <2>3. CASE call[c] \in {"guarded", "cleared"}
      <3>1. OrderOf(c)' = "dropped"
        BY <2>1, <2>3 DEF IInv, CallShape
      <3> QED
        BY <1>3, <1>4, <2>2, <2>3, <3>1, OneCallMaps
    <2>4. CASE call[c] = "reserved"
      <3>1. OrderOf(c) = "open" /\ OrderOf(c)' = "dropped"
        BY <2>1, <2>4 DEF IInv, CallShape
      <3> QED
        BY <1>3, <2>2, <3>1, OneCallMaps
    <2>5. CASE call[c] \notin {"guarded", "cleared", "reserved"}
      <3>1. OrderOf(c)' = OrderOf(c)
        BY <2>1, <2>5
      <3> QED
        BY <1>3, <2>2, <3>1, OneCallMaps DEF Same
    <2> QED
      BY <2>3, <2>4, <2>5
  <1>9. CASE ExchangeDecides(c)
    <2>1. /\ row' = row /\ call' = call /\ wire[c] = "sent"
          /\ wire'[c] \in {"placed", "refused", "lost"}
      BY <1>1, <1>9 DEF TypeOK, ExchangeDecides
    <2>2. OrderOf(c) = "open" /\ OrderOf(c)' \in {"placed", "dropped"} /\ LedgerOf(c)' = LedgerOf(c)
      BY <2>1
    <2> QED
      BY <1>3, <2>2, OneCallMaps
  <1> QED
    BY <1>5, <1>6, <1>7, <1>8, <1>9

\* Every step maps to a step of SerialOrders or to a stutter.
LEMMA NextMaps == IInv /\ IInv' /\ [Next]_vars => [Orders!Next]_(Orders!vars)
  <1> SUFFICES ASSUME IInv, IInv', [Next]_vars PROVE [Orders!Next]_(Orders!vars)
    OBVIOUS
  <1>1. TypeOK
    BY DEF IInv
  <1>2. ASSUME UNCHANGED <<row, call, wire>> PROVE [Orders!Next]_(Orders!vars)
    BY <1>2, StutterMaps DEF Same
  <1>3. ASSUME NEW c \in Calls, Finalize(c) PROVE [Orders!Next]_(Orders!vars)
    <2>1. row[c].status # "none" /\ wire[c] # "unsent"
      BY <1>3 DEF IInv, CallShape, Finalize
    <2>2. row'[c].status # "none"
      BY <1>1, <1>3 DEF Finalize, TypeOK, FinalRow, RecoveredRow, RejectedRow, UnresolvedRow
    <2>3. UNCHANGED wire /\ \A d \in Calls \ {c} : row'[d] = row[d] /\ call'[d] = call[d]
      BY <1>1, <1>3 DEF Finalize, TypeOK
    <2>4. \A d \in Calls : OrderOf(d)' = OrderOf(d)
      BY <1>1, <2>1, <2>3 DEF TypeOK
    <2> QED
      BY <2>1, <2>2, <2>3, <2>4, RewriteMaps
  <1>4. ASSUME NEW w \in Workers, Commit(w) PROVE [Orders!Next]_(Orders!vars)
    <2>1. /\ worker[w].on \in Calls /\ row[worker[w].on].status # "none"
          /\ UNCHANGED <<call, wire>>
      <3>1. worker[w].pc = "commit" /\ UNCHANGED <<call, wire>>
        BY <1>4 DEF Commit
      <3>2. worker[w].on \in Calls /\ row[worker[w].on].status # "none"
        BY <3>1 DEF IInv, WorkerShape, CallShape
      <3> QED
        BY <3>1, <3>2
    <2>2. /\ \A d \in Calls \ {worker[w].on} : row'[d] = row[d]
          /\ row'[worker[w].on] = WorkerRow(row[worker[w].on], worker[w].plan)
          /\ row[worker[w].on] \in Row
      BY <1>1, <1>4, <2>1 DEF TypeOK, Commit
    <2>3. row'[worker[w].on].status # "none"
      BY <2>1, <2>2 DEF WorkerRow, RecoveredRow
    <2>4. \A d \in Calls : OrderOf(d)' = OrderOf(d)
      BY <2>1
    <2> QED
      BY <2>1, <2>2, <2>3, <2>4, RewriteMaps
  <1>5. ASSUME NEW m \in Operators, ManualWrite(m) PROVE [Orders!Next]_(Orders!vars)
    <2>1. /\ operator[m].on \in Calls /\ row[operator[m].on].status # "none"
          /\ UNCHANGED <<call, wire>>
      BY <1>5 DEF IInv, OperatorShape, ManualWrite
    <2>2. /\ \A d \in Calls \ {operator[m].on} : row'[d] = row[d]
          /\ row'[operator[m].on] = ManualRow(row[operator[m].on], operator[m].found)
          /\ row[operator[m].on] \in Row
      BY <1>1, <1>5, <2>1 DEF TypeOK, ManualWrite
    <2>3. row'[operator[m].on].status # "none"
      BY <2>1, <2>2 DEF ManualRow, RecoveredRow
    <2>4. \A d \in Calls : OrderOf(d)' = OrderOf(d)
      BY <2>1
    <2> QED
      BY <2>1, <2>2, <2>3, <2>4, RewriteMaps
  <1>6. ASSUME NEW c \in Calls, RefuseEarly(c) \/ BrokerStep(c) \/ CrashCall(c) \/ ExchangeDecides(c)
        PROVE  [Orders!Next]_(Orders!vars)
    BY <1>3, <1>6, BrokerMaps DEF BrokerStep
  <1>7. ASSUME NEW w \in Workers, WorkerStep(w) \/ CrashWorker(w) PROVE [Orders!Next]_(Orders!vars)
    BY <1>2, <1>4, <1>7 DEF WorkerStep, Claim, CheckClaim, ReadAttempt, Query, CheckAgain, CrashWorker
  <1>8. ASSUME NEW m \in Operators, OperatorStep(m) PROVE [Orders!Next]_(Orders!vars)
    BY <1>2, <1>5, <1>8 DEF OperatorStep, ManualBegin, ManualQuery, ManualRead
  <1>9. Tick \/ UNCHANGED vars => [Orders!Next]_(Orders!vars)
    BY <1>2 DEF Tick, vars
  <1> QED
    BY <1>6, <1>7, <1>8, <1>9 DEF Next

\* The protocol implements SerialOrders: whatever crashes, retries, expires or
\* races, a bot's orders come before the exchange one at a time, each at most
\* once, and the platform never contradicts the exchange.
THEOREM Refinement == Spec => OrdersAreSerial
  BY InitIInv, NextIInv, InitMaps, NextMaps, PTL DEF Spec, OrdersAreSerial, Orders!Spec
============================================================================
