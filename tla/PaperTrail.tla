----------------------------- MODULE PaperTrail -----------------------------
(***************************************************************************)
(* The rows one paper bot leaves behind: attempts, orders, fills, equity   *)
(* snapshots and run events, and what the audit and the safety status say  *)
(* of them.                                                                *)
(*                                                                         *)
(* An evaluation holds the bot's row, so a bot has one at a time.  It is   *)
(* three steps here, because two commits cut it: the checks on the price   *)
(* it decided on; the order, at the price of that moment and with the      *)
(* account locked; and, after the order's commit, the run event (and the   *)
(* attempt, if the order path left none).  In between manual orders use    *)
(* the shared account, other bots lose money, operators reset the draft    *)
(* balance, days end, and the process may die.                             *)
(*                                                                         *)
(* The bot trades one lot; money is counted in whole units.                *)
(***************************************************************************)
EXTENDS Integers, FiniteSets, Sequences

CONSTANTS
  Switches,        \* the settings a deployment may have (a set of records)
  TrailPrices,     \* local market prices
  Charge,          \* slippage and fee of a buy or a sell
  Allowance,       \* the default draft balance
  PoolCash,        \* cash of the shared account
  MaxDecisions,    \* bound of the model: evaluations
  MaxOutside       \* bound of the model: what others do

\* Fees and slippage are fractions of the price.
ASSUME TrailAssumption ==
  /\ Switches \subseteq [trading: BOOLEAN, global: BOOLEAN, simulation: BOOLEAN,
                         maxNotional: Nat, maxCount: Nat, maxLoss: Nat]
  /\ {Charge, Allowance, PoolCash} \subseteq Nat
  /\ \A price \in TrailPrices : price \in Nat /\ Charge < price

VARIABLES
  switches,    \* Settings: paper trading, global switch, simulation, three limits
  attempts,    \* execution_attempts: status, side, reason, order (0: none)
  orders,      \* simulated_orders: status and side
  fills,       \* simulated_fills: order, side and the market price it was made from
  snapshots,   \* paper_equity_snapshots: order, fill, kind, base quantity
  runEvents,   \* run_events: message, side and reason
  purse,       \* draft_balances: the available quote and base amounts
  lots,        \* paper_positions.quantity
  pool,        \* the shared account's cash and position
  used,        \* execution_daily_quota_usage of the day
  loss,        \* what all bots together lost today, by the accounting events
  dawn,        \* how many fills there were when the day began
  deciding,    \* the evaluation at work
  decisions,   \* evaluations so far
  outside,     \* acts of others so far
  lost         \* whether a process died before the run event

rows == <<attempts, orders, fills, snapshots, runEvents>>
books == <<purse, lots, pool, used, loss, dawn>>
trailVars == <<switches, rows, books, deciding, decisions, outside, lost>>

AtRest == [at |-> "idle"]

TrailInit ==
  /\ switches \in Switches
  /\ attempts = <<>> /\ orders = <<>> /\ fills = <<>> /\ snapshots = <<>> /\ runEvents = <<>>
  /\ purse = [free |-> Allowance, base |-> 0]
  /\ lots = 0
  /\ pool = [cash |-> PoolCash, held |-> 0]
  /\ used = 0 /\ loss = 0 /\ dawn = 0
  /\ deciding = AtRest
  /\ decisions = 0 /\ outside = 0
  /\ lost = FALSE

----------------------------------------------------------------------------
(* What may stand in an order's way                                        *)

None == "allowed"

\* The first reason that applies.
FirstReason(reasons) ==
  LET first == CHOOSE i \in DOMAIN reasons :
                 reasons[i].applies /\ \A j \in 1..(i - 1) : ~reasons[j].applies
  IN IF \E i \in DOMAIN reasons : reasons[i].applies THEN reasons[first].reason ELSE None
If(condition, text) == [applies |-> condition, reason |-> text]

Side == IF lots = 0 THEN "buy" ELSE "sell"
BuyCost(price) == price + Charge

\* PaperSafetyGateService, at the price of the decision.
GateReason(side, price) ==
  FirstReason(<<
    If(~switches.trading, "paper_trading_disabled"),
    If(side = "buy" /\ purse.free < BuyCost(price), "insufficient_draft_balance_available"),
    If(side = "sell" /\ purse.base < lots, "insufficient_draft_balance_available")>>)

\* max_daily_loss holds back buys only.
LossReached(side) == side = "buy" /\ loss >= switches.maxLoss

\* ExecutionSafetyGuard.validate_order with a market price; the count is left
\* out when the order path asks again.
GuardReason(side, price, countToo) ==
  FirstReason(<<
    If(~switches.global, "execution_global_disabled"),
    If(price > switches.maxNotional, "max_order_notional_exceeded"),
    If(countToo /\ side = "buy" /\ used >= switches.maxCount, "max_daily_order_count_exceeded"),
    If(LossReached(side), "max_daily_loss_exceeded")>>)

\* ExecutionSafetyStatusService.get_status for an order of one lot.
StatusReason(side, price) ==
  IF ~switches.trading THEN "paper_trading_disabled" ELSE GuardReason(side, price, TRUE)

----------------------------------------------------------------------------
(* _evaluate_bot, up to the order                                          *)

Attempt(status, side, reason, order) ==
  [status |-> status, side |-> side, reason |-> reason, order |-> order]
RunEvent(message, side, reason) == [message |-> message, side |-> side, reason |-> reason]
Signal(side) == RunEvent("signal", side, None)

Starts == deciding.at = "idle" /\ decisions < MaxDecisions /\ decisions' = decisions + 1

\* The limits of the profile, which an operator may have changed since.
BlockByRisk ==
  /\ Starts
  /\ attempts' = Append(attempts, Attempt("blocked_by_risk", Side, "risk_limit", 0))
  /\ runEvents' = Append(runEvents, RunEvent("risk_limit_blocked", Side, "risk_limit"))
  /\ UNCHANGED <<switches, orders, fills, snapshots, books, deciding, outside, lost>>

RefuseAtGate ==
  /\ Starts
  /\ \E price \in TrailPrices :
       LET reason == GateReason(Side, price) IN
       /\ reason # None
       /\ attempts' = Append(attempts, Attempt("rejected_by_broker", Side, reason, 0))
       /\ runEvents' = Append(runEvents, RunEvent("order_rejected", Side, reason))
  /\ UNCHANGED <<switches, orders, fills, snapshots, books, deciding, outside, lost>>

BlockByGuard ==
  /\ Starts
  /\ \E price \in TrailPrices :
       LET reason == GuardReason(Side, price, TRUE) IN
       /\ GateReason(Side, price) = None
       /\ reason # None
       /\ attempts' = Append(attempts, Attempt("blocked_by_safety", Side, reason, 0))
       /\ runEvents' = runEvents \o <<Signal(Side), RunEvent("order_rejected", Side, reason)>>
  /\ UNCHANGED <<switches, orders, fills, snapshots, books, deciding, outside, lost>>

\* The signal's event waits in the session for the order's commit.
PassChecks ==
  /\ Starts
  /\ \E price \in TrailPrices :
       GateReason(Side, price) = None /\ GuardReason(Side, price, TRUE) = None
  /\ deciding' = [at |-> "ordered", side |-> Side]
  /\ UNCHANGED <<switches, rows, books, outside, lost>>

----------------------------------------------------------------------------
(* submit_order_intent: one transaction                                    *)

\* The run event that is still to come; `attempted`: the order path left an
\* attempt.
Pending(filled, reason, order, attempted) ==
  [at |-> "done", side |-> deciding.side, filled |-> filled, reason |-> reason,
   order |-> order, attempted |-> attempted]

\* _reject_order.
RejectedOrder == orders' = Append(orders, [status |-> "rejected", side |-> deciding.side])

Submits ==
  /\ deciding.at = "ordered"
  /\ runEvents' = Append(runEvents, Signal(deciding.side))
  /\ UNCHANGED <<switches, decisions, outside, lost>>

\* Mutant: the guard is not asked again.
AskedOnce(price) == None

\* The guard, asked again under the account's lock and at the price of the order.
AskedAgain(price) == GuardReason(deciding.side, price, FALSE)

\* Refused before there is an attempt.
RejectUnsimulated ==
  /\ Submits
  /\ ~switches.simulation
  /\ RejectedOrder
  /\ deciding' = Pending(FALSE, "Simulation is disabled", Len(orders) + 1, FALSE)
  /\ UNCHANGED <<attempts, fills, snapshots, books>>

BlockAgain ==
  /\ Submits
  /\ switches.simulation
  /\ \E price \in TrailPrices :
       LET reason == AskedAgain(price)
           order == Len(orders) + 1 IN
       /\ reason # None
       /\ attempts' = Append(attempts, Attempt("blocked_by_safety", deciding.side, reason, order))
       /\ deciding' = Pending(FALSE, reason, order, TRUE)
  /\ RejectedOrder
  /\ UNCHANGED <<fills, snapshots, books>>

\* reserve_bot_draft_balance_asset.
Reservable(price) ==
  IF deciding.side = "buy" THEN purse.free >= BuyCost(price) ELSE purse.base >= lots
Payable(price) == deciding.side = "buy" => pool.cash >= BuyCost(price)

\* The draft balance cannot be reserved: an attempt without an order.
RefuseDraft ==
  /\ Submits
  /\ switches.simulation
  /\ \E price \in TrailPrices :
       AskedAgain(price) = None /\ ~Reservable(price)
  /\ LET reason == "insufficient_draft_balance_available" IN
       /\ attempts' = Append(attempts, Attempt("rejected_by_broker", deciding.side, reason, 0))
       /\ deciding' = Pending(FALSE, reason, 0, TRUE)
  /\ UNCHANGED <<orders, fills, snapshots, books>>

\* The shared account cannot pay: an attempt with a rejected order.
RefusePool ==
  /\ Submits
  /\ switches.simulation
  /\ \E price \in TrailPrices :
       /\ AskedAgain(price) = None
       /\ Reservable(price)
       /\ ~Payable(price)
  /\ LET reason == "insufficient_paper_cash"
         order == Len(orders) + 1 IN
       /\ attempts' = Append(attempts, Attempt("rejected_by_broker", deciding.side, reason, order))
       /\ deciding' = Pending(FALSE, reason, order, TRUE)
  /\ RejectedOrder
  /\ UNCHANGED <<fills, snapshots, books>>

\* reserve_accepted_order_quota: the limit holds back buys, the count takes both.
Counted(side) == used + 1

FillOrder(price) ==
  LET side == deciding.side
      order == Len(orders) + 1
      fill == Len(fills) + 1
      bought == side = "buy"
      mirrored == bought \/ pool.held >= lots IN
  /\ AskedAgain(price) = None /\ Reservable(price) /\ Payable(price)
  /\ orders' = Append(orders, [status |-> "filled", side |-> side])
  /\ fills' = Append(fills, [order |-> order, side |-> side, price |-> price])
  /\ attempts' = Append(attempts, Attempt("filled", side, "filled", order))
  /\ snapshots' = Append(snapshots, [order |-> order, fill |-> fill, kind |-> side,
                                     base |-> IF bought THEN purse.base + 1 ELSE purse.base - lots])
  /\ purse' = IF bought THEN [free |-> purse.free - BuyCost(price), base |-> purse.base + 1]
              ELSE [free |-> purse.free + price - Charge, base |-> purse.base - lots]
  /\ lots' = IF bought THEN 1 ELSE 0
  /\ pool' = IF bought THEN [cash |-> pool.cash - BuyCost(price), held |-> pool.held + 1]
             ELSE IF mirrored THEN [cash |-> pool.cash + price - Charge, held |-> pool.held - lots]
             ELSE pool
  /\ used' = Counted(side)
  /\ deciding' = Pending(TRUE, "filled", order, TRUE)

Fill ==
  /\ Submits
  /\ switches.simulation
  /\ \E price \in TrailPrices : FillOrder(price)
  /\ UNCHANGED <<loss, dawn>>

----------------------------------------------------------------------------
(* After the order's commit                                                *)

\* Mutant: no event for a sell.
OutcomeOfBuys ==
  IF deciding.side = "sell" THEN <<>>
  ELSE <<RunEvent(IF deciding.filled THEN "order_filled" ELSE "order_rejected",
                  deciding.side, deciding.reason)>>

Outcome ==
  <<RunEvent(IF deciding.filled THEN "order_filled" ELSE "order_rejected",
             deciding.side, deciding.reason)>>

\* The attempt if there is none yet, and the event.
RecordOutcome ==
  /\ deciding.at = "done"
  /\ attempts' = IF deciding.attempted THEN attempts
                 ELSE Append(attempts, Attempt("rejected_by_broker", deciding.side,
                                               deciding.reason, deciding.order))
  /\ runEvents' = runEvents \o Outcome
  /\ deciding' = AtRest
  /\ UNCHANGED <<switches, orders, fills, snapshots, books, decisions, outside, lost>>

\* The process dies, or an exception rolls back: what is committed stays.
Die ==
  /\ deciding.at # "idle"
  /\ lost' = (lost \/ deciding.at = "done")
  /\ deciding' = AtRest
  /\ UNCHANGED <<switches, rows, books, decisions, outside>>

----------------------------------------------------------------------------
(* The others                                                              *)

Others ==
  /\ outside < MaxOutside
  /\ outside' = outside + 1
  /\ UNCHANGED <<switches, rows, lots, deciding, decisions, lost>>

\* POST /execution/market-order: no bot, and so the shared account alone.
ManualBuy ==
  /\ Others
  /\ \E price \in TrailPrices :
       /\ pool.cash >= BuyCost(price)
       /\ pool' = [cash |-> pool.cash - BuyCost(price), held |-> pool.held + 1]
  /\ UNCHANGED <<purse, used, loss, dawn>>

ManualSell ==
  /\ Others
  /\ pool.held > 0
  /\ \E price \in TrailPrices :
       pool' = [cash |-> pool.cash + price - Charge, held |-> pool.held - 1]
  /\ UNCHANGED <<purse, used, loss, dawn>>

ResetDraft ==
  /\ Others
  /\ purse' = [free |-> Allowance, base |-> 0]
  /\ UNCHANGED <<pool, used, loss, dawn>>

\* Another bot sells at a loss.
OthersLose ==
  /\ Others
  /\ loss' = loss + 1
  /\ UNCHANGED <<purse, pool, used, dawn>>

\* A day begins: the row of the quota and the window of the sum are new.
NewDay ==
  /\ Others
  /\ used' = 0 /\ loss' = 0 /\ dawn' = Len(fills)
  /\ UNCHANGED <<purse, pool>>

----------------------------------------------------------------------------
TrailNext ==
  \/ BlockByRisk \/ RefuseAtGate \/ BlockByGuard \/ PassChecks
  \/ RejectUnsimulated \/ BlockAgain \/ RefuseDraft \/ RefusePool \/ Fill
  \/ RecordOutcome \/ Die
  \/ ManualBuy \/ ManualSell \/ ResetDraft \/ OthersLose \/ NewDay

TrailSpec == TrailInit /\ [][TrailNext]_trailVars

----------------------------------------------------------------------------
(* PaperReconciliationAuditService.audit_bot over the latest `limit` rows   *)

Latest(sequence, limit) ==
  {i \in DOMAIN sequence : i > Len(sequence) - limit}

\* _has_matching_run_event: any event of the bot will do, however old.
EventMatches(message, attempt) ==
  \E i \in DOMAIN runEvents :
    /\ runEvents[i].message = message
    /\ runEvents[i].side = attempt.side
    /\ message = "order_rejected" => runEvents[i].reason = attempt.reason

\* _audit_filled_attempt; it stops at the first row that is missing.
FilledIssues(attempt, limit) ==
  LET theOrder == {o \in Latest(orders, limit) :
                     /\ o = attempt.order
                     /\ orders[o].status = "filled"
                     /\ orders[o].side = attempt.side}
      theFill == {f \in Latest(fills, limit) : fills[f].order \in theOrder}
      theSnapshot == {s \in Latest(snapshots, limit) :
                        /\ snapshots[s].fill \in theFill \/ snapshots[s].order \in theOrder
                        /\ snapshots[s].kind = attempt.side}
  IN IF theOrder = {} THEN {"filled_attempt_missing_order"}
     ELSE IF theFill = {} THEN {"filled_order_missing_fill"}
     ELSE {issue \in {"filled_attempt_missing_equity_snapshot"} : theSnapshot = {}}
            \cup {issue \in {"run_event_missing_for_filled_attempt"} :
                    ~EventMatches("order_filled", attempt)}

\* _audit_rejected_attempt.
RejectedIssues(attempt, limit) ==
  {issue \in {"rejected_attempt_has_order"} : attempt.order # 0}
    \cup {issue \in {"rejected_attempt_has_fill"} :
            \E f \in Latest(fills, limit) : fills[f].order = attempt.order}
    \cup {issue \in {"rejected_attempt_has_equity_snapshot"} :
            \E s \in Latest(snapshots, limit) : snapshots[s].order = attempt.order}
    \cup {issue \in {"run_event_missing_for_rejected_attempt"} :
            ~EventMatches("order_rejected", attempt)}

\* _audit_duplicate_filled_attempts.
DuplicateIssues(limit) ==
  {issue \in {"duplicate_filled_attempt_for_order"} :
     \E a, b \in Latest(attempts, limit) :
       /\ a # b
       /\ attempts[a].status = "filled" /\ attempts[b].status = "filled"
       /\ attempts[a].order = attempts[b].order}

Audit(limit) ==
  UNION {CASE attempts[a].status = "filled" -> FilledIssues(attempts[a], limit)
           [] attempts[a].status = "rejected_by_broker" -> RejectedIssues(attempts[a], limit)
           [] OTHER -> {} : a \in Latest(attempts, limit)}
    \cup DuplicateIssues(limit)

----------------------------------------------------------------------------
(* Properties                                                              *)

TrailTypeOK ==
  /\ switches \in Switches
  /\ \A a \in DOMAIN attempts :
       /\ attempts[a].status \in
            {"filled", "rejected_by_broker", "blocked_by_safety", "blocked_by_risk"}
       /\ attempts[a].order \in 0..Len(orders)
  /\ Len(fills) = Len(snapshots)
  /\ purse.free >= 0 /\ purse.base \in 0..lots
  /\ lots \in {0, 1}
  /\ pool.cash >= 0 /\ pool.held >= 0
  /\ used >= 0 /\ loss >= 0 /\ dawn \in 0..Len(fills)

\* Whatever was refused, blocked, lost or reset on the way, and however few rows
\* an audit looks at, once an evaluation is over it finds nothing missing behind
\* a filled attempt and nothing filled behind a rejected one; a process that died
\* may have left out an event.
AuditsTrustTheTrail ==
  deciding.at = "idle" =>
    \A limit \in 1..Len(attempts) :
      Audit(limit) \subseteq
        {"rejected_attempt_has_order"}
          \cup IF lost THEN {"run_event_missing_for_filled_attempt",
                             "run_event_missing_for_rejected_attempt"} ELSE {}

\* Every order has one attempt, of its side and with its outcome, unless the
\* process died between the two commits or is between them; a filled order has
\* one whatever happens.
OrdersAreAccountedFor ==
  \A o \in DOMAIN orders :
    LET naming == {a \in DOMAIN attempts : attempts[a].order = o} IN
    /\ \A a \in naming :
         /\ attempts[a].side = orders[o].side
         /\ attempts[a].status = "filled" <=> orders[o].status = "filled"
    /\ Cardinality(naming) <= 1
    /\ naming = {} => /\ orders[o].status = "rejected"
                      /\ lost \/ deciding.at = "done"

\* The quota of the day counts the fills of the day, sells too, and lets no more
\* buys through than the limit, across crashes and midnights.
QuotaCountsFills ==
  /\ used = Len(fills) - dawn
  /\ Cardinality({f \in DOMAIN fills : f > dawn /\ fills[f].side = "buy"}) <= switches.maxCount

\* What the safety status says of an order at the price of the moment, the order
\* path does: it fills nothing that the status would have called blocked.
StatusForeseesFills ==
  [][\A i \in DOMAIN fills' \ DOMAIN fills :
       StatusReason(fills'[i].side, fills'[i].price) = None]_trailVars

\* What an evaluation did can be told from the rows it left, wherever it was cut
\* off and whatever others did meanwhile.
TrailHolds ==
  /\ TrailTypeOK
  /\ AuditsTrustTheTrail
  /\ OrdersAreAccountedFor
  /\ QuotaCountsFills
=============================================================================
