---------------------------- MODULE RiskManager ----------------------------
(***************************************************************************)
(* What the risk manager makes of a decision (engine/risk.py).  A limit    *)
(* that is not configured is 0, and so is an entry price or a quantity     *)
(* that is not there.                                                      *)
(***************************************************************************)
EXTENDS Integers

NoLimits == [maxTrade |-> 0, maxPosition |-> 0, stopLoss |-> 0]

Allowed(action, reason) == [allowed |-> TRUE, action |-> action, reason |-> reason]
Blocked(reason) == [allowed |-> FALSE, action |-> "skip", reason |-> reason]

\* The position is at or below its stop price, entry * (100 - stopLoss) / 100.
StopLossHit(limits, held, entry, price) ==
  /\ limits.stopLoss > 0 /\ held > 0 /\ entry > 0 /\ price > 0
  /\ price * 100 <= entry * (100 - limits.stopLoss)

\* _evaluate_trade_limits: the first limit that is exceeded blocks.
WithinTradeLimits(limits, action, quantity, held, decision) ==
  IF action \notin {"buy", "sell"} \/ quantity = 0 THEN decision
  ELSE IF limits.maxTrade > 0 /\ quantity > limits.maxTrade
       THEN Blocked("max_trade_quantity_exceeded")
  ELSE IF action = "buy" /\ limits.maxPosition > 0 /\ held + quantity > limits.maxPosition
       THEN Blocked("max_position_quantity_exceeded")
  ELSE decision

\* evaluate: a stop loss replaces the strategy's decision, and is subject to
\* the trade limits like every other order.
RiskDecision(limits, action, quantity, held, entry, price) ==
  IF StopLossHit(limits, held, entry, price)
  THEN WithinTradeLimits(limits, "sell", held, held, Allowed("sell", "stop_loss_triggered"))
  ELSE WithinTradeLimits(limits, action, quantity, held, Allowed(action, "allowed"))
=============================================================================
