---------------------------- MODULE ExchangeRules ----------------------------
(***************************************************************************)
(* The exchange's trading rules as the testnet broker sees them: a cache   *)
(* with a time to live and the validation of a market order against what   *)
(* it holds (services/brokers/binance_exchange_info.py).                   *)
(*                                                                         *)
(* An order is validated by the thread that asks for the rules.  While it  *)
(* waits, the exchange composes its answer at some moment, and time passes *)
(* and the exchange may change its rules before that moment and after it.  *)
(***************************************************************************)
EXTENDS Integers, Sequences

CONSTANTS
  RuleVersions,  \* the rules the exchange publishes one after the other
  TimeToLive,    \* ttl_seconds, in ticks
  Quantities,    \* quantities of orders
  MarketPrices   \* prices the broker may know, 0 when it knows none

Lots == [min: Nat, max: Nat, step: Nat]
Notionals == [min: Nat, minApplies: BOOLEAN, max: Nat, maxApplies: BOOLEAN]
RuleSets == [listed: BOOLEAN, trading: BOOLEAN, market: BOOLEAN, lot: Lots, marketLot: Lots,
             minNotional: Notionals, notional: Notionals]

\* The parser refuses negative numbers (_decimal).
ASSUME RulesAssumption ==
  /\ TimeToLive \in Nat \ {0}
  /\ RuleVersions \in Seq(RuleSets) \ {<<>>}
  /\ Quantities \subseteq Nat /\ MarketPrices \subseteq Nat

VARIABLES
  inForce,     \* the version the exchange applies
  replacedFor, \* per version, ticks since the exchange replaced it
  cached,      \* _cached_info: a version, 0 when there is none
  ttlLeft,     \* ticks until _expires_at, 0 when it has passed
  order        \* the order under validation; rules: those it is judged by, or
               \* that the answer under way carries, 0 when there are none;
               \* asked (history): those in force when it asked the exchange,
               \* 0 when it did not

rulesVars == <<inForce, replacedFor, cached, ttlLeft, order>>

----------------------------------------------------------------------------
(* Validation                                                              *)

Meaningful(filter) == filter.min > 0 \/ filter.max > 0 \/ filter.step > 0

\* One quantity filter; a bound of zero is no bound.
QuantityRefusal(filter, quantity) ==
  IF filter.min > 0 /\ quantity < filter.min THEN "below_minimum"
  ELSE IF filter.max > 0 /\ quantity > filter.max THEN "above_maximum"
  ELSE IF filter.step > 0 /\ quantity % filter.step # 0 THEN "step_mismatch"
  ELSE "allowed"

QuantityRefusals(rules, quantity) ==
  {QuantityRefusal(filter, quantity) :
     filter \in {f \in {rules.lot, rules.marketLot} : Meaningful(f)}} \ {"allowed"}

\* The bounds on the notional that apply to market orders.
MinNotionals(rules) ==
  {n.min : n \in {m \in {rules.minNotional, rules.notional} : m.minApplies /\ m.min > 0}}
MaxNotionals(rules) ==
  {n.max : n \in {m \in {rules.notional} : m.maxApplies /\ m.max > 0}}

NotionalRefusal(rules, quantity, price) ==
  IF MinNotionals(rules) \cup MaxNotionals(rules) = {} THEN "allowed"
  ELSE IF price = 0 THEN "price_unknown"
  ELSE IF \E min \in MinNotionals(rules) : quantity * price < min THEN "notional_below_minimum"
  ELSE IF \E max \in MaxNotionals(rules) : quantity * price > max THEN "notional_above_maximum"
  ELSE "allowed"

\* validate, once the rules are there.
Verdict(rules, quantity, price) ==
  IF ~rules.listed THEN "symbol_not_found"
  ELSE IF ~rules.trading THEN "not_trading"
  ELSE IF ~rules.market THEN "market_orders_not_supported"
  ELSE IF QuantityRefusals(rules, quantity) # {}
       THEN CHOOSE refusal \in QuantityRefusals(rules, quantity) : TRUE
  ELSE NotionalRefusal(rules, quantity, price)

----------------------------------------------------------------------------
(* The cache                                                               *)

Versions == DOMAIN RuleVersions
NoOrder == [stage |-> "none", quantity |-> 0, price |-> 0, waited |-> 0, asked |-> 0,
            rules |-> 0, verdict |-> "none"]

RulesInit ==
  /\ inForce = 1
  /\ replacedFor = [v \in Versions |-> 0]
  /\ cached = 0
  /\ ttlLeft = 0
  /\ order = NoOrder

Judged(o, v) ==
  [o EXCEPT !.stage = "judged", !.rules = v,
            !.verdict = Verdict(RuleVersions[v], o.quantity, o.price)]

\* now < _expires_at
Fresh == cached # 0 /\ ttlLeft > 0

\* An order arrives; a fresh cache answers at once.
ValidateOrder ==
  /\ order.stage = "none"
  /\ \E quantity \in Quantities, price \in MarketPrices :
       LET o == [NoOrder EXCEPT !.quantity = quantity, !.price = price]
       IN order' = IF Fresh THEN Judged(o, cached)
                    ELSE [o EXCEPT !.stage = "asking", !.asked = inForce]
  /\ UNCHANGED <<inForce, replacedFor, cached, ttlLeft>>

\* The exchange composes its answer from the rules it applies at that moment.
AnswerRules ==
  /\ order.stage = "asking"
  /\ order' = [order EXCEPT !.stage = "answered", !.rules = inForce]
  /\ UNCHANGED <<inForce, replacedFor, cached, ttlLeft>>

\* Mutant: the time to live runs from the arrival.
FetchRulesFromArrival ==
  /\ order.stage = "answered"
  /\ cached' = order.rules
  /\ ttlLeft' = TimeToLive
  /\ order' = Judged(order, order.rules)
  /\ UNCHANGED <<inForce, replacedFor>>

\* The answer arrives.  Its rules live from the moment they were asked for, and
\* the order that asked is judged by them although they may have expired by then.
FetchRules ==
  /\ order.stage = "answered"
  /\ cached' = order.rules
  /\ ttlLeft' = TimeToLive - order.waited
  /\ order' = Judged(order, order.rules)
  /\ UNCHANGED <<inForce, replacedFor>>

\* No answer, a late one, or a malformed one: the order is refused, and what is
\* in the cache stays there although it may not be served.
FetchRulesFails ==
  /\ order.stage \in {"asking", "answered"}
  /\ order' = [order EXCEPT !.stage = "judged", !.rules = 0, !.verdict = "unavailable"]
  /\ UNCHANGED <<inForce, replacedFor, cached, ttlLeft>>

OrderLeaves ==
  /\ order.stage = "judged"
  /\ order' = NoOrder
  /\ UNCHANGED <<inForce, replacedFor, cached, ttlLeft>>

\* The exchange publishes its next rules.
ChangeRules ==
  /\ inForce + 1 \in Versions
  /\ inForce' = inForce + 1
  /\ UNCHANGED <<replacedFor, cached, ttlLeft, order>>

\* Beyond a time to live nothing is told apart; a judged order leaves at once.
RulesTick ==
  /\ order.stage # "judged"
  /\ replacedFor' = [v \in Versions |->
       IF v < inForce /\ replacedFor[v] < TimeToLive THEN replacedFor[v] + 1 ELSE replacedFor[v]]
  /\ ttlLeft' = IF ttlLeft > 0 THEN ttlLeft - 1 ELSE ttlLeft
  /\ order' = IF order.stage \in {"asking", "answered"} /\ order.waited < TimeToLive
              THEN [order EXCEPT !.waited = @ + 1] ELSE order
  /\ UNCHANGED <<inForce, cached>>

RulesNext ==
  \/ ValidateOrder \/ AnswerRules \/ FetchRules \/ FetchRulesFails \/ OrderLeaves
  \/ ChangeRules \/ RulesTick

RulesSpec == RulesInit /\ [][RulesNext]_rulesVars

----------------------------------------------------------------------------
(* Properties                                                              *)

\* Cache, clock and order have the shape the code gives them.
RulesTypeOK ==
  /\ inForce \in Versions
  /\ cached \in 0..inForce
  /\ ttlLeft \in 0..TimeToLive
  /\ order.stage \in {"none", "asking", "answered", "judged"}

\* An order that had to ask for the rules is judged by rules the exchange still
\* applied when it asked, one that is answered from the cache by rules the
\* exchange gave up less than a time to live ago: however long fetches took,
\* whatever was replaced while an answer was under way and whatever refreshes
\* failed (binance_exchange_info.py:218).  A fetch has no bound of its own, so
\* the rules it brings may be older than a time to live when they arrive; only
\* the order that waited for them is judged by rules that old.
RulesAreRecent ==
  order.stage = "judged" /\ order.rules # 0 =>
    /\ order.rules >= order.asked
    /\ order.asked = 0 => replacedFor[order.rules] < TimeToLive

\* An order that passes is one the exchange would take under the rules it was
\* judged by: a number of whole steps within both lot filters, for an amount
\* within the notional bounds that apply to market orders.
Takes(rules, quantity, price) ==
  /\ rules.listed /\ rules.trading /\ rules.market
  /\ \A filter \in {rules.lot, rules.marketLot} :
       /\ filter.step = 0 \/ \E n \in 0..quantity : quantity = n * filter.step
       /\ quantity >= filter.min
       /\ filter.max = 0 \/ quantity <= filter.max
  /\ rules.minNotional.minApplies => quantity * price >= rules.minNotional.min
  /\ rules.notional.minApplies => quantity * price >= rules.notional.min
  /\ rules.notional.maxApplies /\ rules.notional.max > 0
       => price > 0 /\ quantity * price <= rules.notional.max

PassedOrdersFit ==
  order.verdict = "allowed" =>
    Takes(RuleVersions[order.rules], order.quantity, order.price)

\* What an order may be sent on: rules recent enough, and all of them.
RulesHold == RulesTypeOK /\ RulesAreRecent /\ PassedOrdersFit
===========================================================================
