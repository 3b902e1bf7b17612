---------------------------- MODULE ServiceProofs ----------------------------
(***************************************************************************)
(* Proofs about the services around trading: what it relies on from        *)
(* outside, the latest prices (MarketData), the exchange's rules           *)
(* (ExchangeRules) and the stored candles (CandleStore), and what an       *)
(* operator looks at, the status row of the workers (WorkerStatus) and the *)
(* alert events (AlertEvents).                                             *)
(***************************************************************************)
EXTENDS MarketData, ExchangeRules, CandleStore, AlertEvents, WorkerStatus,
        WellFoundedInduction, TLAPS

----------------------------------------------------------------------------
(* The latest prices                                                       *)

Stored == [from: {"nobody", "manual", "binance"}, price: ManualPrices \cup Nat]
Messages == [kind: {"ticker", "priceless", "garbage"}, price: Nat]
Requests == [stage: {"idle", "asking", "answered"}, symbol: Symbols, price: Nat]

\* Prices, messages and requests are shaped, and no price from the exchange is
\* later than its current quote.
MarketShape ==
  /\ latest \in [Symbols -> Stored]
  /\ byHand \in [Symbols -> ManualPrices \cup {0}]
  /\ quote \in Nat
  /\ \A i \in 1..Len(wire) : wire[i].price \in 0..quote
  /\ wire \in Seq(Messages)
  /\ fetch \in [Fetches -> Requests]

MarketInv == MarketShape /\ MarketTypeOK /\ ManualPriceHolds

\* A quote that was one stays one.
LEMMA ProvidersGrow ==
  ASSUME NEW q \in Nat, NEW r \in Nat, q <= r,
         NEW stored \in {Provider(price) : price \in 0..q}
  PROVE  stored \in {Provider(price) : price \in 0..r}
OBVIOUS

LEMMA MarketInitInv == MarketInit => MarketInv
<1> SUFFICES ASSUME MarketInit PROVE MarketInv
  OBVIOUS
<1>1. NoPrice \in Stored /\ NoPrice.from = "nobody"
  BY DEF NoPrice, Stored
<1>2. NoFetch \in Requests /\ NoFetch.stage = "idle" /\ NoFetch.price = 0
  BY MarketAssumption DEF NoFetch, Requests
<1>3. MarketShape
  BY <1>1, <1>2 DEF MarketInit, MarketShape
<1>4. MarketTypeOK
  BY <1>2 DEF MarketInit, MarketTypeOK
<1>5. ManualPriceHolds
  BY <1>1 DEF MarketInit, ManualPriceHolds
<1> QED
  BY <1>3, <1>4, <1>5 DEF MarketInv

\* Steps of the connection and the requests that set no price.
LEMMA PricesStand ==
  ASSUME MarketInv, MarketShape', quote' >= quote,
         UNCHANGED <<latest, manual, byHand>>,
         stream' \in {"off", "connecting", "open"}, stream' # "open" => wire' = <<>>,
         \A f \in Fetches : fetch'[f].stage \in {"idle", "asking", "answered"}
                              /\ fetch'[f].price <= quote'
  PROVE  MarketInv'
<1>1. quote \in Nat /\ quote' \in Nat
  BY DEF MarketInv, MarketShape
<1>2. ASSUME NEW s \in Symbols
      PROVE  \/ latest'[s] = NoPrice
             \/ latest'[s] \in {Manual(price) : price \in ManualPrices}
             \/ latest'[s] \in {Provider(price) : price \in 0..quote'}
  BY <1>1, ProvidersGrow DEF MarketInv, MarketTypeOK
<1>3. MarketTypeOK'
  BY <1>2 DEF MarketInv, MarketTypeOK
<1>4. ManualPriceHolds'
  BY DEF MarketInv, ManualPriceHolds
<1> QED
  BY <1>3, <1>4 DEF MarketInv

LEMMA StreamStepsInv ==
  ASSUME MarketInv,
         Requote \/ StartStream \/ ConnectStream \/ LoseStream \/ StopStream \/ SendMessage
  PROVE  MarketInv'
<1>1. /\ quote' \in Nat /\ quote' >= quote
      /\ UNCHANGED <<latest, manual, byHand, fetch>>
  BY DEF MarketInv, MarketShape, Requote, StartStream, ConnectStream, LoseStream, StopStream,
     SendMessage
<1>2. stream' \in {"off", "connecting", "open"} /\ (stream' # "open" => wire' = <<>>)
  BY DEF MarketInv, MarketTypeOK, Requote, StartStream, ConnectStream, LoseStream, StopStream,
     SendMessage
<1>3. wire' \in Seq(Messages) /\ \A i \in 1..Len(wire') : wire'[i].price \in 0..quote'
  <2>1. CASE UNCHANGED wire
    BY <1>1, <2>1 DEF MarketInv, MarketShape
  <2>2. CASE wire' = <<>>
    BY <2>2
  <2>3. CASE SendMessage
    <3>1. PICK kind \in {"ticker", "priceless", "garbage"} : wire' = Append(wire, Message(kind))
      BY <2>3 DEF SendMessage
    <3>2. Message(kind) \in Messages /\ Message(kind).price \in 0..quote
      BY DEF Message, Messages, MarketInv, MarketShape
    <3>3. quote' = quote
      BY <2>3 DEF SendMessage
    <3> QED
      BY <3>1, <3>2, <3>3 DEF MarketInv, MarketShape
  <2> QED
    BY <2>1, <2>2, <2>3 DEF Requote, StartStream, ConnectStream, LoseStream, StopStream
<1>4. MarketShape'
  BY <1>1, <1>3 DEF MarketInv, MarketShape
<1>5. \A f \in Fetches : fetch'[f].stage \in {"idle", "asking", "answered"}
                           /\ fetch'[f].price <= quote'
  BY <1>1 DEF MarketInv, MarketTypeOK, MarketShape, Requests
<1> QED
  BY <1>1, <1>2, <1>4, <1>5, PricesStand

LEMMA FetchStepsInv ==
  ASSUME MarketInv, NEW f \in Fetches, BeginFetch(f) \/ AnswerFetch(f) \/ FailFetch(f)
  PROVE  MarketInv'
<1>1. UNCHANGED <<latest, manual, byHand, stream, wire, quote>>
  BY DEF BeginFetch, AnswerFetch, FailFetch
<1> DEFINE Sends(request) == request.price <= quote /\ fetch' = [fetch EXCEPT ![f] = request]
<1>2. \E request \in Requests : Sends(request)
  <2> quote \in Nat /\ quote <= quote /\ 0 <= quote
    BY DEF MarketInv, MarketShape
  <2>1. CASE BeginFetch(f)
    <3>1. PICK s \in Symbols :
            fetch' = [fetch EXCEPT ![f] = [stage |-> "asking", symbol |-> s, price |-> 0]]
      BY <2>1 DEF BeginFetch
    <3> DEFINE asked == [stage |-> "asking", symbol |-> s, price |-> 0]
    <3>2. asked \in Requests /\ asked.price = 0
      BY DEF Requests
    <3> HIDE DEF asked
    <3>3. Sends(asked)
      BY <3>1, <3>2 DEF asked
    <3> QED
      BY <3>2, <3>3
  <2>2. CASE AnswerFetch(f)
    <3> DEFINE answered == [fetch[f] EXCEPT !.stage = "answered", !.price = quote]
    <3>1. fetch[f] \in Requests /\ quote \in Nat
      BY DEF MarketInv, MarketShape
    <3>2. answered \in Requests /\ answered.price = quote
      BY <3>1 DEF Requests
    <3>3. fetch' = [fetch EXCEPT ![f] = answered]
      BY <2>2 DEF AnswerFetch, MarketInv, MarketShape
    <3> HIDE DEF answered
    <3>4. Sends(answered)
      BY <3>2, <3>3
    <3> QED
      BY <3>2, <3>4
  <2>3. CASE FailFetch(f)
    <3>1. NoFetch \in Requests /\ NoFetch.price = 0
      BY MarketAssumption DEF NoFetch, Requests
    <3>2. Sends(NoFetch)
      BY <2>3, <3>1 DEF FailFetch
    <3> QED
      BY <3>1, <3>2
  <2> QED
    BY <2>1, <2>2, <2>3
<1>3. PICK request \in Requests :
        request.price <= quote /\ fetch' = [fetch EXCEPT ![f] = request]
  BY <1>2
<1>4. MarketShape'
  BY <1>1, <1>3 DEF MarketInv, MarketShape
<1>5. \A g \in Fetches : fetch'[g].stage \in {"idle", "asking", "answered"}
                           /\ fetch'[g].price <= quote'
  BY <1>1, <1>3 DEF MarketInv, MarketShape, MarketTypeOK, Requests
<1>6. stream' \in {"off", "connecting", "open"} /\ (stream' # "open" => wire' = <<>>)
        /\ quote' >= quote
  BY <1>1 DEF MarketInv, MarketTypeOK, MarketShape
<1> QED
  BY <1>1, <1>4, <1>5, <1>6, PricesStand

\* One symbol gets a price, with the mark that belongs to it.
LEMMA PriceIsSet ==
  ASSUME MarketInv, NEW s \in Symbols, NEW stored \in Stored,
         latest' = [latest EXCEPT ![s] = stored], quote' = quote, stream' = stream,
         MarketShape', stream # "open" => wire' = <<>>,
         \A f \in Fetches : fetch'[f].stage \in {"idle", "asking", "answered"}
                              /\ fetch'[f].price <= quote,
         \/ stored \in {Manual(price) : price \in ManualPrices} /\ manual' = manual \cup {s}
              /\ byHand' = [byHand EXCEPT ![s] = stored.price]
         \/ stored \in {Provider(price) : price \in 0..quote} /\ manual' = manual \ {s}
              /\ byHand' = byHand
  PROVE  MarketInv'
<1>1. latest'[s] = stored /\ \A t \in Symbols : t # s => latest'[t] = latest[t]
  BY DEF MarketInv, MarketShape
<1>2. /\ stored.from = "manual" <=> s \in manual'
      /\ s \in manual' => stored.price = byHand'[s]
  BY DEF Manual, Provider, MarketInv, MarketShape
<1>3. \A t \in Symbols : t # s => (t \in manual' <=> t \in manual) /\ byHand'[t] = byHand[t]
  BY DEF MarketInv, MarketShape
<1>4. MarketTypeOK'
  <2>1. manual' \subseteq Symbols
    BY DEF MarketInv, MarketTypeOK
  <2>2. \A t \in Symbols :
          \/ latest'[t] = NoPrice
          \/ latest'[t] \in {Manual(price) : price \in ManualPrices}
          \/ latest'[t] \in {Provider(price) : price \in 0..quote}
    BY <1>1 DEF MarketInv, MarketTypeOK
  <2> QED
    BY <2>1, <2>2 DEF MarketInv, MarketTypeOK
<1>5. ManualPriceHolds'
  BY <1>1, <1>2, <1>3 DEF MarketInv, ManualPriceHolds
<1> QED
  BY <1>4, <1>5 DEF MarketInv

LEMMA SetPriceInv ==
  ASSUME MarketInv, NEW s \in Symbols, NEW price \in ManualPrices, SetPrice(s, price)
  PROVE  MarketInv'
<1>1. Manual(price) \in Stored /\ Manual(price).price = price
  BY DEF Manual, Stored
<1>2. MarketShape'
  BY <1>1 DEF SetPrice, MarketInv, MarketShape
<1>3. Manual(price) \in {Manual(p) : p \in ManualPrices}
  OBVIOUS
<1> QED
  BY <1>1, <1>2, <1>3, PriceIsSet DEF SetPrice, MarketInv, MarketTypeOK

LEMMA FinishFetchInv ==
  ASSUME MarketInv, NEW f \in Fetches, FinishFetch(f)
  PROVE  MarketInv'
<1>1. fetch[f] \in Requests /\ fetch[f].price \in 0..quote
  BY DEF MarketInv, MarketShape, MarketTypeOK, Requests
<1>2. Provider(fetch[f].price) \in Stored
  BY <1>1 DEF Provider, Stored, Requests
<1>3. NoFetch \in Requests /\ NoFetch.price = 0 /\ NoFetch.stage = "idle"
  BY MarketAssumption DEF NoFetch, Requests
<1>4. MarketShape'
  BY <1>1, <1>2, <1>3 DEF FinishFetch, MarketInv, MarketShape, Requests
<1>5. \A g \in Fetches : fetch'[g].stage \in {"idle", "asking", "answered"}
                           /\ fetch'[g].price <= quote
  BY <1>3 DEF FinishFetch, MarketInv, MarketShape, MarketTypeOK
<1>6. fetch[f].symbol \in Symbols
  BY <1>1 DEF Requests
<1>7. Provider(fetch[f].price) \in {Provider(price) : price \in 0..quote}
  BY <1>1
<1> QED
  BY <1>2, <1>4, <1>5, <1>6, <1>7, PriceIsSet DEF FinishFetch, MarketInv, MarketTypeOK

\* A message: the stream's symbol gets its price, unless it has been set by hand.
LEMMA ReceiveMessageInv ==
  ASSUME MarketInv, ReceiveMessage
  PROVE  MarketInv'
<1> DEFINE message == Head(wire)
<1>1. wire \in Seq(Messages) /\ wire # <<>> /\ wire' = Tail(wire)
  BY DEF ReceiveMessage, MarketInv, MarketShape
<1>2. message \in Messages /\ message = wire[1] /\ 1 \in 1..Len(wire)
  BY <1>1
<1>3. message.price \in 0..quote
  BY <1>2 DEF MarketInv, MarketShape
<1>4. Provider(message.price) \in Stored
  BY <1>3 DEF Provider, Stored
<1>5. wire' \in Seq(Messages) /\ \A i \in 1..Len(wire') : wire'[i].price \in 0..quote
  <2>1. wire' \in Seq(Messages) /\ Len(wire') = Len(wire) - 1
    BY <1>1
  <2>2. ASSUME NEW i \in 1..Len(wire') PROVE wire'[i] = wire[i + 1] /\ i + 1 \in 1..Len(wire)
    BY <1>1, <2>1
  <2> QED
    BY <2>1, <2>2 DEF MarketInv, MarketShape
<1> HIDE DEF message
<1>6. UNCHANGED <<manual, byHand, stream, quote, fetch>> /\ stream = "open"
  BY DEF ReceiveMessage
<1>7. MarketShape'
  BY <1>4, <1>5, <1>6 DEF ReceiveMessage, MarketInv, MarketShape, message
<1>8. \A f \in Fetches : fetch'[f].stage \in {"idle", "asking", "answered"}
                           /\ fetch'[f].price <= quote
  BY <1>6 DEF MarketInv, MarketTypeOK
<1>9. CASE Accepts(StreamSymbol, Head(wire))
  <2>1. latest' = [latest EXCEPT ![StreamSymbol] = Provider(message.price)]
    BY <1>9 DEF ReceiveMessage, message
  <2>2. manual' = manual \ {StreamSymbol}
    BY <1>6, <1>9 DEF Accepts
  <2>3. Provider(message.price) \in {Provider(price) : price \in 0..quote}
    BY <1>3
  <2> QED
    BY <1>4, <1>6, <1>7, <1>8, <2>1, <2>2, <2>3, PriceIsSet, MarketAssumption
<1>10. CASE ~Accepts(StreamSymbol, Head(wire))
  <2>1. latest' = latest
    BY <1>10 DEF ReceiveMessage
  <2>2. quote' >= quote
    BY <1>6 DEF MarketInv, MarketShape
  <2> QED
    BY <1>6, <1>7, <1>8, <2>1, <2>2, PricesStand
<1> QED
  BY <1>9, <1>10

\* Whatever the stream delivers, loses or delivers again, however fetches overlap
\* and whoever sets prices by hand: a price set by hand stands until a fetch
\* replaces it (market_data_service.py).
THEOREM PricesHoldAlways == MarketSpec => []PricesHold
<1>1. MarketInit => MarketInv
  BY MarketInitInv
<1>2. MarketInv /\ [MarketNext]_marketVars => MarketInv'
  <2> SUFFICES ASSUME MarketInv, [MarketNext]_marketVars PROVE MarketInv'
    OBVIOUS
  <2>1. CASE UNCHANGED marketVars
    BY <2>1 DEF marketVars, MarketInv, MarketShape, MarketTypeOK, ManualPriceHolds
  <2> QED
    BY <2>1, StreamStepsInv, FetchStepsInv, SetPriceInv, FinishFetchInv, ReceiveMessageInv
       DEF MarketNext
<1>3. MarketInv => PricesHold
  BY DEF MarketInv, PricesHold
<1> QED
  BY <1>1, <1>2, <1>3, PTL DEF MarketSpec

----------------------------------------------------------------------------
(* The exchange's rules                                                    *)

Refusals ==
  {"none", "allowed", "unavailable", "symbol_not_found", "not_trading",
   "market_orders_not_supported", "below_minimum", "above_maximum", "step_mismatch",
   "price_unknown", "notional_below_minimum", "notional_above_maximum"}
Orders ==
  [stage: {"none", "asking", "answered", "judged"}, quantity: Nat, price: Nat,
   waited: 0..TimeToLive, asked: Versions \cup {0}, rules: Versions \cup {0},
   verdict: Refusals]

RulesShape ==
  /\ RulesTypeOK
  /\ replacedFor \in [Versions -> 0..TimeToLive]
  /\ order \in Orders

\* Only rules that were replaced are out of force.
InForceIsCurrent == \A v \in Versions : v >= inForce => replacedFor[v] = 0

\* What the cache holds cannot have been replaced before it was asked for.
CacheIsRecent == cached # 0 => replacedFor[cached] + ttlLeft <= TimeToLive

\* An answer under way carries rules that were in force when they were asked
\* for or later, and were replaced at most as long ago as the order has waited.
AnswerIsRecent ==
  /\ order.asked <= inForce /\ order.rules <= inForce
  /\ order.stage \in {"asking", "answered"} => order.asked # 0
  /\ order.rules # 0 => order.rules >= order.asked
  /\ order.stage = "answered" =>
       order.rules # 0 /\ replacedFor[order.rules] <= order.waited

\* An order has been judged in full, and by recent rules where the cache gave
\* them, or refused without any.
OrderIsJudged ==
  /\ order.stage # "judged" => order.verdict = "none"
  /\ order.stage \in {"none", "asking"} => order.rules = 0
  /\ order.rules = 0 => order.verdict \in {"none", "unavailable"}
  /\ order.stage = "judged" /\ order.rules # 0 =>
       /\ order.asked = 0 => replacedFor[order.rules] < TimeToLive
       /\ order.verdict = Verdict(RuleVersions[order.rules], order.quantity, order.price)

RulesInv ==
  RulesShape /\ InForceIsCurrent /\ CacheIsRecent /\ AnswerIsRecent /\ OrderIsJudged

LEMMA RuleSetsAreTyped ==
  /\ 1 \in Versions
  /\ Versions \subseteq Nat /\ 0 \notin Versions
  /\ \A v \in Versions : RuleVersions[v] \in RuleSets
  /\ \A v \in Versions : \A u \in 1..v : u \in Versions
<1>1. RuleVersions \in Seq(RuleSets) /\ RuleVersions # <<>>
  BY RulesAssumption
<1>2. Versions = 1..Len(RuleVersions) /\ Len(RuleVersions) \in Nat /\ Len(RuleVersions) # 0
  BY <1>1 DEF Versions
<1>3. \A v \in 1..Len(RuleVersions) : RuleVersions[v] \in RuleSets
  BY <1>1
<1> QED
  BY <1>2, <1>3

\* Versions, and zero for none, are numbers.
LEMMA OrderVersions ==
  ASSUME NEW o \in Orders
  PROVE  o.asked \in Nat /\ o.rules \in Nat
<1>1. \A v \in Versions \cup {0} : v \in Nat
  <2>1. \A v \in Versions : v \in Nat
    BY RuleSetsAreTyped
  <2>2. 0 \in Nat
    OBVIOUS
  <2> QED
    BY <2>1, <2>2, Zenon
<1>2. o.asked \in Versions \cup {0}
  BY Zenon DEF Orders
<1>3. o.rules \in Versions \cup {0}
  BY Zenon DEF Orders
<1> QED
  BY <1>1, <1>2, <1>3, Zenon

LEMMA TimeIsPositive == TimeToLive \in Nat /\ TimeToLive >= 1
BY RulesAssumption

\* Every verdict is one of the refusals, or that the order passes.
LEMMA VerdictIsTyped ==
  ASSUME NEW given \in RuleSets, NEW quantity \in Nat, NEW price \in Nat
  PROVE  Verdict(given, quantity, price) \in Refusals
<1>1. \A filter : QuantityRefusal(filter, quantity) \in Refusals
  BY DEF QuantityRefusal, Refusals
<1>2. \A refusal \in QuantityRefusals(given, quantity) : refusal \in Refusals
  BY <1>1 DEF QuantityRefusals
<1>3. NotionalRefusal(given, quantity, price) \in Refusals
  BY DEF NotionalRefusal, Refusals
<1>4. QuantityRefusals(given, quantity) # {} =>
        (CHOOSE refusal \in QuantityRefusals(given, quantity) : TRUE) \in Refusals
  BY <1>2
<1> QED
  BY <1>3, <1>4 DEF Verdict, Refusals

\* A filter that refuses nothing is one the quantity fits.
LEMMA FilterIsKept ==
  ASSUME NEW filter \in Lots, NEW quantity \in Nat,
         Meaningful(filter) => QuantityRefusal(filter, quantity) = "allowed"
  PROVE  /\ filter.step = 0 \/ \E n \in 0..quantity : quantity = n * filter.step
         /\ quantity >= filter.min
         /\ filter.max = 0 \/ quantity <= filter.max
<1>1. filter.step \in Nat /\ filter.min \in Nat /\ filter.max \in Nat
  BY DEF Lots
<1>2. quantity >= filter.min /\ (filter.max = 0 \/ quantity <= filter.max)
  BY <1>1 DEF QuantityRefusal, Meaningful
<1>3. CASE filter.step > 0
  <2>1. quantity % filter.step = 0
    BY <1>1, <1>3 DEF QuantityRefusal, Meaningful
  <2> DEFINE step == filter.step
             n == quantity \div step
  <2>2. step \in Nat \ {0}
    BY <1>1, <1>3
  <2> HIDE DEF step
  <2>3. n \in Nat /\ quantity = (step * n) + (quantity % step)
    BY <2>2
  <2> HIDE DEF n
  <2>4. n <= step * n /\ step * n \in Nat /\ n * step = step * n
    BY <2>2, <2>3
  <2>5. quantity = n * step /\ n \in 0..quantity
    BY <2>1, <2>3, <2>4 DEF step
  <2> QED
    BY <1>2, <2>5 DEF step
<1> QED
  BY <1>1, <1>2, <1>3

\* An order that passes is one the exchange takes.
LEMMA PassedIsTaken ==
  ASSUME NEW given \in RuleSets, NEW quantity \in Nat, NEW price \in Nat,
         Verdict(given, quantity, price) = "allowed"
  PROVE  Takes(given, quantity, price)
<1>1. /\ given.lot \in Lots /\ given.marketLot \in Lots
      /\ given.minNotional \in Notionals /\ given.notional \in Notionals
  BY DEF RuleSets
<1>2. "allowed" \notin QuantityRefusals(given, quantity)
  BY DEF QuantityRefusals
<1>3. /\ given.listed /\ given.trading /\ given.market
      /\ QuantityRefusals(given, quantity) = {}
      /\ NotionalRefusal(given, quantity, price) = "allowed"
  <2>1. QuantityRefusals(given, quantity) # {} =>
          (CHOOSE refusal \in QuantityRefusals(given, quantity) : TRUE) # "allowed"
    BY <1>2
  <2> QED
    BY <2>1 DEF Verdict
<1>4. ASSUME NEW filter \in {given.lot, given.marketLot}
      PROVE  /\ filter.step = 0 \/ \E n \in 0..quantity : quantity = n * filter.step
             /\ quantity >= filter.min
             /\ filter.max = 0 \/ quantity <= filter.max
  <2>1. Meaningful(filter) => QuantityRefusal(filter, quantity) = "allowed"
    BY <1>3 DEF QuantityRefusals
  <2> QED
    BY <1>1, <2>1, FilterIsKept
<1>5. quantity * price \in Nat
  OBVIOUS
<1> DEFINE notional == quantity * price
<1>6. /\ \A m \in {given.minNotional, given.notional} :
           m.minApplies /\ m.min > 0 => m.min \in MinNotionals(given)
      /\ given.notional.maxApplies /\ given.notional.max > 0
           => given.notional.max \in MaxNotionals(given)
  BY DEF MinNotionals, MaxNotionals
<1>7. MinNotionals(given) \cup MaxNotionals(given) # {} =>
        /\ price # 0
        /\ \A min \in MinNotionals(given) : ~(notional < min)
        /\ \A max \in MaxNotionals(given) : ~(notional > max)
  BY <1>3 DEF NotionalRefusal
<1>8. /\ given.minNotional.min \in Nat /\ given.notional.min \in Nat
      /\ given.notional.max \in Nat
  BY <1>1 DEF Notionals
<1> HIDE DEF notional
<1>9. /\ given.minNotional.minApplies => notional >= given.minNotional.min
      /\ given.notional.minApplies => notional >= given.notional.min
  <2>1. ASSUME NEW m \in {given.minNotional, given.notional}, m.minApplies
        PROVE  notional >= m.min
    BY <1>5, <1>6, <1>7, <1>8, <2>1 DEF notional
  <2> QED
    BY <2>1
<1>10. given.notional.maxApplies /\ given.notional.max > 0
         => price > 0 /\ notional <= given.notional.max
  BY <1>5, <1>6, <1>7, <1>8 DEF notional
<1> QED
  BY <1>3, <1>4, <1>9, <1>10 DEF Takes, notional

LEMMA RulesInitInv == RulesInit => RulesInv
<1> SUFFICES ASSUME RulesInit PROVE RulesInv
  OBVIOUS
<1>1. NoOrder \in Orders /\ NoOrder.stage = "none" /\ NoOrder.rules = 0 /\ NoOrder.verdict = "none"
      /\ NoOrder.asked = 0
  BY TimeIsPositive DEF NoOrder, Orders, Refusals
<1>2. RulesShape
  BY <1>1, RuleSetsAreTyped, TimeIsPositive DEF RulesInit, RulesShape, RulesTypeOK
<1>3. InForceIsCurrent /\ CacheIsRecent
  BY DEF RulesInit, InForceIsCurrent, CacheIsRecent
<1>4. OrderIsJudged
  BY <1>1 DEF RulesInit, OrderIsJudged
<1>5. AnswerIsRecent
  BY <1>1, RuleSetsAreTyped DEF RulesInit, AnswerIsRecent
<1> QED
  BY <1>2, <1>3, <1>4, <1>5 DEF RulesInv

\* Steps of the order that leave the exchange and the cache alone.
LEMMA OrderMoves ==
  ASSUME RulesInv, NEW moved \in Orders, order' = moved,
         UNCHANGED <<inForce, replacedFor, cached, ttlLeft>>,
         moved.asked <= inForce, moved.rules <= inForce,
         moved.stage \in {"asking", "answered"} => moved.asked # 0,
         moved.rules # 0 => moved.rules >= moved.asked,
         moved.stage = "answered" =>
           moved.rules # 0 /\ replacedFor[moved.rules] <= moved.waited,
         moved.stage # "judged" => moved.verdict = "none",
         moved.stage \in {"none", "asking"} => moved.rules = 0,
         moved.rules = 0 => moved.verdict \in {"none", "unavailable"},
         moved.stage = "judged" /\ moved.rules # 0 =>
           /\ moved.asked = 0 => replacedFor[moved.rules] < TimeToLive
           /\ moved.verdict = Verdict(RuleVersions[moved.rules], moved.quantity, moved.price)
  PROVE  RulesInv'
<1>1. order'.stage \in {"none", "asking", "answered", "judged"}
  BY DEF Orders
<1>2. RulesShape'
  BY <1>1 DEF RulesInv, RulesShape, RulesTypeOK
<1>3. InForceIsCurrent' /\ CacheIsRecent'
  BY DEF RulesInv, InForceIsCurrent, CacheIsRecent
<1>4. AnswerIsRecent'
  BY DEF AnswerIsRecent
<1>5. OrderIsJudged'
  BY DEF OrderIsJudged
<1> QED
  BY <1>2, <1>3, <1>4, <1>5 DEF RulesInv

\* What judging makes of an order.
LEMMA JudgedOrder ==
  ASSUME NEW o \in Orders, NEW v \in Versions
  PROVE  /\ Judged(o, v) \in Orders
         /\ Judged(o, v).stage = "judged"
         /\ Judged(o, v).rules = v
         /\ Judged(o, v).asked = o.asked
         /\ Judged(o, v).verdict =
              Verdict(RuleVersions[v], Judged(o, v).quantity, Judged(o, v).price)
<1>1. o.quantity \in Nat /\ o.price \in Nat
  BY DEF Orders
<1>2. Verdict(RuleVersions[v], o.quantity, o.price) \in Refusals
  BY <1>1, RuleSetsAreTyped, VerdictIsTyped
<1> DEFINE verdict == Verdict(RuleVersions[v], o.quantity, o.price)
<1> HIDE DEF verdict
<1>3. Judged(o, v) = [o EXCEPT !.stage = "judged", !.rules = v, !.verdict = verdict]
  BY DEF Judged, verdict
<1>4. /\ Judged(o, v) \in Orders /\ Judged(o, v).verdict = verdict
      /\ Judged(o, v).stage = "judged" /\ Judged(o, v).rules = v
      /\ Judged(o, v).asked = o.asked
      /\ Judged(o, v).quantity = o.quantity /\ Judged(o, v).price = o.price
  BY <1>2, <1>3 DEF Orders, verdict
<1> QED
  BY <1>4 DEF verdict

LEMMA ValidateOrderInv ==
  ASSUME RulesInv, ValidateOrder
  PROVE  RulesInv'
<1>1. PICK quantity \in Quantities, price \in MarketPrices :
        order' = IF Fresh THEN Judged([NoOrder EXCEPT !.quantity = quantity, !.price = price], cached)
                 ELSE [[NoOrder EXCEPT !.quantity = quantity, !.price = price]
                         EXCEPT !.stage = "asking", !.asked = inForce]
  BY DEF ValidateOrder
<1> DEFINE o == [NoOrder EXCEPT !.quantity = quantity, !.price = price]
           asking == [o EXCEPT !.stage = "asking", !.asked = inForce]
<1>2. quantity \in Nat /\ price \in Nat
  BY RulesAssumption
<1>3. NoOrder \in Orders /\ NoOrder.rules = 0 /\ NoOrder.verdict = "none"
      /\ NoOrder.asked = 0
  BY TimeIsPositive DEF NoOrder, Orders, Refusals
<1>4. o \in Orders /\ o.rules = 0 /\ o.verdict = "none" /\ o.asked = 0
  BY <1>2, <1>3 DEF Orders
<1> HIDE DEF o
<1>5. /\ asking \in Orders /\ asking.stage = "asking" /\ asking.rules = 0
      /\ asking.verdict = "none" /\ asking.asked = inForce
  <2>1. inForce \in Versions
    BY DEF RulesInv, RulesShape, RulesTypeOK
  <2> QED
    BY <1>4, <2>1 DEF Orders
<1> HIDE DEF asking
<1>6. CASE Fresh
  <2>1. cached \in Versions
    BY <1>6, RuleSetsAreTyped DEF Fresh, RulesInv, RulesShape, RulesTypeOK
  <2>2. replacedFor[cached] < TimeToLive
    <3>1. replacedFor[cached] \in Int /\ ttlLeft \in Int /\ TimeToLive \in Int
      BY <2>1, TimeIsPositive DEF RulesInv, RulesShape, RulesTypeOK
    <3>2. replacedFor[cached] + ttlLeft <= TimeToLive /\ ttlLeft > 0
      BY <1>6 DEF RulesInv, CacheIsRecent, Fresh
    <3> QED
      BY <3>1, <3>2
  <2>3. order' = Judged(o, cached)
    BY <1>1, <1>6 DEF o
  <2>4. cached # 0 /\ 0 <= inForce /\ cached >= 0 /\ cached <= inForce
    BY <1>6, RuleSetsAreTyped DEF Fresh, RulesInv, RulesShape, RulesTypeOK
  <2>5. /\ Judged(o, cached) \in Orders /\ Judged(o, cached).stage = "judged"
        /\ Judged(o, cached).rules = cached /\ Judged(o, cached).asked = 0
        /\ Judged(o, cached).verdict =
             Verdict(RuleVersions[cached], Judged(o, cached).quantity, Judged(o, cached).price)
    BY <1>4, <2>1, JudgedOrder
  <2> QED
    BY <2>2, <2>3, <2>4, <2>5, OrderMoves DEF ValidateOrder
<1>7. CASE ~Fresh
  <2>1. order' = asking
    BY <1>1, <1>7 DEF asking, o
  <2>2. inForce <= inForce /\ 0 <= inForce /\ inForce # 0
    BY RuleSetsAreTyped DEF RulesInv, RulesShape, RulesTypeOK
  <2> QED
    BY <1>5, <2>1, <2>2, OrderMoves DEF ValidateOrder
<1> QED
  BY <1>6, <1>7

\* The answer is composed from the rules in force, whatever they replaced since
\* the order asked.
LEMMA AnswerRulesInv ==
  ASSUME RulesInv, AnswerRules
  PROVE  RulesInv'
<1> DEFINE answered == [order EXCEPT !.stage = "answered", !.rules = inForce]
<1>1. inForce \in Versions /\ inForce # 0 /\ replacedFor[inForce] = 0 /\ order \in Orders
  BY RuleSetsAreTyped DEF RulesInv, RulesShape, RulesTypeOK, InForceIsCurrent
<1>2. order.asked <= inForce /\ order.asked # 0 /\ order.verdict = "none"
  BY DEF AnswerRules, RulesInv, AnswerIsRecent, OrderIsJudged
<1>3. /\ answered \in Orders /\ answered.stage = "answered" /\ answered.rules = inForce
      /\ answered.asked = order.asked /\ answered.verdict = "none"
      /\ answered.waited \in 0..TimeToLive
  BY <1>1, <1>2 DEF Orders
<1>4. order' = answered
  BY DEF AnswerRules
<1> HIDE DEF answered
<1>5. inForce \in Int /\ answered.asked \in Int
  BY <1>1, <1>3, RuleSetsAreTyped, OrderVersions
<1>6. answered.rules >= answered.asked /\ replacedFor[answered.rules] <= answered.waited
      /\ inForce <= inForce
  BY <1>1, <1>2, <1>3, <1>5
<1> QED
  BY <1>1, <1>2, <1>3, <1>4, <1>6, OrderMoves DEF AnswerRules

\* The answer arrives: its rules were replaced at most as long ago as the order
\* has waited, and the time to live is shorter by as much.
LEMMA FetchRulesInv ==
  ASSUME RulesInv, FetchRules
  PROVE  RulesInv'
<1> DEFINE v == order.rules
           judged == Judged(order, v)
<1>1. /\ order \in Orders /\ v # 0 /\ v >= order.asked /\ order.asked <= inForce
      /\ replacedFor[v] <= order.waited
  BY DEF FetchRules, RulesInv, RulesShape, AnswerIsRecent
<1>2. v \in Versions /\ inForce \in Versions
  BY <1>1 DEF Orders, RulesInv, RulesShape, RulesTypeOK
<1>3. /\ cached' = v /\ ttlLeft' = TimeToLive - order.waited /\ order' = judged
      /\ UNCHANGED <<inForce, replacedFor>>
  BY DEF FetchRules
<1>4. order.waited \in 0..TimeToLive
  BY <1>1 DEF Orders
<1>5. /\ judged \in Orders /\ judged.stage = "judged" /\ judged.rules = v
      /\ judged.asked = order.asked
      /\ judged.verdict = Verdict(RuleVersions[v], judged.quantity, judged.price)
  BY <1>1, <1>2, JudgedOrder
<1>6. v <= inForce
  BY DEF FetchRules, RulesInv, AnswerIsRecent
<1>7. order.asked # 0
  BY DEF FetchRules, RulesInv, AnswerIsRecent
<1> HIDE DEF v, judged
<1>8. ttlLeft' \in 0..TimeToLive /\ cached' \in 0..inForce
  BY <1>2, <1>3, <1>4, <1>6, RuleSetsAreTyped, TimeIsPositive
<1>9. RulesShape'
  BY <1>2, <1>3, <1>5, <1>8 DEF RulesInv, RulesShape, RulesTypeOK
<1>10. InForceIsCurrent'
  BY <1>3 DEF RulesInv, InForceIsCurrent
<1>11. CacheIsRecent'
  <2>1. replacedFor[v] \in 0..TimeToLive
    BY <1>2 DEF RulesInv, RulesShape
  <2>2. replacedFor[v] + (TimeToLive - order.waited) <= TimeToLive
    BY <1>1, <1>4, <2>1, TimeIsPositive
  <2> QED
    BY <1>3, <2>2 DEF CacheIsRecent
<1>12. AnswerIsRecent'
  BY <1>1, <1>3, <1>5, <1>6 DEF AnswerIsRecent
<1>13. OrderIsJudged'
  BY <1>1, <1>3, <1>5, <1>7 DEF OrderIsJudged
<1> QED
  BY <1>9, <1>10, <1>11, <1>12, <1>13 DEF RulesInv

LEMMA OtherOrderStepsInv ==
  ASSUME RulesInv, FetchRulesFails \/ OrderLeaves
  PROVE  RulesInv'
<1>1. CASE FetchRulesFails
  <2> DEFINE refused ==
        [order EXCEPT !.stage = "judged", !.rules = 0, !.verdict = "unavailable"]
  <2>1. order \in Orders /\ order.asked <= inForce /\ 0 <= inForce
    BY RuleSetsAreTyped DEF RulesInv, RulesShape, RulesTypeOK, AnswerIsRecent
  <2>2. refused \in Orders /\ refused.rules = 0 /\ refused.verdict = "unavailable"
          /\ refused.stage = "judged" /\ refused.asked = order.asked
    BY <2>1 DEF Orders, Refusals
  <2>3. order' = refused
    BY <1>1 DEF FetchRulesFails
  <2> HIDE DEF refused
  <2> QED
    BY <1>1, <2>1, <2>2, <2>3, OrderMoves DEF FetchRulesFails
<1>2. CASE OrderLeaves
  <2>1. NoOrder \in Orders /\ NoOrder.stage = "none" /\ NoOrder.rules = 0
          /\ NoOrder.verdict = "none" /\ NoOrder.asked = 0
    BY TimeIsPositive DEF NoOrder, Orders, Refusals
  <2>2. 0 <= inForce
    BY RuleSetsAreTyped DEF RulesInv, RulesShape, RulesTypeOK
  <2> QED
    BY <1>2, <2>1, <2>2, OrderMoves DEF OrderLeaves
<1> QED
  BY <1>1, <1>2

LEMMA ChangeRulesInv ==
  ASSUME RulesInv, ChangeRules
  PROVE  RulesInv'
<1>1. /\ inForce' = inForce + 1 /\ inForce' \in Versions /\ inForce \in Nat
      /\ UNCHANGED <<replacedFor, cached, ttlLeft, order>>
  BY RuleSetsAreTyped DEF ChangeRules, RulesInv, RulesShape, RulesTypeOK
<1>2. RulesShape'
  BY <1>1 DEF RulesInv, RulesShape, RulesTypeOK
<1>3. InForceIsCurrent'
  BY <1>1, RuleSetsAreTyped DEF RulesInv, InForceIsCurrent
<1>4. CacheIsRecent' /\ OrderIsJudged'
  BY <1>1 DEF RulesInv, CacheIsRecent, OrderIsJudged
<1>5. AnswerIsRecent'
  <2>1. order.asked \in Int /\ order.rules \in Int
    BY OrderVersions DEF RulesInv, RulesShape
  <2>2. order.asked <= inForce' /\ order.rules <= inForce'
    BY <1>1, <2>1 DEF RulesInv, AnswerIsRecent
  <2> QED
    BY <1>1, <2>2 DEF RulesInv, AnswerIsRecent
<1> QED
  BY <1>2, <1>3, <1>4, <1>5 DEF RulesInv

\* Time: the cache ages at least as fast as what it holds.
LEMMA RulesTickInv ==
  ASSUME RulesInv, RulesTick
  PROVE  RulesInv'
<1>1. /\ replacedFor \in [Versions -> 0..TimeToLive]
      /\ ttlLeft \in 0..TimeToLive
      /\ order \in Orders /\ inForce \in Versions /\ inForce \in Nat
      /\ TimeToLive \in Nat /\ TimeToLive >= 1
  BY TimeIsPositive, RuleSetsAreTyped DEF RulesInv, RulesShape, RulesTypeOK
<1>2. \A v \in Versions :
        /\ replacedFor'[v] \in 0..TimeToLive
        /\ replacedFor'[v] \in {replacedFor[v], replacedFor[v] + 1}
        /\ v >= inForce => replacedFor'[v] = replacedFor[v]
        /\ replacedFor'[v] <= replacedFor[v] + 1
  <2> SUFFICES ASSUME NEW v \in Versions
               PROVE  /\ replacedFor'[v] \in 0..TimeToLive
                      /\ replacedFor'[v] \in {replacedFor[v], replacedFor[v] + 1}
                      /\ v >= inForce => replacedFor'[v] = replacedFor[v]
                      /\ replacedFor'[v] <= replacedFor[v] + 1
    OBVIOUS
  <2>1. v \in Int /\ replacedFor[v] \in 0..TimeToLive
    BY <1>1, RuleSetsAreTyped
  <2>2. replacedFor'[v] = IF v < inForce /\ replacedFor[v] < TimeToLive
                          THEN replacedFor[v] + 1 ELSE replacedFor[v]
    BY DEF RulesTick
  <2> QED
    BY <1>1, <2>1, <2>2
<1>3. ttlLeft' \in 0..TimeToLive
        /\ (ttlLeft' = ttlLeft - 1 \/ (ttlLeft' = ttlLeft /\ ttlLeft = 0))
  BY <1>1 DEF RulesTick
<1>4. /\ order' \in Orders /\ order'.stage = order.stage /\ order'.rules = order.rules
      /\ order'.asked = order.asked /\ order'.verdict = order.verdict
      /\ order.stage = "answered" =>
           order'.waited = IF order.waited < TimeToLive THEN order.waited + 1 ELSE order.waited
  <2>1. CASE order' = order /\ (order.stage = "answered" => ~(order.waited < TimeToLive))
    BY <1>1, <2>1
  <2>2. CASE order.waited < TimeToLive /\ order' = [order EXCEPT !.waited = @ + 1]
    <3>1. order.waited \in Nat
      BY <1>1 DEF Orders
    <3>2. order.waited + 1 \in 0..TimeToLive
      BY <1>1, <2>2, <3>1
    <3> QED
      BY <1>1, <2>2, <3>2 DEF Orders
  <2> QED
    BY <2>1, <2>2 DEF RulesTick
<1>5. order.stage # "judged"
  BY DEF RulesTick
<1>6. RulesShape'
  <2>1. replacedFor' \in [Versions -> 0..TimeToLive]
    BY <1>2 DEF RulesTick
  <2> QED
    BY <1>3, <1>4, <2>1 DEF RulesTick, RulesInv, RulesShape, RulesTypeOK
<1>7. InForceIsCurrent'
  BY <1>2 DEF RulesTick, RulesInv, InForceIsCurrent
<1>8. CacheIsRecent'
  <2> SUFFICES ASSUME cached # 0 PROVE replacedFor'[cached] + ttlLeft' <= TimeToLive
    BY DEF RulesTick, CacheIsRecent
  <2>1. cached \in Versions
    BY RuleSetsAreTyped DEF RulesInv, RulesShape, RulesTypeOK
  <2>2. replacedFor[cached] + ttlLeft <= TimeToLive
    BY DEF RulesInv, CacheIsRecent
  <2>3. replacedFor[cached] \in Int /\ replacedFor'[cached] \in 0..TimeToLive
    BY <1>1, <1>2, <2>1
  <2>4. replacedFor'[cached] \in {replacedFor[cached], replacedFor[cached] + 1}
    BY <1>2, <2>1
  <2> QED
    BY <1>1, <1>3, <2>2, <2>3, <2>4
<1>9. AnswerIsRecent'
  <2>1. /\ inForce' = inForce
        /\ order'.stage = "answered" => replacedFor'[order'.rules] <= order'.waited
    <3> SUFFICES ASSUME order.stage = "answered" PROVE replacedFor'[order.rules] <= order'.waited
      BY <1>4 DEF RulesTick
    <3>1. order.rules \in Versions /\ replacedFor[order.rules] <= order.waited
      BY <1>1 DEF RulesInv, AnswerIsRecent, Orders
    <3>2. order.waited \in 0..TimeToLive
      BY <1>1 DEF Orders
    <3>3. /\ replacedFor[order.rules] \in 0..TimeToLive
          /\ replacedFor'[order.rules] \in 0..TimeToLive
          /\ replacedFor'[order.rules] <= replacedFor[order.rules] + 1
      BY <1>1, <1>2, <3>1
    <3>4. order'.waited = IF order.waited < TimeToLive THEN order.waited + 1 ELSE order.waited
      BY <1>4
    <3> QED
      BY <1>1, <3>1, <3>2, <3>3, <3>4
  <2> QED
    BY <1>4, <2>1 DEF RulesInv, AnswerIsRecent
<1>10. OrderIsJudged'
  BY <1>4, <1>5 DEF RulesInv, OrderIsJudged
<1> QED
  BY <1>6, <1>7, <1>8, <1>9, <1>10 DEF RulesInv

\* However long fetches take, whenever the exchange composes its answers,
\* whatever fails and however often the rules change: an order that asks is
\* judged by rules still applied when it asked, one the cache answers by rules
\* replaced less than a time to live ago, and one that passes is one those rules
\* take (binance_exchange_info.py:216).
THEOREM RulesHoldAlways == RulesSpec => []RulesHold
<1>1. RulesInit => RulesInv
  BY RulesInitInv
<1>2. RulesInv /\ [RulesNext]_rulesVars => RulesInv'
  <2> SUFFICES ASSUME RulesInv, [RulesNext]_rulesVars PROVE RulesInv'
    OBVIOUS
  <2>1. CASE UNCHANGED rulesVars
    BY <2>1 DEF rulesVars, RulesInv, RulesShape, RulesTypeOK, InForceIsCurrent, CacheIsRecent,
                AnswerIsRecent, OrderIsJudged
  <2> QED
    BY <2>1, ValidateOrderInv, AnswerRulesInv, FetchRulesInv, OtherOrderStepsInv, ChangeRulesInv, RulesTickInv
       DEF RulesNext
<1>3. RulesInv => RulesHold
  <2> SUFFICES ASSUME RulesInv PROVE RulesHold
    OBVIOUS
  <2>1. RulesTypeOK /\ order \in Orders
    BY DEF RulesInv, RulesShape
  <2>2. RulesAreRecent
    BY DEF RulesInv, AnswerIsRecent, OrderIsJudged, RulesAreRecent
  <2>3. PassedOrdersFit
    <3> SUFFICES ASSUME order.verdict = "allowed"
                 PROVE  Takes(RuleVersions[order.rules], order.quantity, order.price)
      BY DEF PassedOrdersFit
    <3>1. order.rules # 0 /\ order.stage = "judged"
      BY DEF RulesInv, OrderIsJudged
    <3>2. order.rules \in Versions /\ order.quantity \in Nat /\ order.price \in Nat
      BY <2>1, <3>1 DEF Orders
    <3>3. Verdict(RuleVersions[order.rules], order.quantity, order.price) = "allowed"
      BY <3>1 DEF RulesInv, OrderIsJudged
    <3> QED
      BY <3>2, <3>3, RuleSetsAreTyped, PassedIsTaken
  <2> QED
    BY <2>1, <2>2, <2>3 DEF RulesHold
<1> QED
  BY <1>1, <1>2, <1>3, PTL DEF RulesSpec

----------------------------------------------------------------------------
(* The stored candles                                                      *)

\* The processes are shaped, offer whole candles, and nobody who upserts alone
\* has anything but the stored candle in mind.
CandleInv ==
  /\ upsert = [w \in CandleWriters |-> upsert[w]]
  /\ mingled \in BOOLEAN
  /\ \A w \in CandleWriters :
       /\ upsert[w].stage \in {"idle", "read"}
       /\ upsert[w].stage = "read" => upsert[w].offered \in Candles
       /\ upsert[w].stage = "read" /\ ~mingled =>
            /\ upsert[w].read = candle
            /\ \A v \in CandleWriters : v # w => upsert[v].stage = "idle"
  /\ CandlesAreWhole

\* An update that nobody interferes with leaves what was offered.
LEMMA AloneMeansOffered ==
  ASSUME NEW row \in Candles, NEW offered \in Candles
  PROVE  Merged(row, row, offered) = offered
<1>1. /\ offered = [column \in {"open", "high", "low", "close"} |-> offered[column]]
      /\ DOMAIN row = {"open", "high", "low", "close"}
  BY DEF Candles
<1> QED
  BY <1>1 DEF Merged

LEMMA ReadCandleInv ==
  ASSUME CandleInv, NEW w \in CandleWriters, ReadCandle(w)
  PROVE  CandleInv'
<1>1. PICK c \in Candles :
        upsert' = [upsert EXCEPT ![w] = [stage |-> "read", offered |-> c, read |-> candle]]
  BY DEF ReadCandle
<1>2. /\ upsert'[w] = [stage |-> "read", offered |-> c, read |-> candle]
      /\ \A v \in CandleWriters : v # w => upsert'[v] = upsert[v]
      /\ upsert' = [v \in CandleWriters |-> upsert'[v]]
  BY <1>1 DEF CandleInv
<1>3. /\ candle' = candle /\ mingled' \in BOOLEAN
      /\ ~mingled' => ~mingled /\ \A v \in CandleWriters \ {w} : upsert[v].stage = "idle"
  BY DEF ReadCandle, CandleInv
<1> QED
  BY <1>2, <1>3 DEF CandleInv, CandlesAreWhole

LEMMA UpsertEnds ==
  ASSUME CandleInv, NEW w \in CandleWriters, upsert' = [upsert EXCEPT ![w] = Resting],
         mingled' = mingled, candle' = candle \/ upsert[w].stage = "read",
         CandlesAreWhole'
  PROVE  CandleInv'
<1>1. /\ upsert'[w].stage = "idle"
      /\ \A v \in CandleWriters : v # w => upsert'[v] = upsert[v]
      /\ upsert' = [v \in CandleWriters |-> upsert'[v]]
  BY DEF CandleInv, Resting
<1> QED
  BY <1>1 DEF CandleInv

LEMMA WriteCandleInv ==
  ASSUME CandleInv, NEW w \in CandleWriters, WriteCandle(w)
  PROVE  CandleInv'
<1>1. upsert[w].stage = "read" /\ upsert[w].offered \in Candles
  BY DEF WriteCandle, CandleInv
<1>2. CandlesAreWhole'
  <2> SUFFICES ASSUME ~mingled PROVE candle' \in Candles
    BY DEF WriteCandle, CandleInv, CandlesAreWhole
  <2>1. upsert[w].read = candle
    BY <1>1 DEF CandleInv
  <2>2. CASE candle = NoCandle
    BY <1>1, <2>1, <2>2 DEF WriteCandle
  <2>3. CASE candle # NoCandle
    <3>1. candle \in Candles /\ candle' = Merged(candle, candle, upsert[w].offered)
      BY <2>1, <2>3 DEF WriteCandle, CandleInv, CandlesAreWhole
    <3> QED
      BY <1>1, <3>1, AloneMeansOffered
  <2> QED
    BY <2>2, <2>3
<1> QED
  BY <1>1, <1>2, UpsertEnds DEF WriteCandle

LEMMA LoseCandleInv ==
  ASSUME CandleInv, NEW w \in CandleWriters, LoseCandle(w)
  PROVE  CandleInv'
<1>1. CandlesAreWhole'
  BY DEF LoseCandle, CandleInv, CandlesAreWhole
<1> QED
  BY <1>1, UpsertEnds DEF LoseCandle

\* As long as no two processes upsert a candle at once, what is stored is one that
\* was offered whole, wherever an upsert ends (repositories/market_candle.py).
THEOREM CandlesAreWholeAlways == CandleSpec => []CandlesAreWhole
<1>1. CandleInit => CandleInv
  <2> SUFFICES ASSUME CandleInit PROVE CandleInv
    OBVIOUS
  <2>1. \A w \in CandleWriters : upsert[w].stage = "idle"
    BY DEF CandleInit, Resting
  <2>2. upsert = [w \in CandleWriters |-> upsert[w]]
    BY DEF CandleInit
  <2> QED
    BY <2>1, <2>2 DEF CandleInit, CandleInv, CandlesAreWhole
<1>2. CandleInv /\ [CandleNext]_candleVars => CandleInv'
  <2> SUFFICES ASSUME CandleInv, [CandleNext]_candleVars PROVE CandleInv'
    OBVIOUS
  <2>1. CASE UNCHANGED candleVars
    BY <2>1 DEF candleVars, CandleInv, CandlesAreWhole
  <2> QED
    BY <2>1, ReadCandleInv, WriteCandleInv, LoseCandleInv DEF CandleNext
<1>3. CandleInv => CandlesAreWhole
  BY DEF CandleInv
<1> QED
  BY <1>1, <1>2, <1>3, PTL DEF CandleSpec

----------------------------------------------------------------------------
(* The status row                                                          *)

\* A stop that will not show: the row already said so when it was read.
EndsUnseen(w) ==
  /\ loop[w].at = "writing"
  /\ loop[w].mark = "worker_stopped"
  /\ loop[w].read.state = "stopped"

\* While nobody was killed, a row that says running has a worker that is going to
\* change that.
RunningIsTended ==
  killed = 0 /\ statusRow.state = "running" =>
    \E w \in StatusWorkers : Alive(w) /\ ~EndsUnseen(w)

\* Nobody has been quiet for longer than the row is old, and not at all while
\* somebody is at work.
QuietIsOld ==
  /\ quietFor <= statusRow.age
  /\ (\E w \in StatusWorkers : Alive(w)) => quietFor = 0

StatusInv == StatusTypeOK /\ RunningIsTended /\ QuietIsOld

Loop == [at: {"off", "marking", "writing", "working", "sleeping"},
         mark: Marks \cup {"none"}, read: Row, age: Ages]

LEMMA AgesGrow ==
  /\ 0 \in Ages /\ Oldest \in Ages
  /\ \A age \in Ages : Older(age) \in Ages /\ age <= Older(age)
  /\ \A a, b \in Ages : a <= b => Older(a) <= Older(b)
BY StatusBounds DEF Ages, Older, Oldest

LEMMA StatusInitInv == StatusInit => StatusInv
<1> SUFFICES ASSUME StatusInit PROVE StatusInv
  OBVIOUS
<1>1. StatusTypeOK
  BY AgesGrow, StatusBounds DEF StatusInit, StatusTypeOK, NoRow, Row, Off
<1>2. RunningIsTended /\ QuietIsOld
  BY StatusBounds DEF StatusInit, RunningIsTended, QuietIsOld, NoRow, Off, Alive, Oldest
<1> QED
  BY <1>1, <1>2 DEF StatusInv

\* A step of one process that leaves the row alone.
LEMMA ProcessMoves ==
  ASSUME StatusInv, NEW w \in StatusWorkers, NEW moved \in Loop,
         loop' = [loop EXCEPT ![w] = moved],
         UNCHANGED <<statusRow, killed>>,
         stopRequested' \subseteq StatusWorkers, launches' \in 0..MaxLaunches,
         quietFor' \in {0, quietFor}, Alive(w) \/ quietFor' = 0,
         moved.at # "off",
         statusRow.state = "running" /\ moved.at = "writing"
           => moved.read.state = "running" \/ moved.mark # "worker_stopped"
  PROVE  StatusInv'
<1>1. /\ loop'[w] = moved
      /\ \A v \in StatusWorkers : v # w => loop'[v] = loop[v]
  BY DEF StatusInv, StatusTypeOK
<1>2. StatusTypeOK'
  BY AgesGrow DEF StatusInv, StatusTypeOK, Loop
<1>3. RunningIsTended'
  BY <1>1 DEF StatusInv, RunningIsTended, Alive, EndsUnseen
<1>4. QuietIsOld'
  <2>1. quietFor' = 0
    BY DEF StatusInv, QuietIsOld
  <2> QED
    BY <2>1, StatusBounds DEF StatusInv, StatusTypeOK, QuietIsOld, Row, Ages, Oldest
<1> QED
  BY <1>2, <1>3, <1>4 DEF StatusInv

LEMMA LaunchInv ==
  ASSUME StatusInv, NEW w \in StatusWorkers, Launch(w)
  PROVE  StatusInv'
<1>1. Doing("marking", "worker_started") \in Loop
  BY AgesGrow DEF Loop, Doing, Marks, Row, NoRow
<1>2. /\ loop' = [loop EXCEPT ![w] = Doing("marking", "worker_started")]
      /\ stopRequested' \subseteq StatusWorkers
      /\ quietFor' = 0
      /\ UNCHANGED <<statusRow, killed>>
  BY DEF Launch, Goes, StatusInv, StatusTypeOK
<1>3. launches' \in 0..MaxLaunches
  BY StatusBounds DEF Launch, StatusInv, StatusTypeOK
<1>4. Doing("marking", "worker_started").at = "marking"
  BY DEF Doing
<1> QED
  BY <1>1, <1>2, <1>3, <1>4, ProcessMoves

LEMMA ReadRowInv ==
  ASSUME StatusInv, NEW w \in StatusWorkers, ReadRow(w)
  PROVE  StatusInv'
<1> DEFINE moved == [loop[w] EXCEPT !.at = "writing", !.read = statusRow, !.age = 0]
<1>1. loop[w] \in Loop /\ statusRow \in Row
  BY DEF StatusInv, StatusTypeOK, Loop
<1>2. moved \in Loop /\ moved.at = "writing" /\ moved.read = statusRow
  BY <1>1, AgesGrow DEF Loop
<1> HIDE DEF moved
<1>3. loop' = [loop EXCEPT ![w] = moved]
  BY DEF ReadRow, Goes, moved
<1> QED
  BY <1>2, <1>3, ProcessMoves DEF ReadRow, StatusInv, StatusTypeOK, Alive

LEMMA WorkInv ==
  ASSUME StatusInv, NEW w \in StatusWorkers, Work(w) \/ MarkFails(w) \/ Wake(w)
  PROVE  StatusInv'
<1>1. PICK mark \in Marks : loop' = [loop EXCEPT ![w] = Doing("marking", mark)]
  BY DEF Work, MarkFails, Wake, Goes, Marks
<1>2. Doing("marking", mark) \in Loop /\ Doing("marking", mark).at = "marking"
  BY AgesGrow DEF Loop, Doing, Row, NoRow
<1>3. /\ Alive(w)
      /\ UNCHANGED <<statusRow, stopRequested, quietFor, launches, killed>>
  BY DEF Work, MarkFails, Wake, Alive
<1> QED
  BY <1>1, <1>2, <1>3, ProcessMoves DEF StatusInv, StatusTypeOK

LEMMA RequestStopInv ==
  ASSUME StatusInv, NEW w \in StatusWorkers, RequestStop(w)
  PROVE  StatusInv'
BY DEF RequestStop, StatusInv, StatusTypeOK, RunningIsTended, QuietIsOld, Alive, EndsUnseen

LEMMA KillInv ==
  ASSUME StatusInv, NEW w \in StatusWorkers, Kill(w)
  PROVE  StatusInv'
<1>1. /\ killed' = killed + 1 /\ killed' \in 0..MaxWorkerCrashes /\ killed' # 0
      /\ loop' = [loop EXCEPT ![w] = Off]
      /\ Alive(w)
      /\ UNCHANGED <<statusRow, stopRequested, quietFor, launches>>
  BY StatusBounds DEF Kill, Goes, StatusInv, StatusTypeOK
<1>2. Off \in Loop
  BY AgesGrow DEF Off, Loop, Row, NoRow
<1>3. StatusTypeOK'
  BY <1>1, <1>2 DEF StatusInv, StatusTypeOK, Loop
<1>4. RunningIsTended'
  BY <1>1 DEF RunningIsTended
<1>5. QuietIsOld'
  BY <1>1 DEF StatusInv, QuietIsOld
<1> QED
  BY <1>3, <1>4, <1>5 DEF StatusInv

\* A commit: a row that runs afterwards is tended by its writer, or by whoever
\* tended it before.
LEMMA WriteRowInv ==
  ASSUME StatusInv, NEW w \in StatusWorkers, WriteRow(w)
  PROVE  StatusInv'
<1> DEFINE moved == AfterMark(w)
<1>1. /\ loop[w].at = "writing" /\ Alive(w)
      /\ statusRow' = Written(w)
      /\ loop' = [loop EXCEPT ![w] = moved]
      /\ UNCHANGED <<stopRequested, quietFor, launches, killed>>
  BY DEF WriteRow, Goes, Alive
<1>2. loop[w] \in Loop /\ statusRow \in Row
  BY DEF StatusInv, StatusTypeOK, Loop
<1>3. moved \in Loop /\ moved.at # "writing"
        /\ (loop[w].mark # "worker_stopped" => moved.at # "off")
  BY AgesGrow DEF AfterMark, Off, Doing, Loop, Marks, Row, NoRow
<1> HIDE DEF moved
<1>4. /\ loop'[w] = moved
      /\ \A v \in StatusWorkers : v # w => loop'[v] = loop[v]
  BY <1>1 DEF StatusInv, StatusTypeOK
<1>5. StatusTypeOK'
  <2>1. Written(w) \in Row
    BY <1>2 DEF Written, Row, Loop, StateAfter
  <2> QED
    BY <1>1, <1>3, <2>1 DEF StatusInv, StatusTypeOK, Loop
<1>6. RunningIsTended'
  <2> SUFFICES ASSUME killed = 0, statusRow'.state = "running"
               PROVE  \E v \in StatusWorkers : Alive(v)' /\ ~EndsUnseen(v)'
    BY <1>1 DEF RunningIsTended
  <2>1. CASE loop[w].mark # "worker_stopped"
    BY <1>3, <1>4, <2>1 DEF Alive, EndsUnseen
  <2>2. CASE loop[w].mark = "worker_stopped"
    <3>1. loop[w].read.state = "stopped" /\ statusRow.state = "running"
      BY <1>1, <2>2 DEF Written, StateAfter
    <3>2. PICK v \in StatusWorkers : Alive(v) /\ ~EndsUnseen(v)
      BY <3>1 DEF StatusInv, RunningIsTended
    <3>3. v # w
      BY <1>1, <2>2, <3>1, <3>2 DEF EndsUnseen
    <3> QED
      BY <1>4, <3>2, <3>3 DEF Alive, EndsUnseen
  <2> QED
    BY <2>1, <2>2
<1>7. QuietIsOld'
  <2>1. quietFor' = 0
    BY <1>1 DEF StatusInv, QuietIsOld
  <2> QED
    BY <1>5, <2>1, StatusBounds DEF StatusTypeOK, QuietIsOld, Row, Ages, Oldest
<1> QED
  BY <1>5, <1>6, <1>7 DEF StatusInv

LEMMA StatusTickInv ==
  ASSUME StatusInv, StatusTick
  PROVE  StatusInv'
<1>1. /\ statusRow' = [statusRow EXCEPT !.age = Older(@)]
      /\ statusRow \in Row /\ statusRow.age \in Ages /\ quietFor \in Ages
      /\ loop \in [StatusWorkers -> Loop]
  BY DEF StatusTick, StatusInv, StatusTypeOK, Row, Loop
<1>2. statusRow' \in Row /\ statusRow'.state = statusRow.state
        /\ statusRow'.age = Older(statusRow.age)
  BY <1>1, AgesGrow DEF Row
<1>3. \A w \in StatusWorkers :
        /\ loop'[w] \in Loop
        /\ loop'[w].at = loop[w].at
        /\ loop'[w].mark = loop[w].mark
        /\ loop'[w].read = loop[w].read
  <2> SUFFICES ASSUME NEW w \in StatusWorkers
               PROVE  /\ loop'[w] \in Loop
                      /\ loop'[w].at = loop[w].at
                      /\ loop'[w].mark = loop[w].mark
                      /\ loop'[w].read = loop[w].read
    OBVIOUS
  <2>1. loop'[w] = loop[w] \/ loop'[w] = [loop[w] EXCEPT !.age = Older(@)]
    BY DEF StatusTick
  <2> QED
    BY <1>1, <2>1, AgesGrow DEF Loop
<1>4. StatusTypeOK'
  <2>1. loop' \in [StatusWorkers -> Loop]
    BY <1>3 DEF StatusTick
  <2> QED
    BY <1>1, <1>2, <2>1, AgesGrow DEF StatusTick, StatusInv, StatusTypeOK, Loop
<1>5. RunningIsTended'
  BY <1>2, <1>3 DEF StatusTick, StatusInv, RunningIsTended, Alive, EndsUnseen
<1>6. QuietIsOld'
  <2>1. CASE \E w \in StatusWorkers : Alive(w)
    BY <1>1, <1>2, <2>1, AgesGrow, StatusBounds DEF StatusTick, QuietIsOld, Ages, Oldest
  <2>2. CASE ~\E w \in StatusWorkers : Alive(w)
    <3>1. quietFor' = Older(quietFor) /\ quietFor <= statusRow.age
      BY <2>2 DEF StatusTick, StatusInv, QuietIsOld
    <3>2. quietFor' <= statusRow'.age
      BY <1>1, <1>2, <3>1, AgesGrow
    <3> QED
      BY <1>3, <2>2, <3>2 DEF QuietIsOld, Alive
  <2> QED
    BY <2>1, <2>2
<1> QED
  BY <1>4, <1>5, <1>6 DEF StatusInv

\* Whoever launches, stops or kills which of any number of workers that share the
\* row: it never says running once all of them have ended, and it is stopped or
\* stale once nobody has been at work for the limit
\* (execution_reconciliation_worker_status.py).
THEOREM StatusHoldsAlways == StatusSpec => []StatusHolds
<1>1. StatusInit => StatusInv
  BY StatusInitInv
<1>2. StatusInv /\ [StatusNext]_statusVars => StatusInv'
  <2> SUFFICES ASSUME StatusInv, [StatusNext]_statusVars PROVE StatusInv'
    OBVIOUS
  <2>1. CASE UNCHANGED statusVars
    BY <2>1 DEF statusVars, StatusInv, StatusTypeOK, RunningIsTended, QuietIsOld, Alive,
                EndsUnseen
  <2> QED
    BY <2>1, LaunchInv, ReadRowInv, WriteRowInv, WorkInv, RequestStopInv, KillInv,
       StatusTickInv DEF StatusNext
<1>3. StatusInv => StatusHolds
  <2> SUFFICES ASSUME StatusInv PROVE StatusHolds
    OBVIOUS
  <2>1. StatusTypeOK
    BY DEF StatusInv
  <2>2. EndsAreReported
    BY DEF StatusInv, RunningIsTended, EndsAreReported
  <2>3. DeadWorkersShow
    BY StatusBounds DEF StatusInv, StatusTypeOK, QuietIsOld, DeadWorkersShow, IsStale, Row, Ages,
                        Oldest
  <2> QED
    BY <2>1, <2>2, <2>3 DEF StatusHolds
<1> QED
  BY <1>1, <1>2, <1>3, PTL DEF StatusSpec

----------------------------------------------------------------------------
(* The alerts: greatest elements                                           *)

\* Every nonempty set of natural numbers has a least element: no induction over
\* data, the order of the natural numbers is well-founded.
LEMMA HasLeast ==
  ASSUME NEW S \in SUBSET Nat, S # {}
  PROVE  \E m \in S : \A n \in S : m <= n
<1>1. PICK m \in S : \A n \in S : ~(<<n, m>> \in OpToRel(<, Nat))
  BY NatLessThanWellFounded, WFMin
<1>2. ASSUME NEW n \in S PROVE m <= n
  <2>1. ~ (n < m)
    BY <1>1 DEF OpToRel
  <2> QED BY <2>1
<1> QED
  BY <1>2

\* The greatest rule and the latest event exist, and Max finds them.
LEMMA MaxIsGreatest ==
  ASSUME NEW S \in SUBSET Nat, S # {}, NEW bound \in Nat, \A n \in S : n <= bound
  PROVE  Max(S) \in S /\ \A n \in S : n <= Max(S)
<1> DEFINE above == {b \in Nat : \A n \in S : n <= b}
<1>1. PICK b \in above : \A c \in above : b <= c
  BY HasLeast
<1>2. b \in S
  <2> SUFFICES ASSUME b \notin S PROVE FALSE
    OBVIOUS
  <2>1. \A n \in S : n < b
    OBVIOUS
  <2>2. PICK n \in S : TRUE
    OBVIOUS
  <2>3. b \in Nat /\ n \in Nat /\ n < b
    BY <2>1
  <2>4. b - 1 \in Nat /\ \A k \in S : k <= b - 1
    BY <2>1, <2>3
  <2>5. b <= b - 1
    BY <1>1, <2>4
  <2> QED
    BY <2>3, <2>5
<1>3. \E x \in S : \A y \in S : x >= y
  BY <1>2
<1> QED
  BY <1>3 DEF Max

(* The alerts: the invariant                                               *)

RuleStates ==
  {NoRule} \cup [exists: {TRUE}, set: AlertTemplates, enabled: BOOLEAN,
                 last: AlertTimes \cup {NoTime}]
AlertRows ==
  [rule: RuleIds, cooldown: Nat, at: AlertTimes, forced: BOOLEAN, by: Evaluators]
Evaluations ==
  [stage: {"idle", "deciding", "firing", "stamping"}, force: BOOLEAN,
   context: {<<>>} \cup {Context(errors) : errors \in 0..MaxErrors},
   todo: SUBSET RuleIds, known: {<<>>} \cup [RuleIds -> RuleStates],
   rule: RuleStates, since: AlertTimes]

AlertsTyped ==
  /\ rules \in [RuleIds -> RuleStates]
  /\ alerts \in Seq(AlertRows) /\ Len(alerts) <= MaxAlerts
  /\ alertClock \in AlertTimes
  /\ \A i \in DOMAIN alerts : alerts[i].at <= alertClock
  /\ evaluation \in [Evaluators -> Evaluations]
  /\ \A p \in Evaluators : evaluation[p].since <= alertClock

\* A process that evaluates has a rule whose turn it is.
TurnsAreOpen == \A p \in Evaluators : ~Is(p, "idle") => evaluation[p].todo # {}

\* A process about to fire: the cooldown it decided with has passed since each
\* event of its own, and no other process can create one in its name.
FiresAfterCooldown ==
  \A p \in Evaluators : Is(p, "firing") =>
    /\ evaluation[p].rule.exists
    /\ \A i \in DOMAIN alerts :
         alerts[i].rule = NextRule(p) /\ alerts[i].by = p /\ ~evaluation[p].force
           => evaluation[p].since >= alerts[i].at + evaluation[p].rule.set.cooldown

\* A process about to stamp: the event it stamps with is there.
StampsWithEvent ==
  \A p \in Evaluators : Is(p, "stamping") =>
    \E i \in AlertsOf(NextRule(p)) : alerts[i].at = evaluation[p].since

AlertInv ==
  /\ AlertsTyped /\ TurnsAreOpen /\ FiresAfterCooldown /\ StampsWithEvent
  /\ AlertsKeepCooldown /\ HistoryIsTraceable /\ StampsAreEvents

LEMMA RowsAreTyped ==
  ASSUME AlertsTyped
  PROVE  \A i \in DOMAIN alerts : alerts[i].rule \in RuleIds /\ alerts[i].at \in Nat
<1>1. \A i \in DOMAIN alerts : alerts[i] \in AlertRows
  BY DEF AlertsTyped
<1> QED
  BY <1>1, AlertBounds DEF AlertRows, AlertTimes

\* The rule whose turn it is, and the rule as the process read it.
LEMMA TurnIsRule ==
  ASSUME AlertsTyped, NEW p \in Evaluators, evaluation[p].todo # {}
  PROVE  NextRule(p) \in evaluation[p].todo /\ NextRule(p) \in RuleIds
<1> DEFINE todo == evaluation[p].todo
<1>1. todo \subseteq RuleIds
  BY DEF AlertsTyped, Evaluations
<1>2. todo \in SUBSET Nat /\ \A n \in todo : n <= MaxRules
  BY <1>1, AlertBounds DEF RuleIds
<1>3. MaxRules \in Nat
  BY AlertBounds
<1>4. Max(todo) \in todo
  BY <1>2, <1>3, MaxIsGreatest
<1> QED
  BY <1>1, <1>4 DEF NextRule

LEMMA RuleIsTyped ==
  ASSUME AlertsTyped, NEW p \in Evaluators, evaluation[p].todo # {}
  PROVE  RuleAsRead(p) \in RuleStates
<1>1. NextRule(p) \in RuleIds
  BY TurnIsRule
<1>2. evaluation[p].known \in {<<>>} \cup [RuleIds -> RuleStates]
  BY DEF AlertsTyped, Evaluations
<1> QED
  BY <1>1, <1>2 DEF RuleAsRead, AlertsTyped

\* Outside the cooldown, every event of the rule is at least the cooldown old.
LEMMA OutOfCooldown ==
  ASSUME AlertsTyped, NEW r \in RuleIds, NEW cooldown \in Nat, ~InCooldown(r, cooldown),
         NEW i \in DOMAIN alerts, alerts[i].rule = r
  PROVE  alertClock >= alerts[i].at + cooldown
<1> DEFINE times == {alerts[k].at : k \in AlertsOf(r)}
<1>1. \A k \in DOMAIN alerts : alerts[k] \in AlertRows
  BY DEF AlertsTyped
<1>2. \A k \in DOMAIN alerts : alerts[k].at \in Nat /\ alerts[k].at <= alertClock
  BY <1>1, AlertBounds DEF AlertsTyped, AlertRows, AlertTimes
<1>3. alertClock \in Nat
  BY AlertBounds DEF AlertsTyped, AlertTimes
<1>4. times \in SUBSET Nat /\ \A n \in times : n <= alertClock
  BY <1>2 DEF AlertsOf
<1>5. i \in AlertsOf(r) /\ alerts[i].at \in times
  BY DEF AlertsOf
<1>6. Max(times) \in times /\ alerts[i].at <= Max(times)
  BY <1>3, <1>4, <1>5, MaxIsGreatest
<1>7. CASE cooldown = 0
  BY <1>2, <1>3, <1>7
<1>8. CASE cooldown # 0
  <2>1. ~(alertClock - Max(times) < cooldown)
    BY <1>5, <1>8 DEF InCooldown, LatestTime
  <2> QED
    BY <1>2, <1>3, <1>4, <1>6, <2>1
<1> QED
  BY <1>7, <1>8

LEMMA AlertInitInv == AlertInit => AlertInv
<1> SUFFICES ASSUME AlertInit PROVE AlertInv
  OBVIOUS
<1>1. NoRule \in RuleStates /\ 0 \in AlertTimes
  BY AlertBounds DEF RuleStates, AlertTimes
<1>2. Idle \in Evaluations
  BY <1>1 DEF Idle, Evaluations
<1>3. \A p \in Evaluators : evaluation[p] = Idle
  BY DEF AlertInit
<1>4. AlertsTyped
  BY <1>1, <1>2, AlertBounds DEF AlertInit, AlertsTyped, Idle
<1>5. TurnsAreOpen /\ FiresAfterCooldown /\ StampsWithEvent
  BY <1>3 DEF TurnsAreOpen, FiresAfterCooldown, StampsWithEvent, Is, Idle
<1>6. AlertsKeepCooldown /\ HistoryIsTraceable /\ StampsAreEvents
  BY DEF AlertInit, AlertsKeepCooldown, HistoryIsTraceable, StampsAreEvents, NoRule
<1> QED
  BY <1>4, <1>5, <1>6 DEF AlertInv

\* A step of one process that leaves rules, events and the clock alone.
LEMMA EvaluationMoves ==
  ASSUME AlertInv, NEW p \in Evaluators, NEW moved \in Evaluations,
         evaluation' = [evaluation EXCEPT ![p] = moved], OnlyEvaluates,
         moved.since <= alertClock,
         moved.stage # "idle" => moved.todo # {},
         moved.stage = "firing" =>
           /\ moved.rule.exists
           /\ \A i \in DOMAIN alerts :
                alerts[i].rule = Max(moved.todo) /\ alerts[i].by = p /\ ~moved.force
                  => moved.since >= alerts[i].at + moved.rule.set.cooldown,
         moved.stage # "stamping"
  PROVE  AlertInv'
<1>1. /\ evaluation'[p] = moved
      /\ \A q \in Evaluators : q # p => evaluation'[q] = evaluation[q]
      /\ UNCHANGED <<rules, alerts, alertClock>>
  BY DEF AlertInv, AlertsTyped, OnlyEvaluates
<1>2. AlertsTyped'
  BY <1>1 DEF AlertInv, AlertsTyped, AlertRows, RuleStates, Evaluations
<1>3. TurnsAreOpen'
  BY <1>1 DEF AlertInv, TurnsAreOpen, Is
<1>4. FiresAfterCooldown'
  BY <1>1 DEF AlertInv, FiresAfterCooldown, Is, NextRule
<1>5. StampsWithEvent'
  BY <1>1 DEF AlertInv, StampsWithEvent, Is, NextRule, AlertsOf
<1>6. (AlertsKeepCooldown /\ HistoryIsTraceable /\ StampsAreEvents)'
  BY <1>1 DEF AlertInv, AlertsKeepCooldown, HistoryIsTraceable, StampsAreEvents, AlertsOf
<1> QED
  BY <1>2, <1>3, <1>4, <1>5, <1>6 DEF AlertInv

LEMMA AbortAlertsInv ==
  ASSUME AlertInv, NEW p \in Evaluators, AbortAlerts(p)
  PROVE  AlertInv'
<1>1. Idle \in Evaluations /\ Idle.stage = "idle" /\ Idle.since = 0
  BY AlertBounds DEF Idle, Evaluations, RuleStates, AlertTimes
<1>2. 0 <= alertClock
  BY AlertBounds DEF AlertInv, AlertsTyped, AlertTimes
<1> QED
  BY <1>1, <1>2, EvaluationMoves DEF AbortAlerts, Becomes

LEMMA BeginAlertsInv ==
  ASSUME AlertInv, NEW p \in Evaluators, BeginAlerts(p)
  PROVE  AlertInv'
<1> DEFINE todo == {r \in RuleIds : rules[r].exists /\ rules[r].enabled}
<1>1. PICK force \in BOOLEAN, errors \in 0..MaxErrors :
        Becomes(p, Continue([Idle EXCEPT !.stage = "deciding", !.force = force,
          !.context = Context(errors), !.todo = todo, !.known = rules]))
  BY DEF BeginAlerts
<1> DEFINE begun == [Idle EXCEPT !.stage = "deciding", !.force = force,
                       !.context = Context(errors), !.todo = todo, !.known = rules]
<1>2. rules \in [RuleIds -> RuleStates] /\ 0 \in AlertTimes /\ 0 <= alertClock
  BY AlertBounds DEF AlertInv, AlertsTyped, AlertTimes
<1>3. begun \in Evaluations /\ Idle \in Evaluations
  BY <1>2 DEF Idle, Evaluations, RuleStates
<1>4. /\ begun.stage = "deciding" /\ begun.todo = todo /\ begun.since = 0
      /\ Idle.stage = "idle" /\ Idle.since = 0
  BY DEF Idle
<1> HIDE DEF begun
<1>5. \E moved \in {begun, Idle} :
        Becomes(p, moved) /\ (moved.stage # "idle" => moved.todo # {})
  BY <1>1, <1>4 DEF Continue, begun
<1> QED
  BY <1>2, <1>3, <1>4, <1>5, EvaluationMoves DEF BeginAlerts, Becomes

LEMMA DecideRuleInv ==
  ASSUME AlertInv, NEW p \in Evaluators, DecideRule(p)
  PROVE  AlertInv'
<1> DEFINE e == evaluation[p]
           rule == RuleAsRead(p)
           fired == [e EXCEPT !.stage = "firing", !.rule = rule, !.since = alertClock]
           passed == [e EXCEPT !.todo = @ \ {NextRule(p)}]
<1>1. e \in Evaluations /\ e.stage = "deciding" /\ e.todo # {} /\ e.since <= alertClock
  BY DEF DecideRule, AlertInv, AlertsTyped, TurnsAreOpen, Is
<1>2. rule \in RuleStates /\ rule.exists /\ NextRule(p) \in RuleIds
  BY <1>1, RuleIsTyped, TurnIsRule DEF AlertInv, DecideRule
<1>3. rule.set.cooldown \in Nat
  <2>1. rule # NoRule
    BY <1>2 DEF NoRule
  <2>2. rule.set \in AlertTemplates
    BY <1>2, <2>1 DEF RuleStates
  <2> QED
    BY <2>2, AlertBounds
<1>4. alertClock \in AlertTimes /\ alertClock <= alertClock /\ 0 <= alertClock
  BY AlertBounds DEF AlertInv, AlertsTyped, AlertTimes
<1>5. CASE Fires(p, rule)
  <2>1. /\ fired \in Evaluations /\ fired.stage = "firing" /\ fired.rule = rule
        /\ fired.since = alertClock /\ fired.todo = e.todo /\ fired.force = e.force
    BY <1>1, <1>2, <1>4 DEF Evaluations
  <2>2. ASSUME NEW i \in DOMAIN alerts, alerts[i].rule = Max(e.todo), ~e.force
        PROVE  alertClock >= alerts[i].at + rule.set.cooldown
    <3>1. ~InCooldown(NextRule(p), rule.set.cooldown)
      BY <1>5, <2>2 DEF Fires
    <3> QED
      BY <1>2, <1>3, <2>2, <3>1, OutOfCooldown DEF AlertInv, NextRule
  <2>3. Becomes(p, fired) /\ OnlyEvaluates
    BY <1>5 DEF DecideRule
  <2> HIDE DEF fired, rule
  <2> QED
    BY <1>1, <1>2, <1>4, <2>1, <2>2, <2>3, EvaluationMoves DEF Becomes
<1>6. CASE ~Fires(p, rule)
  <2>0. Idle \in Evaluations /\ Idle.stage = "idle" /\ Idle.since = 0
    BY AlertBounds DEF Idle, Evaluations, RuleStates, AlertTimes
  <2>1. passed \in Evaluations /\ passed.stage = "deciding" /\ passed.since = e.since
    BY <1>1 DEF Evaluations
  <2>2. Becomes(p, Continue(passed)) /\ OnlyEvaluates
    BY <1>6 DEF DecideRule
  <2> HIDE DEF passed
  <2>3. \E moved \in {passed, Idle} :
          Becomes(p, moved) /\ (moved.stage # "idle" => moved.todo # {})
    <3>1. CASE passed.todo = {}
      BY <2>0, <2>2, <3>1 DEF Continue
    <3>2. CASE passed.todo # {}
      BY <2>2, <3>2 DEF Continue
    <3> QED
      BY <3>1, <3>2
  <2> QED
    BY <1>1, <1>4, <2>0, <2>1, <2>2, <2>3, EvaluationMoves DEF Becomes
<1> QED
  BY <1>5, <1>6

\* An event: it keeps its distance from the process's own events, and its rule is
\* there because the foreign key asks for it.
LEMMA CreateAlertInv ==
  ASSUME AlertInv, NEW p \in Evaluators, CreateAlert(p)
  PROVE  AlertInv'
<1> DEFINE e == evaluation[p]
           r == NextRule(p)
           last == Len(alerts) + 1
<1>1. /\ e \in Evaluations /\ e.stage = "firing" /\ e.todo # {} /\ e.rule.exists
      /\ e.since \in AlertTimes /\ e.since <= alertClock
  BY DEF CreateAlert, AlertInv, AlertsTyped, TurnsAreOpen, FiresAfterCooldown, Is, Evaluations
<1>2. PICK at \in e.since..alertClock :
        /\ alerts' = Append(alerts, [rule |-> r, cooldown |-> e.rule.set.cooldown,
                                     at |-> at, forced |-> e.force, by |-> p])
        /\ evaluation' = [evaluation EXCEPT ![p] = [e EXCEPT !.stage = "stamping", !.since = at]]
        /\ rules[r].exists
        /\ UNCHANGED <<rules, alertClock, edits>>
  BY DEF CreateAlert, Becomes
<1> DEFINE row == [rule |-> r, cooldown |-> e.rule.set.cooldown, at |-> at,
                   forced |-> e.force, by |-> p]
           moved == [e EXCEPT !.stage = "stamping", !.since = at]
<1>3. r \in RuleIds
  BY <1>1, TurnIsRule DEF AlertInv
<1>4. e.rule.set.cooldown \in Nat
  <2>1. e.rule \in RuleStates /\ e.rule # NoRule
    BY <1>1 DEF Evaluations, NoRule
  <2>2. e.rule.set \in AlertTemplates
    BY <2>1 DEF RuleStates
  <2> QED
    BY <2>2, AlertBounds
<1>5. at \in AlertTimes /\ at <= alertClock /\ at >= e.since
  BY <1>1, <1>2, AlertBounds DEF AlertInv, AlertsTyped, AlertTimes
<1>6. row \in AlertRows
  BY <1>1, <1>3, <1>4, <1>5 DEF AlertRows, Evaluations
<1>7. /\ moved \in Evaluations /\ moved.stage = "stamping" /\ moved.since = at
      /\ moved.todo = e.todo
  BY <1>1, <1>5 DEF Evaluations
<1>8. alerts \in Seq(AlertRows) /\ \A i \in DOMAIN alerts : alerts[i] \in AlertRows
  BY DEF AlertInv, AlertsTyped
<1>9. alerts' = Append(alerts, row) /\ evaluation' = [evaluation EXCEPT ![p] = moved]
  BY <1>2
<1>10. row.rule = r /\ row.at = at /\ row.by = p /\ row.cooldown = e.rule.set.cooldown
         /\ row.forced = e.force
  OBVIOUS
<1> HIDE DEF row, moved
<1>11. /\ last \in Nat /\ last >= 1 /\ DOMAIN alerts = 1..(last - 1) /\ DOMAIN alerts' = 1..last
       /\ alerts'[last] = row
       /\ \A i \in DOMAIN alerts : alerts'[i] = alerts[i]
  BY <1>6, <1>8, <1>9
<1>12. /\ evaluation'[p] = moved
       /\ \A q \in Evaluators : q # p => evaluation'[q] = evaluation[q]
  BY <1>9 DEF AlertInv, AlertsTyped
<1> HIDE DEF e, last
<1>13. AlertsTyped'
  <2>1. alerts' \in Seq(AlertRows)
    BY <1>6, <1>8, <1>9
  <2>2. Len(alerts') <= MaxAlerts
    <3>1. Len(alerts) < MaxAlerts /\ Len(alerts') = Len(alerts) + 1
      BY <1>6, <1>8, <1>9 DEF CreateAlert
    <3> QED
      BY <1>8, <3>1, AlertBounds
  <2>3. \A i \in DOMAIN alerts' : alerts'[i].at <= alertClock
    BY <1>5, <1>10, <1>11 DEF AlertInv, AlertsTyped
  <2>4. evaluation' \in [Evaluators -> Evaluations]
    BY <1>7, <1>9 DEF AlertInv, AlertsTyped
  <2>5. \A q \in Evaluators : evaluation'[q].since <= alertClock
    BY <1>5, <1>7, <1>12 DEF AlertInv, AlertsTyped
  <2>6. rules \in [RuleIds -> RuleStates] /\ alertClock \in AlertTimes
    BY DEF AlertInv, AlertsTyped
  <2> QED
    BY <1>2, <2>1, <2>2, <2>3, <2>4, <2>5, <2>6 DEF AlertsTyped
<1>14. TurnsAreOpen'
  BY <1>1, <1>7, <1>12 DEF AlertInv, TurnsAreOpen, Is
<1>15. FiresAfterCooldown'
  <2> SUFFICES ASSUME NEW q \in Evaluators, Is(q, "firing")'
               PROVE  /\ evaluation'[q].rule.exists
                      /\ \A i \in DOMAIN alerts' :
                           alerts'[i].rule = NextRule(q)' /\ alerts'[i].by = q
                               /\ ~evaluation'[q].force
                             => evaluation'[q].since
                                  >= alerts'[i].at + evaluation'[q].rule.set.cooldown
    BY DEF FiresAfterCooldown
  <2>1. q # p /\ evaluation'[q] = evaluation[q]
    BY <1>7, <1>12 DEF Is
  <2>2. Is(q, "firing") /\ NextRule(q)' = NextRule(q)
    BY <2>1 DEF Is, NextRule
  <2>3. ASSUME NEW i \in DOMAIN alerts', alerts'[i].by = q
        PROVE  i \in DOMAIN alerts /\ alerts'[i] = alerts[i]
    BY <1>10, <1>11, <2>1, <2>3
  <2> QED
    BY <2>1, <2>2, <2>3 DEF AlertInv, FiresAfterCooldown
<1>16. StampsWithEvent'
  <2> SUFFICES ASSUME NEW q \in Evaluators, Is(q, "stamping")'
               PROVE  \E i \in DOMAIN alerts' :
                        alerts'[i].rule = NextRule(q)' /\ alerts'[i].at = evaluation'[q].since
    BY DEF StampsWithEvent, AlertsOf
  <2>1. CASE q = p
    <3>1. NextRule(p)' = r
      BY <1>7, <1>12 DEF NextRule, e
    <3>2. last \in DOMAIN alerts' /\ alerts'[last].rule = r /\ alerts'[last].at = at
      BY <1>10, <1>11
    <3>3. evaluation'[p].since = at
      BY <1>7, <1>12
    <3> QED
      BY <2>1, <3>1, <3>2, <3>3
  <2>2. CASE q # p
    <3>1. Is(q, "stamping") /\ NextRule(q)' = NextRule(q) /\ evaluation'[q] = evaluation[q]
      BY <1>12, <2>2 DEF Is, NextRule
    <3> QED
      BY <1>11, <3>1 DEF AlertInv, StampsWithEvent, AlertsOf
  <2> QED
    BY <2>1, <2>2
<1>17. AlertsKeepCooldown'
  <2> SUFFICES ASSUME NEW j \in DOMAIN alerts', NEW i \in 1..(j - 1),
                      alerts'[i].rule = alerts'[j].rule, alerts'[i].by = alerts'[j].by,
                      ~alerts'[j].forced
               PROVE  alerts'[j].at >= alerts'[i].at + alerts'[j].cooldown
    BY DEF AlertsKeepCooldown
  <2>1. i \in DOMAIN alerts /\ alerts'[i] = alerts[i]
    BY <1>11
  <2>2. CASE j = last
    <3>1. e.since >= alerts[i].at + e.rule.set.cooldown
      BY <1>1, <1>10, <1>11, <2>1, <2>2 DEF AlertInv, FiresAfterCooldown, Is, e
    <3>2. alerts[i].at \in Int /\ at \in Int /\ e.since \in Int
      BY <1>1, <1>5, <1>8, <2>1, AlertBounds DEF AlertRows, AlertTimes
    <3> QED
      BY <1>4, <1>5, <1>10, <1>11, <2>1, <2>2, <3>1, <3>2
  <2>3. CASE j # last
    <3>1. j \in DOMAIN alerts /\ alerts'[j] = alerts[j]
      BY <1>11, <2>3
    <3> QED
      BY <2>1, <3>1 DEF AlertInv, AlertsKeepCooldown
  <2> QED
    BY <2>2, <2>3
<1>18. HistoryIsTraceable'
  <2>1. rules' = rules /\ rules[r].exists
    BY <1>2
  <2> QED
    BY <1>10, <1>11, <2>1 DEF AlertInv, HistoryIsTraceable
<1>19. StampsAreEvents'
  BY <1>2, <1>11 DEF AlertInv, StampsAreEvents, AlertsOf
<1> QED
  BY <1>13, <1>14, <1>15, <1>16, <1>17, <1>18, <1>19 DEF AlertInv

\* The time goes into the rule: it is the time of an event of the rule.
LEMMA StampRuleInv ==
  ASSUME AlertInv, NEW p \in Evaluators, StampRule(p)
  PROVE  AlertInv'
<1> DEFINE e == evaluation[p]
           r == NextRule(p)
           left == [e EXCEPT !.stage = "deciding", !.todo = @ \ {NextRule(p)},
                             !.known = <<>>, !.rule = NoRule, !.since = 0]
<1>1. e \in Evaluations /\ e.stage = "stamping" /\ e.todo # {} /\ e.since \in AlertTimes
  BY DEF StampRule, AlertInv, AlertsTyped, TurnsAreOpen, Is, Evaluations
<1>2. r \in RuleIds
  BY <1>1, TurnIsRule DEF AlertInv
<1>3. PICK i \in AlertsOf(r) : alerts[i].at = e.since
  BY <1>1 DEF AlertInv, StampsWithEvent, Is
<1>4. rules[r].exists /\ rules[r] \in RuleStates
  BY <1>2, <1>3 DEF AlertInv, AlertsTyped, HistoryIsTraceable, AlertsOf
<1>5. /\ rules' = [rules EXCEPT ![r].last = e.since]
      /\ evaluation' = [evaluation EXCEPT ![p] = Continue(left)]
      /\ UNCHANGED <<alerts, alertClock, edits>>
  BY DEF StampRule, Becomes
<1>6. /\ left \in Evaluations /\ left.since = 0 /\ left.stage = "deciding"
      /\ Idle \in Evaluations /\ Idle.since = 0 /\ Idle.stage = "idle"
  <2>1. NoRule \in RuleStates /\ 0 \in AlertTimes
    BY AlertBounds DEF RuleStates, AlertTimes
  <2>2. left \in Evaluations /\ left.since = 0 /\ left.stage = "deciding"
    BY <1>1, <2>1 DEF Evaluations
  <2> QED
    BY <2>1, <2>2 DEF Evaluations, Idle
<1> HIDE DEF left
<1>7. PICK moved \in Evaluations :
        /\ evaluation' = [evaluation EXCEPT ![p] = moved]
        /\ moved.since = 0 /\ moved.stage \in {"idle", "deciding"}
        /\ moved.stage # "idle" => moved.todo # {}
  <2>1. CASE left.todo = {}
    BY <1>5, <1>6, <2>1 DEF Continue
  <2>2. CASE left.todo # {}
    BY <1>5, <1>6, <2>2 DEF Continue
  <2> QED
    BY <2>1, <2>2
<1>8. /\ evaluation'[p] = moved
      /\ \A q \in Evaluators : q # p => evaluation'[q] = evaluation[q]
  BY <1>7 DEF AlertInv, AlertsTyped
<1>9. rules'[r] \in RuleStates /\ rules'[r].exists /\ rules'[r].last = e.since
  <2>1. rules[r] # NoRule
    BY <1>4 DEF NoRule
  <2>2. rules'[r] = [rules[r] EXCEPT !.last = e.since]
    BY <1>2, <1>5 DEF AlertInv, AlertsTyped
  <2> QED
    BY <1>1, <1>4, <2>1, <2>2 DEF RuleStates
<1>10. \A q \in RuleIds : q # r => rules'[q] = rules[q]
  BY <1>5 DEF AlertInv, AlertsTyped
<1> HIDE DEF e, r
<1>11. AlertsTyped'
  <2>1. rules' \in [RuleIds -> RuleStates]
    BY <1>5, <1>9, <1>10 DEF AlertInv, AlertsTyped
  <2>2. evaluation' \in [Evaluators -> Evaluations]
    BY <1>7 DEF AlertInv, AlertsTyped
  <2>3. alertClock >= 0
    BY AlertBounds DEF AlertInv, AlertsTyped, AlertTimes
  <2>4. \A q \in Evaluators : evaluation'[q].since <= alertClock
    BY <1>7, <1>8, <2>3 DEF AlertInv, AlertsTyped
  <2> QED
    BY <1>5, <2>1, <2>2, <2>4 DEF AlertInv, AlertsTyped
<1>12. TurnsAreOpen'
  BY <1>7, <1>8 DEF AlertInv, TurnsAreOpen, Is
<1>13. FiresAfterCooldown'
  BY <1>5, <1>7, <1>8 DEF AlertInv, FiresAfterCooldown, Is, NextRule
<1>14. StampsWithEvent'
  BY <1>5, <1>7, <1>8 DEF AlertInv, StampsWithEvent, Is, NextRule, AlertsOf
<1>15. AlertsKeepCooldown' /\ HistoryIsTraceable'
  <2>1. \A k \in DOMAIN alerts : alerts[k].rule \in RuleIds
    BY RowsAreTyped DEF AlertInv
  <2> QED
    BY <1>5, <1>9, <1>10, <2>1 DEF AlertInv, AlertsKeepCooldown, HistoryIsTraceable
<1>16. StampsAreEvents'
  BY <1>3, <1>5, <1>9, <1>10 DEF AlertInv, StampsAreEvents, AlertsOf, e
<1> QED
  BY <1>11, <1>12, <1>13, <1>14, <1>15, <1>16 DEF AlertInv

\* A client's change of one rule, which keeps a rule that has events.
LEMMA RuleChanges ==
  ASSUME AlertInv, NEW r \in RuleIds, NEW changed \in RuleStates,
         rules' = [rules EXCEPT ![r] = changed],
         UNCHANGED <<alerts, evaluation, alertClock>>,
         AlertsOf(r) # {} => changed.exists,
         changed.exists /\ changed.last # NoTime
           => \E i \in AlertsOf(r) : alerts[i].at = changed.last
  PROVE  AlertInv'
<1>1. rules'[r] = changed /\ \A q \in RuleIds : q # r => rules'[q] = rules[q]
  BY DEF AlertInv, AlertsTyped
<1>2. AlertsTyped'
  BY <1>1 DEF AlertInv, AlertsTyped, RuleStates, Evaluations, AlertRows
<1>3. TurnsAreOpen' /\ FiresAfterCooldown' /\ StampsWithEvent' /\ AlertsKeepCooldown'
  BY DEF AlertInv, TurnsAreOpen, FiresAfterCooldown, StampsWithEvent, AlertsKeepCooldown, Is,
         NextRule, AlertsOf
<1>4. HistoryIsTraceable'
  <2>1. \A i \in DOMAIN alerts : alerts[i].rule \in RuleIds
    BY RowsAreTyped DEF AlertInv
  <2> QED
    BY <1>1, <2>1 DEF AlertInv, HistoryIsTraceable, AlertsOf
<1>5. StampsAreEvents'
  BY <1>1 DEF AlertInv, StampsAreEvents, AlertsOf
<1> QED
  BY <1>2, <1>3, <1>4, <1>5 DEF AlertInv

LEMMA CreateRuleInv ==
  ASSUME AlertInv, NEW r \in RuleIds, CreateRule(r)
  PROVE  AlertInv'
<1>1. PICK template \in AlertTemplates : rules' = [rules EXCEPT ![r] = RuleFrom(template)]
  BY DEF CreateRule
<1>2. /\ RuleFrom(template) \in RuleStates /\ RuleFrom(template).exists
      /\ RuleFrom(template).last = NoTime
  BY DEF RuleFrom, RuleStates
<1> QED
  BY <1>1, <1>2, RuleChanges DEF CreateRule

LEMMA UpdateRuleInv ==
  ASSUME AlertInv, NEW r \in RuleIds, UpdateRule(r)
  PROVE  AlertInv'
<1>1. rules \in [RuleIds -> RuleStates] /\ rules[r].exists /\ rules[r] # NoRule
  BY DEF UpdateRule, AlertInv, AlertsTyped, NoRule
<1>2. \E changed \in RuleStates :
        /\ rules' = [rules EXCEPT ![r] = changed]
        /\ changed.exists /\ changed.last = rules[r].last
  <2>1. CASE \E template \in AlertTemplates : rules' = [rules EXCEPT ![r].set = template]
    <3>1. PICK template \in AlertTemplates : rules' = [rules EXCEPT ![r].set = template]
      BY <2>1
    <3> DEFINE changed == [rules[r] EXCEPT !.set = template]
    <3>2. changed \in RuleStates /\ changed.exists /\ changed.last = rules[r].last
      BY <1>1 DEF RuleStates
    <3> QED
      BY <3>1, <3>2
  <2>2. CASE rules' = [rules EXCEPT ![r].enabled = ~@]
    <3> DEFINE changed == [rules[r] EXCEPT !.enabled = ~@]
    <3>1. changed \in RuleStates /\ changed.exists /\ changed.last = rules[r].last
      BY <1>1 DEF RuleStates
    <3> QED
      BY <2>2, <3>1
  <2> QED
    BY <2>1, <2>2 DEF UpdateRule
<1>3. rules[r].last # NoTime => \E i \in AlertsOf(r) : alerts[i].at = rules[r].last
  BY <1>1 DEF AlertInv, StampsAreEvents
<1>4. PICK changed \in RuleStates :
        /\ rules' = [rules EXCEPT ![r] = changed]
        /\ changed.exists /\ changed.last = rules[r].last
  BY <1>2
<1>5. changed.last # NoTime => \E i \in AlertsOf(r) : alerts[i].at = changed.last
  BY <1>3, <1>4
<1> QED
  BY <1>4, <1>5, RuleChanges DEF UpdateRule

LEMMA DeleteRuleInv ==
  ASSUME AlertInv, NEW r \in RuleIds, DeleteRule(r)
  PROVE  AlertInv'
<1>1. NoRule \in RuleStates /\ ~NoRule.exists
  BY DEF RuleStates, NoRule
<1> QED
  BY <1>1, RuleChanges DEF DeleteRule

LEMMA AlertTickInv ==
  ASSUME AlertInv, AlertTick
  PROVE  AlertInv'
<1>1. alertClock' \in AlertTimes /\ alertClock \in Nat /\ alertClock' = alertClock + 1
  BY AlertBounds DEF AlertTick, AlertInv, AlertsTyped, AlertTimes
<1>2. UNCHANGED <<rules, alerts, evaluation>>
  BY DEF AlertTick
<1>3. /\ \A i \in DOMAIN alerts : alerts[i].at \in Nat
      /\ \A p \in Evaluators : evaluation[p].since \in Nat
  <2>1. evaluation \in [Evaluators -> Evaluations]
    BY DEF AlertInv, AlertsTyped
  <2> QED
    BY <2>1, RowsAreTyped, AlertBounds DEF AlertInv, Evaluations, AlertTimes
<1>4. AlertsTyped'
  <2>1. /\ rules' \in [RuleIds -> RuleStates]
        /\ alerts' \in Seq(AlertRows) /\ Len(alerts') <= MaxAlerts
        /\ evaluation' \in [Evaluators -> Evaluations]
    BY <1>2 DEF AlertInv, AlertsTyped
  <2>2. /\ \A i \in DOMAIN alerts : alerts[i].at <= alertClock'
        /\ \A p \in Evaluators : evaluation[p].since <= alertClock'
    BY <1>1, <1>3 DEF AlertInv, AlertsTyped
  <2> QED
    BY <1>1, <1>2, <2>1, <2>2 DEF AlertsTyped
<1> QED
  BY <1>2, <1>4 DEF AlertInv, TurnsAreOpen, FiresAfterCooldown, StampsWithEvent,
     AlertsKeepCooldown, HistoryIsTraceable, StampsAreEvents, Is, NextRule, AlertsOf

\* Over any number of processes that evaluate the rules at once, die anywhere and
\* meet changed and deleted rules: the process that decides keeps the cooldown of
\* its own events, every event can be traced to its rule, and what a rule says of
\* its last trigger is the time of one of its events (alert_event.py).
THEOREM AlertsHoldAlways == AlertSpec => []AlertsHold
<1>1. AlertInit => AlertInv
  BY AlertInitInv
<1>2. AlertInv /\ [AlertNext]_alertVars => AlertInv'
  <2> SUFFICES ASSUME AlertInv, [AlertNext]_alertVars PROVE AlertInv'
    OBVIOUS
  <2>1. CASE UNCHANGED alertVars
    BY <2>1 DEF alertVars, AlertInv, AlertsTyped, TurnsAreOpen, FiresAfterCooldown,
       StampsWithEvent, AlertsKeepCooldown, HistoryIsTraceable, StampsAreEvents, Is, NextRule,
       AlertsOf, AlertRows, Evaluations, RuleStates
  <2> QED
    BY <2>1, BeginAlertsInv, DecideRuleInv, CreateAlertInv, StampRuleInv, AbortAlertsInv,
       CreateRuleInv, UpdateRuleInv, DeleteRuleInv, AlertTickInv DEF AlertNext, EvaluateAlerts
<1>3. AlertInv => AlertsHold
  <2> SUFFICES ASSUME AlertInv PROVE AlertsHold
    OBVIOUS
  <2>1. \A r \in RuleIds : rules[r].exists => rules[r].set \in AlertTemplates
                                           /\ rules[r].last \in AlertTimes \cup {NoTime}
    <3> SUFFICES ASSUME NEW r \in RuleIds, rules[r].exists
                 PROVE  rules[r].set \in AlertTemplates
                        /\ rules[r].last \in AlertTimes \cup {NoTime}
      OBVIOUS
    <3>1. rules[r] \in RuleStates /\ rules[r] # NoRule
      BY DEF AlertInv, AlertsTyped, NoRule
    <3> QED
      BY <3>1 DEF RuleStates
  <2>2. AlertTypeOK
    <3>1. evaluation \in [Evaluators -> Evaluations]
      BY DEF AlertInv, AlertsTyped
    <3>2. \A p \in Evaluators : evaluation[p].todo \subseteq RuleIds
      BY <3>1 DEF Evaluations
    <3> QED
      BY <2>1, <3>2, RowsAreTyped DEF AlertInv, AlertsTyped, AlertTypeOK
  <2> QED
    BY <2>2 DEF AlertInv, AlertsHold
<1> QED
  BY <1>1, <1>2, <1>3, PTL DEF AlertSpec

=============================================================================
