----------------------------- MODULE MarketData -----------------------------
(***************************************************************************)
(* The latest prices a server process keeps (services/                     *)
(* market_data_service.py), fed by a reconnecting stream of one symbol     *)
(* (data/providers/binance.py), by clients that set a price by hand and by *)
(* requests that fetch one (endpoints/market.py,                           *)
(* services/binance_market_data.py).                                       *)
(*                                                                         *)
(* The event loop runs one step at a time; a fetch awaits the exchange and *)
(* everything else may happen meanwhile.  The exchange is external: quote  *)
(* n is the n-th price it has had.                                         *)
(***************************************************************************)
EXTENDS Integers, Sequences

CONSTANTS
  Symbols,       \* the symbols prices are kept for
  StreamSymbol,  \* the one the provider streams
  Fetches,       \* requests that fetch a price
  ManualPrices,  \* prices set by hand
  MaxQuotes,     \* bound of the model: quotes of the exchange
  MaxOnWire      \* bound of the model: stream messages under way

ASSUME MarketAssumption ==
  /\ StreamSymbol \in Symbols
  /\ {MaxQuotes, MaxOnWire} \subseteq Nat

VARIABLES
  latest,    \* _latest_by_symbol
  manual,    \* _manual_price_symbols
  byHand,    \* the last price set by hand, per symbol
  stream,    \* the consumer task and its connection
  wire,      \* messages of the connection not yet received
  quote,     \* the number of the exchange's current quote
  fetch      \* the fetching requests

marketVars == <<latest, manual, byHand, stream, wire, quote, fetch>>

----------------------------------------------------------------------------
Quotes == 1..MaxQuotes
NoPrice == [from |-> "nobody", price |-> 0]
Manual(price) == [from |-> "manual", price |-> price]
Provider(price) == [from |-> "binance", price |-> price]

\* Messages: a ticker with the quote, one without a price, one that is not a
\* ticker.
Message(kind) == [kind |-> kind, price |-> IF kind = "ticker" THEN quote ELSE 0]

NoFetch == [stage |-> "idle", symbol |-> StreamSymbol, price |-> 0]

MarketInit ==
  /\ latest = [s \in Symbols |-> NoPrice]
  /\ manual = {}
  /\ byHand = [s \in Symbols |-> 0]
  /\ stream = "off"
  /\ wire = <<>>
  /\ quote = 1
  /\ fetch = [f \in Fetches |-> NoFetch]

\* The exchange moves on.
Requote ==
  /\ quote < MaxQuotes
  /\ quote' = quote + 1
  /\ UNCHANGED <<latest, manual, byHand, stream, wire, fetch>>

\* start(): the consumer task connects; nothing happens when it is running.
StartStream ==
  /\ stream = "off"
  /\ stream' = "connecting"
  /\ UNCHANGED <<latest, manual, byHand, wire, quote, fetch>>

ConnectStream ==
  /\ stream = "connecting"
  /\ stream' = "open"
  /\ UNCHANGED <<latest, manual, byHand, wire, quote, fetch>>

\* The connection cannot be made, breaks or is closed: after a delay the
\* provider connects again.  What was under way is lost.
LoseStream ==
  /\ stream \in {"connecting", "open"}
  /\ stream' = "connecting"
  /\ wire' = <<>>
  /\ UNCHANGED <<latest, manual, byHand, quote, fetch>>

\* stop(): the task is cancelled.
StopStream ==
  /\ stream # "off"
  /\ stream' = "off"
  /\ wire' = <<>>
  /\ UNCHANGED <<latest, manual, byHand, quote, fetch>>

SendMessage ==
  /\ stream = "open"
  /\ Len(wire) < MaxOnWire
  /\ \E kind \in {"ticker", "priceless", "garbage"} : wire' = Append(wire, Message(kind))
  /\ UNCHANGED <<latest, manual, byHand, stream, quote, fetch>>

\* parse_message refuses what is not a ticker; _run then asks for manual prices.
Accepts(s, message) == message.kind # "garbage" /\ s \notin manual

ReceiveMessage ==
  /\ stream = "open"
  /\ wire # <<>>
  /\ wire' = Tail(wire)
  /\ latest' = IF Accepts(StreamSymbol, Head(wire))
               THEN [latest EXCEPT ![StreamSymbol] = Provider(Head(wire).price)]
               ELSE latest
  /\ UNCHANGED <<manual, byHand, stream, quote, fetch>>

\* set_price without a provider: the price is set by hand.
SetPrice(s, price) ==
  /\ manual' = manual \cup {s}
  /\ latest' = [latest EXCEPT ![s] = Manual(price)]
  /\ byHand' = [byHand EXCEPT ![s] = price]
  /\ UNCHANGED <<stream, wire, quote, fetch>>

\* fetch_latest_price sends its request.
BeginFetch(f) ==
  /\ fetch[f].stage = "idle"
  /\ \E s \in Symbols :
       fetch' = [fetch EXCEPT ![f] = [stage |-> "asking", symbol |-> s, price |-> 0]]
  /\ UNCHANGED <<latest, manual, byHand, stream, wire, quote>>

\* The exchange answers with its price of the moment.
AnswerFetch(f) ==
  /\ fetch[f].stage = "asking"
  /\ fetch' = [fetch EXCEPT ![f].stage = "answered", ![f].price = quote]
  /\ UNCHANGED <<latest, manual, byHand, stream, wire, quote>>

\* No answer, an error status, or a price that is no positive number: 502.
FailFetch(f) ==
  /\ fetch[f].stage # "idle"
  /\ fetch' = [fetch EXCEPT ![f] = NoFetch]
  /\ UNCHANGED <<latest, manual, byHand, stream, wire, quote>>

\* Mutant: the symbol stays manual.
FinishFetchMasked(f) ==
  /\ fetch[f].stage = "answered"
  /\ latest' = [latest EXCEPT ![fetch[f].symbol] = Provider(fetch[f].price)]
  /\ fetch' = [fetch EXCEPT ![f] = NoFetch]
  /\ UNCHANGED <<manual, byHand, stream, wire, quote>>

\* The handler goes on after its await: set_price with the provider's name.
FinishFetch(f) ==
  /\ fetch[f].stage = "answered"
  /\ latest' = [latest EXCEPT ![fetch[f].symbol] = Provider(fetch[f].price)]
  /\ manual' = manual \ {fetch[f].symbol}
  /\ fetch' = [fetch EXCEPT ![f] = NoFetch]
  /\ UNCHANGED <<byHand, stream, wire, quote>>

MarketNext ==
  \/ Requote
  \/ StartStream \/ ConnectStream \/ LoseStream \/ StopStream
  \/ SendMessage \/ ReceiveMessage
  \/ \E s \in Symbols, price \in ManualPrices : SetPrice(s, price)
  \/ \E f \in Fetches : BeginFetch(f) \/ AnswerFetch(f) \/ FailFetch(f) \/ FinishFetch(f)

MarketSpec == MarketInit /\ [][MarketNext]_marketVars

----------------------------------------------------------------------------
(* Properties                                                              *)

\* Prices, connection and requests have the shape the code gives them; quotes
\* are ones the exchange has had.
MarketTypeOK ==
  /\ \A s \in Symbols :
       \/ latest[s] = NoPrice
       \/ latest[s] \in {Manual(price) : price \in ManualPrices}
       \/ latest[s] \in {Provider(price) : price \in 0..quote}
  /\ manual \subseteq Symbols
  /\ stream \in {"off", "connecting", "open"}
  /\ stream # "open" => wire = <<>>
  /\ \A f \in Fetches : fetch[f].stage \in {"idle", "asking", "answered"}
                          /\ fetch[f].price <= quote

\* A price set by hand stands until a fetched price replaces it, whatever the
\* stream delivers meanwhile, across every loss of the connection and restart
\* of the consumer; and once it is replaced the stream is heard again
\* (market_data_service.py:76).  A fetch that began before the price was set
\* replaces it too.
ManualPriceHolds ==
  \A s \in Symbols :
    /\ latest[s].from = "manual" <=> s \in manual
    /\ s \in manual => latest[s].price = byHand[s]

\* What evaluations trade at, over prices set by hand, fetches, stream events
\* and lost connections.
PricesHold == MarketTypeOK /\ ManualPriceHolds
===========================================================================
