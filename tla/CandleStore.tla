----------------------------- MODULE CandleStore -----------------------------
(***************************************************************************)
(* One row of market_candles and the server processes that upsert it       *)
(* (repositories/market_candle.py, services/market_candle.py).  An upsert  *)
(* reads the row by its unique key and then inserts it, or commits an      *)
(* UPDATE of the columns that differ from what it read.                    *)
(***************************************************************************)
EXTENDS Integers

CONSTANTS
  CandleWriters,  \* server processes
  CandlePrices    \* prices of candles

ASSUME CandleAssumption == CandlePrices \subseteq Nat \ {0}

VARIABLES
  candle,   \* the row
  upsert,   \* what each process is doing
  mingled   \* two upserts have been under way at once

candleVars == <<candle, upsert, mingled>>

----------------------------------------------------------------------------
NoCandle == [open |-> 0, high |-> 0, low |-> 0, close |-> 0]

\* validate_candle_shape
WellShaped(c) ==
  /\ c.high >= c.open /\ c.high >= c.close /\ c.high >= c.low
  /\ c.low <= c.open /\ c.low <= c.close

\* What MarketCandleCreate lets through.
Candles == {c \in [open: CandlePrices, high: CandlePrices, low: CandlePrices,
                   close: CandlePrices] : WellShaped(c)}

Resting == [stage |-> "idle", offered |-> NoCandle, read |-> NoCandle]

CandleInit ==
  /\ candle = NoCandle
  /\ upsert = [w \in CandleWriters |-> Resting]
  /\ mingled = FALSE

\* get_by_unique_key
ReadCandle(w) ==
  /\ upsert[w].stage = "idle"
  /\ \E c \in Candles :
       upsert' = [upsert EXCEPT ![w] = [stage |-> "read", offered |-> c, read |-> candle]]
  /\ mingled' = (mingled \/ \E v \in CandleWriters \ {w} : upsert[v].stage # "idle")
  /\ UNCHANGED candle

\* Mutant: the high price of a candle that exists is not updated.
MergedWithoutHigh(row, read, offered) == [offered EXCEPT !.high = row.high]

\* The row after the UPDATE.
Merged(row, read, offered) ==
  [column \in DOMAIN row |->
     IF offered[column] = read[column] THEN row[column] ELSE offered[column]]

WriteCandle(w) ==
  LET u == upsert[w] IN
  /\ u.stage = "read"
  /\ IF u.read = NoCandle THEN candle = NoCandle /\ candle' = u.offered
     ELSE candle' = Merged(candle, u.read, u.offered)
  /\ upsert' = [upsert EXCEPT ![w] = Resting]
  /\ UNCHANGED mingled

\* The insert meets a row of the same key, or the process dies: the request
\* ends; the candles it has upserted before stay.
LoseCandle(w) ==
  /\ upsert[w].stage # "idle"
  /\ upsert' = [upsert EXCEPT ![w] = Resting]
  /\ UNCHANGED <<candle, mingled>>

CandleNext ==
  \E w \in CandleWriters : ReadCandle(w) \/ WriteCandle(w) \/ LoseCandle(w)

CandleSpec == CandleInit /\ [][CandleNext]_candleVars

----------------------------------------------------------------------------
(* Properties                                                              *)

\* A stored candle is one that could have been offered, high above everything
\* and low below it, as long as no two processes have upserted it at once: the
\* changed columns of two requests may otherwise make a candle nobody offered,
\* and the strategies read it (market_candle.py:43).
CandlesAreWhole == candle = NoCandle \/ mingled \/ candle \in Candles
===========================================================================
