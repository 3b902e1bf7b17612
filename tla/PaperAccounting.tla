--------------------------- MODULE PaperAccounting ---------------------------
(***************************************************************************)
(* What fills make of cash, average prices and profits: the shared account *)
(* and its position, the books of each bot, the accounting events, the     *)
(* equity snapshots, and the summaries computed from them.                 *)
(*                                                                         *)
(* Traders are bots and manual orders without a bot.  An order reads the   *)
(* account and the position first and gets the account's lock later, and   *)
(* its session answers the second read with the values of the first; what  *)
(* it then writes are the columns it changed.  A bot's own rows are read   *)
(* and written under the bot's lock, by one order at a time.               *)
(*                                                                         *)
(* Quantities are whole lots and money whole units of a stored amount, so  *)
(* only the division in an average price is rounded, when it is stored.    *)
(*                                                                         *)
(* `overtaken` remembers that an order wrote values computed from rows     *)
(* that had changed since it read them.  What follows from that is shown   *)
(* with PaperExecution; here the books are held to their sums as long as   *)
(* it has not happened.                                                    *)
(***************************************************************************)
EXTENDS Integers, Sequences

CONSTANTS
  Owners,          \* bots
  NoBot,           \* orders without a bot
  FillPrices,
  FillQuantities,
  FillFee,
  OwnStart,        \* the default draft balance of a bot
  Balances,        \* starting balances of the shared account
  MaxTrades,       \* bound of the model: orders
  MaxAccountResets \* bound of the model: resets of the shared account

Traders == Owners \cup {NoBot}

ASSUME AccountAssumption ==
  /\ NoBot \notin Owners
  /\ FillPrices \subseteq Nat /\ FillQuantities \subseteq Nat \ {0} /\ FillFee \in Nat
  /\ OwnStart \in Nat /\ Balances \subseteq Nat

VARIABLES
  wallet,     \* portfolio_accounts: starting and current cash
  shared,     \* positions: the row of the symbol
  own,        \* draft balance and paper position of each bot
  snapshot,   \* the latest paper_equity_snapshots row of each bot
  booked,     \* sums of paper_accounting_events since the last reset
  placed,     \* the order of each trader
  placements, \* orders so far
  resets,     \* resets so far
  slack,      \* twice what rounding may have moved in the books, per set of books
  overtaken

accountVars ==
  <<wallet, shared, own, snapshot, booked, placed, placements, resets, slack, overtaken>>

NothingPlaced == [at |-> "none"]
NoSnapshot == [taken |-> FALSE]
Nothing == [cash |-> 0, realized |-> 0]
Flat == [quantity |-> 0, average |-> 0, realized |-> 0]

AccountInit ==
  /\ \E balance \in Balances : wallet = [start |-> balance, cash |-> balance]
  /\ shared = Flat
  /\ own = [b \in Owners |-> [free |-> OwnStart, position |-> Flat]]
  /\ snapshot = [b \in Owners |-> NoSnapshot]
  /\ booked = Nothing
  /\ placed = [t \in Traders |-> NothingPlaced]
  /\ placements = 0 /\ resets = 0
  /\ slack = [books \in Traders |-> 0]
  /\ overtaken = FALSE

----------------------------------------------------------------------------
(* The arithmetic of a fill                                                *)

CostOf(fill) == fill.quantity * fill.price + FillFee
ProceedsOf(fill) == fill.quantity * fill.price - FillFee

\* The average after a buy, rounded half up as a Numeric(18, 8) column rounds.
AverageAfter(position, fill) ==
  LET n == position.quantity * position.average + CostOf(fill)
      d == position.quantity + fill.quantity IN (2 * n + d) \div (2 * d)

\* A position after a buy (_apply_buy_fill, apply_buy_fill).
Increased(position, fill) ==
  [position EXCEPT !.quantity = @ + fill.quantity, !.average = AverageAfter(position, fill)]

ProfitOf(position, fill) == ProceedsOf(fill) - fill.quantity * position.average

\* A position after a sell (_apply_sell_fill, apply_sell_fill).
Decreased(position, fill) ==
  [quantity |-> position.quantity - fill.quantity,
   average |-> IF position.quantity = fill.quantity THEN 0 ELSE position.average,
   realized |-> position.realized + ProfitOf(position, fill)]

\* The columns an order changed replace those of the row, the others stay.
Merge(row, seen, new) ==
  [column \in DOMAIN row |-> IF new[column] = seen[column] THEN row[column] ELSE new[column]]

----------------------------------------------------------------------------
(* Orders                                                                  *)

\* A bot buys when it is flat and sells all it has; manual orders do as they like.
Orders(t) ==
  IF t = NoBot
  THEN [side : {"buy", "sell"}, quantity : FillQuantities, price : FillPrices]
  ELSE IF own[t].position.quantity = 0
  THEN [side : {"buy"}, quantity : FillQuantities, price : FillPrices]
  ELSE [side : {"sell"}, quantity : {own[t].position.quantity}, price : FillPrices]

\* get_account and get_position_by_symbol, without a lock.
BeginOrder(t) ==
  /\ placed[t].at = "none"
  /\ placements < MaxTrades
  /\ \E fill \in Orders(t) :
       placed' = [placed EXCEPT ![t] = [at |-> "read", fill |-> fill,
                                      wallet |-> wallet, shared |-> shared]]
  /\ placements' = placements + 1
  /\ UNCHANGED <<wallet, shared, own, snapshot, booked, resets, slack, overtaken>>

Ordered(t, side) == placed[t].at = "read" /\ placed[t].fill.side = side
OrderEnds(t) ==
  placed' = [placed EXCEPT ![t] = NothingPlaced] /\ UNCHANGED <<placements, resets>>

\* The reservation of a bot, and the cash as the order has seen it.
PaysFor(t) ==
  /\ t # NoBot => own[t].free >= CostOf(placed[t].fill)
  /\ placed[t].wallet.cash >= CostOf(placed[t].fill)

\* The shared position, as the order has seen it, can follow.
Covers(t) == placed[t].shared.quantity >= placed[t].fill.quantity

\* The write of the shared books and its accounting event, under the lock.
ApplyShared(t, cash, position) ==
  LET seen == placed[t] IN
  /\ wallet' = Merge(wallet, seen.wallet, [seen.wallet EXCEPT !.cash = @ + cash])
  /\ shared' = Merge(shared, seen.shared, position)
  /\ booked' = [cash |-> booked.cash + cash,
                realized |-> booked.realized + position.realized - seen.shared.realized]
  /\ overtaken' = (overtaken \/ seen.wallet # wallet \/ seen.shared # shared)

TotalEquity(b, cash, quantity, price) == cash + quantity * price

\* create_snapshot, after the settlement; the local price need not be the one
\* the order saw.
Snapshot(b, price) ==
  LET books == own'[b] IN
  snapshot' = [snapshot EXCEPT ![b] =
    [taken |-> TRUE, cash |-> books.free, price |-> price,
     equity |-> TotalEquity(b, books.free, books.position.quantity, price)]]

\* A bot's own books and their snapshot; a manual order has none.
ApplyOwn(t, cash, position) ==
  IF t = NoBot THEN UNCHANGED <<own, snapshot>>
  ELSE /\ own' = [own EXCEPT ![t] = [free |-> @.free + cash, position |-> position]]
       /\ \E price \in FillPrices : Snapshot(t, price)

BuyOrder(t) ==
  LET fill == placed[t].fill
      bought == Increased(placed[t].shared, fill) IN
  /\ Ordered(t, "buy")
  /\ PaysFor(t)
  /\ ApplyShared(t, -CostOf(fill), bought)
  /\ ApplyOwn(t, -CostOf(fill),
              IF t = NoBot THEN Flat ELSE Increased(own[t].position, fill))
  /\ slack' = [s \in Traders |-> slack[s] + (IF s = NoBot THEN bought.quantity
                                             ELSE IF s = t THEN fill.quantity ELSE 0)]
  /\ OrderEnds(t)

\* A manual sell needs the shared position, a bot's is only mirrored in it
\* (_mirror_legacy_sell_fill_if_possible); its settlement refuses proceeds that
\* are not positive.
SellOrder(t) ==
  LET fill == placed[t].fill IN
  /\ Ordered(t, "sell")
  /\ t = NoBot => Covers(t)
  /\ t # NoBot => ProceedsOf(fill) > 0
  /\ IF Covers(t) THEN ApplyShared(t, ProceedsOf(fill), Decreased(placed[t].shared, fill))
                  ELSE UNCHANGED <<wallet, shared, booked, overtaken>>
  /\ ApplyOwn(t, ProceedsOf(fill),
              IF t = NoBot THEN Flat ELSE Decreased(own[t].position, fill))
  /\ UNCHANGED slack
  /\ OrderEnds(t)

\* Refused, or the process died: nothing of it is committed.
RefuseTrade(t) ==
  /\ placed[t].at = "read"
  /\ OrderEnds(t)
  /\ UNCHANGED <<wallet, shared, own, snapshot, booked, slack, overtaken>>

\* Mutant: profits outlive the reset.
ResetAccountOnly ==
  /\ resets < MaxAccountResets
  /\ resets' = resets + 1
  /\ shared.quantity = 0
  /\ \E balance \in Balances : wallet' = [start |-> balance, cash |-> balance]
  /\ booked' = Nothing
  /\ slack' = [slack EXCEPT ![NoBot] = 0]
  /\ UNCHANGED <<shared, own, snapshot, placed, placements, overtaken>>

\* reset_paper_portfolio: under the lock, when every shared position is flat.
ResetAccount ==
  /\ resets < MaxAccountResets
  /\ resets' = resets + 1
  /\ shared.quantity = 0
  /\ \E balance \in Balances : wallet' = [start |-> balance, cash |-> balance]
  /\ shared' = Flat
  /\ booked' = Nothing
  /\ slack' = [slack EXCEPT ![NoBot] = 0]
  /\ UNCHANGED <<own, snapshot, placed, placements, overtaken>>

AccountNext ==
  \/ \E t \in Traders : BeginOrder(t) \/ BuyOrder(t) \/ SellOrder(t) \/ RefuseTrade(t)
  \/ ResetAccount

AccountSpec == AccountInit /\ [][AccountNext]_accountVars

----------------------------------------------------------------------------
(* Summaries                                                               *)

\* PortfolioService.get_summary at a known price.
Summary(price) ==
  [equity |-> wallet.cash + shared.quantity * price,
   unrealized |-> shared.quantity * (price - shared.average),
   realized |-> shared.realized]

\* PaperEquitySummaryService.get_summary: the starting cash is what is left of
\* the latest snapshot's equity without the profits.
SummaryStart(b) ==
  LET position == own[b].position IN
  snapshot[b].equity - position.realized
    - position.quantity * (snapshot[b].price - position.average)

----------------------------------------------------------------------------
(* Properties                                                              *)

\* A number is right but for what rounding moved.
Within(books, value, target) ==
  2 * (value - target) <= slack[books] /\ 2 * (target - value) <= slack[books]

AccountTypeOK ==
  /\ wallet \in [start : Balances, cash : Int]
  /\ shared.quantity >= 0 /\ shared.average >= 0
  /\ \A b \in Owners : own[b].free >= 0 /\ own[b].position.quantity >= 0
  /\ \A t \in Traders : placed[t].at \in {"none", "read"}
  /\ shared.quantity = 0 /\ ~overtaken => shared.average = 0

\* Whatever was bought and sold by whom, mirrored or not, before and after
\* resets: the equity of the shared account is its start and its profits, and
\* cash and profits are what the accounting events say.
BooksBalance ==
  ~overtaken =>
    /\ \A price \in FillPrices :
         LET s == Summary(price) IN
         Within(NoBot, s.equity, wallet.start + s.realized + s.unrealized)
    /\ wallet.cash = wallet.start + booked.cash
    /\ shared.realized = booked.realized

\* A bot's summary finds the draft balance it began with in the equity of the
\* latest snapshot, whatever happened to the shared account meanwhile.
SummariesRecoverTheStart ==
  \A b \in Owners : snapshot[b].taken => Within(b, SummaryStart(b), OwnStart)

\* The books explain themselves, the shared ones and the bots', over fills,
\* mirrored or not, and resets.
AccountHolds == AccountTypeOK /\ BooksBalance /\ SummariesRecoverTheStart
=============================================================================
