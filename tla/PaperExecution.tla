--------------------------- MODULE PaperExecution ---------------------------
(***************************************************************************)
(* Paper trading by several processes over one database.                   *)
(*                                                                         *)
(* A process (an API server with its runner, or the one-shot CLI) evaluates *)
(* a bot: it reads the bot, locks the bot's row, decides, and lets the      *)
(* paper execution service fill the order against three sets of books: the  *)
(* bot's draft balance, the bot's paper position, and the one portfolio     *)
(* account with its position that all bots share.  Operators pause and      *)
(* resume bots and reset draft balances meanwhile.                          *)
(*                                                                         *)
(* The database is PostgreSQL at READ COMMITTED.  The variables hold what   *)
(* is committed; what a transaction has read or written stays with its      *)
(* process until it commits.  An ORM session answers a second SELECT of a   *)
(* row it still holds, FOR UPDATE or not, with the values of the first.     *)
(*                                                                         *)
(* A bot trades one lot of one symbol, so quantities are counted in lots.   *)
(* Money is counted in units of which Unit make one unit of a Numeric(18,8) *)
(* column.                                                                  *)
(***************************************************************************)
EXTENDS Integers, FiniteSets

CONSTANTS
  Bots,
  Processes,       \* processes that evaluate bots
  Resetters,       \* requests that reset a draft balance
  Prices,          \* the local market prices
  Cost,            \* notional + fee of a buy, per price
  Proceeds,        \* notional - fee of a sell, per price
  Unit,            \* the resolution of a stored amount
  DefaultQuote,    \* DEFAULT_DRAFT_BALANCE["USDT"]; the base asset gets 0
  NoBot,           \* "works on no bot"
  NoPrice,         \* "has read no price"
  InitialCash,     \* cash of the portfolio account
  MaxDaily,        \* execution_max_daily_order_count
  MaxEvaluations,  \* bound of the model: evaluations by each process
  MaxPauses        \* bound of the model: times an operator pauses a bot

ASSUME AmountAssumption ==
  /\ Unit \in Nat \ {0}
  /\ Cost \in [Prices -> Nat \ {0}]
  /\ Proceeds \in [Prices -> Nat \ {0}]
  /\ DefaultQuote \in Nat
  /\ InitialCash \in Nat
  /\ NoBot \notin Bots
  /\ NoPrice \notin Prices

ASSUME BoundAssumption ==
  /\ MaxDaily \in Nat
  /\ MaxEvaluations \in Nat
  /\ MaxPauses \in Nat

VARIABLES
  status,    \* bots.status
  draft,     \* draft_balances: the quote and the base row of each bot
  position,  \* paper_positions.quantity of each bot
  used,      \* execution_daily_quota_usage of the day, per bot
  account,   \* portfolio_accounts.cash_balance and positions.quantity
  book,      \* what the committed orders and fills of each bot add up to
  booked,    \* the sum of paper_accounting_events.cash_delta
  process,   \* the evaluations
  reset,     \* the reset requests
  pauses     \* pauses so far

vars == <<status, draft, position, used, account, book, booked, process, reset, pauses>>

----------------------------------------------------------------------------
(* Rows                                                                    *)

\* DraftBalance.available and .locked of the quote row, .available of the base
\* row (whatever a sell locks of it leaves it in the same transaction).
Draft == [free: Nat, locked: Nat, base: Nat]

DefaultDraft == [free |-> DefaultQuote, locked |-> 0, base |-> 0]

\* Filled buys and sells, rejected orders, and the money the fills moved.
Book == [bought: Nat, sold: Nat, rejected: Nat, paid: Nat, earned: Nat]

EmptyBook == [bought |-> 0, sold |-> 0, rejected |-> 0, paid |-> 0, earned |-> 0]

\* A Numeric(18,8) column rounds half away from zero.
Stored(x) == ((x + Unit \div 2) \div Unit) * Unit

\* What a flush leaves of the amounts the session holds.
Flushed(d) == [free |-> Stored(d.free), locked |-> Stored(d.locked), base |-> d.base]

\* Mutant: the reservation is forgotten instead of released.
NotReleased(d, amount) == d

\* reserve_bot_draft_balance_asset and release_bot_draft_balance_asset of the
\* quote asset, in the session.
Reserved(d, amount) ==
  [free |-> d.free - amount, locked |-> d.locked + amount, base |-> d.base]
Released(d, amount) ==
  [free |-> d.free + amount, locked |-> d.locked - amount, base |-> d.base]

\* The quota step flushes the reservation and nothing refers to the row any
\* more, so the settlement reads it back as it is stored.
SettlementCovers(d, amount) == Flushed(Reserved(d, amount)).locked >= amount

\* Mutant: the settlement takes the money from the available amount again.
BuySettledTwice(d, amount) ==
  LET flushed == Flushed(Reserved(d, amount))
  IN Flushed([free |-> flushed.free - amount, locked |-> flushed.locked - amount,
              base |-> d.base + 1])

\* apply_draft_balance_buy_fill
BuySettled(d, amount) ==
  LET flushed == Flushed(Reserved(d, amount))
  IN Flushed([free |-> flushed.free, locked |-> flushed.locked - amount, base |-> d.base + 1])

\* apply_draft_balance_sell_fill, after the base asset was reserved.
SellSettled(d, quantity, amount) ==
  Flushed([free |-> d.free + amount, locked |-> d.locked, base |-> d.base - quantity])

----------------------------------------------------------------------------
(* Processes and row locks                                                 *)

Stage == {"idle", "read", "decided", "priced", "charged", "reserved"}

Process ==
  [at: Stage,
   bot: Bots \cup {NoBot},
   side: {"none", "buy", "sell"},
   price: Prices \cup {NoPrice},
   cash: Nat,       \* the account the session has read
   holding: Nat,    \* the shared position the session has read
   left: Nat]       \* evaluations still to start

Begun(at, b, left) ==
  [at |-> at, bot |-> b, side |-> "none", price |-> NoPrice,
   cash |-> 0, holding |-> 0, left |-> left]

Idle(left) == Begun("idle", NoBot, left)

\* The process is idle again: its transaction has ended, its locks are free.
Ends(p) == process' = [process EXCEPT ![p] = Idle(process[p].left)]

\* bots: SELECT ... FOR UPDATE, from the lock to the end of the transaction.
HoldsBot(p, b) ==
  /\ process[p].bot = b
  /\ process[p].at \in {"decided", "priced", "charged", "reserved"}

\* Mutant: the evaluation does not wait for the bot's row.
BotFreeUnlocked(b) == TRUE

BotFree(b) == \A p \in Processes : ~HoldsBot(p, b)

\* portfolio_accounts: get_account_for_update
AccountFree == \A p \in Processes : process[p].at \notin {"charged", "reserved"}

\* draft_balances: the row a reservation has locked until the fill commits.
Reserves(p, b, side) ==
  process[p].at = "reserved" /\ process[p].bot = b /\ process[p].side = side

\* Mutant: the reset never commits, and keeps the row.
ResetKeepsQuote(b) ==
  \E r \in Resetters :
    /\ reset[r].at \in {"written", "done"}
    /\ reset[r].bot = b
    /\ reset[r].dirty \cap {"free", "locked"} # {}

\* draft_balances: a reset has written the quote row and not yet committed.
ResetHoldsQuote(b) ==
  \E r \in Resetters :
    /\ reset[r].at = "written"
    /\ reset[r].bot = b
    /\ reset[r].dirty \cap {"free", "locked"} # {}

----------------------------------------------------------------------------
(* Initial states                                                          *)

\* The columns a reset found different from the defaults, and so writes.
Reset ==
  [at: {"idle", "read", "written", "done"},
   bot: Bots \cup {NoBot},
   dirty: SUBSET {"free", "locked", "base"}]

NoReset == [at |-> "idle", bot |-> NoBot, dirty |-> {}]

\* The bots are active, their draft balances have just been reset, and the shared
\* position of the symbol exists and is flat.
Init ==
  /\ status = [b \in Bots |-> "active"]
  /\ draft = [b \in Bots |-> DefaultDraft]
  /\ position = [b \in Bots |-> 0]
  /\ used = [b \in Bots |-> 0]
  /\ account = [cash |-> InitialCash, holding |-> 0]
  /\ book = [b \in Bots |-> EmptyBook]
  /\ booked = 0
  /\ process = [p \in Processes |-> Idle(MaxEvaluations)]
  /\ reset = [r \in Resetters |-> NoReset]
  /\ pauses = 0

----------------------------------------------------------------------------
(* An evaluation: _evaluate_bot up to the order                            *)

books == <<draft, position, used, account, book, booked>>

\* get_by_id, without a lock: bots that are not active are left alone.
ReadBot(p, b) ==
  /\ process[p].at = "idle"
  /\ process[p].left > 0
  /\ status[b] = "active"
  /\ process' = [process EXCEPT ![p] = Begun("read", b, @.left - 1)]
  /\ UNCHANGED <<status, books, reset, pauses>>

\* get_by_id_for_update, waiting for the row.
GetsBotRow(p) == process[p].at = "read" /\ BotFree(process[p].bot)

\* Hold, cooldown, risk limits, no quantity, refused by the paper gate or by the
\* safety guard: whatever the reason, no order.  A bot paused since ReadBot may
\* be noticed here, but need not be: the session still holds the bot as it was,
\* unless a run had to be created or started first, whose commit drops it.
Decline(p) ==
  /\ GetsBotRow(p)
  /\ Ends(p)
  /\ UNCHANGED <<status, books, reset, pauses>>

\* The strategy buys when the bot's position is flat, the paper gate wants the
\* money to be available at the price it sees, and the safety guard counts.
DecideBuy(p) ==
  LET b == process[p].bot IN
  /\ GetsBotRow(p)
  /\ position[b] = 0
  /\ \E q \in Prices : draft[b].free >= Cost[q]
  /\ used[b] < MaxDaily
  /\ process' = [process EXCEPT ![p].at = "decided", ![p].side = "buy"]
  /\ UNCHANGED <<status, books, reset, pauses>>

\* A sell closes the whole position, and the base asset must be available.
DecideSell(p) ==
  LET b == process[p].bot IN
  /\ GetsBotRow(p)
  /\ position[b] > 0
  /\ draft[b].base >= position[b]
  /\ process' = [process EXCEPT ![p].at = "decided", ![p].side = "sell"]
  /\ UNCHANGED <<status, books, reset, pauses>>

----------------------------------------------------------------------------
(* submit_order_intent                                                     *)

\* get_account, get_position_by_symbol and _get_latest_price, without a lock.
\* The session keeps the two rows until the end of the transaction.
ReadAccount(p) ==
  /\ process[p].at = "decided"
  /\ \E q \in Prices :
       process' = [process EXCEPT ![p] =
                     [at |-> "priced", bot |-> @.bot, side |-> @.side, price |-> q,
                      cash |-> account.cash, holding |-> account.holding, left |-> @.left]]
  /\ UNCHANGED <<status, books, reset, pauses>>

\* get_account_for_update: the lock is taken, the values are the ones read.
LockAccount(p) ==
  /\ process[p].at = "priced"
  /\ AccountFree
  /\ process' = [process EXCEPT ![p].at = "charged"]
  /\ UNCHANGED <<status, books, reset, pauses>>

\* _reject_order: a rejected order is recorded and committed.
RejectOrder(b) == book' = [book EXCEPT ![b].rejected = @ + 1]

\* The safety guard, asked again at the price of the order, may block it.
BlockOrder(p) ==
  /\ process[p].at = "charged"
  /\ RejectOrder(process[p].bot)
  /\ Ends(p)
  /\ UNCHANGED <<status, draft, position, used, account, booked, reset, pauses>>

CostOf(p) == Cost[process[p].price]
ProceedsOf(p) == Proceeds[process[p].price]

\* Mutant: the reservation trusts what the paper gate saw.
DraftCoversAsGated(p) == process[p].at = "charged"

\* The reservation finds what it needs in the draft row, once it has the lock.
DraftCovers(p) ==
  LET b == process[p].bot IN
  IF process[p].side = "buy" THEN draft[b].free >= CostOf(p)
                             ELSE draft[b].base >= position[b]

\* Mutant: the reservation reads the row without FOR UPDATE.
GetsDraftRowUnlocked(p) == process[p].at = "charged"

GetsDraftRow(p) ==
  /\ process[p].at = "charged"
  /\ process[p].side = "buy" => ~ResetHoldsQuote(process[p].bot)

\* reserve_bot_draft_balance_asset raises: the attempt is rejected, no order.
RefuseReservation(p) ==
  /\ GetsDraftRow(p)
  /\ ~DraftCovers(p)
  /\ Ends(p)
  /\ UNCHANGED <<status, books, reset, pauses>>

CashCovers(p) == process[p].side = "buy" => process[p].cash >= CostOf(p)

\* The reservation, the cash check and the quota pass.
Reserve(p) ==
  /\ GetsDraftRow(p)
  /\ DraftCovers(p)
  /\ CashCovers(p)
  /\ process' = [process EXCEPT ![p].at = "reserved"]
  /\ UNCHANGED <<status, books, reset, pauses>>

\* insufficient_paper_cash: the reservation is released, a rejected order stays.
RefuseCash(p) ==
  LET b == process[p].bot IN
  /\ GetsDraftRow(p)
  /\ DraftCovers(p)
  /\ ~CashCovers(p)
  /\ draft' = [draft EXCEPT ![b] = Released(Reserved(@, CostOf(p)), CostOf(p))]
  /\ RejectOrder(b)
  /\ Ends(p)
  /\ UNCHANGED <<status, position, used, account, booked, reset, pauses>>

\* The fill, its accounting and its settlement, in one commit.
FillBuy(p) ==
  LET b == process[p].bot IN
  /\ Reserves(p, b, "buy")
  /\ SettlementCovers(draft[b], CostOf(p))
  /\ draft' = [draft EXCEPT ![b] = BuySettled(@, CostOf(p))]
  /\ position' = [position EXCEPT ![b] = @ + 1]
  /\ used' = [used EXCEPT ![b] = @ + 1]
  /\ account' = [cash |-> Stored(process[p].cash - CostOf(p)),
                 holding |-> process[p].holding + 1]
  /\ booked' = booked - Stored(CostOf(p))
  /\ book' = [book EXCEPT ![b].bought = @ + 1, ![b].paid = @ + CostOf(p)]
  /\ Ends(p)
  /\ UNCHANGED <<status, reset, pauses>>

\* insufficient_draft_balance_locked: everything is rolled back, and then a
\* rejected order and a rejected attempt are recorded.
RefuseSettlement(p) ==
  LET b == process[p].bot IN
  /\ Reserves(p, b, "buy")
  /\ ~SettlementCovers(draft[b], CostOf(p))
  /\ RejectOrder(b)
  /\ Ends(p)
  /\ UNCHANGED <<status, draft, position, used, account, booked, reset, pauses>>

\* Mutant: the last lot of the shared position is not mirrored.
MirrorsUnlessLast(p, b) == process[p].holding > position[b]

\* The shared position, as the session has it, can follow the sell.
Mirrors(p, b) == process[p].holding >= position[b]

\* The bot's own books come first; the shared account follows if the shared
\* position allows it (_mirror_legacy_sell_fill_if_possible).
FillSell(p) ==
  LET b == process[p].bot IN
  /\ Reserves(p, b, "sell")
  /\ ~ResetHoldsQuote(b)
  /\ draft' = [draft EXCEPT ![b] = SellSettled(@, position[b], ProceedsOf(p))]
  /\ position' = [position EXCEPT ![b] = 0]
  /\ used' = [used EXCEPT ![b] = @ + 1]
  /\ account' = IF Mirrors(p, b)
                THEN [cash |-> Stored(process[p].cash + ProceedsOf(p)),
                      holding |-> process[p].holding - position[b]]
                ELSE account
  /\ booked' = IF Mirrors(p, b) THEN booked + Stored(ProceedsOf(p)) ELSE booked
  /\ book' = [book EXCEPT ![b].sold = @ + 1, ![b].earned = @ + ProceedsOf(p)]
  /\ Ends(p)
  /\ UNCHANGED <<status, reset, pauses>>

\* An exception or the death of the process: the transaction is rolled back.
Abort(p) ==
  /\ process[p].at # "idle"
  /\ Ends(p)
  /\ UNCHANGED <<status, books, reset, pauses>>

----------------------------------------------------------------------------
(* Operators                                                               *)

\* pause_bot and resume_bot; the UPDATE waits for an evaluation that has the row.
Pause(b) ==
  /\ status[b] = "active"
  /\ pauses < MaxPauses
  /\ BotFree(b)
  /\ status' = [status EXCEPT ![b] = "paused"]
  /\ pauses' = pauses + 1
  /\ UNCHANGED <<books, process, reset>>

Resume(b) ==
  /\ status[b] = "paused"
  /\ BotFree(b)
  /\ status' = [status EXCEPT ![b] = "active"]
  /\ UNCHANGED <<books, process, reset, pauses>>

\* reset_bot_draft_balance reads the quote row, without a lock.  Of a row that
\* has the default already nothing is written, and so nothing is locked.
ReadQuoteRow(r, b) ==
  /\ reset[r].at = "idle"
  /\ reset' = [reset EXCEPT ![r] =
                 [at |-> "read", bot |-> b,
                  dirty |-> {f \in {"free", "locked"} : draft[b][f] # DefaultDraft[f]}]]
  /\ UNCHANGED <<status, books, process, pauses>>

\* The quote row is written once nobody else has it; then the base row is read.
WriteQuoteRow(r) ==
  LET b == reset[r].bot IN
  /\ reset[r].at = "read"
  /\ reset[r].dirty # {} =>
       /\ \A p \in Processes : ~Reserves(p, b, "buy")
       /\ ~ResetHoldsQuote(b)
  /\ reset' = [reset EXCEPT
                 ![r].at = "written",
                 ![r].dirty = @ \cup {f \in {"base"} : draft[b][f] # DefaultDraft[f]}]
  /\ UNCHANGED <<status, books, process, pauses>>

\* The base row is written once no sell has it, and the reset commits.
CommitReset(r) ==
  LET b == reset[r].bot IN
  /\ reset[r].at = "written"
  /\ "base" \in reset[r].dirty => \A p \in Processes : ~Reserves(p, b, "sell")
  /\ draft' = [draft EXCEPT ![b] =
                 [f \in DOMAIN @ |-> IF f \in reset[r].dirty THEN DefaultDraft[f] ELSE @[f]]]
  /\ reset' = [reset EXCEPT ![r].at = "done"]
  /\ UNCHANGED <<status, position, used, account, book, booked, process, pauses>>

\* The database ends one of two transactions that wait for each other; this is
\* the request's turn, and Abort the evaluation's.
AbortReset(r) ==
  /\ reset[r].at \in {"read", "written"}
  /\ reset' = [reset EXCEPT ![r].at = "done"]
  /\ UNCHANGED <<status, books, process, pauses>>

----------------------------------------------------------------------------
(* Specification                                                           *)

Evaluate(p) ==
  \/ Decline(p) \/ DecideBuy(p) \/ DecideSell(p)
  \/ ReadAccount(p) \/ LockAccount(p) \/ BlockOrder(p)
  \/ RefuseReservation(p) \/ Reserve(p) \/ RefuseCash(p)
  \/ FillBuy(p) \/ RefuseSettlement(p) \/ FillSell(p)

Next ==
  \/ \E p \in Processes : Evaluate(p) \/ Abort(p) \/ \E b \in Bots : ReadBot(p, b)
  \/ \E b \in Bots : Pause(b) \/ Resume(b)
  \/ \E r \in Resetters :
       WriteQuoteRow(r) \/ CommitReset(r) \/ AbortReset(r) \/ \E b \in Bots : ReadQuoteRow(r, b)

Spec == Init /\ [][Next]_vars

\* A sell that has the base row and a reset that has the quote row.
Deadlocked(p) ==
  /\ Reserves(p, process[p].bot, "sell")
  /\ \E r \in Resetters :
       /\ reset[r].at = "written"
       /\ reset[r].bot = process[p].bot
       /\ "base" \in reset[r].dirty
       /\ reset[r].dirty \cap {"free", "locked"} # {}

\* A process keeps running its evaluation and a request its handler, rows are
\* granted in turn, and the database breaks deadlocks.
FairSpec ==
  /\ Spec
  /\ \A p \in Processes : SF_vars(Evaluate(p)) /\ WF_vars(Deadlocked(p) /\ Abort(p))
  /\ \A r \in Resetters : SF_vars(WriteQuoteRow(r) \/ CommitReset(r))

----------------------------------------------------------------------------
(* Properties                                                              *)

TypeOK ==
  /\ status \in [Bots -> {"active", "paused"}]
  /\ draft \in [Bots -> Draft]
  /\ position \in [Bots -> Nat]
  /\ used \in [Bots -> Nat]
  /\ account \in [cash: Nat, holding: Nat]
  /\ book \in [Bots -> Book]
  /\ booked \in Int
  /\ process \in [Processes -> Process]
  /\ reset \in [Resetters -> Reset]
  /\ pauses \in Nat

\* However many processes evaluate a bot at once, its filled buys and sells
\* alternate: no signal is executed twice, and no position is sold twice (the bot
\* row lock held through the settlement).
FillsAlternate ==
  \A b \in Bots : position[b] \in {0, 1} /\ book[b].bought = book[b].sold + position[b]

\* Whatever is refused, blocked, rolled back or reset on the way, no money stays
\* locked in a draft balance once no evaluation is at work on it, and the base
\* asset is never more than the position.
NothingStaysLocked ==
  \A b \in Bots : draft[b].locked = 0 /\ draft[b].base <= position[b]

\* Without resets, a draft balance is the default, less what the fills cost, plus
\* what they earned: refusals and aborts leave no trace in it.
DraftFollowsFills ==
  \A b \in Bots :
    /\ draft[b].free + book[b].paid = DefaultQuote + book[b].earned
    /\ draft[b].base = position[b]

\* The bots that hold a lot; none ever holds more than one (FillsAlternate).
Holders == {b \in Bots : position[b] > 0}

\* The shared account shows every fill of every bot: its cash moved by what the
\* accounting events say, its position is the lots the bots hold together.
AccountShowsEveryFill ==
  /\ account.cash = InitialCash + booked
  /\ account.holding = Cardinality(Holders)

\* Amounts finer than a stored one cost or bring a bot at most one and a half of
\* the smallest stored amount per fill, however often they are rounded.
RoundingStaysSmall ==
  \A b \in Bots :
    LET drift == draft[b].free + draft[b].locked + book[b].paid
                   - DefaultQuote - book[b].earned
        limit == 3 * Unit * (book[b].bought + book[b].sold)
    IN -limit <= 2 * drift /\ 2 * drift <= limit

\* Without resets, and with amounts that can be stored, the evaluations implement
\* the ledger: each fill is one step, refusals and aborts are none.
Ledger == INSTANCE PaperLedger WITH
  purse <- [b \in Bots |-> draft[b].free + draft[b].locked],
  lots <- position

LedgerSpec == Ledger!Spec

\* A paused bot does not trade: what is filled is filled for an active bot.
PausedBotsDoNotTrade ==
  [][\A b \in Bots : position'[b] # position[b] => status[b] = "active"]_vars

\* A reset that succeeds leaves the bot with the default draft balance.
ResetRestoresDefaults ==
  [][\A r \in Resetters : CommitReset(r) => draft'[reset[r].bot] = DefaultDraft]_vars

\* Every evaluation ends, whoever waits for whose rows.
EvaluationsEnd == \A p \in Processes : process[p].at # "idle" ~> process[p].at = "idle"

\* Every reset request ends.
ResetsEnd == \A r \in Resetters : reset[r].at # "idle" ~> reset[r].at = "done"

----------------------------------------------------------------------------
(* The inductive invariant                                                 *)

\* A bot's row is held by one evaluation at a time.
OneHolderPerBot ==
  \A p, q \in Processes, b \in Bots : HoldsBot(p, b) /\ HoldsBot(q, b) => p = q

\* What an evaluation has decided still fits the position it decided on.
DecisionsFit ==
  \A p \in Processes, b \in Bots :
    HoldsBot(p, b) =>
      /\ process[p].side \in {"buy", "sell"}
      /\ position[b] = IF process[p].side = "buy" THEN 0 ELSE 1
      /\ process[p].at \in {"priced", "charged", "reserved"} => process[p].price \in Prices

\* An evaluation at work has a bot, and so has a reset.
WorkHasABot ==
  /\ \A p \in Processes : process[p].at # "idle" => process[p].bot \in Bots
  /\ \A r \in Resetters : reset[r].at # "idle" => reset[r].bot \in Bots

\* What has been reserved is still there, and no reset has it.
ReservationsHold ==
  \A p \in Processes, b \in Bots :
    /\ Reserves(p, b, "buy") =>
         /\ ~ResetHoldsQuote(b)
         /\ draft[b].free >= CostOf(p)
         /\ process[p].cash >= CostOf(p)
    /\ Reserves(p, b, "sell") => draft[b].base >= 1

\* What an evaluation has read of the account is still so: true of one process,
\* and what two of them break (AccountShowsEveryFill).
SessionIsCurrent ==
  \A p \in Processes :
    process[p].at \in {"priced", "charged", "reserved"} =>
      process[p].cash = account.cash /\ process[p].holding = account.holding

IInv ==
  /\ TypeOK
  /\ WorkHasABot
  /\ OneHolderPerBot
  /\ DecisionsFit
  /\ ReservationsHold
  /\ FillsAlternate
  /\ Unit = 1 => NothingStaysLocked
  /\ Unit = 1 /\ Resetters = {} => DraftFollowsFills

=============================================================================
