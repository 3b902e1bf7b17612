----------------------- MODULE PaperExecutionProofs -----------------------
(***************************************************************************)
(* Proofs about PaperExecution: its inductive invariant, and that the      *)
(* evaluations implement PaperLedger.                                      *)
(***************************************************************************)
EXTENDS PaperExecution, FiniteSetTheorems, TLAPS

\* Rounding to a stored amount keeps an amount an amount.
LEMMA StoredIsNat == \A x \in Nat : Stored(x) \in Nat
<1> SUFFICES ASSUME NEW x \in Nat PROVE Stored(x) \in Nat
  OBVIOUS
<1> DEFINE half == Unit \div 2
           units == (x + half) \div Unit
<1>1. half \in Nat
  BY AmountAssumption
<1>2. x + half \in Nat
  BY <1>1
<1> HIDE DEF half
<1>3. units \in Nat
  BY <1>2, AmountAssumption
<1> HIDE DEF units
<1>4. units * Unit \in Nat
  BY <1>3, AmountAssumption
<1> QED
  BY <1>4 DEF Stored, units, half

\* An amount that is a multiple of the smallest stored one is stored exactly.
LEMMA StoredIsExact == Unit = 1 => \A x \in Int : Stored(x) = x
BY DEF Stored

----------------------------------------------------------------------------
(* The inductive invariant                                                 *)

LEMMA InitIInv == Init => IInv
<1> SUFFICES ASSUME Init PROVE IInv
  OBVIOUS
<1> USE DEF Init, Idle, Begun, NoReset, EmptyBook, DefaultDraft
<1>1. TypeOK
  BY AmountAssumption, BoundAssumption DEF TypeOK, Process, Stage, Reset, Draft, Book
<1>2. WorkHasABot /\ OneHolderPerBot /\ DecisionsFit /\ ReservationsHold
  BY DEF WorkHasABot, OneHolderPerBot, DecisionsFit, ReservationsHold, HoldsBot, Reserves
<1>3. FillsAlternate /\ NothingStaysLocked /\ DraftFollowsFills
  BY AmountAssumption DEF FillsAlternate, NothingStaysLocked, DraftFollowsFills
<1> QED
  BY <1>1, <1>2, <1>3 DEF IInv

\* An evaluation that ends and leaves the books as they were, but for a rejected
\* order, keeps the invariant.
LEMMA EndKeepsIInv ==
  ASSUME IInv, NEW p \in Processes, Ends(p),
         book' \in [Bots -> Book],
         \A b \in Bots : /\ book'[b].bought = book[b].bought
                         /\ book'[b].sold = book[b].sold
                         /\ book'[b].paid = book[b].paid
                         /\ book'[b].earned = book[b].earned,
         UNCHANGED <<status, draft, position, used, account, booked, reset, pauses>>
  PROVE  IInv'
<1>1. TypeOK'
  BY DEF IInv, TypeOK, Ends, Idle, Begun, Process, Stage
<1>2. \A q \in Processes : q # p => process'[q] = process[q]
  BY DEF IInv, TypeOK, Ends
<1>3. process'[p].at = "idle"
  BY DEF IInv, TypeOK, Ends, Idle, Begun
<1>4. WorkHasABot'
  BY <1>2, <1>3 DEF IInv, WorkHasABot
<1>5. OneHolderPerBot' /\ DecisionsFit'
  BY <1>2, <1>3 DEF IInv, OneHolderPerBot, DecisionsFit, HoldsBot
<1>6. ReservationsHold'
  BY <1>2, <1>3 DEF IInv, ReservationsHold, Reserves, ResetHoldsQuote, CostOf
<1>7. FillsAlternate' /\ (Unit = 1 => NothingStaysLocked')
        /\ (Unit = 1 /\ Resetters = {} => DraftFollowsFills')
  BY DEF IInv, FillsAlternate, NothingStaysLocked, DraftFollowsFills
<1> QED
  BY <1>1, <1>4, <1>5, <1>6, <1>7 DEF IInv

\* A step of an evaluation that only moves on keeps what is said of the books.
LEMMA BooksKept ==
  ASSUME IInv, UNCHANGED <<books, reset>>
  PROVE  /\ FillsAlternate'
         /\ Unit = 1 => NothingStaysLocked'
         /\ Unit = 1 /\ Resetters = {} => DraftFollowsFills'
BY DEF IInv, books, FillsAlternate, NothingStaysLocked, DraftFollowsFills

LEMMA ReadBotIInv ==
  ASSUME IInv, NEW p \in Processes, NEW b \in Bots, ReadBot(p, b)
  PROVE  IInv'
<1> USE DEF ReadBot, books
<1>1. TypeOK'
  <2> DEFINE begun == Begun("read", b, process[p].left - 1)
  <2>1. begun \in Process
    BY DEF IInv, TypeOK, Idle, Begun, Process, Stage
  <2> HIDE DEF begun
  <2>2. process' = [process EXCEPT ![p] = begun]
    BY DEF begun
  <2> QED
    BY <2>1, <2>2 DEF IInv, TypeOK
<1>2. \A q \in Processes : q # p => process'[q] = process[q]
  BY DEF IInv, TypeOK
<1>3. process'[p].at = "read" /\ process'[p].bot = b
  BY DEF IInv, TypeOK, Idle, Begun
<1>4. WorkHasABot'
  BY <1>2, <1>3 DEF IInv, WorkHasABot
<1>5. OneHolderPerBot' /\ DecisionsFit'
  BY <1>2, <1>3 DEF IInv, OneHolderPerBot, DecisionsFit, HoldsBot
<1>6. ReservationsHold'
  BY <1>2, <1>3 DEF IInv, ReservationsHold, Reserves, ResetHoldsQuote, CostOf
<1> QED
  BY <1>1, <1>4, <1>5, <1>6, BooksKept DEF IInv

\* The two decisions: the row is free, so nobody else holds the bot.
LEMMA DecideIInv ==
  ASSUME IInv, NEW p \in Processes, DecideBuy(p) \/ DecideSell(p)
  PROVE  IInv'
<1> DEFINE b == process[p].bot
<1>1. b \in Bots /\ process[p].at = "read"
  BY DEF IInv, WorkHasABot, DecideBuy, DecideSell, GetsBotRow
<1>2. \A q \in Processes : q # p => process'[q] = process[q]
  BY DEF IInv, TypeOK, DecideBuy, DecideSell
<1>3. /\ process'[p].at = "decided"
      /\ process'[p].bot = b
      /\ \/ process'[p].side = "buy" /\ position[b] = 0
         \/ process'[p].side = "sell" /\ position[b] = 1
  BY <1>1 DEF IInv, TypeOK, Process, FillsAlternate, DecideBuy, DecideSell
<1>4. \A q \in Processes : ~HoldsBot(q, b)
  BY DEF DecideBuy, DecideSell, GetsBotRow, BotFree
<1>5. UNCHANGED <<status, draft, position, used, account, book, booked, reset, pauses>>
  BY DEF DecideBuy, DecideSell, books
<1>6. TypeOK'
  <2>1. process' \in [Processes -> Process]
    BY DEF IInv, TypeOK, Process, Stage, DecideBuy, DecideSell
  <2> QED
    BY <2>1, <1>5 DEF IInv, TypeOK
<1>7. WorkHasABot'
  BY <1>1, <1>2, <1>3, <1>5 DEF IInv, WorkHasABot
<1>8. OneHolderPerBot'
  BY <1>2, <1>3, <1>4 DEF IInv, OneHolderPerBot, HoldsBot
<1>9. DecisionsFit'
  BY <1>2, <1>3, <1>5 DEF IInv, DecisionsFit, HoldsBot
<1>10. ReservationsHold'
  BY <1>2, <1>3, <1>5 DEF IInv, ReservationsHold, Reserves, ResetHoldsQuote, CostOf
<1> QED
  BY <1>5, <1>6, <1>7, <1>8, <1>9, <1>10, BooksKept DEF IInv, books

\* A step that keeps the bot, its side and the books, and does not yet reserve.
LEMMA MoveOnIInv ==
  ASSUME IInv, NEW p \in Processes, ReadAccount(p) \/ LockAccount(p)
  PROVE  IInv'
<1>1. /\ UNCHANGED <<status, draft, position, used, account, book, booked, reset, pauses>>
      /\ process[p].bot \in Bots
      /\ process[p].at \in {"decided", "priced"}
  BY DEF IInv, WorkHasABot, ReadAccount, LockAccount, books
<1>2. PICK moved \in Process :
        /\ process' = [process EXCEPT ![p] = moved]
        /\ moved.at \in {"priced", "charged"}
        /\ moved.bot = process[p].bot
        /\ moved.side = process[p].side
        /\ moved.price \in Prices
  <2>1. CASE ReadAccount(p)
    <3> DEFINE moved(q) ==
                 [at |-> "priced", bot |-> process[p].bot, side |-> process[p].side,
                  price |-> q, cash |-> account.cash,
                  holding |-> account.holding, left |-> process[p].left]
    <3>1. PICK q \in Prices : process' = [process EXCEPT ![p] = moved(q)]
      BY <2>1 DEF ReadAccount
    <3>2. moved(q) \in Process
      BY DEF IInv, TypeOK, Process, Stage
    <3> QED
      BY <3>1, <3>2
  <2>2. CASE LockAccount(p)
    <3> DEFINE moved == [process[p] EXCEPT !.at = "charged"]
    <3>1. process' = [process EXCEPT ![p] = moved]
      BY <2>2 DEF LockAccount
    <3>2. moved \in Process /\ moved.at = "charged" /\ moved.bot = process[p].bot
            /\ moved.side = process[p].side /\ moved.price = process[p].price
      BY DEF IInv, TypeOK, Process, Stage
    <3>3. process[p].at = "priced" /\ HoldsBot(p, process[p].bot)
      BY <2>2 DEF LockAccount, HoldsBot
    <3>4. process[p].price \in Prices
      BY <1>1, <3>3 DEF IInv, DecisionsFit
    <3> QED
      BY <3>1, <3>2, <3>4
  <2> QED
    BY <2>1, <2>2
<1>3. /\ process'[p] = moved
      /\ \A q \in Processes : q # p => process'[q] = process[q]
  BY <1>2 DEF IInv, TypeOK
<1>4. TypeOK'
  BY <1>1, <1>2 DEF IInv, TypeOK
<1>5. \A q \in Processes, b \in Bots : HoldsBot(q, b)' <=> HoldsBot(q, b)
  BY <1>1, <1>2, <1>3 DEF HoldsBot
<1>6. WorkHasABot'
  BY <1>1, <1>2, <1>3 DEF IInv, WorkHasABot
<1>7. OneHolderPerBot'
  BY <1>5 DEF IInv, OneHolderPerBot
<1>8. DecisionsFit'
  BY <1>1, <1>2, <1>3, <1>5 DEF IInv, DecisionsFit
<1>9. ReservationsHold'
  BY <1>1, <1>2, <1>3 DEF IInv, ReservationsHold, Reserves, ResetHoldsQuote, CostOf
<1> QED
  BY <1>1, <1>4, <1>6, <1>7, <1>8, <1>9, BooksKept DEF IInv, books

\* Reserving: the draft row is free, and what the fill takes is there.
LEMMA ReserveIInv ==
  ASSUME IInv, NEW p \in Processes, Reserve(p)
  PROVE  IInv'
<1> DEFINE b == process[p].bot
<1>1. \A q \in Processes : q # p => process'[q] = process[q]
  BY DEF IInv, TypeOK, Reserve
<1>2. /\ process[p].at = "charged"
      /\ b \in Bots
      /\ process'[p] = [process[p] EXCEPT !.at = "reserved"]
  BY DEF IInv, TypeOK, WorkHasABot, Reserve, GetsDraftRow
<1>3. /\ process'[p].at = "reserved"
      /\ process'[p].bot = b
      /\ process'[p].side = process[p].side
      /\ process'[p].price = process[p].price
      /\ process'[p].cash = process[p].cash
  BY <1>2 DEF IInv, TypeOK, Process
<1>4. UNCHANGED <<status, draft, position, used, account, book, booked, reset, pauses>>
  BY DEF Reserve, books
<1>5. TypeOK'
  <2>1. process' \in [Processes -> Process]
    BY DEF IInv, TypeOK, Process, Stage, Reserve
  <2> QED
    BY <2>1, <1>4 DEF IInv, TypeOK
<1>6. \A q \in Processes, c \in Bots : HoldsBot(q, c)' <=> HoldsBot(q, c)
  BY <1>1, <1>2, <1>3 DEF HoldsBot
<1>7. HoldsBot(p, b)
  BY <1>2 DEF HoldsBot
<1>8. WorkHasABot'
  BY <1>1, <1>2, <1>3, <1>4 DEF IInv, WorkHasABot
<1>9. OneHolderPerBot'
  BY <1>6 DEF IInv, OneHolderPerBot
<1>10. DecisionsFit'
  <2>1. process[p].price \in Prices
    BY <1>2, <1>7 DEF IInv, DecisionsFit
  <2> QED
    BY <1>1, <1>3, <1>4, <1>6, <2>1 DEF IInv, DecisionsFit
<1>11. ReservationsHold'
  <2>1. ASSUME NEW q \in Processes, NEW c \in Bots, q # p
        PROVE  /\ Reserves(q, c, "buy")' =>
                    /\ ~ResetHoldsQuote(c)'
                    /\ draft'[c].free >= CostOf(q)'
                    /\ process'[q].cash >= CostOf(q)'
               /\ Reserves(q, c, "sell")' => draft'[c].base >= 1
    BY <1>1, <1>4, <2>1 DEF IInv, ReservationsHold, Reserves, ResetHoldsQuote, CostOf
  <2>2. process[p].side = "buy" =>
          /\ ~ResetHoldsQuote(b)'
          /\ draft'[b].free >= CostOf(p)'
          /\ process'[p].cash >= CostOf(p)'
    BY <1>3, <1>4 DEF Reserve, GetsDraftRow, DraftCovers, CashCovers, CostOf, ResetHoldsQuote
  <2>3. process[p].side = "sell" => draft'[b].base >= 1
    BY <1>2, <1>4, <1>7 DEF IInv, DecisionsFit, Reserve, DraftCovers
  <2> QED
    BY <1>3, <2>1, <2>2, <2>3 DEF ReservationsHold, Reserves
<1> QED
  BY <1>4, <1>5, <1>8, <1>9, <1>10, <1>11, BooksKept DEF IInv, books

\* A buy refused for lack of cash gives back what it had reserved.
LEMMA RefuseCashReleases ==
  ASSUME IInv, NEW p \in Processes, RefuseCash(p)
  PROVE  draft' = draft
<1> DEFINE b == process[p].bot
<1>1. b \in Bots /\ HoldsBot(p, b)
  BY DEF IInv, WorkHasABot, RefuseCash, GetsDraftRow, HoldsBot
<1>2. process[p].price \in Prices
  BY <1>1 DEF IInv, DecisionsFit, RefuseCash, GetsDraftRow
<1>3. CostOf(p) \in Int
  BY <1>2, AmountAssumption DEF CostOf
<1>4. draft[b] \in Draft
  BY <1>1 DEF IInv, TypeOK
<1>5. Released(Reserved(draft[b], CostOf(p)), CostOf(p)) = draft[b]
  BY <1>3, <1>4 DEF Released, Reserved, Draft
<1> QED
  BY <1>5 DEF RefuseCash, IInv, TypeOK

\* What each refusal does to the books: nothing, or one more rejected order.
LEMMA RefusalIInv ==
  ASSUME IInv, NEW p \in Processes,
         \/ Decline(p) \/ RefuseReservation(p) \/ Abort(p)
         \/ BlockOrder(p) \/ RefuseSettlement(p) \/ RefuseCash(p)
  PROVE  IInv'
<1>1. CASE Decline(p) \/ RefuseReservation(p) \/ Abort(p)
  <2>1. Ends(p) /\ UNCHANGED <<status, draft, position, used, account, book, booked, reset, pauses>>
    BY <1>1 DEF Decline, RefuseReservation, Abort, books
  <2> QED
    BY <2>1, EndKeepsIInv DEF IInv, TypeOK
<1>2. ASSUME NEW b \in Bots, RejectOrder(b)
      PROVE  /\ book' \in [Bots -> Book]
             /\ \A c \in Bots : /\ book'[c].bought = book[c].bought
                               /\ book'[c].sold = book[c].sold
                               /\ book'[c].paid = book[c].paid
                               /\ book'[c].earned = book[c].earned
  BY <1>2 DEF IInv, TypeOK, Book, RejectOrder
<1>3. CASE BlockOrder(p) \/ RefuseSettlement(p)
  <2>1. /\ process[p].bot \in Bots
        /\ RejectOrder(process[p].bot)
        /\ Ends(p)
        /\ UNCHANGED <<status, draft, position, used, account, booked, reset, pauses>>
    BY <1>3 DEF IInv, WorkHasABot, BlockOrder, RefuseSettlement, Reserves
  <2> QED
    BY <1>2, <2>1, EndKeepsIInv
<1>4. CASE RefuseCash(p)
  <2> DEFINE b == process[p].bot
  <2>1. /\ b \in Bots
        /\ process[p].at = "charged"
        /\ RejectOrder(b)
        /\ Ends(p)
        /\ UNCHANGED <<status, position, used, account, booked, reset, pauses>>
    BY <1>4 DEF IInv, WorkHasABot, RefuseCash, GetsDraftRow
  <2>2. draft' = draft
    BY <1>4, RefuseCashReleases
  <2> QED
    BY <1>2, <2>1, <2>2, EndKeepsIInv
<1> QED
  BY <1>1, <1>3, <1>4

----------------------------------------------------------------------------
(* The fills                                                               *)

\* A settled buy leaves amounts in the draft row, exactly those of the order when
\* no amount is rounded.
LEMMA BuySettles ==
  ASSUME NEW d \in Draft, NEW amount \in Nat, d.free >= amount, SettlementCovers(d, amount)
  PROVE  /\ BuySettled(d, amount) \in Draft
         /\ BuySettled(d, amount).base = d.base + 1
         /\ Unit = 1 => /\ BuySettled(d, amount).free = d.free - amount
                        /\ BuySettled(d, amount).locked = d.locked
<1> DEFINE free == Stored(d.free - amount)
           locked == Stored(d.locked + amount)
<1>1. BuySettled(d, amount) =
        [free |-> Stored(free), locked |-> Stored(locked - amount), base |-> d.base + 1]
  BY DEF BuySettled, Flushed, Reserved
<1>2. d.free \in Nat /\ d.locked \in Nat /\ d.base \in Nat
  BY DEF Draft
<1>3. locked >= amount
  BY DEF SettlementCovers, Flushed, Reserved
<1>4. free \in Nat /\ locked \in Nat
  BY <1>2, StoredIsNat
<1>5. Unit = 1 => free = d.free - amount /\ locked = d.locked + amount
  BY <1>2, StoredIsExact
<1> HIDE DEF free, locked
<1>6. Stored(free) \in Nat /\ Stored(locked - amount) \in Nat
  BY <1>3, <1>4, StoredIsNat
<1>7. Unit = 1 => Stored(free) = free /\ Stored(locked - amount) = locked - amount
  BY <1>4, StoredIsExact
<1> QED
  BY <1>1, <1>2, <1>5, <1>6, <1>7 DEF Draft

\* So does a settled sell.
LEMMA SellSettles ==
  ASSUME NEW d \in Draft, NEW quantity \in Nat, NEW amount \in Nat, d.base >= quantity
  PROVE  /\ SellSettled(d, quantity, amount) \in Draft
         /\ SellSettled(d, quantity, amount).base = d.base - quantity
         /\ Unit = 1 => /\ SellSettled(d, quantity, amount).free = d.free + amount
                        /\ SellSettled(d, quantity, amount).locked = d.locked
<1>1. SellSettled(d, quantity, amount) =
        [free |-> Stored(d.free + amount), locked |-> Stored(d.locked),
         base |-> d.base - quantity]
  BY DEF SellSettled, Flushed
<1>2. d.free \in Nat /\ d.locked \in Nat /\ d.base \in Nat
  BY DEF Draft
<1>3. Stored(d.free + amount) \in Nat /\ Stored(d.locked) \in Nat
  BY <1>2, StoredIsNat
<1>4. Unit = 1 => Stored(d.free + amount) = d.free + amount /\ Stored(d.locked) = d.locked
  BY <1>2, StoredIsExact
<1> QED
  BY <1>1, <1>2, <1>3, <1>4 DEF Draft

\* The evaluation that fills an order holds the bot alone, so what its fill does to
\* the bot's books disturbs nobody else's decision or reservation.
LEMMA FillKeepsOthers ==
  ASSUME IInv, NEW p \in Processes, NEW b \in Bots, HoldsBot(p, b), Ends(p),
         UNCHANGED reset,
         \A c \in Bots : c # b => draft'[c] = draft[c] /\ position'[c] = position[c]
  PROVE  WorkHasABot' /\ OneHolderPerBot' /\ DecisionsFit' /\ ReservationsHold'
<1>1. \A q \in Processes : q # p => process'[q] = process[q]
  BY DEF IInv, TypeOK, Ends
<1>2. process'[p].at = "idle"
  BY DEF IInv, TypeOK, Ends, Idle, Begun
<1>3. \A q \in Processes : q # p => ~HoldsBot(q, b)
  BY DEF IInv, OneHolderPerBot
<1>4. \A q \in Processes, c \in Bots : HoldsBot(q, c)' => q # p /\ c # b /\ HoldsBot(q, c)
  BY <1>1, <1>2, <1>3 DEF HoldsBot
<1>5. WorkHasABot' /\ OneHolderPerBot'
  BY <1>1, <1>2, <1>4 DEF IInv, WorkHasABot, OneHolderPerBot
<1>6. DecisionsFit'
  BY <1>1, <1>4 DEF IInv, DecisionsFit
<1>7. ReservationsHold'
  <2>1. ASSUME NEW q \in Processes, NEW c \in Bots, NEW side, Reserves(q, c, side)'
        PROVE  q # p /\ c # b /\ Reserves(q, c, side)
    BY <1>1, <1>4, <2>1 DEF Reserves, HoldsBot
  <2> QED
    BY <1>1, <2>1 DEF IInv, ReservationsHold, ResetHoldsQuote, CostOf
<1> QED
  BY <1>5, <1>6, <1>7

\* A book counts on.
LEMMA BookGrows ==
  ASSUME NEW old \in Book, NEW amount \in Nat
  PROVE  /\ [old EXCEPT !.bought = old.bought + 1, !.paid = old.paid + amount] \in Book
         /\ [old EXCEPT !.sold = old.sold + 1, !.earned = old.earned + amount] \in Book
<1>1. /\ old.bought + 1 \in Nat /\ old.paid + amount \in Nat
      /\ old.sold + 1 \in Nat /\ old.earned + amount \in Nat
  BY DEF Book
<1> QED
  BY <1>1 DEF Book

\* The process that fills works on a bot it holds, at a price of the market.
LEMMA Filling ==
  ASSUME IInv, NEW p \in Processes, process[p].at = "reserved"
  PROVE  /\ process[p].bot \in Bots
         /\ HoldsBot(p, process[p].bot)
         /\ CostOf(p) \in Nat
         /\ ProceedsOf(p) \in Nat
         /\ draft[process[p].bot] \in Draft
         /\ process[p].cash \in Nat
         /\ process[p].holding \in Nat
<1>1. process[p].bot \in Bots
  BY DEF IInv, WorkHasABot
<1>2. HoldsBot(p, process[p].bot)
  BY DEF HoldsBot
<1>3. process[p].price \in Prices
  BY <1>1, <1>2 DEF IInv, DecisionsFit
<1>4. CostOf(p) \in Nat /\ ProceedsOf(p) \in Nat
  BY <1>3, AmountAssumption DEF CostOf, ProceedsOf
<1> QED
  BY <1>1, <1>2, <1>4 DEF IInv, TypeOK, Process

LEMMA FillBuyIInv ==
  ASSUME IInv, NEW p \in Processes, FillBuy(p)
  PROVE  IInv'
<1> DEFINE b == process[p].bot
           cost == CostOf(p)
           settled == BuySettled(draft[b], cost)
<1>1. /\ Reserves(p, b, "buy")
      /\ process[p].at = "reserved"
      /\ process[p].side = "buy"
      /\ SettlementCovers(draft[b], cost)
      /\ Ends(p)
      /\ UNCHANGED <<status, reset, pauses>>
      /\ draft' = [draft EXCEPT ![b] = settled]
      /\ position' = [position EXCEPT ![b] = @ + 1]
      /\ used' = [used EXCEPT ![b] = @ + 1]
      /\ account' = [cash |-> Stored(process[p].cash - cost),
                     holding |-> process[p].holding + 1]
      /\ booked' = booked - Stored(cost)
      /\ book' = [book EXCEPT ![b].bought = @ + 1, ![b].paid = @ + cost]
  BY DEF FillBuy, Reserves
<1>2. /\ b \in Bots
      /\ HoldsBot(p, b)
      /\ cost \in Nat
      /\ draft[b] \in Draft
      /\ process[p].cash \in Nat
      /\ process[p].holding \in Nat
  BY <1>1, Filling
<1>3. position[b] = 0
  BY <1>1, <1>2 DEF IInv, DecisionsFit
<1>4. draft[b].free >= cost /\ process[p].cash >= cost
  BY <1>1, <1>2 DEF IInv, ReservationsHold
<1>5. /\ settled \in Draft
      /\ settled.base = draft[b].base + 1
      /\ Unit = 1 => settled.free = draft[b].free - cost /\ settled.locked = draft[b].locked
  BY <1>1, <1>2, <1>4, BuySettles
<1> HIDE DEF cost, settled
<1>6. /\ draft'[b] = settled
      /\ position'[b] = position[b] + 1
      /\ \A c \in Bots : c # b => /\ draft'[c] = draft[c]
                                  /\ position'[c] = position[c]
                                  /\ book'[c] = book[c]
  BY <1>1, <1>2 DEF IInv, TypeOK
<1>7. /\ book' \in [Bots -> Book]
      /\ book'[b].bought = book[b].bought + 1
      /\ book'[b].paid = book[b].paid + cost
      /\ book'[b].sold = book[b].sold
      /\ book'[b].earned = book[b].earned
  <2>1. book \in [Bots -> Book] /\ book[b] \in Book
    BY <1>2 DEF IInv, TypeOK
  <2>2. [book[b] EXCEPT !.bought = @ + 1, !.paid = @ + cost] \in Book
    BY <1>2, <2>1, BookGrows
  <2> QED
    BY <1>1, <1>2, <2>1, <2>2 DEF Book
<1>8. TypeOK'
  <2>1. Stored(process[p].cash - cost) \in Nat /\ Stored(cost) \in Nat
    BY <1>2, <1>4, StoredIsNat
  <2>2. account' \in [cash: Nat, holding: Nat] /\ booked' \in Int
    BY <1>1, <1>2, <2>1 DEF IInv, TypeOK
  <2>3. /\ draft' \in [Bots -> Draft]
        /\ position' \in [Bots -> Nat]
        /\ used' \in [Bots -> Nat]
    BY <1>1, <1>2, <1>5 DEF IInv, TypeOK
  <2>4. process' \in [Processes -> Process]
    BY <1>1 DEF IInv, TypeOK, Ends, Idle, Begun, Process, Stage
  <2> QED
    BY <1>1, <1>7, <2>2, <2>3, <2>4 DEF IInv, TypeOK
<1>9. WorkHasABot' /\ OneHolderPerBot' /\ DecisionsFit' /\ ReservationsHold'
  BY <1>1, <1>2, <1>6, FillKeepsOthers
<1>10. FillsAlternate'
  BY <1>2, <1>3, <1>6, <1>7 DEF IInv, TypeOK, Book, FillsAlternate
<1>11. Unit = 1 => NothingStaysLocked'
  BY <1>2, <1>5, <1>6 DEF IInv, TypeOK, Draft, NothingStaysLocked
<1>12. Unit = 1 /\ Resetters = {} => DraftFollowsFills'
  <2> SUFFICES ASSUME Unit = 1, Resetters = {}, NEW c \in Bots
               PROVE  /\ draft'[c].free + book'[c].paid = DefaultQuote + book'[c].earned
                      /\ draft'[c].base = position'[c]
    BY DEF DraftFollowsFills
  <2>1. /\ draft[c].free + book[c].paid = DefaultQuote + book[c].earned
        /\ draft[c].base = position[c]
    BY DEF IInv, DraftFollowsFills
  <2>2. /\ draft[c].free \in Nat /\ draft[c].base \in Nat
        /\ book[c].paid \in Nat /\ book[c].earned \in Nat
        /\ position[c] \in Nat /\ DefaultQuote \in Nat
    BY AmountAssumption DEF IInv, TypeOK, Draft, Book
  <2>3. CASE c = b
    BY <1>2, <1>5, <1>6, <1>7, <2>1, <2>2, <2>3
  <2>4. CASE c # b
    BY <1>6, <2>1, <2>4
  <2> QED
    BY <2>3, <2>4
<1> QED
  BY <1>8, <1>9, <1>10, <1>11, <1>12 DEF IInv

LEMMA FillSellIInv ==
  ASSUME IInv, NEW p \in Processes, FillSell(p)
  PROVE  IInv'
<1> DEFINE b == process[p].bot
           proceeds == ProceedsOf(p)
           settled == SellSettled(draft[b], position[b], proceeds)
<1>1. /\ Reserves(p, b, "sell")
      /\ process[p].at = "reserved"
      /\ process[p].side = "sell"
      /\ Ends(p)
      /\ UNCHANGED <<status, reset, pauses>>
      /\ draft' = [draft EXCEPT ![b] = settled]
      /\ position' = [position EXCEPT ![b] = 0]
      /\ used' = [used EXCEPT ![b] = @ + 1]
      /\ account' = IF Mirrors(p, b)
                    THEN [cash |-> Stored(process[p].cash + proceeds),
                          holding |-> process[p].holding - position[b]]
                    ELSE account
      /\ booked' = IF Mirrors(p, b) THEN booked + Stored(proceeds) ELSE booked
      /\ book' = [book EXCEPT ![b].sold = @ + 1, ![b].earned = @ + proceeds]
  BY DEF FillSell, Reserves
<1>2. /\ b \in Bots
      /\ HoldsBot(p, b)
      /\ proceeds \in Nat
      /\ draft[b] \in Draft
      /\ process[p].cash \in Nat
      /\ process[p].holding \in Nat
  BY <1>1, Filling
<1>3. position[b] = 1
  BY <1>1, <1>2 DEF IInv, DecisionsFit
<1>4. draft[b].base >= 1
  BY <1>1, <1>2 DEF IInv, ReservationsHold
<1>5. /\ settled \in Draft
      /\ settled.base = draft[b].base - 1
      /\ Unit = 1 => settled.free = draft[b].free + proceeds /\ settled.locked = draft[b].locked
  BY <1>2, <1>3, <1>4, SellSettles
<1> HIDE DEF proceeds, settled
<1>6. /\ draft'[b] = settled
      /\ position'[b] = 0
      /\ \A c \in Bots : c # b => /\ draft'[c] = draft[c]
                                  /\ position'[c] = position[c]
                                  /\ book'[c] = book[c]
  BY <1>1, <1>2 DEF IInv, TypeOK
<1>7. /\ book' \in [Bots -> Book]
      /\ book'[b].sold = book[b].sold + 1
      /\ book'[b].earned = book[b].earned + proceeds
      /\ book'[b].bought = book[b].bought
      /\ book'[b].paid = book[b].paid
  <2>1. book \in [Bots -> Book] /\ book[b] \in Book
    BY <1>2 DEF IInv, TypeOK
  <2>2. [book[b] EXCEPT !.sold = @ + 1, !.earned = @ + proceeds] \in Book
    BY <1>2, <2>1, BookGrows
  <2> QED
    BY <1>1, <1>2, <2>1, <2>2 DEF Book
<1>8. TypeOK'
  <2>1. Stored(process[p].cash + proceeds) \in Nat /\ Stored(proceeds) \in Nat
    BY <1>2, StoredIsNat
  <2>2. account' \in [cash: Nat, holding: Nat] /\ booked' \in Int
    BY <1>1, <1>2, <1>3, <2>1 DEF IInv, TypeOK, Mirrors
  <2>3. /\ draft' \in [Bots -> Draft]
        /\ position' \in [Bots -> Nat]
        /\ used' \in [Bots -> Nat]
    BY <1>1, <1>2, <1>5 DEF IInv, TypeOK
  <2>4. process' \in [Processes -> Process]
    BY <1>1 DEF IInv, TypeOK, Ends, Idle, Begun, Process, Stage
  <2> QED
    BY <1>1, <1>7, <2>2, <2>3, <2>4 DEF IInv, TypeOK
<1>9. WorkHasABot' /\ OneHolderPerBot' /\ DecisionsFit' /\ ReservationsHold'
  BY <1>1, <1>2, <1>6, FillKeepsOthers
<1>10. FillsAlternate'
  BY <1>2, <1>3, <1>6, <1>7 DEF IInv, TypeOK, Book, FillsAlternate
<1>11. Unit = 1 => NothingStaysLocked'
  BY <1>2, <1>3, <1>5, <1>6 DEF IInv, TypeOK, Draft, NothingStaysLocked
<1>12. Unit = 1 /\ Resetters = {} => DraftFollowsFills'
  <2> SUFFICES ASSUME Unit = 1, Resetters = {}, NEW c \in Bots
               PROVE  /\ draft'[c].free + book'[c].paid = DefaultQuote + book'[c].earned
                      /\ draft'[c].base = position'[c]
    BY DEF DraftFollowsFills
  <2>1. /\ draft[c].free + book[c].paid = DefaultQuote + book[c].earned
        /\ draft[c].base = position[c]
    BY DEF IInv, DraftFollowsFills
  <2>2. /\ draft[c].free \in Nat /\ draft[c].base \in Nat
        /\ book[c].paid \in Nat /\ book[c].earned \in Nat
        /\ position[c] \in Nat /\ DefaultQuote \in Nat
    BY AmountAssumption DEF IInv, TypeOK, Draft, Book
  <2>3. CASE c = b
    BY <1>2, <1>3, <1>5, <1>6, <1>7, <2>1, <2>2, <2>3
  <2>4. CASE c # b
    BY <1>6, <2>1, <2>4
  <2> QED
    BY <2>3, <2>4
<1> QED
  BY <1>8, <1>9, <1>10, <1>11, <1>12 DEF IInv

----------------------------------------------------------------------------
(* Operators                                                               *)

LEMMA PauseIInv ==
  ASSUME IInv, NEW b \in Bots, Pause(b) \/ Resume(b)
  PROVE  IInv'
<1>1. UNCHANGED <<draft, position, used, account, book, booked, process, reset>>
  BY DEF Pause, Resume, books
<1>2. TypeOK'
  BY <1>1 DEF IInv, TypeOK, Pause, Resume
<1>3. WorkHasABot' /\ OneHolderPerBot' /\ DecisionsFit'
  BY <1>1 DEF IInv, WorkHasABot, OneHolderPerBot, DecisionsFit, HoldsBot
<1>4. ReservationsHold'
  BY <1>1 DEF IInv, ReservationsHold, Reserves, ResetHoldsQuote, CostOf
<1> QED
  BY <1>1, <1>2, <1>3, <1>4, BooksKept DEF IInv, books

\* A reset that does not touch the draft balance: nobody else sees it, unless it
\* takes the quote row.
LEMMA ResetMovesOn ==
  ASSUME IInv, UNCHANGED <<status, books, process, pauses>>,
         reset' \in [Resetters -> Reset],
         \A r \in Resetters : reset'[r].at # "idle" => reset'[r].bot \in Bots,
         \A p \in Processes, b \in Bots : Reserves(p, b, "buy") => ~ResetHoldsQuote(b)'
  PROVE  IInv'
<1>1. TypeOK'
  BY DEF IInv, TypeOK, books
<1>2. WorkHasABot' /\ OneHolderPerBot' /\ DecisionsFit'
  BY DEF IInv, WorkHasABot, OneHolderPerBot, DecisionsFit, HoldsBot, books
<1>3. ReservationsHold'
  BY DEF IInv, ReservationsHold, Reserves, CostOf, books
<1>4. FillsAlternate' /\ (Unit = 1 => NothingStaysLocked')
        /\ (Unit = 1 /\ Resetters = {} => DraftFollowsFills')
  BY DEF IInv, FillsAlternate, NothingStaysLocked, DraftFollowsFills, books
<1> QED
  BY <1>1, <1>2, <1>3, <1>4 DEF IInv

LEMMA ReadQuoteRowIInv ==
  ASSUME IInv, NEW r \in Resetters, NEW b \in Bots, ReadQuoteRow(r, b)
  PROVE  IInv'
<1> DEFINE found == {f \in {"free", "locked"} : draft[b][f] # DefaultDraft[f]}
           read == [at |-> "read", bot |-> b, dirty |-> found]
<1>1. reset' = [reset EXCEPT ![r] = read] /\ UNCHANGED <<status, books, process, pauses>>
  BY DEF ReadQuoteRow
<1>2. read \in Reset /\ read.at = "read" /\ read.bot = b
  BY DEF Reset
<1> HIDE DEF read
<1>3. /\ reset' \in [Resetters -> Reset]
      /\ reset'[r] = read
      /\ \A s \in Resetters : s # r => reset'[s] = reset[s]
  BY <1>1, <1>2 DEF IInv, TypeOK
<1>4. \A s \in Resetters : reset'[s].at # "idle" => reset'[s].bot \in Bots
  BY <1>2, <1>3 DEF IInv, WorkHasABot
<1>5. \A c \in Bots : ResetHoldsQuote(c)' => ResetHoldsQuote(c)
  BY <1>2, <1>3 DEF ResetHoldsQuote
<1> QED
  BY <1>1, <1>3, <1>4, <1>5, ResetMovesOn DEF IInv, ReservationsHold

LEMMA WriteQuoteRowIInv ==
  ASSUME IInv, NEW r \in Resetters, WriteQuoteRow(r)
  PROVE  IInv'
<1> DEFINE b == reset[r].bot
           differs == {f \in {"base"} : draft[b][f] # DefaultDraft[f]}
           written == [at |-> "written", bot |-> b, dirty |-> reset[r].dirty \cup differs]
<1>1. /\ reset[r].at = "read"
      /\ reset[r].dirty # {} => \A p \in Processes : ~Reserves(p, b, "buy")
      /\ UNCHANGED <<status, books, process, pauses>>
  BY DEF WriteQuoteRow
<1>2. reset[r] \in Reset /\ b \in Bots
  BY <1>1 DEF IInv, TypeOK, WorkHasABot
<1>3. written \in Reset
  BY <1>2 DEF Reset
<1>4. /\ reset' \in [Resetters -> Reset]
      /\ reset'[r].at = "written"
      /\ reset'[r].bot = b
      /\ reset'[r].dirty = reset[r].dirty \cup differs
      /\ \A s \in Resetters : s # r => reset'[s] = reset[s]
  BY <1>2, <1>3 DEF IInv, TypeOK, Reset, WriteQuoteRow
<1>5. \A s \in Resetters : reset'[s].at # "idle" => reset'[s].bot \in Bots
  BY <1>2, <1>4 DEF IInv, WorkHasABot
<1>6. ASSUME NEW p \in Processes, NEW c \in Bots, Reserves(p, c, "buy"), ResetHoldsQuote(c)'
      PROVE  FALSE
  <2>1. ~ResetHoldsQuote(c)
    BY <1>6 DEF IInv, ReservationsHold
  <2>2. PICK s \in Resetters : /\ reset'[s].at = "written"
                               /\ reset'[s].bot = c
                               /\ reset'[s].dirty \cap {"free", "locked"} # {}
    BY <1>6 DEF ResetHoldsQuote
  <2>3. s = r
    BY <1>4, <2>1, <2>2 DEF ResetHoldsQuote
  <2>4. c = b /\ reset[r].dirty # {}
    BY <1>4, <2>2, <2>3
  <2> QED
    BY <1>1, <1>6, <2>4
<1> QED
  BY <1>1, <1>4, <1>5, <1>6, ResetMovesOn

LEMMA AbortResetIInv ==
  ASSUME IInv, NEW r \in Resetters, AbortReset(r)
  PROVE  IInv'
<1>1. reset[r].at \in {"read", "written"} /\ UNCHANGED <<status, books, process, pauses>>
  BY DEF AbortReset
<1>2. reset[r] \in Reset /\ reset[r].bot \in Bots
  BY <1>1 DEF IInv, TypeOK, WorkHasABot
<1>3. /\ reset' \in [Resetters -> Reset]
      /\ reset'[r].at = "done"
      /\ reset'[r].bot = reset[r].bot
      /\ \A s \in Resetters : s # r => reset'[s] = reset[s]
  BY <1>2 DEF IInv, TypeOK, Reset, AbortReset
<1>4. \A s \in Resetters : reset'[s].at # "idle" => reset'[s].bot \in Bots
  BY <1>2, <1>3 DEF IInv, WorkHasABot
<1>5. \A c \in Bots : ResetHoldsQuote(c)' => ResetHoldsQuote(c)
  BY <1>3 DEF ResetHoldsQuote
<1> QED
  BY <1>1, <1>3, <1>4, <1>5, ResetMovesOn DEF IInv, ReservationsHold

\* A reset commits only what it has locked: no reservation relies on it.
LEMMA CommitResetIInv ==
  ASSUME IInv, NEW r \in Resetters, CommitReset(r)
  PROVE  IInv'
<1> DEFINE b == reset[r].bot
           dirty == reset[r].dirty
           row == [f \in DOMAIN draft[b] |-> IF f \in dirty THEN DefaultDraft[f] ELSE draft[b][f]]
<1>1. /\ reset[r].at = "written"
      /\ "base" \in dirty => \A p \in Processes : ~Reserves(p, b, "sell")
      /\ draft' = [draft EXCEPT ![b] = row]
      /\ UNCHANGED <<status, position, used, account, book, booked, process, pauses>>
  BY DEF CommitReset
<1>2. reset[r] \in Reset /\ b \in Bots /\ draft[b] \in Draft
  BY <1>1 DEF IInv, TypeOK, WorkHasABot
<1>3. DefaultDraft \in Draft /\ DefaultDraft.locked = 0 /\ DefaultDraft.base = 0
  BY AmountAssumption DEF DefaultDraft, Draft
<1>4. row \in Draft
  BY <1>2, <1>3 DEF Draft
<1>5. /\ row.free = IF "free" \in dirty THEN DefaultDraft.free ELSE draft[b].free
      /\ row.locked = IF "locked" \in dirty THEN 0 ELSE draft[b].locked
      /\ row.base = IF "base" \in dirty THEN 0 ELSE draft[b].base
  BY <1>2, <1>3 DEF Draft
<1> HIDE DEF row
<1>6. /\ reset' \in [Resetters -> Reset]
      /\ reset'[r].at = "done"
      /\ reset'[r].bot = b
      /\ \A s \in Resetters : s # r => reset'[s] = reset[s]
  BY <1>2 DEF IInv, TypeOK, Reset, CommitReset
<1>7. draft'[b] = row /\ \A c \in Bots : c # b => draft'[c] = draft[c]
  BY <1>1, <1>2 DEF IInv, TypeOK
<1>8. TypeOK'
  BY <1>1, <1>2, <1>4, <1>6 DEF IInv, TypeOK
<1>9. WorkHasABot' /\ OneHolderPerBot' /\ DecisionsFit'
  BY <1>1, <1>2, <1>6 DEF IInv, WorkHasABot, OneHolderPerBot, DecisionsFit, HoldsBot
<1>10. ReservationsHold'
  <2> SUFFICES ASSUME NEW p \in Processes, NEW c \in Bots
               PROVE  /\ Reserves(p, c, "buy")' =>
                           /\ ~ResetHoldsQuote(c)'
                           /\ draft'[c].free >= CostOf(p)'
                           /\ process'[p].cash >= CostOf(p)'
                      /\ Reserves(p, c, "sell")' => draft'[c].base >= 1
    BY DEF ReservationsHold
  <2>1. ResetHoldsQuote(c)' => ResetHoldsQuote(c)
    BY <1>6 DEF ResetHoldsQuote
  <2>2. Reserves(p, c, "buy")' =>
          /\ ~ResetHoldsQuote(c)
          /\ draft[c].free >= CostOf(p)'
          /\ process'[p].cash >= CostOf(p)'
    BY <1>1 DEF IInv, ReservationsHold, Reserves, CostOf
  <2>3. Reserves(p, c, "sell")' => Reserves(p, c, "sell") /\ draft[c].base >= 1
    BY <1>1 DEF IInv, ReservationsHold, Reserves
  <2>4. ~ResetHoldsQuote(b) => "free" \notin dirty
    BY <1>1 DEF ResetHoldsQuote
  <2> QED
    BY <1>1, <1>5, <1>7, <2>1, <2>2, <2>3, <2>4
<1>11. FillsAlternate'
  BY <1>1 DEF IInv, FillsAlternate
<1>12. Unit = 1 => NothingStaysLocked'
  BY <1>1, <1>2, <1>5, <1>7 DEF IInv, TypeOK, NothingStaysLocked
<1> QED
  BY <1>8, <1>9, <1>10, <1>11, <1>12 DEF IInv

----------------------------------------------------------------------------
(* Theorems                                                                *)

LEMMA NextIInv == IInv /\ [Next]_vars => IInv'
<1> SUFFICES ASSUME IInv, [Next]_vars PROVE IInv'
  OBVIOUS
<1>1. ASSUME NEW p \in Processes, Evaluate(p) \/ Abort(p) PROVE IInv'
  BY <1>1, RefusalIInv, DecideIInv, MoveOnIInv, ReserveIInv, FillBuyIInv, FillSellIInv
     DEF Evaluate
<1>2. ASSUME NEW p \in Processes, NEW b \in Bots, ReadBot(p, b) PROVE IInv'
  BY <1>2, ReadBotIInv
<1>3. ASSUME NEW b \in Bots, Pause(b) \/ Resume(b) PROVE IInv'
  BY <1>3, PauseIInv
<1>4. ASSUME NEW r \in Resetters,
             WriteQuoteRow(r) \/ CommitReset(r) \/ AbortReset(r)
      PROVE  IInv'
  BY <1>4, WriteQuoteRowIInv, CommitResetIInv, AbortResetIInv
<1>5. ASSUME NEW r \in Resetters, NEW b \in Bots, ReadQuoteRow(r, b) PROVE IInv'
  BY <1>5, ReadQuoteRowIInv
<1>6. CASE UNCHANGED vars
  <2>1. /\ UNCHANGED <<status, books, process, pauses>>
        /\ UNCHANGED reset
    BY <1>6 DEF vars, books
  <2>2. ASSUME NEW b \in Bots PROVE ResetHoldsQuote(b)' <=> ResetHoldsQuote(b)
    BY <2>1 DEF ResetHoldsQuote
  <2>3. /\ reset' \in [Resetters -> Reset]
        /\ \A r \in Resetters : reset'[r].at # "idle" => reset'[r].bot \in Bots
    BY <2>1 DEF IInv, TypeOK, WorkHasABot
  <2>4. \A p \in Processes, b \in Bots : Reserves(p, b, "buy") => ~ResetHoldsQuote(b)'
    BY <2>2 DEF IInv, ReservationsHold
  <2> QED
    BY <2>1, <2>3, <2>4, ResetMovesOn
<1> QED
  BY <1>1, <1>2, <1>3, <1>4, <1>5, <1>6 DEF Next

\* The invariant holds for any number of bots, processes, resets and evaluations.
THEOREM Invariant == Spec => []IInv
<1> QED
  BY InitIInv, NextIInv, PTL DEF Spec

\* The variables keep their types; above all, no amount of money of a bot or of
\* the account ever goes below zero, rounded or not (simulated_execution.py,
\* draft_balance.py).
THEOREM TypeCorrect == Spec => []TypeOK
<1>1. IInv => TypeOK
  BY DEF IInv
<1> QED
  BY <1>1, Invariant, PTL

\* A bot's filled buys and sells alternate, whatever the number of processes that
\* evaluate it and wherever they fail (bot_runner.py, simulated_execution.py).
THEOREM FillsAlternateAlways == Spec => []FillsAlternate
<1>1. IInv => FillsAlternate
  BY DEF IInv
<1> QED
  BY <1>1, Invariant, PTL

\* Nothing stays locked in a draft balance and its base asset never exceeds the
\* position, when amounts are stored exactly (draft_balance.py).
THEOREM NothingStaysLockedAlways == ASSUME Unit = 1 PROVE Spec => []NothingStaysLocked
<1>1. IInv => NothingStaysLocked
  BY DEF IInv
<1> QED
  BY <1>1, Invariant, PTL

\* Without resets, a draft balance is what the fills made of the default one, when
\* amounts are stored exactly (draft_balance.py, simulated_execution.py).
THEOREM DraftFollowsFillsAlways ==
  ASSUME Unit = 1, Resetters = {}
  PROVE  Spec => []DraftFollowsFills
<1>1. IInv => DraftFollowsFills
  BY DEF IInv
<1> QED
  BY <1>1, Invariant, PTL

----------------------------------------------------------------------------
(* The ledger                                                              *)

purse == [b \in Bots |-> draft[b].free + draft[b].locked]

LEMMA FillBuyIsBuy ==
  ASSUME Unit = 1, IInv, NEW p \in Processes, FillBuy(p)
  PROVE  Ledger!Buy(process[p].bot, process[p].price)
<1> DEFINE b == process[p].bot
<1>1. /\ Reserves(p, b, "buy")
      /\ process[p].at = "reserved"
      /\ process[p].side = "buy"
      /\ SettlementCovers(draft[b], CostOf(p))
      /\ draft' = [draft EXCEPT ![b] = BuySettled(@, CostOf(p))]
      /\ position' = [position EXCEPT ![b] = @ + 1]
  BY DEF FillBuy, Reserves
<1>2. b \in Bots /\ HoldsBot(p, b) /\ CostOf(p) \in Nat /\ draft[b] \in Draft
  BY <1>1, Filling
<1>3. position[b] = 0
  BY <1>1, <1>2 DEF IInv, DecisionsFit
<1>4. draft[b].free >= CostOf(p)
  BY <1>1, <1>2 DEF IInv, ReservationsHold
<1>5. /\ draft'[b].free = draft[b].free - CostOf(p)
      /\ draft'[b].locked = draft[b].locked
      /\ \A c \in Bots : c # b => draft'[c] = draft[c]
  BY <1>1, <1>2, <1>4, BuySettles DEF IInv, TypeOK
<1>6. purse' = [purse EXCEPT ![b] = @ - CostOf(p)] /\ purse[b] >= CostOf(p)
  BY <1>2, <1>4, <1>5 DEF purse, Draft
<1>7. position' = [position EXCEPT ![b] = 1]
  BY <1>1, <1>3
<1> QED
  BY <1>3, <1>6, <1>7 DEF Ledger!Buy, purse, CostOf

LEMMA FillSellIsSell ==
  ASSUME Unit = 1, IInv, NEW p \in Processes, FillSell(p)
  PROVE  Ledger!Sell(process[p].bot, process[p].price)
<1> DEFINE b == process[p].bot
<1>1. /\ Reserves(p, b, "sell")
      /\ process[p].at = "reserved"
      /\ process[p].side = "sell"
      /\ draft' = [draft EXCEPT ![b] = SellSettled(@, position[b], ProceedsOf(p))]
      /\ position' = [position EXCEPT ![b] = 0]
  BY DEF FillSell, Reserves
<1>2. b \in Bots /\ HoldsBot(p, b) /\ ProceedsOf(p) \in Nat /\ draft[b] \in Draft
  BY <1>1, Filling
<1>3. position[b] = 1
  BY <1>1, <1>2 DEF IInv, DecisionsFit
<1>4. draft[b].base >= 1
  BY <1>1, <1>2 DEF IInv, ReservationsHold
<1>5. /\ draft'[b].free = draft[b].free + ProceedsOf(p)
      /\ draft'[b].locked = draft[b].locked
      /\ \A c \in Bots : c # b => draft'[c] = draft[c]
  BY <1>1, <1>2, <1>3, <1>4, SellSettles DEF IInv, TypeOK
<1>6. purse' = [purse EXCEPT ![b] = @ + ProceedsOf(p)]
  BY <1>2, <1>5 DEF purse, Draft
<1> QED
  BY <1>1, <1>3, <1>6 DEF Ledger!Sell, purse, ProceedsOf

LEMMA OtherStepsStutter ==
  ASSUME Resetters = {}, IInv, [Next]_vars,
         \A p \in Processes : ~FillBuy(p) /\ ~FillSell(p)
  PROVE  UNCHANGED <<draft, position>>
<1>1. ASSUME NEW p \in Processes, Evaluate(p) \/ Abort(p) PROVE UNCHANGED <<draft, position>>
  <2>1. CASE RefuseCash(p)
    BY <2>1, RefuseCashReleases DEF RefuseCash
  <2>2. CASE BlockOrder(p) \/ RefuseSettlement(p)
    BY <2>2 DEF BlockOrder, RefuseSettlement
  <2>3. CASE \/ Decline(p) \/ DecideBuy(p) \/ DecideSell(p) \/ ReadAccount(p)
             \/ LockAccount(p) \/ RefuseReservation(p) \/ Reserve(p) \/ Abort(p)
    BY <2>3 DEF Decline, DecideBuy, DecideSell, ReadAccount, LockAccount,
                RefuseReservation, Reserve, Abort, books
  <2> QED
    BY <1>1, <2>1, <2>2, <2>3 DEF Evaluate
<1>2. ASSUME NEW p \in Processes, NEW b \in Bots, ReadBot(p, b)
      PROVE  UNCHANGED <<draft, position>>
  BY <1>2 DEF ReadBot, books
<1>3. ASSUME NEW b \in Bots, Pause(b) \/ Resume(b) PROVE UNCHANGED <<draft, position>>
  BY <1>3 DEF Pause, Resume, books
<1>4. CASE UNCHANGED vars
  BY <1>4 DEF vars
<1> QED
  BY <1>1, <1>2, <1>3, <1>4 DEF Next

\* The evaluations of any number of processes implement the ledger: a fill is one
\* step of it and nothing else is, when amounts are stored exactly and nobody
\* resets (submit_order_intent of simulated_execution.py).
THEOREM ImplementsLedger ==
  ASSUME Unit = 1, Resetters = {}
  PROVE  Spec => LedgerSpec
<1>1. Init => Ledger!Init
  BY AmountAssumption DEF Init, Ledger!Init, DefaultDraft
<1>2. IInv /\ [Next]_vars => [Ledger!Next]_(Ledger!vars)
  <2> SUFFICES ASSUME IInv, [Next]_vars PROVE Ledger!Next \/ UNCHANGED Ledger!vars
    OBVIOUS
  <2>1. ASSUME NEW p \in Processes, FillBuy(p) \/ FillSell(p) PROVE Ledger!Next
    <3>1. process[p].at = "reserved"
      BY <2>1 DEF FillBuy, FillSell, Reserves
    <3>2. process[p].bot \in Bots /\ HoldsBot(p, process[p].bot)
      BY <3>1, Filling
    <3>3. process[p].price \in Prices
      BY <3>1, <3>2 DEF IInv, DecisionsFit
    <3>4. \/ Ledger!Buy(process[p].bot, process[p].price)
          \/ Ledger!Sell(process[p].bot, process[p].price)
      BY <2>1, FillBuyIsBuy, FillSellIsSell
    <3> QED
      BY <3>2, <3>3, <3>4 DEF Ledger!Next, Ledger!Buy, Ledger!Sell
  <2>2. ASSUME \A p \in Processes : ~FillBuy(p) /\ ~FillSell(p)
        PROVE  UNCHANGED Ledger!vars
    BY <2>2, OtherStepsStutter DEF Ledger!vars
  <2> QED
    BY <2>1, <2>2
<1> QED
  BY <1>1, <1>2, Invariant, PTL DEF Spec, Ledger!Spec, LedgerSpec

----------------------------------------------------------------------------
(* Rounding                                                                *)

LEMMA DivisionBounds ==
  ASSUME NEW x \in Int, NEW d \in Nat \ {0}
  PROVE  x \div d \in Int /\ (x \div d) * d <= x /\ x < (x \div d) * d + d
<1>1. x \div d \in Int /\ x % d \in 0..(d - 1)
  OBVIOUS
<1>2. x = d * (x \div d) + (x % d)
  OBVIOUS
<1> QED
  BY <1>1, <1>2

\* A stored amount is at most half a smallest amount away from what it stands for.
LEMMA StoredIsNear ==
  \A x \in Int : /\ Stored(x) \in Int
                 /\ 2 * x - Unit <= 2 * Stored(x)
                 /\ 2 * Stored(x) <= 2 * x + Unit
<1> SUFFICES ASSUME NEW x \in Int
             PROVE  /\ Stored(x) \in Int
                    /\ 2 * x - Unit <= 2 * Stored(x)
                    /\ 2 * Stored(x) <= 2 * x + Unit
  OBVIOUS
<1> DEFINE half == Unit \div 2
           units == (x + half) \div Unit
<1>1. half \in Nat /\ Unit \in Nat \ {0} /\ 2 * half <= Unit /\ Unit <= 2 * half + 1
  BY AmountAssumption
<1> HIDE DEF half
<1>2. units \in Int /\ units * Unit <= x + half /\ x + half < units * Unit + Unit
  BY <1>1, DivisionBounds
<1>3. Stored(x) = units * Unit
  BY DEF Stored, half
<1> HIDE DEF units
<1>4. units * Unit \in Int
  BY <1>1, <1>2
<1> QED
  BY <1>1, <1>2, <1>3, <1>4

\* What has been stored is stored again as it is.
LEMMA StoredIsStable == \A x \in Int : Stored(Stored(x)) = Stored(x)
<1> SUFFICES ASSUME NEW x \in Int PROVE Stored(Stored(x)) = Stored(x)
  OBVIOUS
<1> DEFINE half == Unit \div 2
           units == (x + half) \div Unit
<1>1. half \in Nat /\ Unit \in Nat \ {0} /\ half < Unit
  BY AmountAssumption
<1> HIDE DEF half
<1>2. units \in Int
  BY <1>1
<1>3. Stored(x) = units * Unit
  BY DEF Stored, half
<1> HIDE DEF units
<1>4. (units * Unit + half) \div Unit = units
  BY <1>1, <1>2
<1> QED
  BY <1>3, <1>4 DEF Stored, half

\* A buy is rounded three times: the two amounts of the reservation, and what the
\* settlement leaves locked.
LEMMA BuyIsNear ==
  ASSUME NEW d \in Draft, NEW amount \in Nat, SettlementCovers(d, amount)
  PROVE  /\ 2 * (d.free + d.locked - amount) - 3 * Unit
              <= 2 * (BuySettled(d, amount).free + BuySettled(d, amount).locked)
         /\ 2 * (BuySettled(d, amount).free + BuySettled(d, amount).locked)
              <= 2 * (d.free + d.locked - amount) + 3 * Unit
<1> DEFINE free == Stored(d.free - amount)
           locked == Stored(d.locked + amount)
           settled == Stored(locked - amount)
<1>1. BuySettled(d, amount) = [free |-> Stored(free), locked |-> settled, base |-> d.base + 1]
  BY DEF BuySettled, Flushed, Reserved
<1>2. d.free \in Nat /\ d.locked \in Nat /\ Unit \in Nat
  BY AmountAssumption DEF Draft
<1>3. Stored(free) = free
  BY <1>2, StoredIsStable
<1>4. /\ free \in Int
      /\ 2 * (d.free - amount) - Unit <= 2 * free
      /\ 2 * free <= 2 * (d.free - amount) + Unit
  <2>1. d.free - amount \in Int
    BY <1>2
  <2> QED
    BY <2>1, StoredIsNear, Zenon
<1>5. /\ locked \in Int
      /\ 2 * (d.locked + amount) - Unit <= 2 * locked
      /\ 2 * locked <= 2 * (d.locked + amount) + Unit
  <2>1. d.locked + amount \in Int
    BY <1>2
  <2> QED
    BY <2>1, StoredIsNear, Zenon
<1> HIDE DEF free, locked
<1>6. /\ settled \in Int
      /\ 2 * (locked - amount) - Unit <= 2 * settled
      /\ 2 * settled <= 2 * (locked - amount) + Unit
  BY <1>5, StoredIsNear
<1> HIDE DEF settled
<1> QED
  BY <1>1, <1>2, <1>3, <1>4, <1>5, <1>6

\* A sell is rounded twice.
LEMMA SellIsNear ==
  ASSUME NEW d \in Draft, NEW amount \in Nat, NEW quantity
  PROVE  /\ 2 * (d.free + d.locked + amount) - 2 * Unit
              <= 2 * (SellSettled(d, quantity, amount).free
                        + SellSettled(d, quantity, amount).locked)
         /\ 2 * (SellSettled(d, quantity, amount).free
                   + SellSettled(d, quantity, amount).locked)
              <= 2 * (d.free + d.locked + amount) + 2 * Unit
<1> DEFINE free == Stored(d.free + amount)
           locked == Stored(d.locked)
<1>1. SellSettled(d, quantity, amount) =
        [free |-> free, locked |-> locked, base |-> d.base - quantity]
  BY DEF SellSettled, Flushed
<1>2. d.free \in Nat /\ d.locked \in Nat /\ Unit \in Nat
  BY AmountAssumption DEF Draft
<1>3. /\ free \in Int
      /\ 2 * (d.free + amount) - Unit <= 2 * free
      /\ 2 * free <= 2 * (d.free + amount) + Unit
  <2>1. d.free + amount \in Int
    BY <1>2
  <2> QED
    BY <2>1, StoredIsNear, Zenon
<1>4. /\ locked \in Int
      /\ 2 * d.locked - Unit <= 2 * locked
      /\ 2 * locked <= 2 * d.locked + Unit
  <2>1. d.locked \in Int
    BY <1>2
  <2> QED
    BY <2>1, StoredIsNear, Zenon
<1> HIDE DEF free, locked
<1> QED
  BY <1>1, <1>2, <1>3, <1>4

\* A fill moves the drift of its bot by at most the limit it adds.
LEMMA FillDrifts ==
  ASSUME NEW fills \in Nat, NEW drift \in Int, NEW moved \in Int,
         -(3 * Unit * fills) <= 2 * drift, 2 * drift <= 3 * Unit * fills,
         -(3 * Unit) <= 2 * moved, 2 * moved <= 3 * Unit
  PROVE  /\ -(3 * Unit * (fills + 1)) <= 2 * (drift + moved)
         /\ 2 * (drift + moved) <= 3 * Unit * (fills + 1)
<1>1. 3 * Unit * (fills + 1) = 3 * Unit * fills + 3 * Unit
  BY AmountAssumption
<1> DEFINE limit == 3 * Unit * fills
<1>2. limit \in Int /\ 3 * Unit \in Int
  BY AmountAssumption
<1> HIDE DEF limit
<1>3. -(limit + 3 * Unit) <= 2 * (drift + moved) /\ 2 * (drift + moved) <= limit + 3 * Unit
  BY <1>2 DEF limit
<1> QED
  BY <1>1, <1>3 DEF limit

\* What a bot's draft balance has more than its fills account for.
Drift(b) == draft[b].free + draft[b].locked + book[b].paid - DefaultQuote - book[b].earned

\* One fill of one bot that moves its drift by no more than that.
LEMMA FillRounds ==
  ASSUME RoundingStaysSmall, NEW b \in Bots,
         book[b] \in Book, book'[b] \in Book, draft[b] \in Draft, draft'[b] \in Draft,
         \A c \in Bots : c # b => draft'[c] = draft[c] /\ book'[c] = book[c],
         book'[b].bought + book'[b].sold = book[b].bought + book[b].sold + 1,
         -(3 * Unit) <= 2 * (Drift(b)' - Drift(b)), 2 * (Drift(b)' - Drift(b)) <= 3 * Unit
  PROVE  RoundingStaysSmall'
<1> DEFINE moved == Drift(b)' - Drift(b)
           fills == book[b].bought + book[b].sold
<1>1. fills \in Nat /\ Drift(b) \in Int /\ Drift(b)' \in Int
  BY AmountAssumption DEF Drift, Book, Draft
<1>2. moved \in Int /\ Drift(b) + moved = Drift(b)'
  BY <1>1
<1>3. -(3 * Unit * fills) <= 2 * Drift(b) /\ 2 * Drift(b) <= 3 * Unit * fills
  BY DEF RoundingStaysSmall, Drift
<1>4. /\ -(3 * Unit * (fills + 1)) <= 2 * (Drift(b) + moved)
      /\ 2 * (Drift(b) + moved) <= 3 * Unit * (fills + 1)
  BY <1>1, <1>2, <1>3, FillDrifts
<1> HIDE DEF moved
<1>5. /\ -(3 * Unit * (book'[b].bought + book'[b].sold)) <= 2 * Drift(b)'
      /\ 2 * Drift(b)' <= 3 * Unit * (book'[b].bought + book'[b].sold)
  BY <1>2, <1>4
<1> QED
  BY <1>5 DEF RoundingStaysSmall, Drift

LEMMA FillBuyRounds ==
  ASSUME IInv, RoundingStaysSmall, NEW p \in Processes, FillBuy(p)
  PROVE  RoundingStaysSmall'
<1>1. PICK b \in Bots : b = process[p].bot
  BY Filling DEF FillBuy, Reserves
<1>2. PICK cost \in Nat : cost = CostOf(p)
  BY Filling DEF FillBuy, Reserves
<1>3. /\ Reserves(p, b, "buy")
      /\ SettlementCovers(draft[b], cost)
      /\ draft' = [draft EXCEPT ![b] = BuySettled(draft[b], cost)]
      /\ book' = [book EXCEPT ![b].bought = @ + 1, ![b].paid = @ + cost]
  BY <1>1, <1>2 DEF FillBuy
<1>4. draft[b] \in Draft /\ draft[b].free >= cost
  BY <1>2, <1>3 DEF IInv, TypeOK, ReservationsHold
<1>5. BuySettled(draft[b], cost) \in Draft
  BY <1>3, <1>4, BuySettles
<1>6. /\ draft'[b] = BuySettled(draft[b], cost)
      /\ book[b] \in Book
      /\ book'[b] = [book[b] EXCEPT !.bought = @ + 1, !.paid = @ + cost]
      /\ \A c \in Bots : c # b => draft'[c] = draft[c] /\ book'[c] = book[c]
  BY <1>3 DEF IInv, TypeOK
<1>7. /\ book'[b] \in Book
      /\ book'[b].bought + book'[b].sold = book[b].bought + book[b].sold + 1
      /\ book'[b].paid = book[b].paid + cost
      /\ book'[b].earned = book[b].earned
  <2>1. /\ book'[b].bought = book[b].bought + 1
        /\ book'[b].sold = book[b].sold
        /\ book'[b].paid = book[b].paid + cost
        /\ book'[b].earned = book[b].earned
    BY <1>6 DEF Book
  <2>2. book'[b] \in Book
    BY FillBuyIInv DEF IInv, TypeOK
  <2> QED
    BY <1>6, <2>1, <2>2 DEF Book
<1>8. Drift(b)' - Drift(b) = draft'[b].free + draft'[b].locked
                               - (draft[b].free + draft[b].locked - cost)
  BY <1>4, <1>5, <1>6, <1>7, AmountAssumption DEF Drift, Draft, Book
<1>9. -(3 * Unit) <= 2 * (Drift(b)' - Drift(b)) /\ 2 * (Drift(b)' - Drift(b)) <= 3 * Unit
  <2>1. /\ 2 * (draft[b].free + draft[b].locked - cost) - 3 * Unit
             <= 2 * (draft'[b].free + draft'[b].locked)
        /\ 2 * (draft'[b].free + draft'[b].locked)
             <= 2 * (draft[b].free + draft[b].locked - cost) + 3 * Unit
    BY <1>3, <1>4, <1>6, BuyIsNear
  <2> QED
    BY <1>4, <1>5, <1>6, <1>8, <2>1, AmountAssumption DEF Draft
<1> QED
  BY <1>4, <1>5, <1>6, <1>7, <1>9, FillRounds

LEMMA FillSellRounds ==
  ASSUME IInv, RoundingStaysSmall, NEW p \in Processes, FillSell(p)
  PROVE  RoundingStaysSmall'
<1>1. PICK b \in Bots : b = process[p].bot
  BY Filling DEF FillSell, Reserves
<1>2. PICK earns \in Nat : earns = ProceedsOf(p)
  BY Filling DEF FillSell, Reserves
<1>3. /\ Reserves(p, b, "sell")
      /\ draft' = [draft EXCEPT ![b] = SellSettled(draft[b], position[b], earns)]
      /\ book' = [book EXCEPT ![b].sold = @ + 1, ![b].earned = @ + earns]
  BY <1>1, <1>2 DEF FillSell
<1>4. draft[b] \in Draft /\ draft[b].base >= 1 /\ position[b] = 1
  BY <1>3 DEF IInv, TypeOK, ReservationsHold, DecisionsFit, HoldsBot, Reserves
<1>5. SellSettled(draft[b], position[b], earns) \in Draft
  BY <1>4, SellSettles
<1>6. /\ draft'[b] = SellSettled(draft[b], position[b], earns)
      /\ book[b] \in Book
      /\ book'[b] = [book[b] EXCEPT !.sold = @ + 1, !.earned = @ + earns]
      /\ \A c \in Bots : c # b => draft'[c] = draft[c] /\ book'[c] = book[c]
  BY <1>3 DEF IInv, TypeOK
<1>7. /\ book'[b] \in Book
      /\ book'[b].bought + book'[b].sold = book[b].bought + book[b].sold + 1
      /\ book'[b].paid = book[b].paid
      /\ book'[b].earned = book[b].earned + earns
  <2>1. /\ book'[b].bought = book[b].bought
        /\ book'[b].sold = book[b].sold + 1
        /\ book'[b].paid = book[b].paid
        /\ book'[b].earned = book[b].earned + earns
    BY <1>6 DEF Book
  <2>2. book'[b] \in Book
    BY FillSellIInv DEF IInv, TypeOK
  <2> QED
    BY <1>6, <2>1, <2>2 DEF Book
<1>8. Drift(b)' - Drift(b) = draft'[b].free + draft'[b].locked
                               - (draft[b].free + draft[b].locked + earns)
  BY <1>4, <1>5, <1>6, <1>7, AmountAssumption DEF Drift, Draft, Book
<1>9. -(3 * Unit) <= 2 * (Drift(b)' - Drift(b)) /\ 2 * (Drift(b)' - Drift(b)) <= 3 * Unit
  <2>1. /\ 2 * (draft[b].free + draft[b].locked + earns) - 2 * Unit
             <= 2 * (draft'[b].free + draft'[b].locked)
        /\ 2 * (draft'[b].free + draft'[b].locked)
             <= 2 * (draft[b].free + draft[b].locked + earns) + 2 * Unit
    BY <1>4, <1>6, SellIsNear
  <2> QED
    BY <1>4, <1>5, <1>6, <1>8, <2>1, AmountAssumption DEF Draft
<1> QED
  BY <1>4, <1>5, <1>6, <1>7, <1>9, FillRounds

\* Only fills are counted and valued; a rejected order moves no money.
LEMMA OtherStepsFillNothing ==
  ASSUME IInv, [Next]_vars, \A p \in Processes : ~FillBuy(p) /\ ~FillSell(p)
  PROVE  \A b \in Bots : /\ book'[b].bought = book[b].bought
                         /\ book'[b].sold = book[b].sold
                         /\ book'[b].paid = book[b].paid
                         /\ book'[b].earned = book[b].earned
<1>1. ASSUME NEW b \in Bots, RejectOrder(b)
      PROVE  \A c \in Bots : /\ book'[c].bought = book[c].bought
                             /\ book'[c].sold = book[c].sold
                             /\ book'[c].paid = book[c].paid
                             /\ book'[c].earned = book[c].earned
  BY <1>1 DEF IInv, TypeOK, Book, RejectOrder
<1>2. ASSUME NEW p \in Processes, BlockOrder(p) \/ RefuseSettlement(p) \/ RefuseCash(p)
      PROVE  \E b \in Bots : RejectOrder(b)
  BY <1>2 DEF IInv, WorkHasABot, BlockOrder, RefuseSettlement, RefuseCash, GetsDraftRow,
              Reserves
<1>3. ASSUME NEW p \in Processes,
             \/ Decline(p) \/ DecideBuy(p) \/ DecideSell(p) \/ ReadAccount(p)
             \/ LockAccount(p) \/ RefuseReservation(p) \/ Reserve(p) \/ Abort(p)
             \/ \E b \in Bots : ReadBot(p, b)
      PROVE  book' = book
  BY <1>3 DEF Decline, DecideBuy, DecideSell, ReadAccount, LockAccount,
              RefuseReservation, Reserve, Abort, ReadBot, books
<1>4. ASSUME NEW b \in Bots, Pause(b) \/ Resume(b) PROVE book' = book
  BY <1>4 DEF Pause, Resume, books
<1>5. ASSUME NEW r \in Resetters,
             \/ WriteQuoteRow(r) \/ CommitReset(r) \/ AbortReset(r)
             \/ \E b \in Bots : ReadQuoteRow(r, b)
      PROVE  book' = book
  BY <1>5 DEF WriteQuoteRow, CommitReset, AbortReset, ReadQuoteRow, books
<1>6. CASE UNCHANGED vars
  BY <1>6 DEF vars
<1> QED
  BY <1>1, <1>2, <1>3, <1>4, <1>5, <1>6 DEF Next, Evaluate

\* Without resets, a draft balance strays from what the bot's fills cost and earned
\* by at most one and a half smallest stored amounts per fill, at any resolution
\* and for any number of fills (draft_balance.py, the Numeric(18,8) columns).
THEOREM RoundingStaysSmallAlways ==
  ASSUME Resetters = {}
  PROVE  Spec => []RoundingStaysSmall
<1>1. Init => RoundingStaysSmall
  <2> SUFFICES ASSUME Init, NEW b \in Bots PROVE Drift(b) = 0 /\ book[b].bought + book[b].sold = 0
    BY AmountAssumption DEF RoundingStaysSmall, Drift
  <2> QED
    BY AmountAssumption DEF Init, Drift, DefaultDraft, EmptyBook
<1>2. IInv /\ RoundingStaysSmall /\ [Next]_vars => RoundingStaysSmall'
  <2> SUFFICES ASSUME IInv, RoundingStaysSmall, [Next]_vars PROVE RoundingStaysSmall'
    OBVIOUS
  <2>1. CASE \A p \in Processes : ~FillBuy(p) /\ ~FillSell(p)
    BY <2>1, OtherStepsStutter, OtherStepsFillNothing DEF RoundingStaysSmall
  <2>2. CASE \E p \in Processes : FillBuy(p) \/ FillSell(p)
    BY <2>2, FillBuyRounds, FillSellRounds
  <2> QED
    BY <2>1, <2>2
<1> QED
  BY <1>1, <1>2, Invariant, PTL DEF Spec

----------------------------------------------------------------------------
(* The shared account, with one process                                    *)

AccountInv == AccountShowsEveryFill /\ SessionIsCurrent

LEMMA HoldersAreFinite ==
  ASSUME IsFiniteSet(Bots)
  PROVE  IsFiniteSet(Holders) /\ Cardinality(Holders) \in Nat
<1>1. Holders \in SUBSET Bots
  BY DEF Holders
<1> QED
  BY <1>1, FS_Subset, FS_CardinalityType

\* The evaluation that fills has read the account as it is, and nobody else works.
LEMMA AccountAtFill ==
  ASSUME \A p, q \in Processes : p = q, AccountInv, IInv,
         NEW p \in Processes, process[p].at = "reserved", Ends(p)
  PROVE  /\ process[p].cash = account.cash
         /\ process[p].holding = account.holding
         /\ account.cash \in Nat /\ account.holding \in Nat /\ booked \in Int
         /\ SessionIsCurrent'
<1>1. process'[p].at = "idle"
  BY DEF IInv, TypeOK, Ends, Idle, Begun
<1>2. SessionIsCurrent'
  BY <1>1 DEF SessionIsCurrent
<1> QED
  BY <1>2 DEF AccountInv, SessionIsCurrent, IInv, TypeOK

LEMMA FillBuyShows ==
  ASSUME Unit = 1, IsFiniteSet(Bots), \A p, q \in Processes : p = q, IInv, AccountInv,
         NEW p \in Processes, FillBuy(p)
  PROVE  AccountInv'
<1>1. PICK b \in Bots : b = process[p].bot
  BY Filling DEF FillBuy, Reserves
<1>2. PICK cost \in Nat : cost = CostOf(p)
  BY Filling DEF FillBuy, Reserves
<1>3. /\ Reserves(p, b, "buy")
      /\ Ends(p)
      /\ position' = [position EXCEPT ![b] = @ + 1]
      /\ account' = [cash |-> Stored(process[p].cash - cost),
                     holding |-> process[p].holding + 1]
      /\ booked' = booked - Stored(cost)
  BY <1>1, <1>2 DEF FillBuy
<1>4. position[b] = 0
  BY <1>3 DEF IInv, DecisionsFit, HoldsBot, Reserves
<1>5. /\ process[p].cash = account.cash
      /\ process[p].holding = account.holding
      /\ account.cash \in Nat /\ account.holding \in Nat /\ booked \in Int
      /\ SessionIsCurrent'
  BY <1>3, AccountAtFill DEF Reserves
<1>6. Holders' = Holders \cup {b} /\ b \notin Holders
  BY <1>3, <1>4 DEF Holders, IInv, TypeOK
<1>7. Cardinality(Holders') = Cardinality(Holders) + 1
  BY <1>6, HoldersAreFinite, FS_AddElement
<1>8. Stored(account.cash - cost) = account.cash - cost /\ Stored(cost) = cost
  BY <1>5, StoredIsExact
<1> QED
  BY <1>3, <1>5, <1>7, <1>8, AmountAssumption DEF AccountInv, AccountShowsEveryFill

\* The shared position always follows the sell: what the bot holds is in it.
LEMMA FillSellShows ==
  ASSUME Unit = 1, IsFiniteSet(Bots), \A p, q \in Processes : p = q, IInv, AccountInv,
         NEW p \in Processes, FillSell(p)
  PROVE  AccountInv'
<1>1. PICK b \in Bots : b = process[p].bot
  BY Filling DEF FillSell, Reserves
<1>2. PICK earns \in Nat : earns = ProceedsOf(p)
  BY Filling DEF FillSell, Reserves
<1>3. /\ Reserves(p, b, "sell")
      /\ Ends(p)
      /\ position' = [position EXCEPT ![b] = 0]
  BY <1>1 DEF FillSell
<1>4. position[b] = 1
  BY <1>3 DEF IInv, DecisionsFit, HoldsBot, Reserves
<1>5. /\ process[p].cash = account.cash
      /\ process[p].holding = account.holding
      /\ account.cash \in Nat /\ account.holding \in Nat /\ booked \in Int
      /\ SessionIsCurrent'
  BY <1>3, AccountAtFill DEF Reserves
<1>6. Holders' = Holders \ {b} /\ b \in Holders
  BY <1>3, <1>4 DEF Holders, IInv, TypeOK
<1>7. Cardinality(Holders') = Cardinality(Holders) - 1 /\ Cardinality(Holders') \in Nat
  BY <1>6, HoldersAreFinite, FS_RemoveElement, FS_CardinalityType
<1>8. account.holding = Cardinality(Holders)
  BY DEF AccountInv, AccountShowsEveryFill
<1>9. account.holding >= 1
  BY <1>7, <1>8, HoldersAreFinite
<1>10. Mirrors(p, b)
  BY <1>4, <1>5, <1>9 DEF Mirrors
<1>11. /\ account' = [cash |-> Stored(account.cash + earns), holding |-> account.holding - 1]
       /\ booked' = booked + Stored(earns)
  BY <1>1, <1>2, <1>4, <1>5, <1>10 DEF FillSell
<1>12. Stored(account.cash + earns) = account.cash + earns /\ Stored(earns) = earns
  BY <1>5, StoredIsExact
<1> QED
  BY <1>5, <1>7, <1>8, <1>11, <1>12, AmountAssumption DEF AccountInv, AccountShowsEveryFill

\* No other step touches the account, a position or the events, and none that has
\* read the account forgets what it read.
LEMMA OtherStepsKeepAccount ==
  ASSUME \A p, q \in Processes : p = q, IInv, AccountInv, [Next]_vars,
         \A p \in Processes : ~FillBuy(p) /\ ~FillSell(p)
  PROVE  AccountInv'
<1>1. ASSUME UNCHANGED <<position, account, booked>> PROVE AccountShowsEveryFill'
  BY <1>1 DEF AccountInv, AccountShowsEveryFill, Holders
<1>2. ASSUME NEW p \in Processes,
             \/ Decline(p) \/ RefuseReservation(p) \/ Abort(p)
             \/ BlockOrder(p) \/ RefuseSettlement(p) \/ RefuseCash(p)
      PROVE  AccountInv'
  <2>1. Ends(p) /\ UNCHANGED <<position, account, booked>>
    BY <1>2 DEF Decline, RefuseReservation, Abort, BlockOrder, RefuseSettlement, RefuseCash,
                books
  <2>2. process'[p].at = "idle"
    BY <2>1 DEF IInv, TypeOK, Ends, Idle, Begun
  <2>3. SessionIsCurrent'
    BY <2>2 DEF SessionIsCurrent
  <2> QED
    BY <1>1, <2>1, <2>3 DEF AccountInv
<1>3. ASSUME NEW p \in Processes,
             DecideBuy(p) \/ DecideSell(p) \/ \E b \in Bots : ReadBot(p, b)
      PROVE  AccountInv'
  <2>1. process'[p].at \in {"decided", "read"} /\ UNCHANGED <<position, account, booked>>
    BY <1>3 DEF IInv, TypeOK, Process, DecideBuy, DecideSell, ReadBot, Begun, books
  <2>2. SessionIsCurrent'
    BY <2>1 DEF SessionIsCurrent
  <2> QED
    BY <1>1, <2>1, <2>2 DEF AccountInv
<1>4. ASSUME NEW p \in Processes, ReadAccount(p) PROVE AccountInv'
  <2>1. /\ process'[p].cash = account.cash
        /\ process'[p].holding = account.holding
        /\ UNCHANGED <<position, account, booked>>
    BY <1>4 DEF IInv, TypeOK, ReadAccount, books
  <2>2. SessionIsCurrent'
    BY <2>1 DEF SessionIsCurrent
  <2> QED
    BY <1>1, <2>1, <2>2 DEF AccountInv
<1>5. ASSUME NEW p \in Processes, LockAccount(p) \/ Reserve(p) PROVE AccountInv'
  <2>1. /\ process[p].at \in {"priced", "charged"}
        /\ process'[p].cash = process[p].cash
        /\ process'[p].holding = process[p].holding
        /\ UNCHANGED <<position, account, booked>>
    BY <1>5 DEF IInv, TypeOK, Process, LockAccount, Reserve, GetsDraftRow, books
  <2>2. SessionIsCurrent'
    BY <2>1 DEF AccountInv, SessionIsCurrent
  <2> QED
    BY <1>1, <2>1, <2>2 DEF AccountInv
<1>6. ASSUME UNCHANGED <<position, account, booked, process>> PROVE AccountInv'
  BY <1>1, <1>6 DEF AccountInv, SessionIsCurrent
<1>7. ASSUME NEW b \in Bots, Pause(b) \/ Resume(b) PROVE AccountInv'
  BY <1>6, <1>7 DEF Pause, Resume, books
<1>8. ASSUME NEW r \in Resetters,
             \/ WriteQuoteRow(r) \/ CommitReset(r) \/ AbortReset(r)
             \/ \E b \in Bots : ReadQuoteRow(r, b)
      PROVE  AccountInv'
  BY <1>6, <1>8 DEF WriteQuoteRow, CommitReset, AbortReset, ReadQuoteRow, books
<1>9. CASE UNCHANGED vars
  BY <1>6, <1>9 DEF vars
<1> QED
  BY <1>2, <1>3, <1>4, <1>5, <1>7, <1>8, <1>9 DEF Next, Evaluate

\* With one process, the shared account shows every fill of every bot, resets and
\* failures or not: no sell goes unmirrored and no fill's cash is lost
\* (submit_order_intent and _mirror_legacy_sell_fill_if_possible of
\* simulated_execution.py).  With two, paper_lost_cash shows that it does not.
THEOREM AccountShowsEveryFillAlways ==
  ASSUME Unit = 1, IsFiniteSet(Bots), \A p, q \in Processes : p = q
  PROVE  Spec => []AccountShowsEveryFill
<1>1. Init => AccountInv
  <2> SUFFICES ASSUME Init PROVE AccountInv
    OBVIOUS
  <2>1. SessionIsCurrent
    BY DEF Init, SessionIsCurrent, Idle, Begun
  <2>2. Cardinality(Holders) = 0
    <3>1. Holders = {}
      BY DEF Init, Holders
    <3> QED
      BY <3>1, FS_EmptySet
  <2>3. AccountShowsEveryFill
    BY <2>2, AmountAssumption DEF Init, AccountShowsEveryFill
  <2> QED
    BY <2>1, <2>3 DEF AccountInv
<1>2. IInv /\ AccountInv /\ [Next]_vars => AccountInv'
  BY FillBuyShows, FillSellShows, OtherStepsKeepAccount
<1>3. AccountInv => AccountShowsEveryFill
  BY DEF AccountInv
<1> QED
  BY <1>1, <1>2, <1>3, Invariant, PTL DEF Spec

=============================================================================
