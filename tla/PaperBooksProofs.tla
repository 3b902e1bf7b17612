------------------------- MODULE PaperBooksProofs -------------------------
(***************************************************************************)
(* Proofs about the books of the paper account (PaperAccounting) and the   *)
(* rows an evaluation leaves (PaperTrail).                                 *)
(***************************************************************************)
EXTENDS PaperAccounting, PaperTrail, FiniteSetTheorems, TLAPS

----------------------------------------------------------------------------
(* The books: shapes                                                       *)

Positions == [quantity: Nat, average: Nat, realized: Int]
Wallets == [start: Balances, cash: Int]
Wanted == [side: {"buy", "sell"}, quantity: Nat \ {0}, price: FillPrices]
Placements ==
  {NothingPlaced} \cup [at: {"read"}, fill: Wanted, wallet: Wallets, shared: Positions]
Draft == [free: Nat, position: Positions]
Snapshots == {NoSnapshot} \cup [taken: {TRUE}, cash: Int, price: Int, equity: Int]

AccountShape ==
  /\ wallet \in Wallets
  /\ shared \in Positions
  /\ own \in [Owners -> Draft]
  /\ snapshot \in [Owners -> Snapshots]
  /\ booked \in [cash: Int, realized: Int]
  /\ placed \in [Traders -> Placements]
  /\ slack \in [Traders -> Nat]
  /\ overtaken \in BOOLEAN

\* What a position has cost, less the profits made with it: the part of the
\* money that the cash does not show.
Held(position) == position.quantity * position.average - position.realized

Near(x, twice) == 2 * x <= twice /\ -(2 * x) <= twice

\* The order of a bot still fits its books: nobody else writes them.
OrdersFit ==
  \A b \in Owners : placed[b].at = "read" =>
    IF own[b].position.quantity = 0 THEN placed[b].fill.side = "buy"
    ELSE placed[b].fill.side = "sell"
           /\ placed[b].fill.quantity = own[b].position.quantity

\* The shared books, as long as no order wrote over another.
SharedBalances ==
  ~overtaken =>
    /\ Near(wallet.cash + Held(shared) - wallet.start, slack[NoBot])
    /\ wallet.cash = wallet.start + booked.cash
    /\ shared.realized = booked.realized
    /\ shared.quantity = 0 => shared.average = 0

\* The books of the bots, always.
OwnBalances ==
  \A b \in Owners : Near(own[b].free + Held(own[b].position) - OwnStart, slack[b])

\* The latest snapshot of a bot is one of its present books.
SnapshotsAreCurrent ==
  \A b \in Owners : snapshot[b].taken =>
    snapshot[b].equity = own[b].free + own[b].position.quantity * snapshot[b].price

AccountInv ==
  /\ AccountShape /\ OrdersFit
  /\ SharedBalances /\ OwnBalances /\ SnapshotsAreCurrent

----------------------------------------------------------------------------
(* The books: arithmetic                                                   *)

\* A quotient rounded half up, times its divisor, is at most half the divisor
\* away.
LEMMA QuotientIsNear ==
  ASSUME NEW n \in Nat, NEW d \in Nat \ {0}
  PROVE  /\ (2 * n + d) \div (2 * d) \in Nat
         /\ Near(d * ((2 * n + d) \div (2 * d)) - n, d)
<1> DEFINE x == 2 * n + d
           e == 2 * d
           a == x \div e
<1>1. x \in Nat /\ e \in Nat \ {0}
  OBVIOUS
<1> HIDE DEF x, e
<1>2. a \in Int /\ x % e \in 0..(e - 1) /\ x = (e * a) + (x % e)
  BY <1>1
<1> HIDE DEF a
<1>3. a \in Nat
  <2> SUFFICES ASSUME a < 0 PROVE FALSE
    BY <1>2
  <2>1. e * a <= -e
    BY <1>1, <1>2
  <2> QED
    BY <1>1, <1>2, <2>1
<1>4. e * a = 2 * (d * a) /\ d * a \in Int
  BY <1>2 DEF e
<1>5. 2 * (d * a) <= 2 * n + d /\ 2 * n + d < 2 * (d * a) + 2 * d
  BY <1>1, <1>2, <1>4 DEF x, e
<1>6. Near(d * a - n, d)
  BY <1>4, <1>5 DEF Near
<1> QED
  BY <1>3, <1>6 DEF a, x, e

LEMMA MoneyOfFill ==
  ASSUME NEW fill \in Wanted
  PROVE  /\ fill.quantity \in Nat \ {0} /\ fill.price \in Nat
         /\ CostOf(fill) \in Nat
         /\ ProceedsOf(fill) \in Int
<1>1. fill.quantity \in Nat \ {0} /\ fill.price \in Nat /\ FillFee \in Nat
  BY AccountAssumption DEF Wanted
<1>2. fill.quantity * fill.price \in Nat
  BY <1>1
<1> QED
  BY <1>1, <1>2 DEF CostOf, ProceedsOf

\* A buy moves its cost from the cash into the position, but for the rounding.
LEMMA BuyMovesCost ==
  ASSUME NEW position \in Positions, NEW fill \in Wanted
  PROVE  /\ Increased(position, fill) \in Positions
         /\ Increased(position, fill).quantity = position.quantity + fill.quantity
         /\ Increased(position, fill).realized = position.realized
         /\ Near(Held(Increased(position, fill)) - Held(position) - CostOf(fill),
                 position.quantity + fill.quantity)
<1> DEFINE q == position.quantity
           a == position.average
           d == q + fill.quantity
           n == q * a + CostOf(fill)
           average == AverageAfter(position, fill)
<1>1. q \in Nat /\ a \in Nat /\ position.realized \in Int /\ fill.quantity \in Nat \ {0}
        /\ CostOf(fill) \in Nat
  BY MoneyOfFill DEF Positions
<1>2. d \in Nat \ {0} /\ q * a \in Nat
  BY <1>1
<1>3. n \in Nat
  BY <1>1, <1>2
<1>4. average = (2 * n + d) \div (2 * d)
  BY DEF AverageAfter
<1> HIDE DEF n, d, average
<1>5. average \in Nat /\ Near(d * average - n, d)
  BY <1>2, <1>3, <1>4, QuotientIsNear
<1>6. Increased(position, fill) = [position EXCEPT !.quantity = d, !.average = average]
  BY DEF Increased, d, average
<1>7. /\ Increased(position, fill) \in Positions
      /\ Increased(position, fill).quantity = d
      /\ Increased(position, fill).average = average
      /\ Increased(position, fill).realized = position.realized
  BY <1>2, <1>5, <1>6 DEF Positions
<1>8. Held(Increased(position, fill)) - Held(position) - CostOf(fill) = d * average - n
  <2>1. d * average \in Int
    BY <1>2, <1>5
  <2> QED
    BY <1>1, <1>2, <1>7, <2>1 DEF Held, n
<1> QED
  BY <1>5, <1>7, <1>8 DEF d

\* A sell moves its proceeds out of the position into the cash, exactly.
LEMMA SellMovesProceeds ==
  ASSUME NEW position \in Positions, NEW fill \in Wanted, fill.quantity <= position.quantity
  PROVE  /\ Decreased(position, fill) \in Positions
         /\ Decreased(position, fill).quantity = position.quantity - fill.quantity
         /\ Decreased(position, fill).quantity = 0 => Decreased(position, fill).average = 0
         /\ Held(Decreased(position, fill)) = Held(position) - ProceedsOf(fill)
<1> DEFINE q == position.quantity
           a == position.average
           f == fill.quantity
           left == q - f
           kept == IF q = f THEN 0 ELSE a
           realized == position.realized + ProfitOf(position, fill)
<1>1. q \in Nat /\ a \in Nat /\ position.realized \in Int /\ f \in Nat \ {0}
        /\ ProceedsOf(fill) \in Int
  BY MoneyOfFill DEF Positions
<1>2. f * a \in Nat /\ q * a \in Nat /\ left \in Nat /\ kept \in Nat
  BY <1>1
<1>3. ProfitOf(position, fill) = ProceedsOf(fill) - f * a
  BY DEF ProfitOf
<1>4. realized \in Int /\ realized = position.realized + ProceedsOf(fill) - f * a
  BY <1>1, <1>2, <1>3
<1>5. left * kept = q * a - f * a
  BY <1>1
<1>6. Decreased(position, fill) = [quantity |-> left, average |-> kept, realized |-> realized]
  BY DEF Decreased
<1> HIDE DEF left, kept, realized
<1>7. Decreased(position, fill) \in Positions
  BY <1>2, <1>4, <1>6 DEF Positions
<1>8. Held(Decreased(position, fill)) = left * kept - realized
  BY <1>6 DEF Held
<1>9. Held(position) = q * a - position.realized
  BY DEF Held
<1>10. Held(Decreased(position, fill)) = Held(position) - ProceedsOf(fill)
  BY <1>1, <1>2, <1>4, <1>5, <1>8, <1>9
<1>11. Decreased(position, fill).quantity = left /\ Decreased(position, fill).average = kept
  BY <1>6
<1> QED
  BY <1>1, <1>7, <1>10, <1>11 DEF left, kept

LEMMA WalletIsInt ==
  ASSUME NEW w \in Wallets
  PROVE  w.cash \in Int /\ w.start \in Int
<1>1. w.cash \in Int /\ w.start \in Balances
  BY DEF Wallets
<1>2. \A balance \in Balances : balance \in Int
  BY AccountAssumption
<1> QED
  BY <1>1, <1>2

LEMMA HeldIsInt ==
  ASSUME NEW position \in Positions
  PROVE  Held(position) \in Int
<1>1. position.quantity \in Nat /\ position.average \in Nat /\ position.realized \in Int
  BY DEF Positions
<1>2. position.quantity * position.average \in Nat
  BY <1>1
<1> QED
  BY <1>1, <1>2 DEF Held

\* An order that saw the row as it is leaves what it computed; any other leaves a
\* row of the same shape.
LEMMA MergeWallets ==
  ASSUME NEW row \in Wallets, NEW seen \in Wallets, NEW new \in Wallets
  PROVE  Merge(row, seen, new) \in Wallets /\ (seen = row => Merge(row, seen, new) = new)
<1>1. /\ DOMAIN row = {"start", "cash"} /\ new = [column \in {"start", "cash"} |-> new[column]]
  BY DEF Wallets
<1>2. seen = row => Merge(row, seen, new) = new
  BY <1>1 DEF Merge
<1>3. Merge(row, seen, new) =
        [start |-> IF new.start = seen.start THEN row.start ELSE new.start,
         cash |-> IF new.cash = seen.cash THEN row.cash ELSE new.cash]
  BY <1>1 DEF Merge
<1> QED
  BY <1>2, <1>3 DEF Wallets

LEMMA MergePositions ==
  ASSUME NEW row \in Positions, NEW seen \in Positions, NEW new \in Positions
  PROVE  Merge(row, seen, new) \in Positions /\ (seen = row => Merge(row, seen, new) = new)
<1>1. /\ DOMAIN row = {"quantity", "average", "realized"}
      /\ new = [column \in {"quantity", "average", "realized"} |-> new[column]]
  BY DEF Positions
<1>2. seen = row => Merge(row, seen, new) = new
  BY <1>1 DEF Merge
<1>3. Merge(row, seen, new) =
        [quantity |-> IF new.quantity = seen.quantity THEN row.quantity ELSE new.quantity,
         average |-> IF new.average = seen.average THEN row.average ELSE new.average,
         realized |-> IF new.realized = seen.realized THEN row.realized ELSE new.realized]
  BY <1>1 DEF Merge
<1> QED
  BY <1>2, <1>3 DEF Positions

----------------------------------------------------------------------------
(* The books: steps                                                        *)

LEMMA NearAdds ==
  ASSUME NEW x \in Int, NEW y \in Int, NEW s \in Int, NEW e \in Int, NEW u \in Int,
         Near(x, s), Near(y, e), s + e <= u
  PROVE  Near(x + y, u)
BY DEF Near

LEMMA AccountInitInv == AccountInit => AccountInv
<1> SUFFICES ASSUME AccountInit PROVE AccountInv
  OBVIOUS
<1>1. PICK balance \in Balances : wallet = [start |-> balance, cash |-> balance]
  BY DEF AccountInit
<1>2. balance \in Int /\ OwnStart \in Nat /\ NoBot \in Traders
  BY AccountAssumption DEF Traders
<1>3. Flat \in Positions /\ Held(Flat) = 0 /\ Flat.quantity = 0 /\ Flat.average = 0
  BY DEF Flat, Positions, Held
<1>4. [free |-> OwnStart, position |-> Flat] \in Draft
  BY <1>2, <1>3 DEF Draft
<1>5. wallet \in Wallets
  BY <1>1, <1>2 DEF Wallets
<1>6. AccountShape
  <2>1. own \in [Owners -> Draft] /\ snapshot \in [Owners -> Snapshots]
    BY <1>4 DEF AccountInit, Snapshots
  <2>2. placed \in [Traders -> Placements] /\ slack \in [Traders -> Nat]
    BY DEF AccountInit, Placements
  <2>3. booked \in [cash: Int, realized: Int]
    BY DEF AccountInit, Nothing
  <2> QED
    BY <1>3, <1>5, <2>1, <2>2, <2>3 DEF AccountInit, AccountShape
<1>7. OrdersFit
  BY DEF AccountInit, OrdersFit, NothingPlaced, Traders
<1>8. SharedBalances
  <2>1. wallet.cash = balance /\ wallet.start = balance
    BY <1>1
  <2>2. Near(wallet.cash + Held(shared) - wallet.start, slack[NoBot])
    BY <1>2, <1>3, <2>1 DEF AccountInit, Near
  <2> QED
    BY <1>2, <1>3, <2>1, <2>2 DEF AccountInit, SharedBalances, Nothing, Flat
<1>9. OwnBalances
  <2> SUFFICES ASSUME NEW b \in Owners
               PROVE  Near(own[b].free + Held(own[b].position) - OwnStart, slack[b])
    BY DEF OwnBalances
  <2>1. own[b].free = OwnStart /\ own[b].position = Flat /\ slack[b] = 0
    BY DEF AccountInit, Traders
  <2> QED
    BY <1>2, <1>3, <2>1 DEF Near
<1>10. SnapshotsAreCurrent
  BY DEF AccountInit, SnapshotsAreCurrent, NoSnapshot
<1> QED
  BY <1>6, <1>7, <1>8, <1>9, <1>10 DEF AccountInv

\* An order at work, and what it has read.
LEMMA OrderIsTyped ==
  ASSUME AccountInv, NEW t \in Traders, placed[t].at = "read"
  PROVE  /\ placed[t].fill \in Wanted
         /\ placed[t].wallet \in Wallets
         /\ placed[t].shared \in Positions
<1>1. placed[t] \in Placements /\ placed[t] # NothingPlaced
  BY DEF AccountInv, AccountShape, NothingPlaced
<1> QED
  BY <1>1 DEF Placements

\* The order of a trader ends, or begins: nothing else of it moves.
LEMMA OrderMovesOn ==
  ASSUME AccountInv, NEW t \in Traders, NEW next \in Placements,
         placed' = [placed EXCEPT ![t] = next],
         \A b \in Owners : b # t => own'[b] = own[b],
         next.at = "read" /\ t # NoBot =>
           IF own'[t].position.quantity = 0 THEN next.fill.side = "buy"
           ELSE next.fill.side = "sell" /\ next.fill.quantity = own'[t].position.quantity
  PROVE  placed' \in [Traders -> Placements] /\ OrdersFit'
<1>1. placed \in [Traders -> Placements] /\ Owners \subseteq Traders /\ NoBot \notin Owners
  BY AccountAssumption DEF AccountInv, AccountShape, Traders
<1>2. placed'[t] = next /\ \A b \in Owners : b # t => placed'[b] = placed[b]
  BY <1>1
<1>3. OrdersFit'
  BY <1>1, <1>2 DEF AccountInv, OrdersFit
<1> QED
  BY <1>1, <1>3

LEMMA BeginOrderInv ==
  ASSUME AccountInv, NEW t \in Traders, BeginOrder(t)
  PROVE  AccountInv'
<1>1. PICK fill \in Orders(t) :
        placed' = [placed EXCEPT ![t] = [at |-> "read", fill |-> fill,
                                         wallet |-> wallet, shared |-> shared]]
  BY DEF BeginOrder
<1>2. UNCHANGED <<wallet, shared, own, snapshot, booked, slack, overtaken>>
  BY DEF BeginOrder
<1>3. /\ fill \in Wanted
      /\ t # NoBot =>
           IF own[t].position.quantity = 0 THEN fill.side = "buy"
           ELSE fill.side = "sell" /\ fill.quantity = own[t].position.quantity
  <2>1. CASE t = NoBot
    BY <2>1, AccountAssumption DEF Orders, Wanted
  <2>2. CASE t # NoBot /\ own[t].position.quantity = 0
    BY <2>2, AccountAssumption DEF Orders, Wanted
  <2>3. CASE t # NoBot /\ own[t].position.quantity # 0
    <3>1. own[t].position.quantity \in Nat \ {0}
      BY <2>3 DEF Traders, AccountInv, AccountShape, Draft, Positions
    <3> QED
      BY <2>3, <3>1 DEF Orders, Wanted
  <2> QED
    BY <2>1, <2>2, <2>3
<1> DEFINE next == [at |-> "read", fill |-> fill, wallet |-> wallet, shared |-> shared]
<1>4. next \in Placements /\ next.fill = fill
  BY <1>3 DEF AccountInv, AccountShape, Placements
<1> HIDE DEF next
<1>5. placed' = [placed EXCEPT ![t] = next]
  BY <1>1 DEF next
<1>6. placed' \in [Traders -> Placements] /\ OrdersFit'
  BY <1>2, <1>3, <1>4, <1>5, OrderMovesOn
<1>7. AccountShape'
  BY <1>2, <1>6 DEF AccountInv, AccountShape
<1>8. SharedBalances' /\ OwnBalances' /\ SnapshotsAreCurrent'
  BY <1>2 DEF AccountInv, SharedBalances, OwnBalances, SnapshotsAreCurrent
<1> QED
  BY <1>6, <1>7, <1>8 DEF AccountInv

LEMMA RefuseTradeInv ==
  ASSUME AccountInv, NEW t \in Traders, RefuseTrade(t)
  PROVE  AccountInv'
<1>1. /\ placed' = [placed EXCEPT ![t] = NothingPlaced]
      /\ UNCHANGED <<wallet, shared, own, snapshot, booked, slack, overtaken>>
  BY DEF RefuseTrade, OrderEnds
<1>2. NothingPlaced \in Placements /\ NothingPlaced.at = "none"
  BY DEF NothingPlaced, Placements
<1>3. placed' \in [Traders -> Placements] /\ OrdersFit'
  BY <1>1, <1>2, OrderMovesOn
<1>4. AccountShape'
  BY <1>1, <1>3 DEF AccountInv, AccountShape
<1>5. SharedBalances' /\ OwnBalances' /\ SnapshotsAreCurrent'
  BY <1>1 DEF AccountInv, SharedBalances, OwnBalances, SnapshotsAreCurrent
<1> QED
  BY <1>3, <1>4, <1>5 DEF AccountInv

\* The write of the shared books: unless it overwrote something, they balance as
\* before, but for what the position's rounding moved.
LEMMA SharedWrite ==
  ASSUME AccountInv, NEW t \in Traders, placed[t].at = "read",
         NEW cash \in Int, NEW position \in Positions, NEW moved \in Nat,
         ApplyShared(t, cash, position),
         Near(Held(position) - Held(placed[t].shared) + cash, moved),
         position.quantity = 0 => position.average = 0,
         slack'[NoBot] = slack[NoBot] + moved
  PROVE  /\ wallet' \in Wallets /\ shared' \in Positions
         /\ booked' \in [cash: Int, realized: Int] /\ overtaken' \in BOOLEAN
         /\ SharedBalances'
<1> DEFINE seen == placed[t]
           paid == [seen.wallet EXCEPT !.cash = @ + cash]
<1>1. seen.wallet \in Wallets /\ seen.shared \in Positions
  BY OrderIsTyped
<1>2. wallet \in Wallets /\ shared \in Positions /\ overtaken \in BOOLEAN
        /\ booked.cash \in Int /\ booked.realized \in Int
        /\ NoBot \in Traders /\ slack[NoBot] \in Nat
  BY DEF AccountInv, AccountShape, Traders
<1>3. paid \in Wallets /\ paid.cash = seen.wallet.cash + cash /\ paid.start = seen.wallet.start
  BY <1>1 DEF Wallets
<1> HIDE DEF paid
<1>4. /\ wallet' = Merge(wallet, seen.wallet, paid)
      /\ shared' = Merge(shared, seen.shared, position)
      /\ booked' = [cash |-> booked.cash + cash,
                    realized |-> booked.realized + position.realized - seen.shared.realized]
      /\ overtaken' = (overtaken \/ seen.wallet # wallet \/ seen.shared # shared)
  BY DEF ApplyShared, paid
<1>5. wallet' \in Wallets /\ shared' \in Positions
  BY <1>1, <1>2, <1>3, <1>4, MergeWallets, MergePositions
<1>6. position.realized \in Int /\ seen.shared.realized \in Int
  BY <1>1 DEF Positions
<1>7. booked' \in [cash: Int, realized: Int] /\ overtaken' \in BOOLEAN
  BY <1>2, <1>4, <1>6
<1>8. SharedBalances'
  <2> SUFFICES ASSUME ~overtaken'
               PROVE  /\ Near(wallet'.cash + Held(shared') - wallet'.start, slack'[NoBot])
                      /\ wallet'.cash = wallet'.start + booked'.cash
                      /\ shared'.realized = booked'.realized
                      /\ shared'.quantity = 0 => shared'.average = 0
    BY DEF SharedBalances, Held
  <2>1. ~overtaken /\ seen.wallet = wallet /\ seen.shared = shared
    BY <1>4
  <2>2. wallet' = paid /\ shared' = position
    BY <1>2, <1>3, <1>4, <2>1, MergeWallets, MergePositions
  <2>3. /\ Near(wallet.cash + Held(shared) - wallet.start, slack[NoBot])
        /\ wallet.cash = wallet.start + booked.cash
        /\ shared.realized = booked.realized
    BY <2>1 DEF AccountInv, SharedBalances
  <2>4. wallet.cash \in Int /\ wallet.start \in Int
    BY <1>2, WalletIsInt
  <2>5. wallet'.cash = wallet.cash + cash /\ wallet'.start = wallet.start
    BY <1>3, <2>1, <2>2
  <2>6. Held(shared) \in Int /\ Held(position) \in Int
    BY <1>2, HeldIsInt
  <2>7. Near((wallet.cash + Held(shared) - wallet.start) + (Held(position) - Held(shared) + cash),
             slack'[NoBot])
    BY <1>2, <2>1, <2>3, <2>4, <2>6, NearAdds
  <2>8. (wallet.cash + Held(shared) - wallet.start) + (Held(position) - Held(shared) + cash)
          = wallet'.cash + Held(position) - wallet'.start
    BY <2>4, <2>5, <2>6
  <2>9. Near(wallet'.cash + Held(shared') - wallet'.start, slack'[NoBot])
    BY <2>2, <2>7, <2>8
  <2>10. booked'.cash = booked.cash + cash
           /\ booked'.realized = booked.realized + position.realized - seen.shared.realized
    BY <1>4
  <2> QED
    BY <1>2, <1>6, <2>1, <2>2, <2>3, <2>4, <2>5, <2>9, <2>10
<1> QED
  BY <1>5, <1>7, <1>8

\* The write of a bot's own books, and the snapshot of them.
LEMMA OwnWrite ==
  ASSUME AccountInv, NEW b \in Owners,
         NEW cash \in Int, NEW position \in Positions, NEW moved \in Nat,
         ApplyOwn(b, cash, position), own[b].free + cash >= 0,
         Near(Held(position) - Held(own[b].position) + cash, moved),
         slack'[b] = slack[b] + moved,
         \A c \in Owners : c # b => slack'[c] = slack[c]
  PROVE  /\ own' \in [Owners -> Draft] /\ snapshot' \in [Owners -> Snapshots]
         /\ \A c \in Owners : c # b => own'[c] = own[c]
         /\ own'[b].position = position
         /\ OwnBalances' /\ SnapshotsAreCurrent'
<1>1. b # NoBot /\ b \in Traders /\ OwnStart \in Int
  BY AccountAssumption DEF Traders
<1>2. own \in [Owners -> Draft] /\ snapshot \in [Owners -> Snapshots] /\ slack[b] \in Nat
  BY <1>1 DEF AccountInv, AccountShape
<1>3. own[b].free \in Nat /\ own[b].position \in Positions
  BY <1>2 DEF Draft
<1> DEFINE written == [free |-> own[b].free + cash, position |-> position]
<1>4. own' = [own EXCEPT ![b] = written]
  BY <1>1 DEF ApplyOwn
<1>5. written \in Draft /\ written.free = own[b].free + cash /\ written.position = position
  BY <1>3 DEF Draft
<1> HIDE DEF written
<1>6. own' \in [Owners -> Draft] /\ own'[b] = written /\ \A c \in Owners : c # b => own'[c] = own[c]
  BY <1>2, <1>4, <1>5
<1>7. PICK price \in FillPrices : Snapshot(b, price)
  BY <1>1 DEF ApplyOwn
<1> DEFINE taken == [taken |-> TRUE, cash |-> written.free, price |-> price,
                     equity |-> TotalEquity(b, written.free, position.quantity, price)]
<1>8. snapshot' = [snapshot EXCEPT ![b] = taken]
  BY <1>5, <1>6, <1>7 DEF Snapshot
<1>9. /\ taken \in Snapshots
      /\ taken.equity = written.free + position.quantity * taken.price
  <2>1. price \in Nat /\ position.quantity \in Nat /\ written.free \in Nat
    BY <1>5, AccountAssumption DEF Positions, Draft
  <2>2. TotalEquity(b, written.free, position.quantity, price) \in Int
    BY <2>1 DEF TotalEquity
  <2> QED
    BY <2>1, <2>2 DEF Snapshots, TotalEquity
<1> HIDE DEF taken
<1>10. /\ snapshot' \in [Owners -> Snapshots] /\ snapshot'[b] = taken
       /\ \A c \in Owners : c # b => snapshot'[c] = snapshot[c]
  BY <1>2, <1>8, <1>9
<1>11. Near(own'[b].free + Held(own'[b].position) - OwnStart, slack'[b])
  <2>1. Near(own[b].free + Held(own[b].position) - OwnStart, slack[b])
    BY DEF AccountInv, OwnBalances
  <2>2. Held(position) \in Int /\ Held(own[b].position) \in Int
    BY <1>3, HeldIsInt
  <2>3. Near((own[b].free + Held(own[b].position) - OwnStart)
               + (Held(position) - Held(own[b].position) + cash), slack'[b])
    BY <1>1, <1>2, <1>3, <2>1, <2>2, NearAdds
  <2>4. (own[b].free + Held(own[b].position) - OwnStart)
            + (Held(position) - Held(own[b].position) + cash)
          = (own[b].free + cash) + Held(position) - OwnStart
    BY <1>1, <1>3, <2>2
  <2> QED
    BY <1>5, <1>6, <2>3, <2>4
<1>12. OwnBalances'
  BY <1>6, <1>11 DEF AccountInv, OwnBalances, Held
<1>13. SnapshotsAreCurrent'
  BY <1>5, <1>6, <1>9, <1>10 DEF AccountInv, SnapshotsAreCurrent
<1> QED
  BY <1>5, <1>6, <1>10, <1>12, <1>13

LEMMA BuyOrderInv ==
  ASSUME AccountInv, NEW t \in Traders, BuyOrder(t)
  PROVE  AccountInv'
<1> DEFINE fill == placed[t].fill
           seen == placed[t].shared
           bought == Increased(seen, fill)
<1>1. /\ placed[t].at = "read" /\ fill.side = "buy"
      /\ PaysFor(t)
      /\ ApplyShared(t, -CostOf(fill), bought)
      /\ ApplyOwn(t, -CostOf(fill), IF t = NoBot THEN Flat ELSE Increased(own[t].position, fill))
      /\ slack' = [s \in Traders |-> slack[s] + (IF s = NoBot THEN bought.quantity
                                                 ELSE IF s = t THEN fill.quantity ELSE 0)]
      /\ placed' = [placed EXCEPT ![t] = NothingPlaced]
  BY DEF BuyOrder, Ordered, OrderEnds
<1>2. fill \in Wanted /\ seen \in Positions
  BY <1>1, OrderIsTyped
<1>3. CostOf(fill) \in Nat /\ fill.quantity \in Nat \ {0}
  BY <1>2, MoneyOfFill
<1>4. /\ bought \in Positions /\ bought.quantity = seen.quantity + fill.quantity
      /\ Near(Held(bought) - Held(seen) - CostOf(fill), bought.quantity)
  BY <1>2, BuyMovesCost
<1>5. /\ bought.quantity \in Nat \ {0} /\ seen.quantity \in Nat
      /\ Held(bought) \in Int /\ Held(seen) \in Int
  BY <1>2, <1>3, <1>4, HeldIsInt DEF Positions
<1> HIDE DEF fill, bought, seen
<1>6. Held(bought) - Held(seen) + (-CostOf(fill)) = Held(bought) - Held(seen) - CostOf(fill)
  BY <1>3, <1>5
<1>7. NoBot \in Traders /\ Owners \subseteq Traders /\ NoBot \notin Owners
        /\ slack \in [Traders -> Nat]
  BY AccountAssumption DEF Traders, AccountInv, AccountShape
<1>8. /\ slack' \in [Traders -> Nat]
      /\ slack'[NoBot] = slack[NoBot] + bought.quantity
      /\ t # NoBot => slack'[t] = slack[t] + fill.quantity
      /\ \A b \in Owners : b # t => slack'[b] = slack[b]
  <2>1. \A s \in Traders : slack[s] \in Nat
    BY <1>7
  <2>2. slack' \in [Traders -> Nat]
    BY <1>1, <1>3, <1>5, <2>1
  <2> QED
    BY <1>1, <1>3, <1>5, <1>7, <2>1, <2>2
<1>9. /\ wallet' \in Wallets /\ shared' \in Positions
      /\ booked' \in [cash: Int, realized: Int] /\ overtaken' \in BOOLEAN
      /\ SharedBalances'
  <2>1. -CostOf(fill) \in Int /\ bought.quantity \in Nat
    BY <1>3, <1>5
  <2>2. Near(Held(bought) - Held(seen) + (-CostOf(fill)), bought.quantity)
    BY <1>4, <1>6
  <2>3. bought.quantity = 0 => bought.average = 0
    BY <1>5
  <2> QED
    BY <1>1, <1>4, <1>8, <2>1, <2>2, <2>3, SharedWrite DEF seen
<1>10. NothingPlaced \in Placements /\ NothingPlaced.at = "none"
  BY DEF NothingPlaced, Placements
<1>11. CASE t = NoBot
  <2>1. UNCHANGED <<own, snapshot>>
    BY <1>1, <1>11 DEF ApplyOwn
  <2>2. placed' \in [Traders -> Placements] /\ OrdersFit'
    BY <1>1, <1>10, <2>1, OrderMovesOn
  <2>3. AccountShape'
    BY <1>8, <1>9, <2>1, <2>2 DEF AccountInv, AccountShape
  <2>4. OwnBalances' /\ SnapshotsAreCurrent'
    BY <1>7, <1>8, <1>11, <2>1 DEF AccountInv, OwnBalances, SnapshotsAreCurrent
  <2> QED
    BY <1>9, <2>2, <2>3, <2>4 DEF AccountInv
<1>12. CASE t # NoBot
  <2> DEFINE position == Increased(own[t].position, fill)
  <2>1. t \in Owners
    BY <1>12 DEF Traders
  <2>2. own[t].free \in Nat /\ own[t].position \in Positions
    BY <2>1 DEF AccountInv, AccountShape, Draft
  <2>3. own[t].position.quantity = 0
    BY <1>1, <2>1 DEF AccountInv, OrdersFit, fill
  <2>4. /\ position \in Positions
        /\ Near(Held(position) - Held(own[t].position) - CostOf(fill), fill.quantity)
    <3>1. own[t].position.quantity + fill.quantity = fill.quantity
      BY <1>3, <2>3
    <3> QED
      BY <1>2, <2>2, <3>1, BuyMovesCost
  <2> HIDE DEF position
  <2>5. ApplyOwn(t, -CostOf(fill), position)
    BY <1>1, <1>12 DEF position
  <2>6. Held(position) - Held(own[t].position) + (-CostOf(fill))
          = Held(position) - Held(own[t].position) - CostOf(fill)
    BY <1>3, <2>2, <2>4, HeldIsInt
  <2>7. own[t].free + (-CostOf(fill)) >= 0
    BY <1>1, <1>3, <1>12, <2>2 DEF PaysFor, fill
  <2>8. -CostOf(fill) \in Int /\ fill.quantity \in Nat
          /\ Near(Held(position) - Held(own[t].position) + (-CostOf(fill)), fill.quantity)
          /\ slack'[t] = slack[t] + fill.quantity
    BY <1>3, <1>8, <1>12, <2>4, <2>6
  <2>9. /\ own' \in [Owners -> Draft] /\ snapshot' \in [Owners -> Snapshots]
        /\ \A c \in Owners : c # t => own'[c] = own[c]
        /\ OwnBalances' /\ SnapshotsAreCurrent'
    BY <1>8, <2>1, <2>4, <2>5, <2>7, <2>8, OwnWrite
  <2>10. placed' \in [Traders -> Placements] /\ OrdersFit'
    BY <1>1, <1>10, <2>9, OrderMovesOn
  <2>11. AccountShape'
    BY <1>8, <1>9, <2>9, <2>10 DEF AccountShape
  <2> QED
    BY <1>9, <2>9, <2>10, <2>11 DEF AccountInv
<1> QED
  BY <1>11, <1>12

LEMMA SellOrderInv ==
  ASSUME AccountInv, NEW t \in Traders, SellOrder(t)
  PROVE  AccountInv'
<1> DEFINE fill == placed[t].fill
           seen == placed[t].shared
           sold == Decreased(seen, fill)
<1>1. /\ placed[t].at = "read" /\ fill.side = "sell"
      /\ t = NoBot => Covers(t)
      /\ t # NoBot => ProceedsOf(fill) > 0
      /\ IF Covers(t) THEN ApplyShared(t, ProceedsOf(fill), sold)
                      ELSE UNCHANGED <<wallet, shared, booked, overtaken>>
      /\ ApplyOwn(t, ProceedsOf(fill), IF t = NoBot THEN Flat ELSE Decreased(own[t].position, fill))
      /\ slack' = slack
      /\ placed' = [placed EXCEPT ![t] = NothingPlaced]
  BY DEF SellOrder, Ordered, OrderEnds
<1>2. fill \in Wanted /\ seen \in Positions
  BY <1>1, OrderIsTyped
<1>3. ProceedsOf(fill) \in Int /\ fill.quantity \in Nat \ {0}
  BY <1>2, MoneyOfFill
<1>4. NoBot \in Traders /\ Owners \subseteq Traders /\ NoBot \notin Owners
        /\ slack \in [Traders -> Nat]
  BY AccountAssumption DEF Traders, AccountInv, AccountShape
<1>5. /\ wallet' \in Wallets /\ shared' \in Positions
      /\ booked' \in [cash: Int, realized: Int] /\ overtaken' \in BOOLEAN
      /\ SharedBalances'
  <2>1. CASE ~Covers(t)
    BY <1>1, <2>1 DEF AccountInv, AccountShape, SharedBalances
  <2>2. CASE Covers(t)
    <3>1. fill.quantity <= seen.quantity
      BY <1>2, <1>3, <2>2 DEF Covers, Positions
    <3>2. /\ sold \in Positions /\ (sold.quantity = 0 => sold.average = 0)
          /\ Held(sold) = Held(seen) - ProceedsOf(fill)
      BY <1>2, <3>1, SellMovesProceeds
    <3> HIDE DEF sold, fill
    <3>3. Near(Held(sold) - Held(seen) + ProceedsOf(fill), 0)
      <4>1. Held(sold) \in Int /\ Held(seen) \in Int
        BY <1>2, <3>2, HeldIsInt
      <4>2. Held(sold) - Held(seen) + ProceedsOf(fill) = 0
        BY <1>3, <3>2, <4>1
      <4> QED
        BY <4>2 DEF Near
    <3>4. slack'[NoBot] = slack[NoBot] + 0 /\ 0 \in Nat
      BY <1>1, <1>4
    <3>5. ApplyShared(t, ProceedsOf(fill), sold)
      BY <1>1, <2>2
    <3> QED
      BY <1>1, <1>3, <3>2, <3>3, <3>4, <3>5, SharedWrite
  <2> QED
    BY <2>1, <2>2
<1>6. NothingPlaced \in Placements /\ NothingPlaced.at = "none"
  BY DEF NothingPlaced, Placements
<1> HIDE DEF fill, sold
<1>7. CASE t = NoBot
  <2>1. UNCHANGED <<own, snapshot>>
    BY <1>1, <1>7 DEF ApplyOwn
  <2>2. placed' \in [Traders -> Placements] /\ OrdersFit'
    BY <1>1, <1>6, <2>1, OrderMovesOn
  <2>3. AccountShape'
    BY <1>1, <1>5, <2>1, <2>2 DEF AccountInv, AccountShape
  <2>4. OwnBalances' /\ SnapshotsAreCurrent'
    BY <1>1, <2>1 DEF AccountInv, OwnBalances, SnapshotsAreCurrent
  <2> QED
    BY <1>5, <2>2, <2>3, <2>4 DEF AccountInv
<1>8. CASE t # NoBot
  <2> DEFINE position == Decreased(own[t].position, fill)
  <2>1. t \in Owners
    BY <1>8 DEF Traders
  <2>2. own[t].free \in Nat /\ own[t].position \in Positions
    BY <2>1 DEF AccountInv, AccountShape, Draft
  <2>3. fill.quantity = own[t].position.quantity
    BY <1>1, <2>1 DEF AccountInv, OrdersFit, fill
  <2>4. position \in Positions /\ Held(position) = Held(own[t].position) - ProceedsOf(fill)
    BY <1>2, <1>3, <2>2, <2>3, SellMovesProceeds
  <2> HIDE DEF position
  <2>5. ApplyOwn(t, ProceedsOf(fill), position)
    BY <1>1, <1>8 DEF position
  <2>6. Near(Held(position) - Held(own[t].position) + ProceedsOf(fill), 0)
    <3>1. Held(position) \in Int /\ Held(own[t].position) \in Int
      BY <2>2, <2>4, HeldIsInt
    <3>2. Held(position) - Held(own[t].position) + ProceedsOf(fill) = 0
      BY <1>3, <2>4, <3>1
    <3> QED
      BY <3>2 DEF Near
  <2>7. own[t].free + ProceedsOf(fill) >= 0
    BY <1>1, <1>3, <1>8, <2>2
  <2>8. slack'[t] = slack[t] + 0 /\ 0 \in Nat /\ \A c \in Owners : c # t => slack'[c] = slack[c]
    BY <1>1, <1>4
  <2>9. /\ own' \in [Owners -> Draft] /\ snapshot' \in [Owners -> Snapshots]
        /\ \A c \in Owners : c # t => own'[c] = own[c]
        /\ OwnBalances' /\ SnapshotsAreCurrent'
    BY <1>3, <2>1, <2>4, <2>5, <2>6, <2>7, <2>8, OwnWrite
  <2>10. placed' \in [Traders -> Placements] /\ OrdersFit'
    BY <1>1, <1>6, <2>9, OrderMovesOn
  <2>11. AccountShape'
    BY <1>1, <1>4, <1>5, <2>9, <2>10 DEF AccountShape
  <2> QED
    BY <1>5, <2>9, <2>10, <2>11 DEF AccountInv
<1> QED
  BY <1>7, <1>8

LEMMA ResetAccountInv ==
  ASSUME AccountInv, ResetAccount
  PROVE  AccountInv'
<1>1. PICK balance \in Balances : wallet' = [start |-> balance, cash |-> balance]
  BY DEF ResetAccount
<1>2. /\ shared' = Flat /\ booked' = Nothing
      /\ slack' = [slack EXCEPT ![NoBot] = 0]
      /\ UNCHANGED <<own, snapshot, placed, overtaken>>
  BY DEF ResetAccount
<1>3. balance \in Int /\ NoBot \in Traders /\ Owners \subseteq Traders /\ NoBot \notin Owners
        /\ slack \in [Traders -> Nat]
  BY AccountAssumption DEF Traders, AccountInv, AccountShape
<1>4. /\ wallet' \in Wallets /\ wallet'.cash = balance /\ wallet'.start = balance
      /\ Flat \in Positions /\ Held(Flat) = 0 /\ Flat.average = 0 /\ Flat.realized = 0
      /\ Nothing \in [cash: Int, realized: Int] /\ Nothing.cash = 0 /\ Nothing.realized = 0
  BY <1>1, <1>3 DEF Wallets, Flat, Positions, Held, Nothing
<1>5. /\ slack' \in [Traders -> Nat] /\ slack'[NoBot] = 0
      /\ \A b \in Owners : slack'[b] = slack[b]
  BY <1>2, <1>3
<1>6. AccountShape'
  BY <1>2, <1>4, <1>5 DEF AccountInv, AccountShape
<1>7. OrdersFit' /\ SnapshotsAreCurrent'
  BY <1>2 DEF AccountInv, OrdersFit, SnapshotsAreCurrent
<1>8. OwnBalances'
  BY <1>2, <1>5 DEF AccountInv, OwnBalances
<1>9. SharedBalances'
  <2>1. Near(wallet'.cash + Held(shared') - wallet'.start, slack'[NoBot])
    BY <1>2, <1>3, <1>4, <1>5 DEF Near
  <2> QED
    BY <1>2, <1>3, <1>4, <2>1 DEF SharedBalances, Held
<1> QED
  BY <1>6, <1>7, <1>8, <1>9 DEF AccountInv

\* The books as the summaries read them.
LEMMA BooksAreRight ==
  ASSUME AccountInv
  PROVE  AccountHolds
<1>1. wallet \in Wallets /\ shared \in Positions
  BY DEF AccountInv, AccountShape
<1>2. wallet.cash \in Int /\ wallet.start \in Int
  BY <1>1, WalletIsInt
<1>3. shared.quantity \in Nat /\ shared.average \in Nat /\ shared.realized \in Int
  BY <1>1 DEF Positions
<1>4. \A b \in Owners :
        /\ own[b].free \in Nat /\ own[b].position.quantity \in Nat
        /\ own[b].position.average \in Nat /\ own[b].position.realized \in Int
  <2>1. \A b \in Owners : own[b].free \in Nat /\ own[b].position \in Positions
    BY DEF AccountInv, AccountShape, Draft
  <2> QED
    BY <2>1 DEF Positions
<1>5. AccountTypeOK
  <2>1. \A t \in Traders : placed[t].at \in {"none", "read"}
    BY DEF AccountInv, AccountShape, Placements, NothingPlaced
  <2>2. shared.quantity = 0 /\ ~overtaken => shared.average = 0
    BY DEF AccountInv, SharedBalances
  <2> QED
    BY <1>1, <1>3, <1>4, <2>1, <2>2 DEF AccountTypeOK, Wallets
<1>6. BooksBalance
  <2> SUFFICES ASSUME ~overtaken
               PROVE  /\ \A price \in FillPrices :
                           Within(NoBot, Summary(price).equity,
                                  wallet.start + Summary(price).realized
                                    + Summary(price).unrealized)
                      /\ wallet.cash = wallet.start + booked.cash
                      /\ shared.realized = booked.realized
    BY DEF BooksBalance
  <2>1. /\ Near(wallet.cash + Held(shared) - wallet.start, slack[NoBot])
        /\ wallet.cash = wallet.start + booked.cash
        /\ shared.realized = booked.realized
    BY DEF AccountInv, SharedBalances
  <2>2. ASSUME NEW price \in FillPrices
        PROVE  Within(NoBot, Summary(price).equity,
                      wallet.start + Summary(price).realized + Summary(price).unrealized)
    <3> DEFINE q == shared.quantity
               value == wallet.cash + q * price
               target == wallet.start + shared.realized + q * (price - shared.average)
    <3>1. price \in Nat
      BY AccountAssumption
    <3>2. q * price \in Int /\ q * shared.average \in Int
            /\ q * (price - shared.average) = q * price - q * shared.average
      BY <1>3, <3>1
    <3>3. value - target = wallet.cash + Held(shared) - wallet.start
            /\ target - value = -(wallet.cash + Held(shared) - wallet.start)
      BY <1>2, <1>3, <3>2 DEF Held
    <3>4. value \in Int /\ target \in Int
      BY <1>2, <1>3, <3>2
    <3> HIDE DEF value, target
    <3>5. Near(value - target, slack[NoBot]) /\ target - value = -(value - target)
      BY <2>1, <3>3, <3>4
    <3>6. 2 * (value - target) <= slack[NoBot] /\ 2 * (target - value) <= slack[NoBot]
      BY <3>4, <3>5 DEF Near
    <3> QED
      BY <3>6 DEF Within, Summary, value, target
  <2> QED
    BY <2>1, <2>2
<1>7. SummariesRecoverTheStart
  <2> SUFFICES ASSUME NEW b \in Owners, snapshot[b].taken
               PROVE  Within(b, SummaryStart(b), OwnStart)
    BY DEF SummariesRecoverTheStart
  <2> DEFINE q == own[b].position.quantity
             price == snapshot[b].price
             x == own[b].free + Held(own[b].position) - OwnStart
  <2>1. price \in Int /\ OwnStart \in Nat
    <3>1. snapshot[b] \in Snapshots /\ snapshot[b] # NoSnapshot
      BY DEF AccountInv, AccountShape, NoSnapshot
    <3> QED
      BY <3>1, AccountAssumption DEF Snapshots
  <2>2. snapshot[b].equity = own[b].free + q * price
    BY DEF AccountInv, SnapshotsAreCurrent
  <2>3. Near(x, slack[b])
    BY DEF AccountInv, OwnBalances
  <2>4. q * price \in Int /\ q * own[b].position.average \in Int
          /\ q * (price - own[b].position.average) = q * price - q * own[b].position.average
    BY <1>4, <2>1
  <2>5. SummaryStart(b) = own[b].free + q * own[b].position.average - own[b].position.realized
    BY <1>4, <2>1, <2>2, <2>4 DEF SummaryStart
  <2>6. SummaryStart(b) - OwnStart = x /\ OwnStart - SummaryStart(b) = -x /\ x \in Int
    BY <1>4, <2>1, <2>4, <2>5 DEF Held
  <2> QED
    BY <2>3, <2>6 DEF Within, Near
<1> QED
  BY <1>5, <1>6, <1>7 DEF AccountHolds

\* Over orders of bots and by hand in any order, mirrored sells and resets, as
\* long as no order wrote over rows that had changed since it read them: the equity
\* of the shared account is its start and its profits, up to the rounding of the
\* averages; and a bot's summary always finds the draft balance it began with
\* (paper_portfolio.py, paper_equity_summary.py).
THEOREM AccountHoldsAlways == AccountSpec => []AccountHolds
<1>1. AccountInit => AccountInv
  BY AccountInitInv
<1>2. AccountInv /\ [AccountNext]_accountVars => AccountInv'
  <2> SUFFICES ASSUME AccountInv, [AccountNext]_accountVars PROVE AccountInv'
    OBVIOUS
  <2>1. CASE UNCHANGED accountVars
    BY <2>1 DEF accountVars, AccountInv, AccountShape, OrdersFit, SharedBalances, OwnBalances,
                SnapshotsAreCurrent
  <2> QED
    BY <2>1, BeginOrderInv, BuyOrderInv, SellOrderInv, RefuseTradeInv, ResetAccountInv
       DEF AccountNext
<1>3. AccountInv => AccountHolds
  BY BooksAreRight
<1> QED
  BY <1>1, <1>2, <1>3, PTL DEF AccountSpec

----------------------------------------------------------------------------
(* The trail: shapes                                                       *)

Sides == {"buy", "sell"}
Statuses == {"filled", "rejected_by_broker", "blocked_by_safety", "blocked_by_risk"}
Reasons ==
  {"allowed", "filled", "risk_limit", "paper_trading_disabled",
   "insufficient_draft_balance_available", "insufficient_paper_cash",
   "execution_global_disabled", "max_order_notional_exceeded",
   "max_daily_order_count_exceeded", "max_daily_loss_exceeded", "Simulation is disabled"}
AttemptRows == [status: Statuses, side: Sides, reason: Reasons, order: Nat]
OrderRows == [status: {"filled", "rejected"}, side: Sides]
FillRows == [order: Nat, side: Sides, price: TrailPrices]
SnapshotRows == [order: Nat, fill: Nat, kind: Sides, base: Int]
EventRows ==
  [message: {"signal", "risk_limit_blocked", "order_rejected", "order_filled"},
   side: Sides, reason: Reasons]
Decisions ==
  {AtRest} \cup [at: {"ordered"}, side: Sides]
    \cup [at: {"done"}, side: Sides, filled: BOOLEAN, reason: Reasons, order: Nat,
          attempted: BOOLEAN]

RowsShape ==
  /\ attempts \in Seq(AttemptRows)
  /\ orders \in Seq(OrderRows)
  /\ fills \in Seq(FillRows)
  /\ snapshots \in Seq(SnapshotRows)
  /\ runEvents \in Seq(EventRows)
  /\ deciding \in Decisions
  /\ lost \in BOOLEAN

BooksShape ==
  /\ switches \in Switches
  /\ purse \in [free: Nat, base: Nat]
  /\ lots \in {0, 1} /\ purse.base <= lots
  /\ pool \in [cash: Nat, held: Nat]
  /\ used \in Nat /\ loss \in Nat /\ dawn \in Nat

\* An evaluation that has passed the checks still has what they saw: only its own
\* order changes the position, and the quota of the day only shrinks meanwhile.
OrderedIsFit ==
  deciding.at = "ordered" =>
    /\ deciding.side = Side
    /\ switches.trading
    /\ deciding.side = "buy" => used < switches.maxCount

\* Every fill has its filled order and its snapshot.
FillsAreBacked ==
  /\ Len(snapshots) = Len(fills)
  /\ \A f \in DOMAIN fills :
       /\ fills[f].order \in DOMAIN orders
       /\ orders[fills[f].order].status = "filled"
       /\ orders[fills[f].order].side = fills[f].side
       /\ snapshots[f].order = fills[f].order
       /\ snapshots[f].fill = f
       /\ snapshots[f].kind = fills[f].side

Named(o) == \E a \in DOMAIN attempts : attempts[a].order = o

\* The order whose attempt is still to be written.
Unwritten(o) == deciding.at = "done" /\ ~deciding.attempted /\ deciding.order = o

\* An attempt agrees with the order it names and no two name the same; an order
\* that none names was rejected and is to be named, or the process died.
AttemptsAgree ==
  /\ \A a \in DOMAIN attempts :
       /\ attempts[a].status = "filled" => attempts[a].order # 0
       /\ attempts[a].order # 0 =>
            /\ attempts[a].order \in DOMAIN orders
            /\ attempts[a].side = orders[attempts[a].order].side
            /\ attempts[a].status = "filled" <=> orders[attempts[a].order].status = "filled"
  /\ \A a, b \in DOMAIN attempts :
       attempts[a].order = attempts[b].order /\ attempts[a].order # 0 => a = b

OrdersAreNamed ==
  \A o \in DOMAIN orders :
    ~Named(o) => orders[o].status = "rejected" /\ (lost \/ Unwritten(o))

\* The order without an attempt is one that nobody names yet.
UnwrittenIsNew ==
  deciding.at = "done" /\ ~deciding.attempted =>
    /\ ~deciding.filled /\ ~switches.simulation
    /\ deciding.order \in DOMAIN orders
    /\ orders[deciding.order] = [status |-> "rejected", side |-> deciding.side]
    /\ ~Named(deciding.order)

\* The rows behind a filled attempt are no further from the end of their tables
\* than the attempt is from the end of its own: whatever window shows the attempt
\* shows them.
FilledKeepPace ==
  \A a \in DOMAIN attempts : attempts[a].status = "filled" =>
    /\ switches.simulation
    /\ Len(orders) - attempts[a].order <= Len(attempts) - a
    /\ \E f \in DOMAIN fills :
         fills[f].order = attempts[a].order /\ Len(fills) - f <= Len(attempts) - a

\* The events tell an outcome.
Told(events, message, side, reason) ==
  \E i \in DOMAIN events :
    /\ events[i].message = message
    /\ events[i].side = side
    /\ message = "order_rejected" => events[i].reason = reason

\* Every outcome has its event, or the event is still to come, or the process died.
Tells(events, gone, decision, attempt) ==
  /\ attempt.status = "filled" =>
       \/ Told(events, "order_filled", attempt.side, attempt.reason)
       \/ gone
       \/ decision.at = "done" /\ decision.filled /\ decision.side = attempt.side
  /\ attempt.status = "rejected_by_broker" =>
       \/ Told(events, "order_rejected", attempt.side, attempt.reason)
       \/ gone
       \/ /\ decision.at = "done" /\ ~decision.filled
          /\ decision.side = attempt.side /\ decision.reason = attempt.reason

EventsTell ==
  \A a \in DOMAIN attempts : Tells(runEvents, lost, deciding, attempts[a])

BuysOfDay == {f \in DOMAIN fills : f > dawn /\ fills[f].side = "buy"}

QuotaIsExact ==
  /\ used = Len(fills) - dawn
  /\ Cardinality(BuysOfDay) <= used
  /\ Cardinality(BuysOfDay) <= switches.maxCount

TrailInv ==
  /\ RowsShape /\ BooksShape /\ OrderedIsFit
  /\ FillsAreBacked /\ AttemptsAgree /\ FilledKeepPace
  /\ OrdersAreNamed /\ UnwrittenIsNew
  /\ EventsTell /\ QuotaIsExact

----------------------------------------------------------------------------
(* The trail: lemmas                                                       *)

\* What the settings and the prices are.
LEMMA TrailConstants ==
  /\ \A s \in Switches :
       /\ {s.trading, s.global, s.simulation} \subseteq BOOLEAN
       /\ {s.maxNotional, s.maxCount, s.maxLoss} \subseteq Nat
  /\ Charge \in Nat /\ Allowance \in Nat /\ PoolCash \in Nat
  /\ \A price \in TrailPrices : price \in Nat /\ Charge < price /\ BuyCost(price) \in Nat
BY TrailAssumption DEF BuyCost

\* The first reason that applies is one of the reasons, and there is none when
\* none applies.
LEMMA FirstOfThree ==
  ASSUME NEW a, NEW b, NEW c, {a.reason, b.reason, c.reason} \subseteq Reasons \ {None}
  PROVE  /\ FirstReason(<<a, b, c>>) \in Reasons
         /\ FirstReason(<<a, b, c>>) = None <=> ~a.applies /\ ~b.applies /\ ~c.applies
<1> DEFINE reasons == <<a, b, c>>
           First(i) == reasons[i].applies /\ \A j \in 1..(i - 1) : ~reasons[j].applies
           first == CHOOSE i \in DOMAIN reasons : First(i)
<1>1. DOMAIN reasons = 1..3 /\ reasons[1] = a /\ reasons[2] = b /\ reasons[3] = c
  OBVIOUS
<1>2. FirstReason(reasons) = IF \E i \in DOMAIN reasons : reasons[i].applies
                             THEN reasons[first].reason ELSE None
  BY DEF FirstReason
<1> HIDE DEF reasons
<1>3. CASE ~a.applies /\ ~b.applies /\ ~c.applies
  <2>1. ~ \E i \in DOMAIN reasons : reasons[i].applies
    BY <1>1, <1>3
  <2>2. None \in Reasons
    BY DEF None, Reasons
  <2> QED
    BY <1>2, <1>3, <2>1, <2>2 DEF reasons
<1>4. CASE a.applies \/ b.applies \/ c.applies
  <2>1. \E i \in DOMAIN reasons : reasons[i].applies
    BY <1>1, <1>4
  <2>2. \E i \in DOMAIN reasons : First(i)
    <3>1. CASE a.applies
      BY <1>1, <3>1
    <3>2. CASE ~a.applies /\ b.applies
      BY <1>1, <3>2
    <3>3. CASE ~a.applies /\ ~b.applies /\ c.applies
      BY <1>1, <3>3
    <3> QED BY <1>4, <3>1, <3>2, <3>3
  <2>3. first \in DOMAIN reasons
    BY <2>2
  <2> HIDE DEF first
  <2>4. reasons[first].reason \in Reasons \ {None}
    <3>1. \A i \in DOMAIN reasons : reasons[i].reason \in Reasons \ {None}
      BY <1>1
    <3> QED BY <2>3, <3>1
  <2> QED
    BY <1>2, <1>4, <2>1, <2>4 DEF reasons
<1> QED
  BY <1>3, <1>4

LEMMA FirstOfFour ==
  ASSUME NEW a, NEW b, NEW c, NEW d,
         {a.reason, b.reason, c.reason, d.reason} \subseteq Reasons \ {None}
  PROVE  /\ FirstReason(<<a, b, c, d>>) \in Reasons
         /\ FirstReason(<<a, b, c, d>>) = None <=>
              ~a.applies /\ ~b.applies /\ ~c.applies /\ ~d.applies
<1> DEFINE reasons == <<a, b, c, d>>
           First(i) == reasons[i].applies /\ \A j \in 1..(i - 1) : ~reasons[j].applies
           first == CHOOSE i \in DOMAIN reasons : First(i)
<1>1. /\ DOMAIN reasons = 1..4
      /\ reasons[1] = a /\ reasons[2] = b /\ reasons[3] = c /\ reasons[4] = d
  OBVIOUS
<1>2. FirstReason(reasons) = IF \E i \in DOMAIN reasons : reasons[i].applies
                             THEN reasons[first].reason ELSE None
  BY DEF FirstReason
<1> HIDE DEF reasons
<1>3. CASE ~a.applies /\ ~b.applies /\ ~c.applies /\ ~d.applies
  <2>1. ~ \E i \in DOMAIN reasons : reasons[i].applies
    BY <1>1, <1>3
  <2>2. None \in Reasons
    BY DEF None, Reasons
  <2> QED
    BY <1>2, <1>3, <2>1, <2>2 DEF reasons
<1>4. CASE a.applies \/ b.applies \/ c.applies \/ d.applies
  <2>1. \E i \in DOMAIN reasons : reasons[i].applies
    BY <1>1, <1>4
  <2>2. \E i \in DOMAIN reasons : First(i)
    <3>1. CASE a.applies
      BY <1>1, <3>1
    <3>2. CASE ~a.applies /\ b.applies
      BY <1>1, <3>2
    <3>3. CASE ~a.applies /\ ~b.applies /\ c.applies
      BY <1>1, <3>3
    <3>4. CASE ~a.applies /\ ~b.applies /\ ~c.applies /\ d.applies
      BY <1>1, <3>4
    <3> QED BY <1>4, <3>1, <3>2, <3>3, <3>4
  <2>3. first \in DOMAIN reasons
    BY <2>2
  <2> HIDE DEF first
  <2>4. reasons[first].reason \in Reasons \ {None}
    <3>1. \A i \in DOMAIN reasons : reasons[i].reason \in Reasons \ {None}
      BY <1>1
    <3> QED BY <2>3, <3>1
  <2> QED
    BY <1>2, <1>4, <2>1, <2>4 DEF reasons
<1> QED
  BY <1>3, <1>4

\* What the gate and the guard let through.
LEMMA GateLets ==
  ASSUME NEW side, NEW price
  PROVE  /\ GateReason(side, price) \in Reasons
         /\ GateReason(side, price) = None =>
              /\ switches.trading
              /\ side = "buy" => ~(purse.free < BuyCost(price))
<1> DEFINE a == If(~switches.trading, "paper_trading_disabled")
           b == If(side = "buy" /\ purse.free < BuyCost(price),
                   "insufficient_draft_balance_available")
           c == If(side = "sell" /\ purse.base < lots, "insufficient_draft_balance_available")
<1>1. {a.reason, b.reason, c.reason} \subseteq Reasons \ {None}
  BY DEF If, Reasons, None
<1>2. GateReason(side, price) = FirstReason(<<a, b, c>>)
  BY DEF GateReason
<1>3. /\ a.applies <=> ~switches.trading
      /\ b.applies <=> side = "buy" /\ purse.free < BuyCost(price)
  BY DEF If
<1> HIDE DEF a, b, c
<1> QED
  BY <1>1, <1>2, <1>3, FirstOfThree

LEMMA GuardLets ==
  ASSUME NEW side, NEW price, NEW countToo
  PROVE  /\ GuardReason(side, price, countToo) \in Reasons
         /\ GuardReason(side, price, countToo) = None <=>
              /\ switches.global
              /\ ~(price > switches.maxNotional)
              /\ ~(countToo /\ side = "buy" /\ used >= switches.maxCount)
              /\ ~LossReached(side)
<1> DEFINE a == If(~switches.global, "execution_global_disabled")
           b == If(price > switches.maxNotional, "max_order_notional_exceeded")
           c == If(countToo /\ side = "buy" /\ used >= switches.maxCount,
                   "max_daily_order_count_exceeded")
           d == If(LossReached(side), "max_daily_loss_exceeded")
<1>1. {a.reason, b.reason, c.reason, d.reason} \subseteq Reasons \ {None}
  BY DEF If, Reasons, None
<1>2. GuardReason(side, price, countToo) = FirstReason(<<a, b, c, d>>)
  BY DEF GuardReason
<1>3. /\ a.applies <=> ~switches.global
      /\ b.applies <=> price > switches.maxNotional
      /\ c.applies <=> (countToo /\ side = "buy" /\ used >= switches.maxCount)
      /\ d.applies <=> LossReached(side)
  BY DEF If
<1> HIDE DEF a, b, c, d
<1> QED
  BY <1>1, <1>2, <1>3, FirstOfFour

\* A row more.
LEMMA OneRowMore ==
  ASSUME NEW S, NEW rowsSoFar \in Seq(S), NEW row \in S, NEW after,
         after = Append(rowsSoFar, row)
  PROVE  /\ after \in Seq(S)
         /\ Len(rowsSoFar) \in Nat /\ Len(after) = Len(rowsSoFar) + 1
         /\ DOMAIN rowsSoFar = 1..Len(rowsSoFar)
         /\ DOMAIN after = 1..(Len(rowsSoFar) + 1)
         /\ \A i \in 1..Len(rowsSoFar) : after[i] = rowsSoFar[i] /\ i \in DOMAIN after
         /\ after[Len(rowsSoFar) + 1] = row
         /\ Len(rowsSoFar) + 1 \in DOMAIN after
OBVIOUS

\* The rows of each table.
LEMMA RowsAreTyped ==
  ASSUME RowsShape
  PROVE  /\ DOMAIN attempts = 1..Len(attempts) /\ Len(attempts) \in Nat
         /\ DOMAIN orders = 1..Len(orders) /\ Len(orders) \in Nat
         /\ DOMAIN fills = 1..Len(fills) /\ Len(fills) \in Nat
         /\ DOMAIN snapshots = 1..Len(snapshots) /\ Len(snapshots) \in Nat
         /\ \A a \in DOMAIN attempts : attempts[a] \in AttemptRows
         /\ \A o \in DOMAIN orders : orders[o] \in OrderRows
         /\ \A f \in DOMAIN fills : fills[f] \in FillRows
         /\ \A s \in DOMAIN snapshots : snapshots[s] \in SnapshotRows
BY DEF RowsShape

\* What the events told they still tell when there are more of them.
LEMMA ToldStays ==
  ASSUME NEW events \in Seq(EventRows), NEW more \in Seq(EventRows),
         NEW message, NEW side, NEW reason, Told(events, message, side, reason)
  PROVE  Told(events \o more, message, side, reason)
<1>1. PICK i \in DOMAIN events :
        /\ events[i].message = message
        /\ events[i].side = side
        /\ message = "order_rejected" => events[i].reason = reason
  BY DEF Told
<1>2. i \in DOMAIN (events \o more) /\ (events \o more)[i] = events[i]
  OBVIOUS
<1> QED
  BY <1>1, <1>2 DEF Told

\* The last of them tells what it says.
LEMMA ToldByLast ==
  ASSUME NEW events \in Seq(EventRows), NEW before \in Seq(EventRows), NEW event \in EventRows,
         events = Append(before, event)
  PROVE  Told(events, event.message, event.side, event.reason)
<1>1. Len(before) + 1 \in DOMAIN events /\ events[Len(before) + 1] = event
  OBVIOUS
<1> QED
  BY <1>1 DEF Told
----------------------------------------------------------------------------
(* The trail: what a step does to the rows that name one another           *)

RowsAgree == FillsAreBacked /\ AttemptsAgree /\ FilledKeepPace

\* A step that adds no row but events.
LEMMA NoRows ==
  ASSUME RowsAgree, UNCHANGED <<switches, attempts, orders, fills, snapshots>>
  PROVE  RowsAgree' /\ \A o : Named(o)' <=> Named(o)
BY DEF RowsAgree, FillsAreBacked, AttemptsAgree, FilledKeepPace, Named

\* An attempt that has no order.
LEMMA AttemptAlone ==
  ASSUME RowsShape, RowsAgree, NEW row \in AttemptRows,
         row.status # "filled", row.order = 0, attempts' = Append(attempts, row),
         UNCHANGED <<switches, orders, fills, snapshots>>
  PROVE  RowsAgree' /\ \A o \in DOMAIN orders : Named(o)' <=> Named(o)
<1>1. /\ attempts \in Seq(AttemptRows) /\ Len(attempts) \in Nat
      /\ DOMAIN attempts = 1..Len(attempts)
      /\ DOMAIN orders = 1..Len(orders) /\ Len(orders) \in Nat
      /\ Len(fills) \in Nat
      /\ \A a \in DOMAIN attempts : attempts[a].order \in Nat
      /\ \A f \in DOMAIN fills : f \in Nat
  BY RowsAreTyped DEF RowsShape, AttemptRows
<1> DEFINE new == Len(attempts) + 1
<1>2. /\ DOMAIN attempts' = 1..new /\ Len(attempts') = new
      /\ \A a \in DOMAIN attempts : attempts'[a] = attempts[a]
      /\ attempts'[new] = row
      /\ \A a \in DOMAIN attempts' : a \in DOMAIN attempts \/ a = new
      /\ \A a \in DOMAIN attempts : a \in DOMAIN attempts'
  BY <1>1
<1>3. FillsAreBacked'
  BY DEF RowsAgree, FillsAreBacked
<1>4. AttemptsAgree'
  BY <1>2 DEF RowsAgree, AttemptsAgree
<1>5. FilledKeepPace'
  <2> SUFFICES ASSUME NEW a \in DOMAIN attempts', attempts'[a].status = "filled"
               PROVE  /\ switches.simulation
                      /\ Len(orders) - attempts'[a].order <= Len(attempts') - a
                      /\ \E f \in DOMAIN fills :
                           /\ fills[f].order = attempts'[a].order
                           /\ Len(fills) - f <= Len(attempts') - a
    BY DEF FilledKeepPace
  <2>1. a \in DOMAIN attempts /\ attempts'[a] = attempts[a] /\ a \in Nat
    BY <1>1, <1>2
  <2>2. /\ switches.simulation
        /\ Len(orders) - attempts[a].order <= Len(attempts) - a
        /\ \E f \in DOMAIN fills :
             fills[f].order = attempts[a].order /\ Len(fills) - f <= Len(attempts) - a
    BY <2>1 DEF RowsAgree, FilledKeepPace
  <2>3. PICK f \in DOMAIN fills :
          fills[f].order = attempts[a].order /\ Len(fills) - f <= Len(attempts) - a
    BY <2>2
  <2>4. Len(fills) - f <= Len(attempts') - a
    BY <1>1, <1>2, <2>1, <2>3
  <2>5. Len(orders) - attempts'[a].order <= Len(attempts') - a
    BY <1>1, <1>2, <2>1, <2>2
  <2> QED
    BY <2>1, <2>2, <2>3, <2>4, <2>5
<1>6. \A o \in DOMAIN orders : Named(o)' <=> Named(o)
  BY <1>1, <1>2 DEF Named
<1> QED
  BY <1>3, <1>4, <1>5, <1>6 DEF RowsAgree

\* An order that no attempt names yet; there are no fills where nothing is simulated.
LEMMA OrderAlone ==
  ASSUME RowsShape, RowsAgree, ~switches.simulation, NEW row \in OrderRows,
         orders' = Append(orders, row),
         UNCHANGED <<switches, attempts, fills, snapshots>>
  PROVE  RowsAgree' /\ \A o : Named(o)' <=> Named(o)
<1>1. /\ orders \in Seq(OrderRows) /\ Len(orders) \in Nat
      /\ DOMAIN orders = 1..Len(orders)
  BY RowsAreTyped DEF RowsShape
<1>2. \A o \in DOMAIN orders : orders'[o] = orders[o] /\ o \in DOMAIN orders'
  BY <1>1
<1>3. FillsAreBacked'
  BY <1>2 DEF RowsAgree, FillsAreBacked
<1>4. AttemptsAgree'
  BY <1>2 DEF RowsAgree, AttemptsAgree
<1>5. FilledKeepPace'
  BY DEF RowsAgree, FilledKeepPace
<1> QED
  BY <1>3, <1>4, <1>5 DEF RowsAgree, Named

\* A rejected order and the attempt that names it.
LEMMA OrderAndAttempt ==
  ASSUME RowsShape, RowsAgree, NEW order \in OrderRows, NEW row \in AttemptRows,
         order.status = "rejected", row.status # "filled", row.side = order.side,
         row.order = Len(orders) + 1,
         orders' = Append(orders, order), attempts' = Append(attempts, row),
         UNCHANGED <<switches, fills, snapshots>>
  PROVE  /\ RowsAgree'
         /\ \A o \in DOMAIN orders : Named(o)' <=> Named(o)
         /\ \A o : o = Len(orders) + 1 => Named(o)'
<1> DEFINE new == Len(attempts) + 1
           last == Len(orders) + 1
<1>1. /\ attempts \in Seq(AttemptRows) /\ Len(attempts) \in Nat
      /\ DOMAIN attempts = 1..Len(attempts)
      /\ orders \in Seq(OrderRows) /\ DOMAIN orders = 1..Len(orders) /\ Len(orders) \in Nat
      /\ Len(fills) \in Nat
      /\ \A a \in DOMAIN attempts : attempts[a].order \in Nat
      /\ \A f \in DOMAIN fills : f \in Nat
  BY RowsAreTyped DEF RowsShape, AttemptRows
<1>2. /\ DOMAIN attempts' = 1..new /\ Len(attempts') = new
      /\ \A a \in DOMAIN attempts : attempts'[a] = attempts[a]
      /\ attempts'[new] = row
      /\ \A a \in DOMAIN attempts' : a \in DOMAIN attempts \/ a = new
      /\ \A a \in DOMAIN attempts : a \in DOMAIN attempts'
      /\ new \in DOMAIN attempts'
  BY <1>1
<1>3. /\ DOMAIN orders' = 1..last /\ Len(orders') = last /\ last \in DOMAIN orders'
      /\ \A o \in DOMAIN orders : orders'[o] = orders[o] /\ o \in DOMAIN orders'
      /\ orders'[last] = order /\ last \notin DOMAIN orders /\ last # 0
  BY <1>1
<1>4. \A a \in DOMAIN attempts : attempts[a].order # last
  BY <1>3 DEF RowsAgree, AttemptsAgree
<1>5. FillsAreBacked'
  BY <1>3 DEF RowsAgree, FillsAreBacked
<1>6. AttemptsAgree'
  <2>1. ASSUME NEW a \in DOMAIN attempts'
        PROVE  /\ attempts'[a].status = "filled" => attempts'[a].order # 0
               /\ attempts'[a].order # 0 =>
                    /\ attempts'[a].order \in DOMAIN orders'
                    /\ attempts'[a].side = orders'[attempts'[a].order].side
                    /\ attempts'[a].status = "filled"
                         <=> orders'[attempts'[a].order].status = "filled"
    <3>1. CASE a = new
      BY <1>2, <1>3, <3>1
    <3>2. CASE a \in DOMAIN attempts
      BY <1>2, <1>3, <3>2 DEF RowsAgree, AttemptsAgree
    <3> QED BY <1>2, <3>1, <3>2
  <2>2. ASSUME NEW a \in DOMAIN attempts', NEW b \in DOMAIN attempts',
               attempts'[a].order = attempts'[b].order, attempts'[a].order # 0
        PROVE  a = b
    BY <1>2, <1>4, <2>2 DEF RowsAgree, AttemptsAgree
  <2> QED
    BY <2>1, <2>2 DEF AttemptsAgree
<1>7. FilledKeepPace'
  <2> SUFFICES ASSUME NEW a \in DOMAIN attempts', attempts'[a].status = "filled"
               PROVE  /\ switches.simulation
                      /\ Len(orders') - attempts'[a].order <= Len(attempts') - a
                      /\ \E f \in DOMAIN fills :
                           /\ fills[f].order = attempts'[a].order
                           /\ Len(fills) - f <= Len(attempts') - a
    BY DEF FilledKeepPace
  <2>1. a \in DOMAIN attempts /\ attempts'[a] = attempts[a] /\ a \in Nat
    BY <1>1, <1>2
  <2>2. /\ switches.simulation
        /\ Len(orders) - attempts[a].order <= Len(attempts) - a
        /\ \E f \in DOMAIN fills :
             fills[f].order = attempts[a].order /\ Len(fills) - f <= Len(attempts) - a
    BY <2>1 DEF RowsAgree, FilledKeepPace
  <2>3. PICK f \in DOMAIN fills :
          fills[f].order = attempts[a].order /\ Len(fills) - f <= Len(attempts) - a
    BY <2>2
  <2>4. Len(fills) - f <= Len(attempts') - a
    BY <1>1, <1>2, <2>1, <2>3
  <2>5. Len(orders') - attempts'[a].order <= Len(attempts') - a
    BY <1>1, <1>2, <1>3, <2>1, <2>2
  <2> QED
    BY <2>1, <2>2, <2>3, <2>4, <2>5
<1>8. \A o \in DOMAIN orders : Named(o)' <=> Named(o)
  BY <1>1, <1>2, <1>3 DEF Named
<1>9. \A o : o = last => Named(o)'
  BY <1>2 DEF Named
<1> QED
  BY <1>5, <1>6, <1>7, <1>8, <1>9 DEF RowsAgree

\* An attempt that names a rejected order nobody has named.
LEMMA AttemptLate ==
  ASSUME RowsShape, RowsAgree, NEW row \in AttemptRows, row.status # "filled",
         row.order \in DOMAIN orders, orders[row.order].status = "rejected",
         row.side = orders[row.order].side, ~Named(row.order),
         attempts' = Append(attempts, row), UNCHANGED <<switches, orders, fills, snapshots>>
  PROVE  /\ RowsAgree'
         /\ \A o \in DOMAIN orders : Named(o)' <=> Named(o) \/ o = row.order
<1> DEFINE new == Len(attempts) + 1
<1>1. /\ attempts \in Seq(AttemptRows) /\ Len(attempts) \in Nat
      /\ DOMAIN attempts = 1..Len(attempts)
      /\ DOMAIN orders = 1..Len(orders) /\ Len(orders) \in Nat
      /\ Len(fills) \in Nat
      /\ \A a \in DOMAIN attempts : attempts[a].order \in Nat
      /\ \A f \in DOMAIN fills : f \in Nat
  BY RowsAreTyped DEF RowsShape, AttemptRows
<1>2. /\ DOMAIN attempts' = 1..new /\ Len(attempts') = new
      /\ \A a \in DOMAIN attempts : attempts'[a] = attempts[a]
      /\ attempts'[new] = row
      /\ \A a \in DOMAIN attempts' : a \in DOMAIN attempts \/ a = new
      /\ \A a \in DOMAIN attempts : a \in DOMAIN attempts'
      /\ new \in DOMAIN attempts'
  BY <1>1
<1>3. \A a \in DOMAIN attempts : attempts[a].order # row.order
  BY DEF Named
<1>4. FillsAreBacked'
  BY DEF RowsAgree, FillsAreBacked
<1>5. AttemptsAgree'
  <2>1. ASSUME NEW a \in DOMAIN attempts'
        PROVE  /\ attempts'[a].status = "filled" => attempts'[a].order # 0
               /\ attempts'[a].order # 0 =>
                    /\ attempts'[a].order \in DOMAIN orders
                    /\ attempts'[a].side = orders[attempts'[a].order].side
                    /\ attempts'[a].status = "filled"
                         <=> orders[attempts'[a].order].status = "filled"
    <3>1. CASE a = new
      BY <1>2, <3>1
    <3>2. CASE a \in DOMAIN attempts
      BY <1>2, <3>2 DEF RowsAgree, AttemptsAgree
    <3> QED BY <1>2, <3>1, <3>2
  <2>2. ASSUME NEW a \in DOMAIN attempts', NEW b \in DOMAIN attempts',
               attempts'[a].order = attempts'[b].order, attempts'[a].order # 0
        PROVE  a = b
    BY <1>2, <1>3, <2>2 DEF RowsAgree, AttemptsAgree
  <2> QED
    BY <2>1, <2>2 DEF AttemptsAgree
<1>6. FilledKeepPace'
  <2> SUFFICES ASSUME NEW a \in DOMAIN attempts', attempts'[a].status = "filled"
               PROVE  /\ switches.simulation
                      /\ Len(orders) - attempts'[a].order <= Len(attempts') - a
                      /\ \E f \in DOMAIN fills :
                           /\ fills[f].order = attempts'[a].order
                           /\ Len(fills) - f <= Len(attempts') - a
    BY DEF FilledKeepPace
  <2>1. a \in DOMAIN attempts /\ attempts'[a] = attempts[a] /\ a \in Nat
    BY <1>1, <1>2
  <2>2. /\ switches.simulation
        /\ Len(orders) - attempts[a].order <= Len(attempts) - a
        /\ \E f \in DOMAIN fills :
             fills[f].order = attempts[a].order /\ Len(fills) - f <= Len(attempts) - a
    BY <2>1 DEF RowsAgree, FilledKeepPace
  <2>3. PICK f \in DOMAIN fills :
          fills[f].order = attempts[a].order /\ Len(fills) - f <= Len(attempts) - a
    BY <2>2
  <2>4. Len(fills) - f <= Len(attempts') - a
    BY <1>1, <1>2, <2>1, <2>3
  <2>5. Len(orders) - attempts'[a].order <= Len(attempts') - a
    BY <1>1, <1>2, <2>1, <2>2
  <2> QED
    BY <2>1, <2>2, <2>3, <2>4, <2>5
<1>7. \A o \in DOMAIN orders : Named(o)' <=> Named(o) \/ o = row.order
  BY <1>2 DEF Named
<1> QED
  BY <1>4, <1>5, <1>6, <1>7 DEF RowsAgree

\* A filled order, its fill, its snapshot and its attempt.
LEMMA FilledTogether ==
  ASSUME RowsShape, RowsAgree, switches.simulation, NEW side \in Sides,
         NEW order \in OrderRows, NEW row \in AttemptRows, NEW fill \in FillRows,
         NEW shot \in SnapshotRows,
         order = [status |-> "filled", side |-> side],
         row.status = "filled", row.side = side, row.order = Len(orders) + 1,
         fill.order = Len(orders) + 1, fill.side = side,
         shot.order = Len(orders) + 1, shot.fill = Len(fills) + 1,
         shot.kind = side,
         orders' = Append(orders, order), attempts' = Append(attempts, row),
         fills' = Append(fills, fill), snapshots' = Append(snapshots, shot),
         UNCHANGED switches
  PROVE  /\ RowsAgree'
         /\ \A o \in DOMAIN orders : Named(o)' <=> Named(o)
         /\ \A o : o = Len(orders) + 1 => Named(o)'
<1> DEFINE new == Len(attempts) + 1
           last == Len(orders) + 1
           made == Len(fills) + 1
<1>1. /\ attempts \in Seq(AttemptRows) /\ Len(attempts) \in Nat
      /\ DOMAIN attempts = 1..Len(attempts)
      /\ orders \in Seq(OrderRows) /\ DOMAIN orders = 1..Len(orders) /\ Len(orders) \in Nat
      /\ fills \in Seq(FillRows) /\ DOMAIN fills = 1..Len(fills) /\ Len(fills) \in Nat
      /\ snapshots \in Seq(SnapshotRows) /\ Len(snapshots) \in Nat
      /\ \A a \in DOMAIN attempts : attempts[a].order \in Nat
  BY RowsAreTyped DEF RowsShape, AttemptRows
<1>2. /\ DOMAIN attempts' = 1..new /\ Len(attempts') = new
      /\ \A a \in DOMAIN attempts : attempts'[a] = attempts[a]
      /\ attempts'[new] = row
      /\ \A a \in DOMAIN attempts' : a \in DOMAIN attempts \/ a = new
      /\ \A a \in DOMAIN attempts : a \in DOMAIN attempts'
      /\ new \in DOMAIN attempts'
  BY <1>1
<1>3. /\ DOMAIN orders' = 1..last /\ Len(orders') = last /\ last \in DOMAIN orders'
      /\ \A o \in DOMAIN orders : orders'[o] = orders[o] /\ o \in DOMAIN orders'
      /\ orders'[last] = order /\ last \notin DOMAIN orders /\ last # 0
  BY <1>1
<1>4. /\ DOMAIN fills' = 1..made /\ Len(fills') = made /\ made \in DOMAIN fills'
      /\ \A f \in DOMAIN fills : fills'[f] = fills[f] /\ f \in DOMAIN fills'
      /\ \A f \in DOMAIN fills' : f \in DOMAIN fills \/ f = made
      /\ fills'[made] = fill
  <2>0. DOMAIN fills = 1..Len(fills) /\ Len(fills) \in Nat
    BY <1>1
  <2>1. DOMAIN fills' = 1..made /\ Len(fills') = made
    BY <1>1
  <2>2. (\A f \in DOMAIN fills : fills'[f] = fills[f]) /\ fills'[made] = fill
    BY <1>1
  <2> QED
    BY <2>0, <2>1, <2>2
<1>5. /\ Len(snapshots) = Len(fills) /\ Len(snapshots') = made
      /\ \A f \in DOMAIN fills : snapshots'[f] = snapshots[f]
      /\ snapshots'[made] = shot
  BY <1>1 DEF RowsAgree, FillsAreBacked
<1>6. \A a \in DOMAIN attempts : attempts[a].order # last
  BY <1>3 DEF RowsAgree, AttemptsAgree
<1>7. FillsAreBacked'
  <2>1. ASSUME NEW f \in DOMAIN fills'
        PROVE  /\ fills'[f].order \in DOMAIN orders'
               /\ orders'[fills'[f].order].status = "filled"
               /\ orders'[fills'[f].order].side = fills'[f].side
               /\ snapshots'[f].order = fills'[f].order
               /\ snapshots'[f].fill = f
               /\ snapshots'[f].kind = fills'[f].side
    <3>1. CASE f = made
      BY <1>3, <1>4, <1>5, <3>1
    <3>2. CASE f \in DOMAIN fills
      BY <1>3, <1>4, <1>5, <3>2 DEF RowsAgree, FillsAreBacked
    <3> QED BY <1>4, <3>1, <3>2
  <2> QED
    BY <1>4, <1>5, <2>1 DEF FillsAreBacked
<1>8. AttemptsAgree'
  <2>1. ASSUME NEW a \in DOMAIN attempts'
        PROVE  /\ attempts'[a].status = "filled" => attempts'[a].order # 0
               /\ attempts'[a].order # 0 =>
                    /\ attempts'[a].order \in DOMAIN orders'
                    /\ attempts'[a].side = orders'[attempts'[a].order].side
                    /\ attempts'[a].status = "filled"
                         <=> orders'[attempts'[a].order].status = "filled"
    <3>1. CASE a = new
      BY <1>2, <1>3, <3>1
    <3>2. CASE a \in DOMAIN attempts
      BY <1>2, <1>3, <3>2 DEF RowsAgree, AttemptsAgree
    <3> QED BY <1>2, <3>1, <3>2
  <2>2. ASSUME NEW a \in DOMAIN attempts', NEW b \in DOMAIN attempts',
               attempts'[a].order = attempts'[b].order, attempts'[a].order # 0
        PROVE  a = b
    BY <1>2, <1>6, <2>2 DEF RowsAgree, AttemptsAgree
  <2> QED
    BY <2>1, <2>2 DEF AttemptsAgree
<1>9. FilledKeepPace'
  <2> SUFFICES ASSUME NEW a \in DOMAIN attempts', attempts'[a].status = "filled"
               PROVE  /\ switches.simulation
                      /\ Len(orders') - attempts'[a].order <= Len(attempts') - a
                      /\ \E f \in DOMAIN fills' :
                           /\ fills'[f].order = attempts'[a].order
                           /\ Len(fills') - f <= Len(attempts') - a
    BY DEF FilledKeepPace
  <2>1. CASE a = new
    <3>1. /\ attempts'[a].order = last /\ fills'[made].order = last
          /\ Len(orders') - last <= Len(attempts') - new
          /\ Len(fills') - made <= Len(attempts') - new
      BY <1>1, <1>2, <1>3, <1>4, <2>1
    <3>2. made \in DOMAIN fills' /\ switches.simulation
      BY <1>1, <1>4
    <3> QED
      BY <2>1, <3>1, <3>2
  <2>2. CASE a \in DOMAIN attempts
    <3>1. attempts'[a] = attempts[a] /\ a \in Nat
      BY <1>1, <1>2, <2>2
    <3>2. /\ Len(orders) - attempts[a].order <= Len(attempts) - a
          /\ \E f \in DOMAIN fills :
               fills[f].order = attempts[a].order /\ Len(fills) - f <= Len(attempts) - a
      BY <2>2, <3>1 DEF RowsAgree, FilledKeepPace
    <3>3. PICK f \in DOMAIN fills :
            fills[f].order = attempts[a].order /\ Len(fills) - f <= Len(attempts) - a
      BY <3>2
    <3>4. f \in Nat /\ f \in DOMAIN fills' /\ fills'[f] = fills[f]
      BY <1>1, <1>4
    <3>5. Len(fills') - f <= Len(attempts') - a
      BY <1>1, <1>2, <1>4, <3>1, <3>3, <3>4
    <3>6. Len(orders') - attempts'[a].order <= Len(attempts') - a
      <4>1. attempts[a].order \in Nat /\ Len(orders') = Len(orders) + 1 /\ Len(orders) \in Nat
        BY <1>1, <1>3, <2>2
      <4>2. Len(attempts') = Len(attempts) + 1 /\ Len(attempts) \in Nat
        BY <1>1, <1>2
      <4>3. attempts'[a].order = attempts[a].order
        BY <3>1
      <4>4. \A m, n, x, y \in Nat : m - x <= n - y => (m + 1) - x <= (n + 1) - y
        OBVIOUS
      <4>5. (Len(orders) + 1) - attempts[a].order <= (Len(attempts) + 1) - a
        BY <3>1, <3>2, <4>1, <4>2, <4>4
      <4> QED
        BY <4>1, <4>2, <4>3, <4>5
    <3> QED
      BY <3>1, <3>3, <3>4, <3>5, <3>6
  <2> QED
    BY <1>2, <2>1, <2>2
<1>10. \A o \in DOMAIN orders : Named(o)' <=> Named(o)
  BY <1>1, <1>2, <1>3 DEF Named
<1>11. \A o : o = last => Named(o)'
  BY <1>2 DEF Named
<1> QED
  BY <1>7, <1>8, <1>9, <1>10, <1>11 DEF RowsAgree

----------------------------------------------------------------------------
(* The trail: what a step does to the events, the books and the decision   *)

\* What a decision says.
LEMMA DecisionFields ==
  ASSUME RowsShape
  PROVE  /\ deciding.at \in {"idle", "ordered", "done"}
         /\ deciding.at = "idle" => deciding = AtRest
         /\ deciding.at # "idle" => deciding.side \in Sides
         /\ deciding.at = "done" =>
              /\ deciding.filled \in BOOLEAN /\ deciding.attempted \in BOOLEAN
              /\ deciding.reason \in Reasons /\ deciding.order \in Nat
<1>1. CASE deciding = AtRest
  BY <1>1 DEF AtRest
<1>2. CASE deciding \in [at: {"ordered"}, side: Sides]
  BY <1>2
<1>3. CASE deciding \in [at: {"done"}, side: Sides, filled: BOOLEAN, reason: Reasons,
                         order: Nat, attempted: BOOLEAN]
  BY <1>3
<1> QED
  BY <1>1, <1>2, <1>3 DEF RowsShape, Decisions

LEMMA AttemptIsRow ==
  ASSUME NEW status \in Statuses, NEW side \in Sides, NEW reason \in Reasons, NEW order \in Nat
  PROVE  /\ Attempt(status, side, reason, order) \in AttemptRows
         /\ Attempt(status, side, reason, order).status = status
         /\ Attempt(status, side, reason, order).side = side
         /\ Attempt(status, side, reason, order).reason = reason
         /\ Attempt(status, side, reason, order).order = order
BY DEF Attempt, AttemptRows

\* The events that a step writes.
LEMMA EventsAreRows ==
  ASSUME NEW side \in Sides, NEW reason \in Reasons
  PROVE  /\ Signal(side) \in EventRows
         /\ RunEvent("order_rejected", side, reason) \in EventRows
         /\ RunEvent("order_filled", side, reason) \in EventRows
         /\ RunEvent("risk_limit_blocked", side, reason) \in EventRows
BY DEF Signal, RunEvent, EventRows, Reasons, None

\* What is told stays told, and what is still to come comes with the outcome.
LEMMA TellingStays ==
  ASSUME NEW events \in Seq(EventRows), NEW more \in Seq(EventRows),
         NEW gone, NEW after, NEW decision, NEW next, NEW attempt,
         gone => after, Tells(events, gone, decision, attempt),
         decision.at = "done" =>
           \/ after
           \/ next = decision
           \/ \E i \in DOMAIN more :
                more[i] = RunEvent(IF decision.filled THEN "order_filled" ELSE "order_rejected",
                                   decision.side, decision.reason)
  PROVE  Tells(events \o more, after, next, attempt)
<1>1. ASSUME NEW i \in DOMAIN more
      PROVE  Told(events \o more, more[i].message, more[i].side, more[i].reason)
  <2>1. /\ Len(events) + i \in DOMAIN (events \o more)
        /\ (events \o more)[Len(events) + i] = more[i]
    OBVIOUS
  <2> QED
    BY <2>1 DEF Told
<1>2. ASSUME attempt.status = "filled"
      PROVE  \/ Told(events \o more, "order_filled", attempt.side, attempt.reason)
             \/ after
             \/ next.at = "done" /\ next.filled /\ next.side = attempt.side
  <2>1. CASE Told(events, "order_filled", attempt.side, attempt.reason)
    BY <2>1, ToldStays
  <2>2. CASE decision.at = "done" /\ decision.filled /\ decision.side = attempt.side
    <3>1. ASSUME NEW i \in DOMAIN more,
                 more[i] = RunEvent(IF decision.filled THEN "order_filled" ELSE "order_rejected",
                                    decision.side, decision.reason)
          PROVE  Told(events \o more, "order_filled", attempt.side, attempt.reason)
      <4>1. more[i].message = "order_filled" /\ more[i].side = attempt.side
        BY <2>2, <3>1 DEF RunEvent
      <4>2. Told(events \o more, "order_filled", attempt.side, more[i].reason)
        BY <1>1, <3>1, <4>1
      <4> QED
        BY <4>2 DEF Told
    <3> QED
      BY <2>2, <3>1
  <2> QED
    BY <1>2, <2>1, <2>2 DEF Tells
<1>3. ASSUME attempt.status = "rejected_by_broker"
      PROVE  \/ Told(events \o more, "order_rejected", attempt.side, attempt.reason)
             \/ after
             \/ /\ next.at = "done" /\ ~next.filled
                /\ next.side = attempt.side /\ next.reason = attempt.reason
  <2>1. CASE Told(events, "order_rejected", attempt.side, attempt.reason)
    BY <2>1, ToldStays
  <2>2. CASE /\ decision.at = "done" /\ ~decision.filled
             /\ decision.side = attempt.side /\ decision.reason = attempt.reason
    <3>1. ASSUME NEW i \in DOMAIN more,
                 more[i] = RunEvent(IF decision.filled THEN "order_filled" ELSE "order_rejected",
                                    decision.side, decision.reason)
          PROVE  Told(events \o more, "order_rejected", attempt.side, attempt.reason)
      <4>1. /\ more[i].message = "order_rejected" /\ more[i].side = attempt.side
            /\ more[i].reason = attempt.reason
        BY <2>2, <3>1 DEF RunEvent
      <4> QED
        BY <1>1, <3>1, <4>1
    <3> QED
      BY <2>2, <3>1
  <2> QED
    BY <1>3, <2>1, <2>2 DEF Tells
<1> QED
  BY <1>2, <1>3 DEF Tells

\* All the attempts of before, then.
LEMMA EventsStillTell ==
  ASSUME RowsShape, EventsTell, NEW more \in Seq(EventRows), runEvents' = runEvents \o more,
         lost => lost',
         deciding.at = "done" =>
           \/ lost'
           \/ deciding' = deciding
           \/ \E i \in DOMAIN more :
                more[i] = RunEvent(IF deciding.filled THEN "order_filled" ELSE "order_rejected",
                                   deciding.side, deciding.reason)
  PROVE  \A a \in DOMAIN attempts : Tells(runEvents', lost', deciding', attempts[a])
<1>1. runEvents \in Seq(EventRows)
  BY DEF RowsShape
<1>2. ASSUME NEW a \in DOMAIN attempts
      PROVE  Tells(runEvents \o more, lost', deciding', attempts[a])
  <2>1. Tells(runEvents, lost, deciding, attempts[a])
    BY DEF EventsTell
  <2> QED
    BY <1>1, <2>1, TellingStays
<1> QED
  BY <1>2

LEMMA OneEventMore ==
  ASSUME NEW events \in Seq(EventRows), NEW event \in EventRows
  PROVE  /\ Append(events, event) = events \o <<event>>
         /\ <<event>> \in Seq(EventRows)
         /\ DOMAIN <<event>> = {1} /\ <<event>>[1] = event
OBVIOUS

\* The books, when a step leaves them alone.
LEMMA BooksUntouched ==
  ASSUME BooksShape, QuotaIsExact, UNCHANGED <<switches, books, fills>>
  PROVE  BooksShape' /\ QuotaIsExact'
BY DEF BooksShape, QuotaIsExact, books, BuysOfDay

----------------------------------------------------------------------------
(* The trail: the invariant                                                *)

LEMMA TheSide == Side \in Sides
BY DEF Side, Sides

LEMMA TrailInitially == TrailInit => TrailInv
<1> SUFFICES ASSUME TrailInit PROVE TrailInv
  OBVIOUS
<1> USE DEF TrailInit
<1>1. RowsShape
  <2>1. deciding \in Decisions
    BY DEF Decisions
  <2>2. \A S : <<>> \in Seq(S)
    OBVIOUS
  <2>3. lost \in BOOLEAN
    OBVIOUS
  <2>4. \A S : {attempts, orders, fills, snapshots, runEvents} \subseteq Seq(S)
    BY <2>2
  <2> QED
    BY <2>1, <2>3, <2>4 DEF RowsShape
<1>2. BooksShape
  BY TrailConstants DEF BooksShape
<1>3. /\ DOMAIN attempts = {} /\ DOMAIN orders = {} /\ DOMAIN fills = {}
      /\ Len(attempts) = 0 /\ Len(orders) = 0 /\ Len(fills) = 0 /\ Len(snapshots) = 0
  OBVIOUS
<1>4. FillsAreBacked /\ AttemptsAgree /\ FilledKeepPace /\ OrdersAreNamed /\ EventsTell
  BY <1>3 DEF FillsAreBacked, AttemptsAgree, FilledKeepPace, OrdersAreNamed, EventsTell
<1>5. UnwrittenIsNew /\ OrderedIsFit
  BY DEF UnwrittenIsNew, OrderedIsFit, AtRest
<1>6. QuotaIsExact
  <2>1. BuysOfDay = {} /\ switches.maxCount \in Nat
    BY <1>2, <1>3, TrailConstants DEF BuysOfDay, BooksShape
  <2>2. Cardinality(BuysOfDay) = 0
    BY <2>1, FS_EmptySet
  <2> QED
    BY <1>3, <2>1, <2>2 DEF QuotaIsExact
<1> QED
  BY <1>1, <1>2, <1>4, <1>5, <1>6 DEF TrailInv

\* An evaluation that ends with an attempt and without an order.
LEMMA StartRefused ==
  ASSUME TrailInv, deciding.at = "idle", NEW row \in AttemptRows,
         row.status # "filled", row.order = 0,
         NEW more \in Seq(EventRows), runEvents' = runEvents \o more,
         row.status = "rejected_by_broker" =>
           Told(runEvents', "order_rejected", row.side, row.reason),
         attempts' = Append(attempts, row),
         UNCHANGED <<switches, orders, fills, snapshots, books, deciding, lost>>
  PROVE  TrailInv'
<1> USE DEF TrailInv
<1>1. RowsAgree' /\ \A o \in DOMAIN orders : Named(o)' <=> Named(o)
  BY AttemptAlone DEF RowsAgree
<1>2. RowsShape'
  <2>1. attempts' \in Seq(AttemptRows) /\ runEvents' \in Seq(EventRows)
    BY DEF RowsShape
  <2> QED
    BY <2>1 DEF RowsShape
<1>3. BooksShape' /\ QuotaIsExact'
  BY BooksUntouched
<1>4. OrderedIsFit' /\ UnwrittenIsNew'
  BY DEF OrderedIsFit, UnwrittenIsNew
<1>5. OrdersAreNamed'
  BY <1>1 DEF OrdersAreNamed, Unwritten
<1>6. EventsTell'
  <2>1. \A a \in DOMAIN attempts : Tells(runEvents', lost', deciding', attempts[a])
    BY EventsStillTell
  <2>2. /\ \A a \in DOMAIN attempts' : a \in DOMAIN attempts \/ a = Len(attempts) + 1
        /\ \A a \in DOMAIN attempts : attempts'[a] = attempts[a]
        /\ attempts'[Len(attempts) + 1] = row
    BY OneRowMore DEF RowsShape
  <2>3. Tells(runEvents', lost', deciding', row)
    BY DEF Tells
  <2> QED
    BY <2>1, <2>2, <2>3 DEF EventsTell
<1> QED
  BY <1>1, <1>2, <1>3, <1>4, <1>5, <1>6 DEF RowsAgree

LEMMA BlocksByRisk == TrailInv /\ BlockByRisk => TrailInv'
<1> SUFFICES ASSUME TrailInv, BlockByRisk PROVE TrailInv'
  OBVIOUS
<1> DEFINE row == Attempt("blocked_by_risk", Side, "risk_limit", 0)
           event == RunEvent("risk_limit_blocked", Side, "risk_limit")
<1>1. /\ deciding.at = "idle" /\ attempts' = Append(attempts, row)
      /\ runEvents' = Append(runEvents, event)
      /\ UNCHANGED <<switches, orders, fills, snapshots, books, deciding, lost>>
  BY DEF BlockByRisk, Starts
<1>2. /\ row \in AttemptRows /\ row.status = "blocked_by_risk" /\ row.order = 0
      /\ event \in EventRows
  <2>1. "blocked_by_risk" \in Statuses /\ "risk_limit" \in Reasons /\ 0 \in Nat
    BY DEF Statuses, Reasons
  <2> QED
    BY <2>1, TheSide, AttemptIsRow, EventsAreRows
<1> HIDE DEF row, event
<1>3. runEvents \in Seq(EventRows)
  BY DEF TrailInv, RowsShape
<1>4. runEvents' = runEvents \o <<event>> /\ <<event>> \in Seq(EventRows)
  BY <1>1, <1>2, <1>3, OneEventMore
<1> QED
  BY <1>1, <1>2, <1>4, StartRefused

LEMMA RefusesAtGate == TrailInv /\ RefuseAtGate => TrailInv'
<1> SUFFICES ASSUME TrailInv, RefuseAtGate PROVE TrailInv'
  OBVIOUS
<1>1. PICK price \in TrailPrices :
        /\ attempts' = Append(attempts, Attempt("rejected_by_broker", Side,
                                                GateReason(Side, price), 0))
        /\ runEvents' = Append(runEvents, RunEvent("order_rejected", Side,
                                                   GateReason(Side, price)))
  BY DEF RefuseAtGate
<1> DEFINE reason == GateReason(Side, price)
           row == Attempt("rejected_by_broker", Side, reason, 0)
           event == RunEvent("order_rejected", Side, reason)
<1>2. /\ deciding.at = "idle"
      /\ UNCHANGED <<switches, orders, fills, snapshots, books, deciding, lost>>
  BY DEF RefuseAtGate, Starts
<1>3. reason \in Reasons
  BY GateLets
<1> HIDE DEF reason
<1>4. /\ row \in AttemptRows /\ row.status = "rejected_by_broker" /\ row.order = 0
      /\ row.side = Side /\ row.reason = reason /\ event \in EventRows
  <2>1. "rejected_by_broker" \in Statuses /\ 0 \in Nat
    BY DEF Statuses
  <2> QED
    BY <1>3, <2>1, TheSide, AttemptIsRow, EventsAreRows
<1>5. event.message = "order_rejected" /\ event.side = Side /\ event.reason = reason
  BY DEF RunEvent
<1>6. attempts' = Append(attempts, row) /\ runEvents' = Append(runEvents, event)
  BY <1>1 DEF reason
<1> HIDE DEF row, event
<1>7. runEvents \in Seq(EventRows)
  BY DEF TrailInv, RowsShape
<1>8. runEvents' = runEvents \o <<event>> /\ <<event>> \in Seq(EventRows)
  BY <1>4, <1>6, <1>7, OneEventMore
<1>9. runEvents' \in Seq(EventRows)
  BY <1>7, <1>8
<1>10. Told(runEvents', "order_rejected", row.side, row.reason)
  BY <1>4, <1>5, <1>6, <1>7, <1>9, ToldByLast
<1> QED
  BY <1>2, <1>4, <1>6, <1>8, <1>10, StartRefused

LEMMA BlocksByGuard == TrailInv /\ BlockByGuard => TrailInv'
<1> SUFFICES ASSUME TrailInv, BlockByGuard PROVE TrailInv'
  OBVIOUS
<1>1. PICK price \in TrailPrices :
        /\ attempts' = Append(attempts, Attempt("blocked_by_safety", Side,
                                                GuardReason(Side, price, TRUE), 0))
        /\ runEvents' = runEvents \o <<Signal(Side),
                          RunEvent("order_rejected", Side, GuardReason(Side, price, TRUE))>>
  BY DEF BlockByGuard
<1> DEFINE reason == GuardReason(Side, price, TRUE)
           row == Attempt("blocked_by_safety", Side, reason, 0)
           signal == Signal(Side)
           event == RunEvent("order_rejected", Side, reason)
<1>2. /\ deciding.at = "idle"
      /\ UNCHANGED <<switches, orders, fills, snapshots, books, deciding, lost>>
  BY DEF BlockByGuard, Starts
<1>3. reason \in Reasons
  BY GuardLets
<1> HIDE DEF reason
<1>4. /\ row \in AttemptRows /\ row.status = "blocked_by_safety" /\ row.order = 0
      /\ signal \in EventRows /\ event \in EventRows
  <2>1. "blocked_by_safety" \in Statuses /\ 0 \in Nat
    BY DEF Statuses
  <2> QED
    BY <1>3, <2>1, TheSide, AttemptIsRow, EventsAreRows
<1>5. attempts' = Append(attempts, row) /\ runEvents' = runEvents \o <<signal, event>>
  BY <1>1 DEF reason
<1> HIDE DEF row, signal, event
<1>6. <<signal, event>> \in Seq(EventRows)
  BY <1>4
<1> QED
  BY <1>2, <1>4, <1>5, <1>6, StartRefused

\* The checks let through what they saw.
LEMMA PassesChecks == TrailInv /\ PassChecks => TrailInv'
<1> SUFFICES ASSUME TrailInv, PassChecks PROVE TrailInv'
  OBVIOUS
<1> USE DEF TrailInv
<1>1. /\ deciding.at = "idle" /\ deciding' = [at |-> "ordered", side |-> Side]
      /\ UNCHANGED <<switches, attempts, orders, fills, snapshots, runEvents, books, lost>>
  BY DEF PassChecks, Starts, rows
<1>2. PICK price \in TrailPrices :
        GateReason(Side, price) = None /\ GuardReason(Side, price, TRUE) = None
  BY DEF PassChecks
<1>3. /\ switches.trading
      /\ ~(Side = "buy" /\ used >= switches.maxCount)
  BY <1>2, GateLets, GuardLets
<1>4. RowsAgree' /\ \A o : Named(o)' <=> Named(o)
  BY <1>1, NoRows DEF RowsAgree
<1>5. RowsShape'
  <2>1. deciding' \in Decisions
    BY <1>1, TheSide DEF Decisions
  <2> QED
    BY <1>1, <2>1 DEF RowsShape
<1>6. BooksShape' /\ QuotaIsExact'
  BY <1>1, BooksUntouched
<1>7. OrderedIsFit'
  <2>1. switches.maxCount \in Nat /\ used \in Nat
    BY TrailConstants DEF BooksShape
  <2>2. deciding'.side = Side /\ Side' = Side /\ used' = used /\ switches' = switches
    BY <1>1 DEF Side, books
  <2> QED
    BY <1>3, <2>1, <2>2 DEF OrderedIsFit
<1>8. UnwrittenIsNew'
  BY <1>1 DEF UnwrittenIsNew
<1>9. OrdersAreNamed'
  BY <1>1, <1>4 DEF OrdersAreNamed, Unwritten
<1>10. EventsTell'
  BY <1>1 DEF EventsTell, Tells
<1> QED
  BY <1>4, <1>5, <1>6, <1>7, <1>8, <1>9, <1>10 DEF RowsAgree

\* What an order that is refused leaves alone.
LEMMA OrderRefused ==
  ASSUME TrailInv, deciding.at = "ordered",
         runEvents' = Append(runEvents, Signal(deciding.side)),
         UNCHANGED <<switches, fills, snapshots, books, lost>>,
         NEW reason \in Reasons, NEW order \in Nat, NEW attempted \in BOOLEAN,
         deciding' = Pending(FALSE, reason, order, attempted)
  PROVE  /\ BooksShape' /\ QuotaIsExact' /\ OrderedIsFit'
         /\ deciding.side \in Sides
         /\ deciding' \in Decisions /\ runEvents' \in Seq(EventRows)
         /\ fills' \in Seq(FillRows) /\ snapshots' \in Seq(SnapshotRows) /\ lost' \in BOOLEAN
         /\ deciding'.at = "done" /\ ~deciding'.filled /\ deciding'.side = deciding.side
         /\ deciding'.reason = reason /\ deciding'.order = order
         /\ deciding'.attempted = attempted
         /\ \A a \in DOMAIN attempts : Tells(runEvents', lost', deciding', attempts[a])
<1> USE DEF TrailInv
<1>1. deciding.side \in Sides
  BY DecisionFields
<1>2. /\ deciding' \in Decisions
      /\ deciding'.at = "done" /\ ~deciding'.filled /\ deciding'.side = deciding.side
      /\ deciding'.reason = reason /\ deciding'.order = order
      /\ deciding'.attempted = attempted
  <2>1. FALSE \in BOOLEAN
    OBVIOUS
  <2> DEFINE pending == Pending(FALSE, reason, order, attempted)
  <2>2. /\ pending \in Decisions
        /\ pending.at = "done" /\ pending.filled = FALSE /\ pending.side = deciding.side
        /\ pending.reason = reason /\ pending.order = order /\ pending.attempted = attempted
    BY <1>1, <2>1 DEF Pending, Decisions
  <2>3. deciding' = pending
    OBVIOUS
  <2> HIDE DEF pending
  <2> QED
    BY <2>2, <2>3
<1>3. BooksShape' /\ QuotaIsExact'
  BY BooksUntouched
<1>4. OrderedIsFit'
  BY <1>2 DEF OrderedIsFit
<1> DEFINE signal == Signal(deciding.side)
<1>5. signal \in EventRows
  <2>1. "allowed" \in Reasons
    BY DEF Reasons
  <2> QED
    BY <1>1, <2>1, EventsAreRows
<1> HIDE DEF signal
<1>6. /\ runEvents' = runEvents \o <<signal>> /\ <<signal>> \in Seq(EventRows)
      /\ runEvents \in Seq(EventRows)
  BY <1>5, OneEventMore DEF RowsShape, signal
<1>7. runEvents' \in Seq(EventRows)
  BY <1>6
<1>8. \A a \in DOMAIN attempts : Tells(runEvents', lost', deciding', attempts[a])
  BY <1>6, EventsStillTell
<1>9. fills' \in Seq(FillRows) /\ snapshots' \in Seq(SnapshotRows) /\ lost' \in BOOLEAN
  BY DEF RowsShape
<1> QED
  BY <1>1, <1>2, <1>3, <1>4, <1>7, <1>8, <1>9

LEMMA RejectsUnsimulated == TrailInv /\ RejectUnsimulated => TrailInv'
<1> SUFFICES ASSUME TrailInv, RejectUnsimulated PROVE TrailInv'
  OBVIOUS
<1> DEFINE reason == "Simulation is disabled"
           last == Len(orders) + 1
           row == [status |-> "rejected", side |-> deciding.side]
<1>1. /\ deciding.at = "ordered" /\ ~switches.simulation
      /\ runEvents' = Append(runEvents, Signal(deciding.side))
      /\ UNCHANGED <<switches, attempts, fills, snapshots, books, lost>>
      /\ deciding' = Pending(FALSE, reason, last, FALSE)
      /\ orders' = Append(orders, row)
  BY DEF RejectUnsimulated, Submits, RejectedOrder
<1>2. /\ orders \in Seq(OrderRows) /\ DOMAIN orders = 1..Len(orders) /\ Len(orders) \in Nat
  BY RowsAreTyped DEF TrailInv, RowsShape
<1>3. reason \in Reasons /\ last \in Nat
  BY <1>2 DEF Reasons
<1> HIDE DEF reason
<1>4. /\ BooksShape' /\ QuotaIsExact' /\ OrderedIsFit'
      /\ deciding.side \in Sides
      /\ deciding' \in Decisions /\ runEvents' \in Seq(EventRows)
      /\ fills' \in Seq(FillRows) /\ snapshots' \in Seq(SnapshotRows) /\ lost' \in BOOLEAN
      /\ deciding'.at = "done" /\ ~deciding'.filled /\ deciding'.side = deciding.side
      /\ deciding'.order = last /\ deciding'.attempted = FALSE
      /\ \A a \in DOMAIN attempts : Tells(runEvents', lost', deciding', attempts[a])
  BY <1>1, <1>3, OrderRefused
<1>5. row \in OrderRows
  BY <1>4 DEF OrderRows
<1>6. RowsAgree' /\ \A o : Named(o)' <=> Named(o)
  BY <1>1, <1>5, OrderAlone DEF TrailInv, RowsAgree
<1>7. /\ last \in DOMAIN orders' /\ orders'[last] = row /\ last \notin DOMAIN orders /\ last # 0
      /\ \A o \in DOMAIN orders' : o \in DOMAIN orders \/ o = last
      /\ \A o \in DOMAIN orders : orders'[o] = orders[o]
      /\ orders' \in Seq(OrderRows)
  BY <1>1, <1>2, <1>5
<1>8. RowsShape'
  BY <1>1, <1>4, <1>7 DEF TrailInv, RowsShape
<1>9. OrdersAreNamed'
  <2>1. ASSUME NEW o \in DOMAIN orders', ~Named(o)
        PROVE  orders'[o].status = "rejected" /\ (lost' \/ o = last)
    <3>1. CASE o = last
      BY <1>7, <3>1
    <3>2. CASE o \in DOMAIN orders
      BY <1>1, <1>7, <2>1, <3>2 DEF TrailInv, OrdersAreNamed, Unwritten
    <3> QED BY <1>7, <3>1, <3>2
  <2>2. \A o : o = last => Unwritten(o)'
    BY <1>4 DEF Unwritten
  <2> QED
    BY <1>6, <2>1, <2>2 DEF OrdersAreNamed
<1>10. UnwrittenIsNew'
  <2>1. ~Named(last)
    BY <1>7 DEF TrailInv, AttemptsAgree, Named
  <2>2. deciding'.order = last /\ \A o : o = last => ~Named(o)'
    BY <1>4, <1>6, <2>1
  <2>3. \A o : (o = deciding.order)' => ~Named(o)'
    BY <2>2
  <2>4. ~ (Named(deciding.order))'
    BY <2>1, <1>1, <1>4 DEF Named
  <2> QED
    BY <1>1, <1>4, <1>7, <2>4 DEF UnwrittenIsNew
<1>11. EventsTell'
  BY <1>1, <1>4 DEF EventsTell
<1> QED
  BY <1>4, <1>6, <1>8, <1>9, <1>10, <1>11 DEF TrailInv, RowsAgree

LEMMA RefusesDraft == TrailInv /\ RefuseDraft => TrailInv'
<1> SUFFICES ASSUME TrailInv, RefuseDraft PROVE TrailInv'
  OBVIOUS
<1> DEFINE reason == "insufficient_draft_balance_available"
           row == Attempt("rejected_by_broker", deciding.side, reason, 0)
<1>1. /\ deciding.at = "ordered"
      /\ runEvents' = Append(runEvents, Signal(deciding.side))
      /\ UNCHANGED <<switches, orders, fills, snapshots, books, lost>>
      /\ deciding' = Pending(FALSE, reason, 0, TRUE)
      /\ attempts' = Append(attempts, row)
  BY DEF RefuseDraft, Submits
<1>2. reason \in Reasons /\ 0 \in Nat
  BY DEF Reasons
<1> HIDE DEF reason
<1>3. /\ BooksShape' /\ QuotaIsExact' /\ OrderedIsFit'
      /\ deciding.side \in Sides
      /\ deciding' \in Decisions /\ runEvents' \in Seq(EventRows)
      /\ fills' \in Seq(FillRows) /\ snapshots' \in Seq(SnapshotRows) /\ lost' \in BOOLEAN
      /\ deciding'.at = "done" /\ ~deciding'.filled /\ deciding'.side = deciding.side
      /\ deciding'.reason = reason /\ deciding'.attempted = TRUE
      /\ \A a \in DOMAIN attempts : Tells(runEvents', lost', deciding', attempts[a])
  BY <1>1, <1>2, OrderRefused
<1>4. /\ row \in AttemptRows /\ row.status = "rejected_by_broker" /\ row.order = 0
      /\ row.side = deciding.side /\ row.reason = reason
  <2>1. "rejected_by_broker" \in Statuses
    BY DEF Statuses
  <2> QED
    BY <1>2, <1>3, <2>1, AttemptIsRow
<1> HIDE DEF row
<1>5. RowsAgree' /\ \A o \in DOMAIN orders : Named(o)' <=> Named(o)
  BY <1>1, <1>4, AttemptAlone DEF TrailInv, RowsAgree
<1>6. /\ attempts' \in Seq(AttemptRows)
      /\ \A a \in DOMAIN attempts' : a \in DOMAIN attempts \/ a = Len(attempts) + 1
      /\ \A a \in DOMAIN attempts : attempts'[a] = attempts[a]
      /\ attempts'[Len(attempts) + 1] = row
  BY <1>1, <1>4, OneRowMore DEF TrailInv, RowsShape
<1>7. RowsShape'
  BY <1>1, <1>3, <1>6 DEF TrailInv, RowsShape
<1>8. OrdersAreNamed'
  BY <1>1, <1>5 DEF TrailInv, OrdersAreNamed, Unwritten
<1>9. UnwrittenIsNew'
  BY <1>3 DEF UnwrittenIsNew
<1>10. EventsTell'
  <2>1. Tells(runEvents', lost', deciding', row)
    BY <1>3, <1>4 DEF Tells
  <2> QED
    BY <1>3, <1>6, <2>1 DEF EventsTell
<1> QED
  BY <1>3, <1>5, <1>7, <1>8, <1>9, <1>10 DEF TrailInv, RowsAgree

\* An order that is rejected together with its attempt.
LEMMA RefusedWithOrder ==
  ASSUME TrailInv, deciding.at = "ordered",
         NEW reason \in Reasons, NEW status \in {"blocked_by_safety", "rejected_by_broker"},
         runEvents' = Append(runEvents, Signal(deciding.side)),
         UNCHANGED <<switches, fills, snapshots, books, lost>>,
         deciding' = Pending(FALSE, reason, Len(orders) + 1, TRUE),
         orders' = Append(orders, [status |-> "rejected", side |-> deciding.side]),
         attempts' = Append(attempts, Attempt(status, deciding.side, reason, Len(orders) + 1))
  PROVE  TrailInv'
<1> DEFINE last == Len(orders) + 1
           order == [status |-> "rejected", side |-> deciding.side]
           row == Attempt(status, deciding.side, reason, last)
<1>1. /\ orders \in Seq(OrderRows) /\ DOMAIN orders = 1..Len(orders) /\ Len(orders) \in Nat
      /\ last \in Nat
  BY RowsAreTyped DEF TrailInv, RowsShape
<1>2. /\ BooksShape' /\ QuotaIsExact' /\ OrderedIsFit'
      /\ deciding.side \in Sides
      /\ deciding' \in Decisions /\ runEvents' \in Seq(EventRows)
      /\ fills' \in Seq(FillRows) /\ snapshots' \in Seq(SnapshotRows) /\ lost' \in BOOLEAN
      /\ deciding'.at = "done" /\ ~deciding'.filled /\ deciding'.side = deciding.side
      /\ deciding'.reason = reason /\ deciding'.attempted = TRUE
      /\ \A a \in DOMAIN attempts : Tells(runEvents', lost', deciding', attempts[a])
  BY <1>1, OrderRefused
<1>3. /\ row \in AttemptRows /\ row.status = status /\ row.order = last
      /\ row.side = deciding.side /\ row.reason = reason
  <2>1. status \in Statuses
    BY DEF Statuses
  <2> QED
    BY <1>1, <1>2, <2>1, AttemptIsRow
<1>4. order \in OrderRows /\ order.status = "rejected" /\ order.side = deciding.side
  BY <1>2 DEF OrderRows
<1>5. orders' = Append(orders, order) /\ attempts' = Append(attempts, row)
  OBVIOUS
<1> HIDE DEF row, order
<1>6. /\ RowsAgree'
      /\ \A o \in DOMAIN orders : Named(o)' <=> Named(o)
      /\ \A o : o = last => Named(o)'
  BY <1>3, <1>4, <1>5, OrderAndAttempt DEF TrailInv, RowsAgree
<1>7. /\ attempts' \in Seq(AttemptRows)
      /\ \A a \in DOMAIN attempts' : a \in DOMAIN attempts \/ a = Len(attempts) + 1
      /\ \A a \in DOMAIN attempts : attempts'[a] = attempts[a]
      /\ attempts'[Len(attempts) + 1] = row
  BY <1>3, <1>5, OneRowMore DEF TrailInv, RowsShape
<1>8. /\ \A o \in DOMAIN orders' : o \in DOMAIN orders \/ o = last
      /\ \A o \in DOMAIN orders : orders'[o] = orders[o]
      /\ orders' \in Seq(OrderRows)
  BY <1>1, <1>4, <1>5
<1>9. RowsShape'
  BY <1>2, <1>7, <1>8 DEF RowsShape
<1>10. OrdersAreNamed'
  <2>1. ASSUME NEW o \in DOMAIN orders', ~(Named(o)')
        PROVE  orders'[o].status = "rejected" /\ lost'
    <3>1. o \in DOMAIN orders /\ ~Named(o)
      BY <1>6, <1>8, <2>1
    <3> QED
      BY <1>8, <3>1 DEF TrailInv, OrdersAreNamed, Unwritten
  <2> QED
    BY <2>1 DEF OrdersAreNamed
<1>11. UnwrittenIsNew'
  BY <1>2 DEF UnwrittenIsNew
<1>12. EventsTell'
  <2>1. Tells(runEvents', lost', deciding', row)
    BY <1>2, <1>3 DEF Tells
  <2> QED
    BY <1>2, <1>7, <2>1 DEF EventsTell
<1> QED
  BY <1>2, <1>6, <1>9, <1>10, <1>11, <1>12 DEF TrailInv, RowsAgree

LEMMA BlocksAgain == TrailInv /\ BlockAgain => TrailInv'
<1> SUFFICES ASSUME TrailInv, BlockAgain PROVE TrailInv'
  OBVIOUS
<1>1. PICK price \in TrailPrices :
        /\ attempts' = Append(attempts, Attempt("blocked_by_safety", deciding.side,
                                                AskedAgain(price), Len(orders) + 1))
        /\ deciding' = Pending(FALSE, AskedAgain(price), Len(orders) + 1, TRUE)
  BY DEF BlockAgain
<1>2. /\ deciding.at = "ordered"
      /\ runEvents' = Append(runEvents, Signal(deciding.side))
      /\ UNCHANGED <<switches, fills, snapshots, books, lost>>
      /\ orders' = Append(orders, [status |-> "rejected", side |-> deciding.side])
  BY DEF BlockAgain, Submits, RejectedOrder
<1> DEFINE reason == AskedAgain(price)
<1>3. reason \in Reasons
  BY GuardLets DEF AskedAgain
<1>4. /\ attempts' = Append(attempts, Attempt("blocked_by_safety", deciding.side,
                                              reason, Len(orders) + 1))
      /\ deciding' = Pending(FALSE, reason, Len(orders) + 1, TRUE)
  BY <1>1
<1> HIDE DEF reason
<1> QED
  BY <1>2, <1>3, <1>4, RefusedWithOrder

LEMMA RefusesPool == TrailInv /\ RefusePool => TrailInv'
<1> SUFFICES ASSUME TrailInv, RefusePool PROVE TrailInv'
  OBVIOUS
<1> DEFINE reason == "insufficient_paper_cash"
<1>1. /\ deciding.at = "ordered"
      /\ runEvents' = Append(runEvents, Signal(deciding.side))
      /\ UNCHANGED <<switches, fills, snapshots, books, lost>>
      /\ orders' = Append(orders, [status |-> "rejected", side |-> deciding.side])
      /\ attempts' = Append(attempts, Attempt("rejected_by_broker", deciding.side,
                                              reason, Len(orders) + 1))
      /\ deciding' = Pending(FALSE, reason, Len(orders) + 1, TRUE)
  BY DEF RefusePool, Submits, RejectedOrder
<1>2. reason \in Reasons
  BY DEF Reasons
<1> HIDE DEF reason
<1> QED
  BY <1>1, <1>2, RefusedWithOrder

\* The books after a fill: the day's count goes up by one, and a buy was let
\* through by a limit that was not reached.
LEMMA FillMovesBooks ==
  ASSUME TrailInv, deciding.at = "ordered", NEW price \in TrailPrices, FillOrder(price),
         UNCHANGED <<switches, loss, dawn>>
  PROVE  BooksShape' /\ QuotaIsExact'
<1> DEFINE side == deciding.side
           made == Len(fills) + 1
           fill == [order |-> Len(orders) + 1, side |-> side, price |-> price]
<1>1. /\ side \in Sides /\ side = Side
      /\ side = "buy" => used < switches.maxCount
  BY DecisionFields DEF TrailInv, OrderedIsFit
<1>2. /\ purse.free \in Nat /\ purse.base \in Nat /\ pool.cash \in Nat /\ pool.held \in Nat
      /\ lots \in {0, 1} /\ purse.base <= lots
      /\ used \in Nat /\ loss \in Nat /\ dawn \in Nat /\ switches.maxCount \in Nat
      /\ switches \in Switches
  BY TrailConstants DEF TrailInv, BooksShape
<1>3. price \in Nat /\ Charge \in Nat /\ Charge < price /\ BuyCost(price) = price + Charge
  BY TrailConstants DEF BuyCost
<1>4. /\ Reservable(price) /\ Payable(price)
      /\ fills' = Append(fills, fill) /\ used' = used + 1
  BY DEF FillOrder, Counted
<1>5. BooksShape'
  <2>1. CASE side = "buy"
    <3>1. /\ purse' = [free |-> purse.free - BuyCost(price), base |-> purse.base + 1]
          /\ lots' = 1
          /\ pool' = [cash |-> pool.cash - BuyCost(price), held |-> pool.held + 1]
      BY <2>1 DEF FillOrder
    <3>2. lots = 0
      BY <1>1, <2>1 DEF Side
    <3>3. purse.free >= BuyCost(price) /\ pool.cash >= BuyCost(price)
      BY <1>4, <2>1 DEF Reservable, Payable
    <3>4. /\ purse' \in [free: Nat, base: Nat] /\ purse'.base <= 1
          /\ pool' \in [cash: Nat, held: Nat]
      BY <1>2, <1>3, <3>1, <3>2, <3>3
    <3> QED
      BY <1>2, <1>4, <3>1, <3>4 DEF BooksShape
  <2>2. CASE side = "sell"
    <3>1. /\ purse' = [free |-> purse.free + price - Charge, base |-> purse.base - lots]
          /\ lots' = 0
          /\ \/ pool' = pool
             \/ /\ pool.held >= lots
                /\ pool' = [cash |-> pool.cash + price - Charge, held |-> pool.held - lots]
      BY <2>2 DEF FillOrder
    <3>2. purse.base >= lots
      BY <1>4, <2>2 DEF Reservable
    <3>3. purse' \in [free: Nat, base: Nat] /\ purse'.base <= 0
      BY <1>2, <1>3, <3>1, <3>2
    <3>4. pool' \in [cash: Nat, held: Nat]
      <4>1. CASE pool' = pool
        BY <4>1 DEF TrailInv, BooksShape
      <4>2. CASE /\ pool.held >= lots
                 /\ pool' = [cash |-> pool.cash + price - Charge, held |-> pool.held - lots]
        BY <1>2, <1>3, <4>2
      <4> QED BY <3>1, <4>1, <4>2
    <3> QED
      BY <1>2, <1>4, <3>1, <3>3, <3>4 DEF BooksShape
  <2> QED
    BY <1>1, <2>1, <2>2 DEF Sides
<1>6. /\ fills \in Seq(FillRows) /\ DOMAIN fills = 1..Len(fills) /\ Len(fills) \in Nat
  BY RowsAreTyped DEF TrailInv, RowsShape
<1>7. /\ DOMAIN fills' = 1..made /\ Len(fills') = made
      /\ \A f \in DOMAIN fills : fills'[f] = fills[f]
      /\ fills'[made].side = side /\ made \notin DOMAIN fills
      /\ \A f \in DOMAIN fills' : f \in DOMAIN fills \/ f = made
  <2>1. fill.side = side
    OBVIOUS
  <2> HIDE DEF fill
  <2> QED
    BY <1>4, <1>6, <2>1
<1>8. used = Len(fills) - dawn /\ Cardinality(BuysOfDay) <= used
      /\ Cardinality(BuysOfDay) <= switches.maxCount
  BY DEF TrailInv, QuotaIsExact
<1>9. IsFiniteSet(BuysOfDay)
  <2>1. BuysOfDay \subseteq 1..Len(fills) /\ 1 \in Int /\ Len(fills) \in Int
    BY <1>6 DEF BuysOfDay
  <2>2. IsFiniteSet(1..Len(fills))
    BY <2>1, FS_Interval
  <2> QED
    BY <2>1, <2>2, FS_Subset
<1>10. Cardinality(BuysOfDay) \in Nat
  BY <1>9, FS_CardinalityType
<1>11. QuotaIsExact'
  <2>1. CASE side = "buy"
    <3>1. made > dawn
      BY <1>2, <1>6, <1>8
    <3>2. BuysOfDay' = BuysOfDay \cup {made} /\ made \notin BuysOfDay
      <4>1. dawn' = dawn
        OBVIOUS
      <4> QED
        BY <1>6, <1>7, <2>1, <3>1, <4>1 DEF BuysOfDay
    <3>3. Cardinality(BuysOfDay') = Cardinality(BuysOfDay) + 1
      BY <1>9, <3>2, FS_AddElement
    <3> QED
      BY <1>1, <1>2, <1>4, <1>6, <1>7, <1>8, <1>10, <2>1, <3>3 DEF QuotaIsExact
  <2>2. CASE side = "sell"
    <3>1. BuysOfDay' = BuysOfDay
      <4>1. dawn' = dawn
        OBVIOUS
      <4> QED
        BY <1>6, <1>7, <2>2, <4>1 DEF BuysOfDay
    <3> QED
      BY <1>2, <1>4, <1>6, <1>7, <1>8, <1>10, <3>1 DEF QuotaIsExact
  <2> QED
    BY <1>1, <2>1, <2>2 DEF Sides
<1> QED
  BY <1>5, <1>11

LEMMA Fills == TrailInv /\ Fill => TrailInv'
<1> SUFFICES ASSUME TrailInv, Fill PROVE TrailInv'
  OBVIOUS
<1>1. PICK price \in TrailPrices : FillOrder(price)
  BY DEF Fill
<1>2. /\ deciding.at = "ordered" /\ switches.simulation
      /\ runEvents' = Append(runEvents, Signal(deciding.side))
      /\ UNCHANGED <<switches, loss, dawn, lost>>
  BY DEF Fill, Submits
<1> DEFINE side == deciding.side
           last == Len(orders) + 1
           made == Len(fills) + 1
           signal == Signal(side)
           base == IF side = "buy" THEN purse.base + 1 ELSE purse.base - lots
           order == [status |-> "filled", side |-> side]
           row == Attempt("filled", side, "filled", last)
           fill == [order |-> last, side |-> side, price |-> price]
           shot == [order |-> last, fill |-> made, kind |-> side, base |-> base]
<1>3. /\ orders' = Append(orders, order) /\ attempts' = Append(attempts, row)
      /\ fills' = Append(fills, fill) /\ snapshots' = Append(snapshots, shot)
      /\ deciding' = [at |-> "done", side |-> side, filled |-> TRUE, reason |-> "filled",
                      order |-> last, attempted |-> TRUE]
  BY <1>1 DEF FillOrder, Pending
<1>4. /\ side \in Sides /\ last \in Nat /\ made \in Nat /\ base \in Int
      /\ orders \in Seq(OrderRows) /\ DOMAIN orders = 1..Len(orders)
      /\ runEvents \in Seq(EventRows)
  <2>1. side \in Sides
    BY <1>2, DecisionFields DEF TrailInv
  <2>2. purse.base \in Nat /\ lots \in {0, 1}
    BY DEF TrailInv, BooksShape
  <2>3. base \in Int
    BY <2>2
  <2> QED
    BY <2>1, <2>3, RowsAreTyped DEF TrailInv, RowsShape
<1>5. BooksShape' /\ QuotaIsExact'
  BY <1>1, <1>2, FillMovesBooks
<1> HIDE DEF base
<1>6. /\ order \in OrderRows /\ fill \in FillRows /\ shot \in SnapshotRows
      /\ fill.order = last /\ fill.side = side
      /\ shot.order = last /\ shot.fill = made /\ shot.kind = side
  BY <1>4 DEF OrderRows, FillRows, SnapshotRows
<1>7. /\ row \in AttemptRows /\ row.status = "filled" /\ row.side = side /\ row.order = last
  <2>1. "filled" \in Statuses /\ "filled" \in Reasons
    BY DEF Statuses, Reasons
  <2> QED
    BY <1>4, <2>1, AttemptIsRow
<1>8. order.status = "filled" /\ order = [status |-> "filled", side |-> side]
  OBVIOUS
<1>9. /\ deciding' \in Decisions
      /\ deciding'.at = "done" /\ deciding'.filled /\ deciding'.side = side
      /\ deciding'.attempted
  <2>1. "filled" \in Reasons
    BY DEF Reasons
  <2> QED
    BY <1>3, <1>4, <2>1 DEF Decisions
<1>10. signal \in EventRows
  <2>1. "filled" \in Reasons
    BY DEF Reasons
  <2> QED
    BY <1>4, <2>1, EventsAreRows
<1>11. runEvents' = Append(runEvents, signal)
  BY <1>2
<1> HIDE DEF row, fill, shot, signal
<1>12. /\ RowsAgree'
       /\ \A o \in DOMAIN orders : Named(o)' <=> Named(o)
       /\ \A o : o = last => Named(o)'
  <2> HIDE DEF order
  <2> QED
    BY <1>2, <1>3, <1>4, <1>6, <1>7, <1>8, FilledTogether DEF TrailInv, RowsAgree
<1> HIDE DEF order
<1>13. /\ attempts' \in Seq(AttemptRows)
       /\ \A a \in DOMAIN attempts' : a \in DOMAIN attempts \/ a = Len(attempts) + 1
       /\ \A a \in DOMAIN attempts : attempts'[a] = attempts[a]
       /\ attempts'[Len(attempts) + 1] = row
  BY <1>3, <1>7, OneRowMore DEF TrailInv, RowsShape
<1>14. /\ \A o \in DOMAIN orders' : o \in DOMAIN orders \/ o = last
       /\ \A o \in DOMAIN orders : orders'[o] = orders[o]
       /\ orders' \in Seq(OrderRows)
  BY <1>3, <1>4, <1>6
<1>15. runEvents' = runEvents \o <<signal>> /\ <<signal>> \in Seq(EventRows)
  BY <1>4, <1>10, <1>11, OneEventMore
<1>16. RowsShape'
  <2>1. fills' \in Seq(FillRows) /\ snapshots' \in Seq(SnapshotRows)
    BY <1>3, <1>6 DEF TrailInv, RowsShape
  <2>2. runEvents' \in Seq(EventRows)
    BY <1>4, <1>15
  <2>3. lost' \in BOOLEAN
    BY <1>2 DEF TrailInv, RowsShape
  <2> QED
    BY <1>9, <1>13, <1>14, <2>1, <2>2, <2>3 DEF RowsShape
<1>17. OrdersAreNamed'
  <2>1. ASSUME NEW o \in DOMAIN orders', ~(Named(o)')
        PROVE  orders'[o].status = "rejected" /\ lost'
    <3>1. o \in DOMAIN orders /\ ~Named(o)
      BY <1>12, <1>14, <2>1
    <3> QED
      BY <1>2, <1>14, <3>1 DEF TrailInv, OrdersAreNamed, Unwritten
  <2> QED
    BY <2>1 DEF OrdersAreNamed
<1>18. UnwrittenIsNew' /\ OrderedIsFit'
  BY <1>9 DEF UnwrittenIsNew, OrderedIsFit
<1>19. EventsTell'
  <2>1. Tells(runEvents', lost', deciding', row)
    BY <1>7, <1>9 DEF Tells
  <2>2. \A a \in DOMAIN attempts : Tells(runEvents', lost', deciding', attempts[a])
    BY <1>2, <1>15, EventsStillTell DEF TrailInv
  <2> QED
    BY <1>13, <2>1, <2>2 DEF EventsTell
<1> QED
  BY <1>5, <1>12, <1>16, <1>17, <1>18, <1>19 DEF TrailInv, RowsAgree

LEMMA RecordsOutcome == TrailInv /\ RecordOutcome => TrailInv'
<1> SUFFICES ASSUME TrailInv, RecordOutcome PROVE TrailInv'
  OBVIOUS
<1> DEFINE event == RunEvent(IF deciding.filled THEN "order_filled" ELSE "order_rejected",
                             deciding.side, deciding.reason)
           row == Attempt("rejected_by_broker", deciding.side, deciding.reason, deciding.order)
<1>1. /\ deciding.at = "done" /\ deciding' = AtRest /\ deciding'.at = "idle"
      /\ UNCHANGED <<switches, orders, fills, snapshots, books, lost>>
      /\ attempts' = IF deciding.attempted THEN attempts ELSE Append(attempts, row)
      /\ runEvents' = runEvents \o <<event>>
  BY DEF RecordOutcome, Outcome, AtRest
<1>2. /\ deciding.side \in Sides /\ deciding.reason \in Reasons /\ deciding.order \in Nat
      /\ deciding.filled \in BOOLEAN /\ deciding.attempted \in BOOLEAN
  BY <1>1, DecisionFields DEF TrailInv
<1>3. event \in EventRows
  BY <1>2 DEF RunEvent, EventRows
<1>4. /\ event.message = (IF deciding.filled THEN "order_filled" ELSE "order_rejected")
      /\ event.side = deciding.side /\ event.reason = deciding.reason
  BY DEF RunEvent
<1>5. /\ <<event>> \in Seq(EventRows) /\ DOMAIN <<event>> = {1} /\ <<event>>[1] = event
  BY <1>3, OneEventMore
<1>6. \A a \in DOMAIN attempts : Tells(runEvents', lost', deciding', attempts[a])
  <2>1. \E i \in DOMAIN <<event>> :
          <<event>>[i] = RunEvent(IF deciding.filled THEN "order_filled" ELSE "order_rejected",
                                  deciding.side, deciding.reason)
    BY <1>5
  <2> HIDE DEF event
  <2> QED
    BY <1>1, <1>5, <2>1, EventsStillTell DEF TrailInv
<1>7. /\ row \in AttemptRows /\ row.status = "rejected_by_broker" /\ row.side = deciding.side
      /\ row.order = deciding.order /\ row.reason = deciding.reason
  <2>1. "rejected_by_broker" \in Statuses
    BY DEF Statuses
  <2> QED
    BY <1>2, <2>1, AttemptIsRow
<1> HIDE DEF event, row
<1>8. runEvents' \in Seq(EventRows) /\ runEvents \in Seq(EventRows)
  BY <1>1, <1>5 DEF TrailInv, RowsShape
<1>9. BooksShape' /\ QuotaIsExact' /\ OrderedIsFit' /\ UnwrittenIsNew'
  BY <1>1, BooksUntouched DEF TrailInv, OrderedIsFit, UnwrittenIsNew
<1>10. deciding' \in Decisions
  BY <1>1 DEF Decisions
<1>11. CASE deciding.attempted
  <2>1. RowsAgree' /\ \A o : Named(o)' <=> Named(o)
    BY <1>1, <1>11, NoRows DEF TrailInv, RowsAgree
  <2>2. RowsShape'
    BY <1>1, <1>8, <1>10, <1>11 DEF TrailInv, RowsShape
  <2>3. OrdersAreNamed'
    BY <1>1, <1>11, <2>1 DEF TrailInv, OrdersAreNamed, Unwritten
  <2>4. EventsTell'
    BY <1>1, <1>6, <1>11 DEF EventsTell
  <2> QED
    BY <1>9, <2>1, <2>2, <2>3, <2>4 DEF TrailInv, RowsAgree
<1>12. CASE ~deciding.attempted
  <2>1. /\ ~deciding.filled /\ deciding.order \in DOMAIN orders
        /\ orders[deciding.order] = [status |-> "rejected", side |-> deciding.side]
        /\ ~Named(deciding.order)
    BY <1>1, <1>12 DEF TrailInv, UnwrittenIsNew
  <2>2. attempts' = Append(attempts, row)
    BY <1>1, <1>12
  <2>3. /\ row.status # "filled" /\ row.order \in DOMAIN orders
        /\ orders[row.order].status = "rejected" /\ row.side = orders[row.order].side
        /\ ~Named(row.order)
    BY <1>7, <2>1
  <2>4. /\ RowsAgree'
        /\ \A o \in DOMAIN orders : Named(o)' <=> Named(o) \/ o = row.order
    BY <1>1, <1>7, <2>2, <2>3, AttemptLate DEF TrailInv, RowsAgree
  <2>5. /\ attempts' \in Seq(AttemptRows)
        /\ \A a \in DOMAIN attempts' : a \in DOMAIN attempts \/ a = Len(attempts) + 1
        /\ \A a \in DOMAIN attempts : attempts'[a] = attempts[a]
        /\ attempts'[Len(attempts) + 1] = row
    BY <1>7, <2>2, OneRowMore DEF TrailInv, RowsShape
  <2>6. RowsShape'
    BY <1>1, <1>8, <1>10, <2>5 DEF TrailInv, RowsShape
  <2>7. OrdersAreNamed'
    <3>1. \A o \in DOMAIN orders : Unwritten(o) => o = row.order
      BY <1>7 DEF Unwritten
    <3> QED
      BY <1>1, <2>4, <3>1 DEF TrailInv, OrdersAreNamed
  <2>8. EventsTell'
    <3>1. runEvents' = Append(runEvents, event)
      BY <1>1, <1>3, <1>8, OneEventMore
    <3>2. Told(runEvents', event.message, event.side, event.reason)
      BY <1>3, <1>8, <3>1, ToldByLast
    <3>3. Tells(runEvents', lost', deciding', row)
      BY <1>4, <1>7, <2>1, <3>2 DEF Tells
    <3> QED
      BY <1>6, <2>5, <3>3 DEF EventsTell
  <2> QED
    BY <1>9, <2>4, <2>6, <2>7, <2>8 DEF TrailInv, RowsAgree
<1> QED
  BY <1>2, <1>11, <1>12

LEMMA Dies == TrailInv /\ Die => TrailInv'
<1> SUFFICES ASSUME TrailInv, Die PROVE TrailInv'
  OBVIOUS
<1>1. /\ deciding.at # "idle" /\ lost' = (lost \/ deciding.at = "done")
      /\ deciding' = AtRest /\ deciding'.at = "idle"
      /\ UNCHANGED <<switches, attempts, orders, fills, snapshots, runEvents, books>>
  BY DEF Die, rows, AtRest
<1>2. RowsAgree' /\ \A o : Named(o)' <=> Named(o)
  BY <1>1, NoRows DEF TrailInv, RowsAgree
<1>3. BooksShape' /\ QuotaIsExact'
  BY <1>1, BooksUntouched DEF TrailInv
<1>4. RowsShape'
  <2>1. deciding' \in Decisions
    BY <1>1 DEF Decisions
  <2>2. lost' \in BOOLEAN
    BY <1>1
  <2> QED
    BY <1>1, <2>1, <2>2 DEF TrailInv, RowsShape
<1>5. OrderedIsFit' /\ UnwrittenIsNew'
  BY <1>1 DEF OrderedIsFit, UnwrittenIsNew
<1>6. OrdersAreNamed'
  BY <1>1, <1>2 DEF TrailInv, OrdersAreNamed, Unwritten
<1>7. EventsTell'
  BY <1>1 DEF TrailInv, EventsTell, Tells
<1> QED
  BY <1>2, <1>3, <1>4, <1>5, <1>6, <1>7 DEF TrailInv, RowsAgree

\* What others do touches neither the rows nor the position, and leaves the quota
\* of the day where it was or at nothing.
LEMMA OthersKeep ==
  ASSUME TrailInv, Others, BooksShape', QuotaIsExact',
         used' = used \/ used' = 0
  PROVE  TrailInv'
<1>1. /\ UNCHANGED <<switches, attempts, orders, fills, snapshots, runEvents>>
      /\ lots' = lots /\ deciding' = deciding /\ lost' = lost
  BY DEF Others, rows
<1>2. RowsAgree' /\ \A o : Named(o)' <=> Named(o)
  BY <1>1, NoRows DEF TrailInv, RowsAgree
<1>3. RowsShape'
  BY <1>1 DEF TrailInv, RowsShape
<1>4. OrderedIsFit'
  <2>1. Side' = Side
    BY <1>1 DEF Side
  <2>2. used \in Nat /\ used' \in Nat /\ used' <= used /\ switches.maxCount \in Nat
    BY TrailConstants DEF TrailInv, BooksShape
  <2>3. used < switches.maxCount => used' < switches.maxCount
    BY <2>2
  <2> QED
    BY <1>1, <2>1, <2>3 DEF TrailInv, OrderedIsFit
<1>5. UnwrittenIsNew'
  BY <1>1 DEF TrailInv, UnwrittenIsNew, Named
<1>6. OrdersAreNamed'
  BY <1>1, <1>2 DEF TrailInv, OrdersAreNamed, Unwritten
<1>7. EventsTell'
  BY <1>1 DEF TrailInv, EventsTell
<1> QED
  BY <1>2, <1>3, <1>4, <1>5, <1>6, <1>7 DEF TrailInv, RowsAgree

\* What others do to the books.
LEMMA OthersBooks ==
  ASSUME TrailInv, Others, ManualBuy \/ ManualSell \/ ResetDraft \/ OthersLose
  PROVE  BooksShape' /\ QuotaIsExact' /\ used' = used
<1>1. /\ UNCHANGED <<switches, fills, lots, used, dawn>>
  BY DEF Others, rows, ManualBuy, ManualSell, ResetDraft, OthersLose
<1>2. QuotaIsExact'
  BY <1>1 DEF TrailInv, QuotaIsExact, BuysOfDay
<1>3. /\ purse \in [free: Nat, base: Nat] /\ purse.base <= lots /\ lots \in {0, 1}
      /\ pool \in [cash: Nat, held: Nat] /\ pool.cash \in Nat /\ pool.held \in Nat
      /\ used \in Nat /\ loss \in Nat /\ dawn \in Nat /\ switches \in Switches
  BY DEF TrailInv, BooksShape
<1>4. CASE ManualBuy
  <2>1. PICK price \in TrailPrices :
          /\ pool.cash >= BuyCost(price)
          /\ pool' = [cash |-> pool.cash - BuyCost(price), held |-> pool.held + 1]
    BY <1>4 DEF ManualBuy
  <2>2. BuyCost(price) \in Nat
    BY TrailConstants
  <2>3. pool.cash - BuyCost(price) \in Nat /\ pool.held + 1 \in Nat
    BY <1>3, <2>1, <2>2
  <2>4. pool' \in [cash: Nat, held: Nat]
    BY <2>1, <2>3
  <2> QED
    BY <1>1, <1>2, <1>3, <1>4, <2>4 DEF BooksShape, ManualBuy
<1>5. CASE ManualSell
  <2>1. PICK price \in TrailPrices :
          pool' = [cash |-> pool.cash + price - Charge, held |-> pool.held - 1]
    BY <1>5 DEF ManualSell
  <2>2. price \in Nat /\ Charge \in Nat /\ Charge < price /\ pool.held > 0
    BY <1>5, TrailConstants DEF ManualSell
  <2>3. pool.cash + price - Charge \in Nat /\ pool.held - 1 \in Nat
    BY <1>3, <2>2
  <2>4. pool' \in [cash: Nat, held: Nat]
    BY <2>1, <2>3
  <2> QED
    BY <1>1, <1>2, <1>3, <1>5, <2>4 DEF BooksShape, ManualSell
<1>6. CASE ResetDraft
  <2>1. purse' \in [free: Nat, base: Nat] /\ purse'.base <= lots'
    BY <1>1, <1>3, <1>6, TrailConstants DEF ResetDraft
  <2> QED
    BY <1>1, <1>2, <1>3, <1>6, <2>1 DEF BooksShape, ResetDraft
<1>7. CASE OthersLose
  BY <1>1, <1>2, <1>3, <1>7 DEF BooksShape, OthersLose
<1> QED
  BY <1>1, <1>4, <1>5, <1>6, <1>7

LEMMA DayBegins ==
  ASSUME TrailInv, NewDay
  PROVE  BooksShape' /\ QuotaIsExact' /\ used' = 0
<1>1. /\ UNCHANGED <<switches, fills, lots, purse, pool>>
      /\ used' = 0 /\ loss' = 0 /\ dawn' = Len(fills)
  BY DEF NewDay, Others, rows
<1>2. Len(fills) \in Nat /\ DOMAIN fills = 1..Len(fills)
  BY RowsAreTyped DEF TrailInv
<1>3. BooksShape'
  BY <1>1, <1>2 DEF TrailInv, BooksShape
<1>4. BuysOfDay' = {}
  BY <1>1, <1>2 DEF BuysOfDay
<1>5. Cardinality(BuysOfDay') = 0
  BY <1>4, FS_EmptySet
<1>6. switches.maxCount \in Nat
  BY TrailConstants DEF TrailInv, BooksShape
<1>7. QuotaIsExact'
  BY <1>1, <1>2, <1>5, <1>6 DEF QuotaIsExact
<1> QED
  BY <1>1, <1>3, <1>7

LEMMA TrailStep == TrailInv /\ [TrailNext]_trailVars => TrailInv'
<1> SUFFICES ASSUME TrailInv, [TrailNext]_trailVars PROVE TrailInv'
  OBVIOUS
<1>1. CASE BlockByRisk \/ RefuseAtGate \/ BlockByGuard \/ PassChecks
  BY <1>1, BlocksByRisk, RefusesAtGate, BlocksByGuard, PassesChecks
<1>2. CASE RejectUnsimulated \/ BlockAgain \/ RefuseDraft \/ RefusePool \/ Fill
  BY <1>2, RejectsUnsimulated, BlocksAgain, RefusesDraft, RefusesPool, Fills
<1>3. CASE RecordOutcome \/ Die
  BY <1>3, RecordsOutcome, Dies
<1>4. CASE ManualBuy \/ ManualSell \/ ResetDraft \/ OthersLose
  <2>1. Others
    BY <1>4 DEF ManualBuy, ManualSell, ResetDraft, OthersLose
  <2> QED
    BY <1>4, <2>1, OthersBooks, OthersKeep
<1>5. CASE NewDay
  <2>1. Others
    BY <1>5 DEF NewDay
  <2> QED
    BY <1>5, <2>1, DayBegins, OthersKeep
<1>6. CASE UNCHANGED trailVars
  <2>1. /\ UNCHANGED <<switches, attempts, orders, fills, snapshots, runEvents, books>>
        /\ deciding' = deciding /\ lost' = lost /\ Side' = Side /\ used' = used
    BY <1>6 DEF trailVars, rows, books, Side
  <2>2. RowsAgree' /\ \A o : Named(o)' <=> Named(o)
    BY <2>1, NoRows DEF TrailInv, RowsAgree
  <2>3. BooksShape' /\ QuotaIsExact'
    BY <2>1, BooksUntouched DEF TrailInv
  <2>4. RowsShape' /\ OrderedIsFit' /\ EventsTell'
    BY <2>1 DEF TrailInv, RowsShape, OrderedIsFit, EventsTell
  <2>5. UnwrittenIsNew'
    BY <2>1 DEF TrailInv, UnwrittenIsNew, Named
  <2>6. OrdersAreNamed'
    BY <2>1, <2>2 DEF TrailInv, OrdersAreNamed, Unwritten
  <2> QED
    BY <2>2, <2>3, <2>4, <2>5, <2>6 DEF TrailInv, RowsAgree
<1> QED
  BY <1>1, <1>2, <1>3, <1>4, <1>5, <1>6 DEF TrailNext

----------------------------------------------------------------------------
(* The trail: what the invariant says of the audit                         *)

\* Behind a filled attempt in the window the audit finds its order, its fill and
\* its snapshot.
LEMMA FilledIsBehindAttempt ==
  ASSUME TrailInv, NEW limit \in 1..Len(attempts), NEW a \in Latest(attempts, limit),
         attempts[a].status = "filled"
  PROVE  FilledIssues(attempts[a], limit) \subseteq
           {issue \in {"run_event_missing_for_filled_attempt"} :
              ~EventMatches("order_filled", attempts[a])}
<1> DEFINE attempt == attempts[a]
           theOrder == {o \in Latest(orders, limit) :
                          /\ o = attempt.order
                          /\ orders[o].status = "filled"
                          /\ orders[o].side = attempt.side}
           theFill == {f \in Latest(fills, limit) : fills[f].order \in theOrder}
           theSnapshot == {s \in Latest(snapshots, limit) :
                             /\ snapshots[s].fill \in theFill \/ snapshots[s].order \in theOrder
                             /\ snapshots[s].kind = attempt.side}
<1>1. /\ Len(attempts) \in Nat /\ Len(orders) \in Nat /\ Len(fills) \in Nat
      /\ DOMAIN attempts = 1..Len(attempts) /\ DOMAIN orders = 1..Len(orders)
      /\ DOMAIN fills = 1..Len(fills) /\ DOMAIN snapshots = 1..Len(snapshots)
  BY RowsAreTyped DEF TrailInv
<1>2. a \in DOMAIN attempts /\ a > Len(attempts) - limit
  BY DEF Latest
<1>3. /\ attempt.order \in DOMAIN orders
      /\ attempt.side = orders[attempt.order].side
      /\ orders[attempt.order].status = "filled"
  BY <1>2 DEF TrailInv, AttemptsAgree
<1>4. Len(orders) - attempt.order <= Len(attempts) - a
  BY <1>2 DEF TrailInv, FilledKeepPace
<1>5. PICK f \in DOMAIN fills :
        fills[f].order = attempt.order /\ Len(fills) - f <= Len(attempts) - a
  BY <1>2 DEF TrailInv, FilledKeepPace
<1>6. /\ Len(snapshots) = Len(fills) /\ snapshots[f].fill = f
      /\ snapshots[f].kind = fills[f].side
      /\ orders[fills[f].order].side = fills[f].side
  BY <1>5 DEF TrailInv, FillsAreBacked
<1>7. attempt.order \in theOrder
  <2>1. attempt.order > Len(orders) - limit
    BY <1>1, <1>2, <1>3, <1>4
  <2> QED
    BY <1>3, <2>1 DEF Latest
<1>8. f \in theFill
  <2>1. f > Len(fills) - limit
    BY <1>1, <1>2, <1>5
  <2> HIDE DEF theOrder
  <2> QED
    BY <1>5, <1>7, <2>1 DEF Latest
<1>9. f \in theSnapshot
  <2>1. f > Len(snapshots) - limit /\ f \in DOMAIN snapshots
    BY <1>1, <1>2, <1>5, <1>6
  <2>2. snapshots[f].kind = attempt.side
    BY <1>3, <1>5, <1>6
  <2>3. snapshots[f].fill \in theFill
    BY <1>6, <1>8
  <2> HIDE DEF theOrder, theFill
  <2> QED
    BY <2>1, <2>2, <2>3 DEF Latest
<1>10. FilledIssues(attempt, limit) =
         IF theOrder = {} THEN {"filled_attempt_missing_order"}
         ELSE IF theFill = {} THEN {"filled_order_missing_fill"}
         ELSE {issue \in {"filled_attempt_missing_equity_snapshot"} : theSnapshot = {}}
                \cup {issue \in {"run_event_missing_for_filled_attempt"} :
                        ~EventMatches("order_filled", attempt)}
  BY DEF FilledIssues
<1>11. theOrder # {} /\ theFill # {} /\ theSnapshot # {}
  BY <1>7, <1>8, <1>9
<1> HIDE DEF theOrder, theFill, theSnapshot
<1> QED
  BY <1>10, <1>11

\* Nothing is filled behind a rejected one.
LEMMA NothingIsBehindRejected ==
  ASSUME TrailInv, NEW limit \in 1..Len(attempts), NEW a \in Latest(attempts, limit),
         attempts[a].status = "rejected_by_broker"
  PROVE  RejectedIssues(attempts[a], limit) \subseteq
           {"rejected_attempt_has_order"} \cup
             {issue \in {"run_event_missing_for_rejected_attempt"} :
                ~EventMatches("order_rejected", attempts[a])}
<1>1. a \in DOMAIN attempts
  BY DEF Latest
<1>2. ASSUME NEW f \in DOMAIN fills PROVE fills[f].order # attempts[a].order
  <2>1. fills[f].order \in DOMAIN orders /\ orders[fills[f].order].status = "filled"
    BY DEF TrailInv, FillsAreBacked
  <2>2. fills[f].order # 0
    BY <2>1, RowsAreTyped DEF TrailInv
  <2> QED
    BY <1>1, <2>1, <2>2 DEF TrailInv, AttemptsAgree
<1>3. ASSUME NEW s \in DOMAIN snapshots PROVE snapshots[s].order # attempts[a].order
  <2>1. s \in DOMAIN fills
    BY RowsAreTyped DEF TrailInv, FillsAreBacked
  <2>2. snapshots[s].order = fills[s].order
    BY <2>1 DEF TrailInv, FillsAreBacked
  <2> QED
    BY <1>2, <2>1, <2>2
<1> QED
  BY <1>2, <1>3 DEF RejectedIssues, Latest

\* Without a death every outcome has been told by the time the evaluation is over.
LEMMA OutcomesAreTold ==
  ASSUME TrailInv, deciding.at = "idle", ~lost, NEW a \in DOMAIN attempts
  PROVE  /\ attempts[a].status = "filled" => EventMatches("order_filled", attempts[a])
         /\ attempts[a].status = "rejected_by_broker" =>
              EventMatches("order_rejected", attempts[a])
<1>1. Tells(runEvents, lost, deciding, attempts[a])
  BY DEF TrailInv, EventsTell
<1> QED
  BY <1>1 DEF Tells, Told, EventMatches

LEMMA NoDuplicates ==
  ASSUME TrailInv, NEW limit
  PROVE  DuplicateIssues(limit) = {}
<1>1. ASSUME NEW a \in DOMAIN attempts, NEW b \in DOMAIN attempts,
             attempts[a].status = "filled", attempts[a].order = attempts[b].order
      PROVE  a = b
  BY <1>1 DEF TrailInv, AttemptsAgree
<1> QED
  BY <1>1 DEF DuplicateIssues, Latest

LEMMA AuditsAreClean == TrailInv => AuditsTrustTheTrail
<1> SUFFICES ASSUME TrailInv, deciding.at = "idle",
                    NEW limit \in 1..Len(attempts), NEW issue \in Audit(limit)
             PROVE  \/ issue = "rejected_attempt_has_order"
                    \/ lost /\ issue \in {"run_event_missing_for_filled_attempt",
                                          "run_event_missing_for_rejected_attempt"}
  BY DEF AuditsTrustTheTrail
<1> DEFINE Found(a) ==
             CASE attempts[a].status = "filled" -> FilledIssues(attempts[a], limit)
               [] attempts[a].status = "rejected_by_broker" -> RejectedIssues(attempts[a], limit)
               [] OTHER -> {}
<1>1. Audit(limit) = UNION {Found(a) : a \in Latest(attempts, limit)} \cup DuplicateIssues(limit)
  BY DEF Audit
<1> HIDE DEF Found
<1>2. PICK a \in Latest(attempts, limit) : issue \in Found(a)
  BY <1>1, NoDuplicates
<1>3. a \in DOMAIN attempts
  BY DEF Latest
<1>4. CASE attempts[a].status = "filled"
  <2>1. issue \in FilledIssues(attempts[a], limit)
    BY <1>2, <1>4 DEF Found
  <2>2. /\ issue = "run_event_missing_for_filled_attempt"
        /\ ~EventMatches("order_filled", attempts[a])
    BY <1>4, <2>1, FilledIsBehindAttempt
  <2> QED
    BY <1>3, <1>4, <2>2, OutcomesAreTold
<1>5. CASE attempts[a].status = "rejected_by_broker"
  <2>1. issue \in RejectedIssues(attempts[a], limit)
    BY <1>2, <1>5 DEF Found
  <2>2. \/ issue = "rejected_attempt_has_order"
        \/ /\ issue = "run_event_missing_for_rejected_attempt"
           /\ ~EventMatches("order_rejected", attempts[a])
    BY <1>5, <2>1, NothingIsBehindRejected
  <2> QED
    BY <1>3, <1>5, <2>2, OutcomesAreTold
<1>6. CASE attempts[a].status \notin {"filled", "rejected_by_broker"}
  BY <1>2, <1>6 DEF Found
<1> QED
  BY <1>4, <1>5, <1>6

LEMMA AccountedFor == TrailInv => OrdersAreAccountedFor
<1> SUFFICES ASSUME TrailInv, NEW o \in DOMAIN orders
             PROVE  LET naming == {a \in DOMAIN attempts : attempts[a].order = o} IN
                    /\ \A a \in naming :
                         /\ attempts[a].side = orders[o].side
                         /\ attempts[a].status = "filled" <=> orders[o].status = "filled"
                    /\ Cardinality(naming) <= 1
                    /\ naming = {} => /\ orders[o].status = "rejected"
                                      /\ lost \/ deciding.at = "done"
  BY DEF OrdersAreAccountedFor
<1> DEFINE naming == {a \in DOMAIN attempts : attempts[a].order = o}
<1>1. o # 0
  BY RowsAreTyped DEF TrailInv
<1>2. \A a \in naming :
        /\ attempts[a].side = orders[o].side
        /\ attempts[a].status = "filled" <=> orders[o].status = "filled"
  BY <1>1 DEF TrailInv, AttemptsAgree
<1>3. Cardinality(naming) <= 1
  <2>1. CASE naming = {}
    <3> HIDE DEF naming
    <3>1. Cardinality(naming) = 0
      BY <2>1, FS_EmptySet
    <3> QED BY <3>1
  <2>2. CASE naming # {}
    <3>1. PICK a \in naming : TRUE
      BY <2>2
    <3>2. naming = {a}
      BY <1>1, <3>1 DEF TrailInv, AttemptsAgree
    <3> HIDE DEF naming
    <3>3. Cardinality(naming) = 1
      BY <3>2, FS_Singleton
    <3> QED BY <3>3
  <2> QED BY <2>1, <2>2
<1>4. naming = {} => orders[o].status = "rejected" /\ (lost \/ deciding.at = "done")
  BY DEF TrailInv, OrdersAreNamed, Named, Unwritten
<1> QED
  BY <1>2, <1>3, <1>4

LEMMA TrailIsTyped == TrailInv => TrailTypeOK
<1> SUFFICES ASSUME TrailInv PROVE TrailTypeOK
  OBVIOUS
<1>1. \A a \in DOMAIN attempts :
        /\ attempts[a].status \in
             {"filled", "rejected_by_broker", "blocked_by_safety", "blocked_by_risk"}
        /\ attempts[a].order \in 0..Len(orders)
  <2> SUFFICES ASSUME NEW a \in DOMAIN attempts
               PROVE  attempts[a].status \in Statuses /\ attempts[a].order \in 0..Len(orders)
    BY DEF Statuses
  <2>1. attempts[a] \in AttemptRows
    BY RowsAreTyped DEF TrailInv
  <2>2. attempts[a].status \in Statuses /\ attempts[a].order \in Nat
    BY <2>1 DEF AttemptRows
  <2>3. attempts[a].order # 0 => attempts[a].order \in DOMAIN orders
    BY DEF TrailInv, AttemptsAgree
  <2> QED
    BY <2>2, <2>3, RowsAreTyped DEF TrailInv
<1>2. /\ purse.free \in Nat /\ purse.base \in Nat /\ pool.cash \in Nat /\ pool.held \in Nat
      /\ switches \in Switches /\ lots \in {0, 1} /\ purse.base <= lots
      /\ used \in Nat /\ loss \in Nat /\ dawn \in Nat
  BY DEF TrailInv, BooksShape
<1>3. Len(fills) = Len(snapshots) /\ used = Len(fills) - dawn /\ Len(fills) \in Nat
  BY RowsAreTyped DEF TrailInv, FillsAreBacked, QuotaIsExact
<1>4. purse.base \in 0..lots /\ dawn \in 0..Len(fills)
  BY <1>2, <1>3
<1> QED
  BY <1>1, <1>2, <1>3, <1>4 DEF TrailTypeOK

\* For any settings, prices, balances and numbers of evaluations: once an
\* evaluation is over the audit finds nothing missing behind a filled attempt and
\* nothing filled behind a rejected one, in whatever window; every order has one
\* attempt unless the process died between the two commits; and the quota counts
\* the fills of the day and lets no more buys through than the limit.
THEOREM TrailHoldsAlways == TrailSpec => []TrailHolds
<1>1. TrailInv => TrailHolds
  <2>1. TrailInv => QuotaCountsFills
    BY DEF TrailInv, QuotaIsExact, BuysOfDay, QuotaCountsFills
  <2> QED
    BY <2>1, TrailIsTyped, AuditsAreClean, AccountedFor DEF TrailHolds
<1> QED
  BY <1>1, TrailInitially, TrailStep, PTL DEF TrailSpec

\* An order is filled only where the safety status, asked at the price of that
\* moment, would have allowed it.
LEMMA FillsAreForeseen ==
  ASSUME TrailInv, [TrailNext]_trailVars, NEW i \in DOMAIN fills' \ DOMAIN fills
  PROVE  StatusReason(fills'[i].side, fills'[i].price) = None
<1>1. CASE Fill
  <2>1. PICK price \in TrailPrices : FillOrder(price)
    BY <1>1 DEF Fill
  <2> DEFINE side == deciding.side
             fill == [order |-> Len(orders) + 1, side |-> side, price |-> price]
  <2>2. fills' = Append(fills, fill) /\ AskedAgain(price) = None
    BY <2>1 DEF FillOrder
  <2>3. fill \in FillRows /\ fill.side = side /\ fill.price = price
    <3>1. side \in Sides /\ Len(orders) + 1 \in Nat
      BY <1>1, DecisionFields, RowsAreTyped DEF TrailInv, Fill, Submits
    <3> QED
      BY <3>1 DEF FillRows
  <2> HIDE DEF fill
  <2>4. fills'[i].side = side /\ fills'[i].price = price
    <3>1. fills \in Seq(FillRows)
      BY DEF TrailInv, RowsShape
    <3>2. i = Len(fills) + 1
      BY <2>2, <2>3, <3>1, OneRowMore
    <3> QED
      BY <2>2, <2>3, <3>1, <3>2, OneRowMore
  <2>5. /\ switches.trading
        /\ side = "buy" => used < switches.maxCount
    BY <1>1 DEF TrailInv, OrderedIsFit, Fill, Submits
  <2>6. ~(side = "buy" /\ used >= switches.maxCount)
    BY <2>5, TrailConstants DEF TrailInv, BooksShape
  <2>7. GuardReason(side, price, FALSE) = None
    BY <2>2 DEF AskedAgain
  <2>8. switches.global /\ ~(price > switches.maxNotional) /\ ~LossReached(side)
    BY <2>7, GuardLets
  <2>9. GuardReason(side, price, TRUE) = None
    BY <2>6, <2>8, GuardLets
  <2> QED
    BY <2>4, <2>5, <2>9 DEF StatusReason
<1>2. CASE ~Fill
  <2>1. fills' = fills
    BY <1>2 DEF TrailNext, trailVars, rows, BlockByRisk, RefuseAtGate, BlockByGuard, PassChecks,
       RejectUnsimulated, BlockAgain, RefuseDraft, RefusePool, RecordOutcome, Die,
       ManualBuy, ManualSell, ResetDraft, OthersLose, NewDay, Others
  <2> QED
    BY <2>1
<1> QED
  BY <1>1, <1>2

\* For any settings, prices and balances: no order is filled that the safety
\* status would have called blocked, whatever happens between the checks of an
\* evaluation and its order.
THEOREM StatusForeseesFillsAlways == TrailSpec => StatusForeseesFills
<1> DEFINE Foreseen == \A i \in DOMAIN fills' \ DOMAIN fills :
                         StatusReason(fills'[i].side, fills'[i].price) = None
<1>1. TrailInv /\ [TrailNext]_trailVars => [Foreseen]_trailVars
  BY FillsAreForeseen
<1>2. StatusForeseesFills <=> [][Foreseen]_trailVars
  BY DEF StatusForeseesFills
<1> QED
  BY <1>1, <1>2, TrailInitially, TrailStep, PTL DEF TrailSpec
=============================================================================
