--------------------------- MODULE SerialOrders ---------------------------
(***************************************************************************)
(* What submission to an exchange promises, whatever crashes, times out or  *)
(* is reconciled late: the orders of a bot come before the exchange one at  *)
(* a time, each at most once, what the exchange decided stays decided, and  *)
(* the ledger never says of an order what the exchange did not decide.      *)
(* Nothing is said about tables, jobs, leases or locks.                     *)
(***************************************************************************)
CONSTANTS
  Calls,   \* the orders the bots may want
  Bots,
  BotOf    \* the bot of each order

VARIABLES
  order,   \* the truth about each order
  ledger   \* what the platform says about it

vars == <<order, ledger>>

OrderState == {"new", "open", "placed", "dropped"}
LedgerState == {"nothing", "unknown", "created", "rejected"}

\* Orders of an earlier deployment may be decided already, and unknown.
Init ==
  /\ order \in [Calls -> OrderState \ {"open"}]
  /\ ledger = [c \in Calls |-> IF order[c] = "new" THEN "nothing" ELSE "unknown"]

\* The order is refused before it goes out; the ledger may say so.
TurnAway(c) ==
  /\ order[c] = "new"
  /\ order' = [order EXCEPT ![c] = "dropped"]
  /\ ledger' \in {ledger, [ledger EXCEPT ![c] = "rejected"]}

\* The order goes out: no other order of its bot may be open.
Submit(c) ==
  /\ order[c] = "new"
  /\ \A d \in Calls : BotOf[d] = BotOf[c] => order[d] # "open"
  /\ order' = [order EXCEPT ![c] = "open"]
  /\ ledger' = [ledger EXCEPT ![c] = "unknown"]

\* The exchange places the order, or it never will.
Decide(c) ==
  /\ order[c] = "open"
  /\ \E s \in {"placed", "dropped"} : order' = [order EXCEPT ![c] = s]
  /\ UNCHANGED ledger

\* The ledger catches up with what was decided.
Learn(c) ==
  /\ ledger[c] = "unknown"
  /\ \/ order[c] = "placed" /\ ledger' = [ledger EXCEPT ![c] = "created"]
     \/ order[c] = "dropped" /\ ledger' = [ledger EXCEPT ![c] = "rejected"]
  /\ UNCHANGED order

\* The ledger may lose its knowledge again, but not invent another.
Forget(c) ==
  /\ ledger[c] \in {"created", "rejected"}
  /\ ledger' = [ledger EXCEPT ![c] = "unknown"]
  /\ UNCHANGED order

Next ==
  \E c \in Calls : TurnAway(c) \/ Submit(c) \/ Decide(c) \/ Learn(c) \/ Forget(c)

Spec == Init /\ [][Next]_vars

============================================================================
