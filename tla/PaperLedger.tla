---------------------------- MODULE PaperLedger ----------------------------
(***************************************************************************)
(* What paper trading promises a bot: its purse and its position change    *)
(* together, one accepted signal at a time.  A buy takes a flat position to *)
(* one lot and is paid from the purse; a sell closes the position and its   *)
(* proceeds go to the purse.  Nothing else moves money, and nothing is said *)
(* of processes, locks, reservations, refusals or rollbacks.                *)
(***************************************************************************)
EXTENDS Naturals

CONSTANTS
  Bots,
  Prices,
  Cost,          \* what a lot costs at each price, fee included
  Proceeds,      \* what it brings, fee deducted
  DefaultQuote   \* what a purse starts with

VARIABLES
  purse,     \* the quote asset each bot owns
  lots       \* the lots each bot holds

vars == <<purse, lots>>

Init ==
  /\ purse = [b \in Bots |-> DefaultQuote]
  /\ lots = [b \in Bots |-> 0]

Buy(b, q) ==
  /\ lots[b] = 0
  /\ purse[b] >= Cost[q]
  /\ lots' = [lots EXCEPT ![b] = 1]
  /\ purse' = [purse EXCEPT ![b] = @ - Cost[q]]

Sell(b, q) ==
  /\ lots[b] = 1
  /\ lots' = [lots EXCEPT ![b] = 0]
  /\ purse' = [purse EXCEPT ![b] = @ + Proceeds[q]]

Next == \E b \in Bots, q \in Prices : Buy(b, q) \/ Sell(b, q)

Spec == Init /\ [][Next]_vars

============================================================================
