------------------------- MODULE MCPaperExecution -------------------------
(***************************************************************************)
(* Instances of PaperExecution for TLC: the amounts per price.              *)
(***************************************************************************)
EXTENDS PaperExecution, TLC

CONSTANTS low, high

\* A lot bought at the high price costs all the draft balance starts with, and
\* loses money when it is sold at the low one.
WholeCost == low :> 3 @@ high :> 5
WholeProceeds == low :> 2 @@ high :> 4

\* In units of which 4 make a stored one: what a lot costs is stored as less at
\* the low price, and is half-way between two stored amounts at the high one.
FineCost == low :> 9 @@ high :> 18
FineProceeds == low :> 7 @@ high :> 15

============================================================================
