------------------------ MODULE MCTestnetSubmission ------------------------
(***************************************************************************)
(* Instances of TestnetSubmission for TLC.  The bot of each call is given   *)
(* here because a .cfg cannot write a function.                             *)
(***************************************************************************)
EXTENDS TestnetSubmissionInvariant, TLC

CONSTANTS c1, c2, b1

\* Two calls of one bot: every conflict over the gate needs no more.
OneBot == [c \in Calls |-> b1]

\* Workers and operators are interchangeable.  Calls are not: BotOf and Legacy
\* may tell them apart.
Processes == Permutations(Workers) \cup Permutations(Operators)

============================================================================
