--------------------------- MODULE MCRawTxCreate ---------------------------
(***************************************************************************)
(* Instances of RawTxCreate for TLC: requests for every kind of call.      *)
(***************************************************************************)
EXTENDS RawTxCreate

Asking(kind) == [kind |-> kind, amount |-> 0, rate |-> NoRate, min |-> 0, retained |-> 0,
                 supported |-> FALSE, fixed |-> 0, scale |-> 0]

MCRequests ==
  {[Asking("coin") EXCEPT !.amount = 2], [Asking("coin") EXCEPT !.amount = 1, !.rate = 2],
   [Asking("token") EXCEPT !.amount = 2],
   [Asking("coinSummary") EXCEPT !.min = 3, !.retained = 3],
   [Asking("coinSummary") EXCEPT !.min = 1],
   [Asking("coinSummary") EXCEPT !.min = 1, !.retained = 2],
   [Asking("tokenSummary") EXCEPT !.min = 1],
   [Asking("tokenSummary") EXCEPT !.min = 2, !.retained = 1, !.supported = TRUE],
   [Asking("tokenSummary") EXCEPT !.supported = TRUE, !.fixed = 2]}
=============================================================================
