--------------------------- MODULE MCBlockScanner ---------------------------
(***************************************************************************)
(* Instances of BlockScanner for TLC: one limit per question.              *)
(***************************************************************************)
EXTENDS BlockScanner

CONSTANTS left, right       \* two branches

OneFinal == <<left>>

Quiet == [k \in Kinds |-> 0]
LimitFollow    == [Quiet EXCEPT !["reorg"] = 3, !["error"] = 1, !["pause"] = 1]
LimitDeep      == [Quiet EXCEPT !["reorg"] = 2]
LimitDisturbed == [k \in Kinds |-> IF k \in {"error", "pause"} THEN 0 ELSE 1]
=============================================================================
