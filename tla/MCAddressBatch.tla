--------------------------- MODULE MCAddressBatch ---------------------------
(***************************************************************************)
(* Instances of AddressBatch for TLC.                                      *)
(***************************************************************************)
EXTENDS AddressBatch

LimitStuck == [k \in Kinds |-> IF k = "save" THEN 1 ELSE 0]
=============================================================================
