--------------------------- MODULE MCWalletFiles ----------------------------
(***************************************************************************)
(* Instances of WalletFiles for TLC: two wallets that want the same name.  *)
(***************************************************************************)
EXTENDS WalletFiles

CONSTANTS w1, w2

TwoWallets == {w1, w2}
OneName    == [w \in TwoWallets |-> "name"]
LimitBatch == [k \in Kinds |-> 1]
=============================================================================
