------------------------------ MODULE Amounts ------------------------------
(***************************************************************************)
(* Conversions of amounts (ddmchain/ddmchain.go).  An amount of the node   *)
(* is an integer, an amount of the host a decimal; both are counted in the *)
(* smallest part of the coin, 1 wei.                                       *)
(***************************************************************************)
EXTENDS Integers

\* ConvertAmountToFloatDecimal: decimal.Div keeps 16 digits after the point, so a
\* value of 18 decimals is rounded, half up, to a multiple of unit = 100 wei.
Rounded(w, unit) == unit * ((2 * w + unit) \div (2 * unit))
=============================================================================
