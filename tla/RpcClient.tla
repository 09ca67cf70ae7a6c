----------------------------- MODULE RpcClient ------------------------------
(***************************************************************************)
(* What the client (ddmchain/api.go) makes of the answers of the node.     *)
(* Every request is a POST of its own; the answer may be missing, may be   *)
(* an error, or may have a result of an unexpected type or with digits     *)
(* that are none, and the functions of the client differ in what they      *)
(* refuse.                                                                 *)
(***************************************************************************)
EXTENDS Integers

(* A text of digits is the number it stands for, or one of these.          *)
Blank   == -1    \* "", or "0x" where the digits are hexadecimal
Garbage == -2    \* anything else that is no number

(* An answer: its type is "lost" if the request failed, "error" if it has  *)
(* an error object, "empty" if it has neither error nor result, and        *)
(* otherwise what gjson says of the result.  text: the string, or the      *)
(* balance or nonce of an account; contract: the account has code.         *)
Broken == {"lost", "error", "empty"}
Types  == Broken \union {"Null", "Other", "String", "JSON"}

Reply(type, text) == [type |-> type, text |-> text, contract |-> FALSE]

\* The answers to a request that has the answer good: that one or a faulty one.
Replies(good) ==
  {good, [good EXCEPT !.text = Garbage], [good EXCEPT !.contract = TRUE]}
    \union {[good EXCEPT !.type = t, !.text = Blank] : t \in Types \ {good.type}}

(* What a function of the client returns: a value without or with an error. *)
Value(n) == [ok |-> TRUE,  value |-> n]
Failed   == [ok |-> FALSE, value |-> 0]

\* Call and isError.
Answered(reply) == reply.type \notin Broken

\* ConvertToBigInt: no digits are 0.
ConvertToBigInt(text) ==
  CASE text = Garbage -> Failed
    [] text = Blank   -> Value(0)
    [] OTHER          -> Value(text)

-----------------------------------------------------------------------------
\* A result that is no account, has code or lacks a balance is refused.
GetAddrBalance(reply) ==
  IF Answered(reply) /\ reply.type = "JSON" /\ ~reply.contract /\ reply.text # Blank
  THEN ConvertToBigInt(reply.text)
  ELSE Failed

\* Mutant: the type of the result is not looked at.
ERC20BalanceUntyped(reply) ==
  IF Answered(reply) THEN ConvertToBigInt(reply.text) ELSE Failed

\* ERC20GetAddressBalance2.  A contract that does not exist answers "0x": the
\* balance is 0.  Whatever the caller asks for, the call is made on "latest".
ERC20GetAddressBalance(reply) ==
  IF Answered(reply) /\ reply.type = "String"
  THEN ConvertToBigInt(reply.text)
  ELSE Failed

\* A result that is no string is reported with the error of the call, which is
\* none: the price is 0.
ddmGetGasPriceNoParam(reply) ==
  IF ~Answered(reply) THEN Failed
  ELSE IF reply.type # "String" THEN Value(0)
  ELSE ConvertToBigInt(reply.text)
=============================================================================
