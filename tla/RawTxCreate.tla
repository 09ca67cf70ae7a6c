---------------------------- MODULE RawTxCreate ----------------------------
(***************************************************************************)
(* How the transaction decoder (ddmchain/tx_decode.go) creates raw         *)
(* transactions: the single transfer of coins or tokens, which picks one   *)
(* address of the account, and the summary, which empties every address    *)
(* into one, with a second account that supports the fees of tokens.       *)
(*                                                                         *)
(* Every number the decoder uses it asks of the node in a call of its own: *)
(* balances and the gas price change between two of them, and each may     *)
(* fail.  Amounts are in wei.  A balance or an amount passes through a     *)
(* decimal with a limited number of digits, which rounds it to Unit; an    *)
(* amount the host gives is converted by a multiplication, which is exact. *)
(***************************************************************************)
EXTENDS Amounts, RpcClient, FiniteSets, SequencesExt

CONSTANTS
  Account,      \* addresses of the account that pays
  Support,      \* addresses of the account that supports the fees
  None,         \* no request, no address
  CoinUnit,     \* what decimal.Div rounds coins to, 100 wei
  TokenUnit,    \* what it rounds the token to, 1 up to 16 decimals
  CoinGas,      \* Config.GasLimit
  TokenGas,     \* Config.TokenGasLimit
  Prices,       \* gas prices of the node
  Values,       \* balances of the node
  Requests,     \* what a host asks for
  MaxMoves      \* bound: changes of the node's numbers during one call

NoRate    == -1                                  \* FeeRate is ""
Addresses == Account \union Support
Transfers == {"coin", "token"}                   \* CreateRawTransaction
Summaries == {"coinSummary", "tokenSummary"}     \* CreateSummaryRawTransaction
Kinds     == Transfers \union Summaries \union {"support"}
Steps     == {"idle", "read", "next", "price", "coin", "build"}

\* amount: of a transfer; min, retained: of a summary; supported, fixed, scale:
\* its FeesSupportAccount, 0 for what is not given.
Request == [kind : Kinds, amount : Nat, rate : Nat \union {NoRate}, min : Nat,
            retained : Nat, supported : BOOLEAN, fixed : Nat, scale : Nat]

\* A token summary that waits for a support transfer: what it has read and still
\* has to look at, the address the support is for and what that address lacks.
Suspended == [op : Request, todo : Seq(Account), snap : [Account -> Nat],
              real : [Account -> Nat], for : Account, lacking : Nat]

ASSUME CreateAssumption ==
  /\ IsFiniteSet(Addresses) /\ None \notin Addresses
  /\ None \notin Request /\ None \notin Suspended
  /\ CoinUnit \in Nat \ {0} /\ TokenUnit \in Nat \ {0}
  /\ CoinGas \in Nat /\ TokenGas \in Nat
  /\ Prices \subseteq Nat /\ Values \subseteq Nat
  /\ Requests \subseteq Request /\ \A r \in Requests : r.kind # "support"

VARIABLES
  coin, token,  \* the node's balances
  price,        \* the node's gas price
  moves,        \* bound: how often they changed since the call began
  pc,           \* the step the call is at
  op,           \* the request it works on
  outer,        \* the token summary that waits for a support transfer, or None
  todo,         \* the addresses still to be looked at
  cur,          \* the address it is at
  snap,         \* the balances of the account as converted
  real,         \* history: the same balances as the node reported them
  fee,          \* txFeeInfo: gas price and fee
  spare,        \* the coin balance of an address that sends tokens
  amount,       \* the amount of the transaction to build
  built,        \* the transactions built
  result,       \* what the host got
  smooth        \* history: no call to the node has failed, nor been taken for a
                \* gas price of 0

numbers == <<coin, token, price, moves>>
balances == <<todo, snap, real>>
vars == <<numbers, pc, op, outer, balances, cur, fee, spare, amount, built, result, smooth>>

NoFee == [price |-> 0, total |-> 0]
IsToken(kind) == kind \in {"token", "tokenSummary"}
IsSummary(kind) == kind \in Summaries

Init ==
  /\ coin \in [Addresses -> Values] /\ token \in [Account -> Values]
  /\ price \in Prices /\ moves = 0
  /\ pc = "idle" /\ op = None /\ outer = None
  /\ todo = <<>> /\ snap = <<>> /\ real = <<>> /\ cur = None
  /\ fee = NoFee /\ spare = 0 /\ amount = 0
  /\ built = {} /\ result = "none" /\ smooth = TRUE

\* The node's numbers change at any time.
Move ==
  /\ moves < MaxMoves /\ moves' = moves + 1
  /\ \/ \E p \in Prices : price' = p /\ UNCHANGED <<coin, token>>
     \/ \E a \in Addresses, v \in Values :
          coin' = [coin EXCEPT ![a] = v] /\ UNCHANGED <<token, price>>
     \/ \E a \in Account, v \in Values :
          token' = [token EXCEPT ![a] = v] /\ UNCHANGED <<coin, price>>
  /\ UNCHANGED <<pc, op, outer, balances, cur, fee, spare, amount, built, result, smooth>>

-----------------------------------------------------------------------------
(* How a call starts and ends.                                             *)

\* A new request, or a transfer created once more: its rate is the last one's.
Asked == Requests \union (IF op # None /\ op.kind \in Transfers THEN {op} ELSE {})

Begin(r) ==
  /\ pc = "idle"
  /\ op' = r /\ built' = {} /\ smooth' = TRUE /\ moves' = 0
  /\ snap' = <<>> /\ real' = <<>> /\ fee' = NoFee /\ spare' = 0 /\ amount' = 0
  /\ IF IsSummary(r.kind) /\ r.min < r.retained
     THEN pc' = "idle" /\ result' = "error"
     ELSE pc' = "read" /\ result' = "none"
  /\ UNCHANGED <<coin, token, price, outer, todo, cur>>

\* The call returns res, and the transactions built with it if it is no error.
\* A support transfer returns to the token summary, which takes either.
End(res, txs) ==
  /\ IF op.kind = "support"
     THEN /\ op' = outer.op /\ outer' = None
          /\ todo' = outer.todo /\ snap' = outer.snap /\ real' = outer.real
          /\ built' = txs /\ pc' = "next"
          /\ UNCHANGED result
     ELSE /\ built' = IF res = "error" THEN {} ELSE txs
          /\ result' = res /\ pc' = "idle" /\ todo' = <<>>
          /\ UNCHANGED <<op, outer, snap, real>>
  /\ cur' = None

-----------------------------------------------------------------------------
(* The addresses and their balances.                                       *)

Holders == IF op.kind = "support" THEN Support ELSE Account

\* A transfer sorts the balances in ascending order, where the comments on the sort
\* ("from large to small") say descending; a summary takes them as they come.
Ordered(s) ==
  ~IsSummary(op.kind) =>
    \A i, j \in 1..Len(s) : i < j => snap'[s[i]] <= snap'[s[j]]

ReadBalances ==
  /\ pc = "read"
  /\ LET held == IF IsToken(op.kind) THEN token ELSE coin
         unit == IF IsToken(op.kind) THEN TokenUnit ELSE CoinUnit
     IN /\ real' = [a \in Holders |-> held[a]]
        /\ snap' = [a \in Holders |-> Rounded(held[a], unit)]
  /\ todo' \in {s \in SetToSeqs(Holders) : Ordered(s)}
  /\ pc' = "next"
  /\ UNCHANGED <<numbers, op, outer, cur, fee, spare, amount, built, result, smooth>>

\* One of the balances could not be read.
FailRead ==
  /\ pc = "read"
  /\ End("error", built) /\ smooth' = FALSE
  /\ UNCHANGED <<numbers, fee, spare, amount>>

\* Is the balance large enough to ask for the fee?
Worth(a) ==
  /\ op.kind = "token" => snap[a] >= op.amount
  /\ IsSummary(op.kind) => snap[a] >= op.min
  /\ op.kind = "tokenSummary" => snap[a] > 0

NextAddress ==
  /\ pc = "next" /\ todo # <<>>
  /\ cur' = Head(todo) /\ todo' = Tail(todo)
  /\ pc' = IF Worth(cur') THEN "price" ELSE "next"
  /\ UNCHANGED <<numbers, op, outer, snap, real, fee, spare, amount, built, result, smooth>>

Exhausted ==
  /\ pc = "next" /\ todo = <<>>
  /\ End(IF IsSummary(op.kind) THEN "done" ELSE "short", built)
  /\ UNCHANGED <<numbers, fee, spare, amount, smooth>>

-----------------------------------------------------------------------------
(* The fee.                                                                *)

\* GetTransactionFeeEstimated, GetTransactionFeeERC20Estimated, CalcFee.
FeeAt(p) ==
  LET rate == IF op.rate = NoRate THEN p ELSE op.rate
  IN [price |-> rate, total |-> rate * (IF IsToken(op.kind) THEN TokenGas ELSE CoinGas)]

\* A new fee, at the gas price the client makes of the node's answer.
Estimate ==
  \E reply \in Replies(Reply("String", price)) :
    LET p == ddmGetGasPriceNoParam(reply)
    IN /\ p.ok
       /\ fee' = FeeAt(p.value)
       /\ smooth' = (smooth /\ p.value = price)

\* Mutant: an address that has exactly amount and fee is passed over.
PriceTransferStrict ==
  /\ pc = "price" /\ op.kind \in {"coin", "support"}
  /\ Estimate /\ amount' = op.amount
  /\ pc' = IF snap[cur] <= op.amount + fee'.total THEN "next" ELSE "build"
  /\ UNCHANGED <<numbers, op, outer, balances, cur, spare, built, result>>

\* A transfer of coins takes the first address that can pay amount and fee.
PriceTransfer ==
  /\ pc = "price" /\ op.kind \in {"coin", "support"}
  /\ Estimate /\ amount' = op.amount
  /\ pc' = IF snap[cur] < op.amount + fee'.total THEN "next" ELSE "build"
  /\ UNCHANGED <<numbers, op, outer, balances, cur, spare, built, result>>

\* Mutant: the fee is not taken off the amount.
PriceCoinSummaryGross ==
  /\ pc = "price" /\ op.kind = "coinSummary"
  /\ Estimate
  /\ LET sum == snap[cur] - op.retained
     IN IF sum <= 0 THEN pc' = "next" /\ UNCHANGED amount
        ELSE pc' = "build" /\ amount' = Rounded(sum, CoinUnit)
  /\ UNCHANGED <<numbers, op, outer, balances, cur, spare, built, result>>

\* Mutant: what is left over may be nothing or less.
PriceCoinSummaryAny ==
  /\ pc = "price" /\ op.kind = "coinSummary"
  /\ Estimate
  /\ amount' = Rounded(snap[cur] - op.retained - fee'.total, CoinUnit)
  /\ pc' = "build"
  /\ UNCHANGED <<numbers, op, outer, balances, cur, spare, built, result>>

\* Mutant: the fee is taken off twice.
PriceCoinSummaryTwice ==
  /\ pc = "price" /\ op.kind = "coinSummary"
  /\ Estimate
  /\ LET sum == snap[cur] - op.retained - 2 * fee'.total
     IN IF sum <= 0 THEN pc' = "next" /\ UNCHANGED amount
        ELSE pc' = "build" /\ amount' = Rounded(sum, CoinUnit)
  /\ UNCHANGED <<numbers, op, outer, balances, cur, spare, built, result>>

PriceCoinSummary ==
  /\ pc = "price" /\ op.kind = "coinSummary"
  /\ Estimate
  /\ LET sum == snap[cur] - op.retained - fee'.total
     IN IF sum <= 0 THEN pc' = "next" /\ UNCHANGED amount
        ELSE pc' = "build" /\ amount' = Rounded(sum, CoinUnit)
  /\ UNCHANGED <<numbers, op, outer, balances, cur, spare, built, result>>

PriceToken ==
  /\ pc = "price" /\ IsToken(op.kind)
  /\ Estimate
  /\ amount' = IF IsSummary(op.kind) THEN snap[cur] - op.retained ELSE op.amount
  /\ pc' = "coin"
  /\ UNCHANGED <<numbers, op, outer, balances, cur, spare, built, result>>

\* A transfer of coins tries the next address, everything else gives up.
FailPrice ==
  /\ pc = "price"
  /\ IF op.kind \in {"coin", "support"}
     THEN pc' = "next" /\ UNCHANGED <<op, outer, balances, cur, built, result>>
     ELSE End("error", built)
  /\ smooth' = FALSE
  /\ UNCHANGED <<numbers, fee, spare, amount>>

-----------------------------------------------------------------------------
(* The coins an address needs to send tokens.                              *)

\* Mutant: the gas price instead of the fee.
SupportAmountPrice ==
  IF op.fixed > 0 THEN op.fixed
  ELSE (IF op.scale > 0 THEN op.scale ELSE 1) * Rounded(fee.price, CoinUnit)

SupportAmount ==
  IF op.fixed > 0 THEN op.fixed
  ELSE (IF op.scale > 0 THEN op.scale ELSE 1) * Rounded(fee.total, CoinUnit)

\* CreateRawTransaction on the support account, for the address at hand.
StartSupport ==
  /\ outer' = [op |-> op, todo |-> todo, snap |-> snap, real |-> real, for |-> cur,
               lacking |-> fee.total - spare']
  /\ op' = [op EXCEPT !.kind = "support", !.amount = SupportAmount, !.rate = NoRate]
  /\ pc' = "read" /\ cur' = None
  /\ UNCHANGED <<todo, snap, real>>

Found(coins) ==
  /\ spare' = coins
  /\ IF coins < fee.total /\ op.kind = "tokenSummary" /\ op.supported THEN StartSupport
     ELSE /\ pc' = IF coins < fee.total /\ op.kind = "token" THEN "next" ELSE "build"
          /\ UNCHANGED <<op, outer, balances, cur>>

ReadCoins ==
  /\ pc = "coin"
  /\ Found(coin[cur])
  /\ UNCHANGED <<numbers, fee, amount, built, result, smooth>>

\* A transfer tries the next address.  A summary looks at the error of another
\* call and goes on with the 0 that came with this one.
FailReadCoins ==
  /\ pc = "coin"
  /\ IF op.kind = "token"
     THEN pc' = "next" /\ UNCHANGED <<op, outer, balances, cur, spare>>
     ELSE Found(0)
  /\ smooth' = FALSE
  /\ UNCHANGED <<numbers, fee, amount, built, result>>

-----------------------------------------------------------------------------
(* createRawTransaction.                                                   *)

\* The fee rate of a transfer stays in the host's raw transaction.
KeepRate == [op EXCEPT !.rate = Rounded(fee.price, CoinUnit)]

\* Mutant: the coins for the fee are not looked at.
PayableFree ==
  IF IsToken(op.kind) THEN snap[cur] >= amount ELSE snap[cur] >= amount + fee.total

\* The amount of a summary of tokens is converted once more.
Payable ==
  IF IsToken(op.kind)
  THEN /\ snap[cur] >= (IF IsSummary(op.kind) THEN Rounded(amount, TokenUnit) ELSE amount)
       /\ spare >= fee.total
  ELSE snap[cur] >= amount + fee.total

Tx == [kind |-> op.kind, from |-> cur, amount |-> amount, fee |-> fee.total,
       spare |-> spare, retained |-> op.retained, real |-> real[cur]]

\* A transfer returns, a summary goes on with the next address.
Continue(res, txs) ==
  IF IsSummary(op.kind)
  THEN built' = txs /\ pc' = "next" /\ cur' = None /\ UNCHANGED <<op, outer, balances, result>>
  ELSE IF op.kind = "support" THEN End(res, txs)
  ELSE /\ op' = KeepRate
       /\ built' = txs /\ result' = res /\ pc' = "idle" /\ cur' = None /\ todo' = <<>>
       /\ UNCHANGED <<outer, snap, real>>

Build ==
  /\ pc = "build" /\ Payable
  /\ Continue("done", built \union {Tx})
  /\ UNCHANGED <<numbers, fee, spare, amount, smooth>>

RefuseBuild ==
  /\ pc = "build" /\ ~Payable
  /\ Continue("error", built)
  /\ UNCHANGED <<numbers, fee, spare, amount, smooth>>

\* The nonce could not be read.
FailNonce ==
  /\ pc = "build"
  /\ Continue("error", built) /\ smooth' = FALSE
  /\ UNCHANGED <<numbers, fee, spare, amount>>

-----------------------------------------------------------------------------
CreateTransactions ==
  \/ ReadBalances \/ FailRead \/ NextAddress \/ Exhausted
  \/ PriceTransfer \/ PriceCoinSummary \/ PriceToken \/ FailPrice
  \/ ReadCoins \/ FailReadCoins \/ Build \/ RefuseBuild \/ FailNonce

Next == Move \/ (\E r \in Asked : Begin(r)) \/ CreateTransactions

Spec == Init /\ [][Next]_vars

-----------------------------------------------------------------------------
TypeOK ==
  /\ coin \in [Addresses -> Nat] /\ token \in [Account -> Nat]
  /\ price \in Nat /\ moves \in Nat
  /\ pc \in Steps
  /\ op \in Request \union {None}
  /\ pc # "idle" => op # None
  /\ pc \in {"price", "coin", "build"} => cur \in Holders
  /\ outer \in Suspended \union {None}
  /\ (outer # None) <=> (pc # "idle" /\ op.kind = "support")
  /\ fee.price \in Nat /\ fee.total \in Nat
  /\ spare \in Nat /\ amount \in Nat
  /\ result \in {"none", "done", "short", "error"}
  /\ smooth \in BOOLEAN

Steady == smooth /\ moves = 0

\* What a summary takes from an address is its balance less the retained
\* balance, and the fee if it is paid from the same balance, to within the
\* rounding of the balance and of the amount ("summary amount = balance -
\* retained balance", "less the fee").
SummaryKeepsRetained ==
  \A t \in built :
    /\ t.kind = "coinSummary" =>
         LET rest == t.real - t.amount - t.fee - t.retained
         IN rest <= CoinUnit /\ -rest <= CoinUnit
    /\ t.kind = "tokenSummary" =>
         LET rest == t.real - t.amount - t.retained
         IN 2 * rest <= TokenUnit /\ -2 * rest <= TokenUnit

\* No transaction spends more than its address had when the balance was read, to
\* within the rounding of that balance, and none that sends tokens is built for
\* an address that cannot pay its fee in coins (createRawTransaction).
NothingOverspent ==
  \A t \in built :
    IF IsToken(t.kind)
    THEN 2 * (t.amount - t.real) <= TokenUnit /\ t.fee <= t.spare
    ELSE 2 * (t.amount + t.fee - t.real) <= CoinUnit

\* When no call failed and the node's numbers stood still, a transfer passes over no
\* address that suffices: it ends without a transaction only if none of the account
\* can pay it, and no address it has chosen is refused in the end (the loops of
\* CreateSimpleRawTransaction and CreateErc20TokenRawTransaction, the check of
\* createRawTransaction).  Which of those that suffice is taken depends on the sort,
\* whose order is not the one its comments promise; nothing is claimed of it.
SufficientIsFound ==
  Steady /\ pc = "idle" /\ op # None /\ op.kind \in Transfers =>
    /\ result # "error"
    /\ result = "short" =>
         \A a \in Account :
           IF op.kind = "token"
           THEN snap[a] < op.amount \/ coin[a] < FeeAt(price).total
           ELSE snap[a] < op.amount + FeeAt(price).total

\* When no call failed and the node's numbers stood still, a summary of coins
\* passes over an address only if there is nothing to send above the minimum;
\* where nothing is retained, rounding up may also make it unpayable (the loop
\* of CreateSimpleSummaryRawTransaction).
SummaryComplete ==
  Steady /\ result = "done" /\ op.kind = "coinSummary" =>
    \A a \in Account :
      \/ \E t \in built : t.from = a
      \/ snap[a] < op.min
      \/ snap[a] - op.retained - FeeAt(price).total <= 0
      \/ 2 * op.retained < CoinUnit

\* When no call failed, coins are sent only to an address that lacks them, and by
\* default at least what it lacks, to within the rounding of the fee ("is the
\* main coin balance enough for the fee", "the default support is the fee").
SupportIsNeeded ==
  smooth /\ outer # None =>
    /\ outer.lacking > 0
    /\ op.fixed = 0 => 2 * (outer.lacking - op.amount) <= CoinUnit
=============================================================================
