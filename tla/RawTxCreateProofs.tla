------------------------- MODULE RawTxCreateProofs --------------------------
(***************************************************************************)
(* Machine-checked proofs about RawTxCreate, for any accounts, requests,   *)
(* prices and balances, and any rounding of the amounts.                   *)
(***************************************************************************)
EXTENDS RawTxCreate, FiniteSetTheorems, TLAPS

-----------------------------------------------------------------------------
(* Amounts and prices.                                                     *)

LEMMA Product ==
  ASSUME NEW m \in Nat, NEW n \in Nat
  PROVE  m * n \in Nat
OBVIOUS

LEMMA Quotient ==
  ASSUME NEW a \in Int, NEW b \in Nat \ {0}
  PROVE  /\ a \div b \in Int
         /\ b * (a \div b) <= a
         /\ a < b * (a \div b) + b
OBVIOUS

\* A rounded amount is off by half a unit at most.
LEMMA RoundedIsClose ==
  ASSUME NEW w \in Int, NEW unit \in Nat \ {0}
  PROVE  /\ Rounded(w, unit) \in Int
         /\ 2 * (Rounded(w, unit) - w) <= unit
         /\ 2 * (w - Rounded(w, unit)) <= unit
<1> DEFINE q == (2 * w + unit) \div (2 * unit)
<1>1. 2 * w + unit \in Int /\ 2 * unit \in Nat \ {0}
  OBVIOUS
<1>2. q \in Int /\ (2 * unit) * q <= 2 * w + unit /\ 2 * w + unit < (2 * unit) * q + 2 * unit
  BY <1>1, Quotient
<1> HIDE DEF q
<1>3. unit * q \in Int /\ (2 * unit) * q = 2 * (unit * q)
  BY <1>2
<1>4. Rounded(w, unit) = unit * q
  BY DEF Rounded, q
<1> QED
  BY <1>2, <1>3, <1>4

LEMMA RoundedIsNat ==
  ASSUME NEW w \in Nat, NEW unit \in Nat \ {0}
  PROVE  Rounded(w, unit) \in Nat
<1> DEFINE q == (2 * w + unit) \div (2 * unit)
<1>1. 2 * w + unit \in Int /\ 2 * unit \in Nat \ {0}
  OBVIOUS
<1>2. q \in Int /\ 2 * w + unit < (2 * unit) * q + 2 * unit
  BY <1>1, Quotient
<1> HIDE DEF q
<1>3. q \in Nat
  <2>1. ASSUME q <= -1 PROVE FALSE
    <3>1. (2 * unit) * q <= (2 * unit) * (-1)
      BY <1>2, <2>1
    <3> QED
      BY <1>2, <3>1
  <2> QED
    BY <1>2, <2>1
<1> QED
  BY <1>3, Product DEF Rounded, q

\* The client makes of the answer to a gas price the node's price or 0.
LEMMA GasPriceOfReply ==
  ASSUME NEW p \in Nat, NEW reply \in Replies(Reply("String", p)),
         ddmGetGasPriceNoParam(reply).ok
  PROVE  ddmGetGasPriceNoParam(reply).value \in {0, p}
<1> USE DEF Reply, Value, Failed, Answered, Broken, Types, ConvertToBigInt, Blank, Garbage
<1>1. \/ reply = Reply("String", p)
      \/ reply.type = "String" /\ reply.text = Garbage
      \/ reply.type = "String" /\ reply.text = p
      \/ reply.type # "String"
  BY DEF Replies
<1> QED
  BY <1>1 DEF ddmGetGasPriceNoParam

-----------------------------------------------------------------------------
(* The inductive invariant.                                                *)

Unit(kind) == IF IsToken(kind) THEN TokenUnit ELSE CoinUnit

\* The balances a call works on are those it read, rounded, of the addresses that
\* may pay; it comes to each address once at most.
BalancesOf(holders, unit, r, s, t) ==
  /\ r \in [holders -> Nat]
  /\ s = [a \in holders |-> Rounded(r[a], unit)]
  /\ t \in Seq(holders)

\* A summary under way retains no more than the minimum it asks for, it has come
\* to an address that is worth its fee, and it takes what is to be taken.  The
\* address that a transfer has chosen can pay it.
OpInv ==
  /\ pc \in {"next", "price", "coin", "build"} =>
       BalancesOf(Holders, Unit(op.kind), real, snap, todo)
  /\ pc # "idle" /\ IsSummary(op.kind) => op.retained <= op.min
  /\ pc \in {"price", "coin", "build"} => Worth(cur)
  /\ pc = "coin" => IsToken(op.kind)
  /\ pc = "coin" /\ op.kind = "token" => amount = op.amount
  /\ pc = "build" /\ op.kind \in Transfers => Payable
  /\ pc \in {"coin", "build"} /\ op.kind = "tokenSummary" =>
       amount = snap[cur] - op.retained
  /\ pc = "build" /\ op.kind = "coinSummary" =>
       amount = Rounded(snap[cur] - op.retained - fee.total, CoinUnit)

\* A token summary that waits goes on with what it has read.
OuterInv ==
  outer # None =>
    /\ outer.op.kind = "tokenSummary"
    /\ outer.op.retained <= outer.op.min
    /\ BalancesOf(Account, TokenUnit, outer.real, outer.snap, outer.todo)
    /\ outer.lacking > 0
    /\ op.fixed = 0 => 2 * (outer.lacking - op.amount) <= CoinUnit

CallInv == TypeOK /\ OpInv /\ OuterInv

-----------------------------------------------------------------------------
(* The steps preserve the types and what a call works on.                  *)

LEMMA KindsOfCalls ==
  ASSUME CallInv, pc # "idle"
  PROVE  /\ op \in Request /\ op.kind \in Kinds
         /\ op.amount \in Nat /\ op.retained \in Nat /\ op.min \in Nat
         /\ op.fixed \in Nat /\ op.scale \in Nat /\ op.supported \in BOOLEAN
         /\ op.rate \in Nat \union {NoRate}
         /\ outer = None <=> op.kind # "support"
BY DEF CallInv, TypeOK, Request

LEMMA InitCallInv == Init => CallInv
<1> SUFFICES ASSUME Init PROVE CallInv
  OBVIOUS
<1>1. coin \in [Addresses -> Nat] /\ token \in [Account -> Nat] /\ price \in Nat
  BY CreateAssumption DEF Init
<1>2. TypeOK
  BY <1>1 DEF Init, TypeOK, NoFee, Steps
<1> QED
  BY <1>2 DEF Init, CallInv, OpInv, OuterInv

LEMMA MoveCallInv == CallInv /\ Move => CallInv'
<1> SUFFICES ASSUME CallInv, Move PROVE CallInv'
  OBVIOUS
<1>1. UNCHANGED <<pc, op, outer, balances, cur, fee, spare, amount, built, result, smooth>>
  BY DEF Move
<1>2. coin' \in [Addresses -> Nat] /\ token' \in [Account -> Nat] /\ price' \in Nat
      /\ moves' \in Nat
  BY CreateAssumption DEF Move, CallInv, TypeOK
<1>3. TypeOK'
  BY <1>1, <1>2 DEF CallInv, TypeOK, Holders
<1>4. OpInv' /\ OuterInv'
  BY <1>1 DEF CallInv, OpInv, OuterInv, balances, Holders, Worth, Payable
<1> QED
  BY <1>3, <1>4 DEF CallInv

\* A request the host may make, also once more.
LEMMA AskedType ==
  ASSUME CallInv, NEW r \in Asked
  PROVE  r \in Request /\ r.kind # "support"
BY CreateAssumption DEF Asked, Transfers, CallInv, TypeOK

LEMMA BeginCallInv ==
  ASSUME CallInv, NEW r \in Asked, Begin(r)
  PROVE  CallInv'
<1>1. r \in Request /\ r.kind # "support" /\ r.min \in Nat /\ r.retained \in Nat
  BY AskedType DEF Request
<1>2. /\ op' = r /\ outer = None /\ outer' = None
      /\ pc' \in {"idle", "read"} /\ result' \in {"none", "error"}
      /\ pc' = "read" => ~(IsSummary(r.kind) /\ r.min < r.retained)
  BY DEF Begin, CallInv, TypeOK
<1>3. TypeOK'
  BY <1>1, <1>2, CreateAssumption DEF Begin, CallInv, TypeOK, NoFee, Steps
<1>4. OpInv'
  BY <1>1, <1>2 DEF OpInv
<1>5. OuterInv'
  BY <1>2 DEF OuterInv
<1> QED
  BY <1>3, <1>4, <1>5 DEF CallInv

LEMMA EndCallInv ==
  ASSUME CallInv, pc # "idle", NEW res \in {"done", "short", "error"}, NEW txs,
         End(res, txs), UNCHANGED <<numbers, fee, spare, amount>>, smooth' \in BOOLEAN
  PROVE  CallInv'
<1>1. CASE op.kind = "support"
  <2>1. /\ op' = outer.op /\ outer' = None /\ pc' = "next"
        /\ todo' = outer.todo /\ snap' = outer.snap /\ real' = outer.real
        /\ result' = result
    BY <1>1 DEF End
  <2>2. outer # None
    BY <1>1, KindsOfCalls
  <2>3. /\ op' \in Request /\ op'.kind = "tokenSummary" /\ op'.retained <= op'.min
        /\ BalancesOf(Account, TokenUnit, real', snap', todo')
    BY <2>1, <2>2 DEF CallInv, OuterInv, TypeOK, Suspended
  <2>4. Holders' = Account /\ Unit(op'.kind) = TokenUnit
    BY <2>3 DEF Holders, Unit, IsToken
  <2>5. TypeOK'
    BY <2>1, <2>3, CreateAssumption DEF CallInv, TypeOK, numbers, Steps
  <2>6. OpInv'
    BY <2>1, <2>3, <2>4 DEF OpInv
  <2> QED
    BY <2>1, <2>5, <2>6 DEF CallInv, OuterInv
<1>2. CASE op.kind # "support"
  <2>1. /\ pc' = "idle" /\ result' = res /\ outer' = outer /\ op' = op /\ outer = None
    BY <1>2, KindsOfCalls DEF End
  <2>2. TypeOK'
    BY <2>1 DEF CallInv, TypeOK, numbers, Steps
  <2> QED
    BY <2>1, <2>2 DEF CallInv, OpInv, OuterInv
<1> QED
  BY <1>1, <1>2

\* A call that stays at its request and at the balances it has read.
LEMMA StayCallInv ==
  ASSUME CallInv, pc # "idle", pc' \in Steps \ {"idle"},
         UNCHANGED <<numbers, op, outer, result>>,
         smooth' \in BOOLEAN, fee'.price \in Nat, fee'.total \in Nat,
         spare' \in Nat, amount' \in Nat,
         pc' \in {"price", "coin", "build"} => cur' \in Holders,
         OpInv'
  PROVE  CallInv'
<1>1. op \in Request
  BY KindsOfCalls
<1>2. TypeOK'
  BY <1>1 DEF CallInv, TypeOK, numbers, Holders
<1>3. OuterInv'
  BY DEF CallInv, OuterInv
<1> QED
  BY <1>2, <1>3 DEF CallInv

LEMMA HoldersAreAddresses ==
  ASSUME CallInv, pc # "idle"
  PROVE  /\ Holders \subseteq Addresses
         /\ IsToken(op.kind) => Holders = Account
BY KindsOfCalls DEF Holders, Addresses, IsToken

\* An order of the addresses has each of them.
LEMMA OrderHasAll ==
  ASSUME NEW S, IsFiniteSet(S), NEW s \in SetToSeqs(S)
  PROVE  s \in Seq(S) /\ ToSet(s) = S
<1> DEFINE D == 1..Cardinality(S)
<1>1. Cardinality(S) \in Nat /\ IsFiniteSet(D) /\ Cardinality(D) = Cardinality(S)
  BY FS_CardinalityType, FS_Interval
<1>2. s \in [D -> S] /\ \A i, j \in D : i # j => s[i] # s[j]
  BY DEF SetToSeqs
<1>3. s \in Seq(S) /\ DOMAIN s = D
  BY <1>1, <1>2
<1>4. s \in Injection(D, S)
  BY <1>2 DEF Injection, IsInjective
<1>5. s \in Surjection(D, S)
  BY <1>1, <1>4, FS_Injection
<1> QED
  BY <1>2, <1>3, <1>5 DEF Surjection, ToSet

LEMMA HoldersFinite == IsFiniteSet(Holders) /\ IsFiniteSet(Account)
BY CreateAssumption, FS_Subset DEF Holders, Addresses

LEMMA ReadBalancesInv ==
  ASSUME CallInv, ReadBalances
  PROVE  CallInv'
<1>1. /\ pc = "read" /\ pc' = "next"
      /\ UNCHANGED <<numbers, op, outer, cur, fee, spare, amount, built, result, smooth>>
  BY DEF ReadBalances
<1> DEFINE held == IF IsToken(op.kind) THEN token ELSE coin
<1>2. /\ real' = [a \in Holders |-> held[a]]
      /\ snap' = [a \in Holders |-> Rounded(held[a], Unit(op.kind))]
      /\ todo' \in SetToSeqs(Holders)
  BY DEF ReadBalances, Unit
<1>3. \A a \in Holders : held[a] \in Nat
  BY <1>1, HoldersAreAddresses DEF CallInv, TypeOK
<1>4. todo' \in Seq(Holders)
  BY <1>2, HoldersFinite, OrderHasAll
<1> HIDE DEF held
<1>5. Holders' = Holders
  BY <1>1 DEF Holders
<1>6. BalancesOf(Holders, Unit(op.kind), real', snap', todo')
  BY <1>2, <1>3, <1>4 DEF BalancesOf
<1>7. OpInv'
  BY <1>1, <1>5, <1>6 DEF CallInv, OpInv
<1> QED
  BY <1>1, <1>7, StayCallInv DEF CallInv, TypeOK, Steps

LEMMA NextAddressInv ==
  ASSUME CallInv, NextAddress
  PROVE  CallInv'
<1>1. /\ pc = "next" /\ pc' \in {"next", "price"} /\ todo # <<>>
      /\ cur' = Head(todo) /\ todo' = Tail(todo)
      /\ pc' = "price" => Worth(cur')
      /\ UNCHANGED <<numbers, op, outer, snap, real, fee, spare, amount, built, result, smooth>>
  BY DEF NextAddress
<1>2. BalancesOf(Holders, Unit(op.kind), real, snap, todo)
  BY <1>1 DEF CallInv, OpInv
<1>3. cur' \in Holders /\ todo' \in Seq(Holders)
  BY <1>1, <1>2 DEF BalancesOf
<1>4. BalancesOf(Holders, Unit(op.kind), real', snap', todo')
  BY <1>1, <1>2, <1>3 DEF BalancesOf
<1>5. Holders' = Holders /\ (pc' = "price" => Worth(cur)')
  BY <1>1 DEF Holders, Worth
<1>6. OpInv'
  BY <1>1, <1>4, <1>5 DEF CallInv, OpInv
<1> QED
  BY <1>1, <1>3, <1>6, StayCallInv DEF CallInv, TypeOK, Steps

\* A fee is a price times an amount of gas, the node's price if it is known.
LEMMA FeeType ==
  ASSUME op \in Request, NEW p \in Nat
  PROVE  FeeAt(p).price \in Nat /\ FeeAt(p).total \in Nat
<1>1. op.rate \in Nat \union {NoRate}
  BY DEF Request
<1> DEFINE rate == IF op.rate = NoRate THEN p ELSE op.rate
           gas  == IF IsToken(op.kind) THEN TokenGas ELSE CoinGas
<1>2. rate \in Nat /\ gas \in Nat
  BY <1>1, CreateAssumption
<1>3. FeeAt(p) = [price |-> rate, total |-> rate * gas]
  BY DEF FeeAt
<1> HIDE DEF rate, gas
<1> QED
  BY <1>2, <1>3, Product

LEMMA EstimateType ==
  ASSUME CallInv, pc # "idle", Estimate
  PROVE  /\ fee'.price \in Nat /\ fee'.total \in Nat /\ smooth' \in BOOLEAN
         /\ smooth' => smooth /\ fee' = FeeAt(price)
<1>1. op \in Request /\ price \in Nat /\ smooth \in BOOLEAN
  BY KindsOfCalls DEF CallInv, TypeOK
<1>2. PICK reply \in Replies(Reply("String", price)) :
        LET p == ddmGetGasPriceNoParam(reply)
        IN p.ok /\ fee' = FeeAt(p.value) /\ smooth' = (smooth /\ p.value = price)
  BY DEF Estimate
<1>3. ddmGetGasPriceNoParam(reply).value \in Nat
  BY <1>1, <1>2, GasPriceOfReply
<1> QED
  BY <1>1, <1>2, <1>3, FeeType

\* What a summary takes is nothing less than nothing.
LEMMA WorthIsEnough ==
  ASSUME CallInv, pc \in {"price", "coin", "build"}
  PROVE  /\ cur \in Holders /\ snap[cur] \in Nat /\ real[cur] \in Nat
         /\ snap[cur] = Rounded(real[cur], Unit(op.kind))
         /\ Unit(op.kind) \in Nat \ {0}
         /\ IsSummary(op.kind) => snap[cur] - op.retained \in Nat
<1>1. /\ cur \in Holders /\ BalancesOf(Holders, Unit(op.kind), real, snap, todo)
      /\ op.retained \in Nat /\ op.min \in Nat
  BY KindsOfCalls DEF CallInv, TypeOK, OpInv
<1>2. real[cur] \in Nat /\ snap[cur] = Rounded(real[cur], Unit(op.kind))
  BY <1>1 DEF BalancesOf
<1>3. Unit(op.kind) \in Nat \ {0}
  BY CreateAssumption DEF Unit
<1>4. snap[cur] \in Nat
  BY <1>2, <1>3, RoundedIsNat
<1>5. IsSummary(op.kind) => op.retained <= op.min /\ op.min <= snap[cur]
  BY DEF CallInv, OpInv, Worth
<1> QED
  BY <1>1, <1>2, <1>3, <1>4, <1>5

LEMMA PriceTransferInv ==
  ASSUME CallInv, PriceTransfer
  PROVE  CallInv'
<1>1. /\ pc = "price" /\ pc' \in {"next", "build"} /\ op.kind \in {"coin", "support"}
      /\ Estimate /\ amount' = op.amount
      /\ UNCHANGED <<numbers, op, outer, balances, cur, spare, built, result>>
  BY DEF PriceTransfer
<1>2. pc' = "build" => Payable'
  <2>1. pc' = IF snap[cur] < op.amount + fee'.total THEN "next" ELSE "build"
    BY DEF PriceTransfer
  <2>2. snap[cur] \in Nat /\ op.amount \in Nat /\ fee'.total \in Nat
    BY <1>1, WorthIsEnough, KindsOfCalls, EstimateType
  <2>3. pc' = "build" => snap[cur] >= op.amount + fee'.total
    BY <2>1, <2>2
  <2> QED
    BY <1>1, <2>3 DEF Payable, IsToken, balances
<1>3. OpInv'
  BY <1>1, <1>2 DEF CallInv, OpInv, balances, Holders, Worth, IsSummary, Summaries
<1> QED
  BY <1>1, <1>3, EstimateType, KindsOfCalls, StayCallInv
  DEF CallInv, TypeOK, Steps, Holders

LEMMA PriceCoinSummaryInv ==
  ASSUME CallInv, PriceCoinSummary
  PROVE  CallInv'
<1>1. /\ pc = "price" /\ op.kind = "coinSummary" /\ Estimate
      /\ UNCHANGED <<numbers, op, outer, balances, cur, spare, built, result>>
  BY DEF PriceCoinSummary
<1> DEFINE sum == snap[cur] - op.retained - fee'.total
<1>2. IF sum <= 0 THEN pc' = "next" /\ amount' = amount
      ELSE pc' = "build" /\ amount' = Rounded(sum, CoinUnit)
  BY DEF PriceCoinSummary
<1>3. sum \in Int
  <2>1. snap[cur] \in Nat /\ op.retained \in Nat /\ fee'.total \in Nat
    BY <1>1, WorthIsEnough, KindsOfCalls, EstimateType
  <2> QED
    BY <2>1
<1>4. amount' \in Nat
  BY <1>2, <1>3, RoundedIsNat, CreateAssumption DEF CallInv, TypeOK
<1>5. snap' = snap /\ cur' = cur /\ op' = op /\ pc' \in {"next", "build"}
  BY <1>1, <1>2 DEF balances
<1>6. OpInv'
  BY <1>1, <1>2, <1>5 DEF CallInv, OpInv, balances, Holders, Worth, Transfers
<1> QED
  BY <1>1, <1>4, <1>5, <1>6, EstimateType, StayCallInv
  DEF CallInv, TypeOK, Steps, Holders

LEMMA PriceTokenInv ==
  ASSUME CallInv, PriceToken
  PROVE  CallInv'
<1>1. /\ pc = "price" /\ pc' = "coin" /\ IsToken(op.kind) /\ Estimate
      /\ amount' = IF IsSummary(op.kind) THEN snap[cur] - op.retained ELSE op.amount
      /\ UNCHANGED <<numbers, op, outer, balances, cur, spare, built, result>>
  BY DEF PriceToken
<1>2. amount' \in Nat
  BY <1>1, WorthIsEnough, KindsOfCalls
<1>3. OpInv'
  BY <1>1 DEF CallInv, OpInv, balances, Holders, Worth, IsSummary, Summaries
<1> QED
  BY <1>1, <1>2, <1>3, EstimateType, StayCallInv
  DEF CallInv, TypeOK, Steps, Holders

LEMMA FailPriceInv ==
  ASSUME CallInv, FailPrice
  PROVE  CallInv'
<1>1. pc = "price" /\ smooth' = FALSE /\ UNCHANGED <<numbers, fee, spare, amount>>
  BY DEF FailPrice
<1>2. CASE op.kind \in {"coin", "support"}
  <2>1. pc' = "next" /\ UNCHANGED <<op, outer, balances, cur, built, result>>
    BY <1>2 DEF FailPrice
  <2>2. OpInv'
    BY <1>1, <2>1 DEF CallInv, OpInv, balances, Holders
  <2> QED
    BY <1>1, <2>1, <2>2, StayCallInv DEF CallInv, TypeOK, Steps
<1>3. CASE op.kind \notin {"coin", "support"}
  BY <1>1, <1>3, EndCallInv DEF FailPrice
<1> QED
  BY <1>2, <1>3

\* By default the support is the fee, as it is rounded, or a multiple of it.
LEMMA SupportCoversFee ==
  ASSUME CallInv, pc # "idle"
  PROVE  /\ SupportAmount \in Nat
         /\ op.fixed = 0 => Rounded(fee.total, CoinUnit) <= SupportAmount
<1> DEFINE scale == IF op.scale > 0 THEN op.scale ELSE 1
           total == Rounded(fee.total, CoinUnit)
<1>1. scale \in Nat /\ scale >= 1 /\ op.fixed \in Nat
  BY KindsOfCalls
<1>2. total \in Nat
  BY RoundedIsNat, CreateAssumption DEF CallInv, TypeOK
<1>3. SupportAmount = IF op.fixed > 0 THEN op.fixed ELSE scale * total
  BY DEF SupportAmount
<1> HIDE DEF scale, total
<1>4. scale * total \in Nat /\ total <= scale * total
  BY <1>1, <1>2
<1> QED
  BY <1>1, <1>3, <1>4 DEF total

LEMMA SuspendedType ==
  ASSUME CallInv, pc = "coin", op.kind = "tokenSummary", spare' \in Nat, spare' < fee.total
  PROVE  [op |-> op, todo |-> todo, snap |-> snap, real |-> real, for |-> cur,
          lacking |-> fee.total - spare'] \in Suspended
<1>1. op \in Request /\ cur \in Account
  BY KindsOfCalls DEF CallInv, TypeOK, Holders
<1>2. BalancesOf(Account, TokenUnit, real, snap, todo)
  BY DEF CallInv, OpInv, Holders, Unit, IsToken
<1>3. snap \in [Account -> Nat]
  BY <1>2, RoundedIsNat, CreateAssumption DEF BalancesOf
<1>4. fee.total - spare' \in Nat
  BY DEF CallInv, TypeOK
<1> QED
  BY <1>1, <1>2, <1>3, <1>4 DEF BalancesOf, Suspended

LEMMA StartSupportInv ==
  ASSUME CallInv, pc = "coin", op.kind = "tokenSummary",
         UNCHANGED <<numbers, fee, amount, built, result>>, smooth' \in BOOLEAN,
         spare' \in Nat, spare' < fee.total, StartSupport
  PROVE  CallInv'
<1> DEFINE held == [op |-> op, todo |-> todo, snap |-> snap, real |-> real, for |-> cur,
                    lacking |-> fee.total - spare']
<1>1. /\ outer' = held /\ pc' = "read"
      /\ op' = [op EXCEPT !.kind = "support", !.amount = SupportAmount, !.rate = NoRate]
      /\ UNCHANGED <<todo, snap, real>>
  BY DEF StartSupport
<1>2. held \in Suspended
  BY SuspendedType
<1>3. /\ op \in Request /\ op.retained <= op.min /\ fee.total \in Nat
      /\ BalancesOf(Account, TokenUnit, real, snap, todo)
  BY KindsOfCalls
  DEF CallInv, TypeOK, OpInv, Holders, Unit, IsToken, IsSummary, Summaries
<1>4. SupportAmount \in Nat /\ (op.fixed = 0 => Rounded(fee.total, CoinUnit) <= SupportAmount)
  BY SupportCoversFee
<1>5. op' \in Request /\ op'.kind = "support" /\ op'.fixed = op.fixed
      /\ op'.amount = SupportAmount
  BY <1>1, <1>3, <1>4 DEF Request, Kinds, NoRate
<1>6. TypeOK'
  BY <1>1, <1>2, <1>5, CreateAssumption DEF CallInv, TypeOK, numbers, Steps
<1>7. OpInv'
  BY <1>1, <1>5 DEF OpInv, IsSummary, Summaries
<1>8. op.fixed = 0 => 2 * (fee.total - spare' - SupportAmount) <= CoinUnit
  <2>1. 2 * (fee.total - Rounded(fee.total, CoinUnit)) <= CoinUnit
        /\ Rounded(fee.total, CoinUnit) \in Int /\ CoinUnit \in Nat
    <3>1. fee.total \in Int /\ CoinUnit \in Nat \ {0}
      BY <1>3, CreateAssumption
    <3> QED
      BY <3>1, RoundedIsClose
  <2> QED
    BY <1>3, <1>4, <2>1
<1>9. OuterInv'
  BY <1>1, <1>3, <1>5, <1>8 DEF OuterInv
<1> QED
  BY <1>6, <1>7, <1>9 DEF CallInv

LEMMA FoundInv ==
  ASSUME CallInv, pc = "coin", NEW coins \in Nat, Found(coins),
         UNCHANGED <<numbers, fee, amount, built, result>>, smooth' \in BOOLEAN
  PROVE  CallInv'
<1>1. fee.total \in Nat /\ spare' = coins
  BY DEF Found, CallInv, TypeOK
<1>2. CASE coins < fee.total /\ op.kind = "tokenSummary" /\ op.supported
  BY <1>1, <1>2, StartSupportInv DEF Found
<1>3. CASE ~(coins < fee.total /\ op.kind = "tokenSummary" /\ op.supported)
  <2>1. pc' \in {"next", "build"} /\ UNCHANGED <<op, outer, balances, cur>>
    BY <1>3 DEF Found
  <2>2. pc' = "build" /\ op.kind \in Transfers => Payable'
    <3>1. ASSUME pc' = "build", op.kind \in Transfers
          PROVE  /\ op.kind = "token" /\ spare' >= fee.total
                 /\ snap[cur] >= amount
      <4>1. op.kind = "token"
        BY <3>1 DEF Transfers, CallInv, OpInv, IsToken
      <4>2. ~(coins < fee.total)
        BY <1>3, <3>1, <4>1 DEF Found
      <4>3. snap[cur] >= op.amount /\ amount = op.amount
        BY <4>1 DEF CallInv, OpInv, Worth
      <4> QED
        BY <1>1, <4>1, <4>2, <4>3
    <3> QED
      BY <2>1, <3>1 DEF Payable, IsToken, IsSummary, Summaries, balances
  <2>3. OpInv'
    BY <1>1, <2>1, <2>2
    DEF CallInv, OpInv, balances, Holders, Worth, IsToken
  <2> QED
    BY <1>1, <2>1, <2>3, StayCallInv DEF CallInv, TypeOK, Steps, Holders
<1> QED
  BY <1>2, <1>3

LEMMA CoinsInv == CallInv /\ (ReadCoins \/ FailReadCoins) => CallInv'
<1> SUFFICES ASSUME CallInv, ReadCoins \/ FailReadCoins PROVE CallInv'
  OBVIOUS
<1>1. CASE ReadCoins
  <2>1. coin[cur] \in Nat
    BY <1>1, HoldersAreAddresses DEF ReadCoins, CallInv, TypeOK
  <2> QED
    BY <1>1, <2>1, FoundInv DEF ReadCoins, CallInv, TypeOK
<1>2. CASE FailReadCoins /\ op.kind # "token"
  BY <1>2, FoundInv DEF FailReadCoins
<1>3. CASE FailReadCoins /\ op.kind = "token"
  <2>1. /\ pc = "coin" /\ pc' = "next" /\ smooth' = FALSE
        /\ UNCHANGED <<op, outer, balances, cur, spare, numbers, fee, amount, built, result>>
    BY <1>3 DEF FailReadCoins
  <2>2. OpInv'
    BY <2>1 DEF CallInv, OpInv, balances, Holders
  <2> QED
    BY <2>1, <2>2, StayCallInv DEF CallInv, TypeOK, Steps
<1> QED
  BY <1>1, <1>2, <1>3

LEMMA KeepRateType ==
  ASSUME CallInv, pc # "idle"
  PROVE  KeepRate \in Request /\ KeepRate.kind = op.kind
<1>1. Rounded(fee.price, CoinUnit) \in Nat
  BY RoundedIsNat, CreateAssumption DEF CallInv, TypeOK
<1> QED
  BY <1>1, KindsOfCalls DEF KeepRate, Request

LEMMA ContinueInv ==
  ASSUME CallInv, pc = "build", NEW res \in {"done", "error"}, NEW txs, Continue(res, txs),
         UNCHANGED <<numbers, fee, spare, amount>>, smooth' \in BOOLEAN
  PROVE  CallInv'
<1>1. CASE IsSummary(op.kind)
  <2>1. pc' = "next" /\ UNCHANGED <<op, outer, balances, result>>
    BY <1>1 DEF Continue
  <2>2. OpInv'
    BY <2>1 DEF CallInv, OpInv, balances, Holders
  <2> QED
    BY <2>1, <2>2, StayCallInv DEF CallInv, TypeOK, Steps
<1>2. CASE op.kind = "support"
  BY <1>2, EndCallInv DEF Continue, IsSummary, Summaries
<1>3. CASE ~IsSummary(op.kind) /\ op.kind # "support"
  <2>1. /\ op' = KeepRate /\ result' = res /\ pc' = "idle" /\ outer' = outer
    BY <1>3 DEF Continue
  <2>2. outer = None
    BY <1>3, KindsOfCalls
  <2>3. TypeOK'
    BY <2>1, <2>2, KeepRateType DEF CallInv, TypeOK, numbers, Steps
  <2> QED
    BY <2>1, <2>2, <2>3 DEF CallInv, OpInv, OuterInv
<1> QED
  BY <1>1, <1>2, <1>3

LEMMA CreateCallInv == CallInv /\ CreateTransactions => CallInv'
<1> SUFFICES ASSUME CallInv, CreateTransactions PROVE CallInv'
  OBVIOUS
<1> USE DEF CallInv, TypeOK
<1>1. CASE FailRead
  BY <1>1, EndCallInv DEF FailRead
<1>2. CASE Exhausted
  BY <1>2, EndCallInv DEF Exhausted
<1>3. CASE Build \/ RefuseBuild \/ FailNonce
  BY <1>3, ContinueInv DEF Build, RefuseBuild, FailNonce
<1> QED
  BY <1>1, <1>2, <1>3, ReadBalancesInv, NextAddressInv, PriceTransferInv,
     PriceCoinSummaryInv, PriceTokenInv, FailPriceInv, CoinsInv
  DEF CreateTransactions

LEMMA NextCallInv == CallInv /\ [Next]_vars => CallInv'
<1> SUFFICES ASSUME CallInv, [Next]_vars PROVE CallInv'
  OBVIOUS
<1>1. CASE UNCHANGED vars
  BY <1>1
  DEF vars, numbers, balances, CallInv, TypeOK, OpInv, OuterInv, Holders, Worth, Payable
<1> QED
  BY <1>1, MoveCallInv, BeginCallInv, CreateCallInv DEF Next

LEMMA SpecCallInv == Spec => []CallInv
BY InitCallInv, NextCallInv, PTL DEF Spec

\* The calls of the decoder work on numbers of their types: no balance, fee or
\* amount is less than nothing, and only a token summary is ever suspended.
THEOREM CreateTypes == Spec => []TypeOK
BY SpecCallInv, PTL DEF CallInv

\* When no call failed, coins are sent only to an address that lacks them, and by
\* default at least what it lacks, to within the rounding of the fee ("is the
\* main coin balance enough for the fee", "the default support is the fee").
THEOREM SupportOnlyIfNeeded == Spec => []SupportIsNeeded
<1>1. CallInv => SupportIsNeeded
  BY DEF CallInv, OuterInv, SupportIsNeeded
<1> QED
  BY <1>1, SpecCallInv, PTL

-----------------------------------------------------------------------------
(* The transactions that are built.                                        *)

\* Only the last step of a creation adds a transaction.
LEMMA BuiltFrame ==
  ASSUME [Next]_vars
  PROVE  \/ built' \subseteq built
         \/ pc = "build" /\ Payable /\ built' \subseteq built \union {Tx}
<1>1. ASSUME NEW res, End(res, built) PROVE built' \subseteq built
  BY <1>1 DEF End
<1>2. ASSUME NEW res, NEW txs, Continue(res, txs) PROVE built' \subseteq txs
  BY <1>2 DEF Continue, End
<1>3. ASSUME NEW coins, Found(coins), UNCHANGED built PROVE built' \subseteq built
  BY <1>3
<1>4. CASE CreateTransactions
  BY <1>1, <1>2, <1>3, <1>4
  DEF CreateTransactions, ReadBalances, FailRead, NextAddress, Exhausted, PriceTransfer,
      PriceCoinSummary, PriceToken, FailPrice, ReadCoins, FailReadCoins, Build,
      RefuseBuild, FailNonce
<1> QED
  BY <1>4 DEF Next, Move, Begin, vars

Kept(t) ==
  /\ t.kind = "coinSummary" =>
       LET rest == t.real - t.amount - t.fee - t.retained
       IN rest <= CoinUnit /\ -rest <= CoinUnit
  /\ t.kind = "tokenSummary" =>
       LET rest == t.real - t.amount - t.retained
       IN 2 * rest <= TokenUnit /\ -2 * rest <= TokenUnit

Covered(t) ==
  IF IsToken(t.kind)
  THEN 2 * (t.amount - t.real) <= TokenUnit /\ t.fee <= t.spare
  ELSE 2 * (t.amount + t.fee - t.real) <= CoinUnit

\* What is taken of a rounded balance and rounded again is off by a unit at most.
LEMMA TxKept ==
  ASSUME CallInv, pc = "build"
  PROVE  Kept(Tx)
<1>1. /\ snap[cur] \in Int /\ real[cur] \in Int /\ op.retained \in Int /\ fee.total \in Int
      /\ amount \in Int
  BY WorthIsEnough, KindsOfCalls DEF CallInv, TypeOK
<1>2. /\ 2 * (snap[cur] - real[cur]) <= Unit(op.kind)
      /\ 2 * (real[cur] - snap[cur]) <= Unit(op.kind)
  BY <1>1, WorthIsEnough, RoundedIsClose
<1>3. ASSUME op.kind = "coinSummary" PROVE Kept(Tx)
  <2> DEFINE sum == snap[cur] - op.retained - fee.total
  <2>1. sum \in Int /\ CoinUnit \in Nat \ {0}
    BY <1>1, CreateAssumption
  <2>2. amount = Rounded(sum, CoinUnit)
    BY <1>3 DEF CallInv, OpInv
  <2> HIDE DEF sum
  <2>3. 2 * (amount - sum) <= CoinUnit /\ 2 * (sum - amount) <= CoinUnit
    BY <2>1, <2>2, RoundedIsClose
  <2>4. Unit(op.kind) = CoinUnit
    BY <1>3 DEF Unit, IsToken
  <2> DEFINE rest == real[cur] - amount - fee.total - op.retained
  <2>5. rest <= CoinUnit /\ -rest <= CoinUnit
    BY <1>1, <1>2, <2>1, <2>3, <2>4 DEF sum
  <2> QED
    BY <1>3, <2>5 DEF Kept, Tx
<1>4. ASSUME op.kind = "tokenSummary" PROVE Kept(Tx)
  <2>1. amount = snap[cur] - op.retained /\ Unit(op.kind) = TokenUnit
    BY <1>4 DEF CallInv, OpInv, Unit, IsToken
  <2> DEFINE rest == real[cur] - amount - op.retained
  <2>2. TokenUnit \in Nat
    BY CreateAssumption
  <2>3. 2 * rest <= TokenUnit /\ -2 * rest <= TokenUnit
    BY <1>1, <1>2, <2>1, <2>2
  <2> QED
    BY <1>4, <2>3 DEF Kept, Tx
<1> QED
  BY <1>3, <1>4 DEF Kept, Tx

LEMMA TxCovered ==
  ASSUME CallInv, pc = "build", Payable
  PROVE  Covered(Tx)
<1>1. /\ snap[cur] \in Int /\ real[cur] \in Int /\ op.retained \in Nat /\ fee.total \in Int
      /\ amount \in Int /\ spare \in Int /\ Unit(op.kind) \in Nat
  BY WorthIsEnough, KindsOfCalls DEF CallInv, TypeOK
<1>2. 2 * (snap[cur] - real[cur]) <= Unit(op.kind)
  BY <1>1, WorthIsEnough, RoundedIsClose
<1>3. CASE IsToken(op.kind)
  <2>1. spare >= fee.total /\ Unit(op.kind) = TokenUnit
    BY <1>3 DEF Payable, Unit
  <2>2. amount <= snap[cur]
    <3>1. op.kind \in {"token", "tokenSummary"}
      BY <1>3 DEF IsToken
    <3>2. op.kind = "tokenSummary" => amount = snap[cur] - op.retained
      BY DEF CallInv, OpInv
    <3>3. op.kind = "token" => snap[cur] >= amount
      BY <1>3 DEF Payable, IsSummary, Summaries
    <3> QED
      BY <1>1, <3>1, <3>2, <3>3
  <2>3. 2 * (amount - real[cur]) <= TokenUnit /\ fee.total <= spare
    BY <1>1, <1>2, <2>1, <2>2
  <2> QED
    BY <1>3, <2>3 DEF Covered, Tx
<1>4. CASE ~IsToken(op.kind)
  <2>1. snap[cur] >= amount + fee.total /\ Unit(op.kind) = CoinUnit
    BY <1>4 DEF Payable, Unit
  <2>2. 2 * (amount + fee.total - real[cur]) <= CoinUnit
    BY <1>1, <1>2, <2>1
  <2> QED
    BY <1>4, <2>2 DEF Covered, Tx
<1> QED
  BY <1>3, <1>4

LEMMA SpecBooksInv == Spec => [](\A t \in built : Kept(t) /\ Covered(t))
<1> DEFINE Books == \A t \in built : Kept(t) /\ Covered(t)
<1>1. Init => Books
  BY DEF Init
<1>2. ASSUME CallInv, Books, [Next]_vars PROVE Books'
  <2>1. ASSUME NEW t \in built' PROVE Kept(t) /\ Covered(t)
    BY <1>2, <2>1, BuiltFrame, TxKept, TxCovered
  <2> QED
    BY <2>1 DEF Kept, Covered, IsToken
<1> QED
  BY <1>1, <1>2, SpecCallInv, PTL DEF Spec

\* A summary takes from an address its balance less the retained balance, and
\* less the fee if it is paid from the same balance, to within the rounding of
\* the balance and of the amount ("summary amount = balance - retained balance",
\* "less the fee").
THEOREM SummariesKeepRetained == Spec => []SummaryKeepsRetained
<1>1. (\A t \in built : Kept(t) /\ Covered(t)) => SummaryKeepsRetained
  BY DEF Kept, SummaryKeepsRetained
<1> QED
  BY <1>1, SpecBooksInv, PTL

\* Whatever changes at the node while a transaction is created, it spends no more
\* than its address had when the balance was read, to within the rounding of that
\* balance, and one that sends tokens comes from an address that can pay its fee
\* in coins (createRawTransaction).
THEOREM CreatedNotOverspent == Spec => []NothingOverspent
<1>1. (\A t \in built : Kept(t) /\ Covered(t)) => NothingOverspent
  BY DEF Covered, NothingOverspent
<1> QED
  BY <1>1, SpecBooksInv, PTL

-----------------------------------------------------------------------------
(* The addresses that are chosen.                                          *)

Choosing == pc \in {"next", "price", "coin", "build"}

\* A call under way has no result.
ResultInv == pc # "idle" => result = "none"

\* An address that cannot pay a transfer.
Insufficient(a) ==
  IF op.kind = "token" THEN snap[a] < op.amount \/ coin[a] < FeeAt(price).total
  ELSE snap[a] < op.amount + FeeAt(price).total

\* An address that a summary of coins has nothing to take from.
NothingToTake(a) ==
  \/ \E t \in built : t.from = a
  \/ snap[a] < op.min
  \/ snap[a] - op.retained - FeeAt(price).total <= 0
  \/ 2 * op.retained < CoinUnit

At(a) == pc \in {"price", "coin", "build"} /\ cur = a

\* When nothing failed or changed, the fee is that of the node's price, and the
\* addresses that a call has passed over could not pay or have nothing to give.
PassedInv ==
  /\ pc \in {"coin", "build"} => fee = FeeAt(price)
  /\ Choosing /\ op.kind \in Transfers =>
       \A a \in Account : a \in ToSet(todo) \/ At(a) \/ Insufficient(a)
  /\ Choosing /\ op.kind = "coinSummary" =>
       \A a \in Account : a \in ToSet(todo) \/ At(a) \/ NothingToTake(a)

QuietInv == Steady => PassedInv /\ SufficientIsFound /\ SummaryComplete

LEMMA HeadAndTail ==
  ASSUME NEW S, NEW s \in Seq(S), s # <<>>
  PROVE  /\ ToSet(s) = {Head(s)} \union ToSet(Tail(s))
         /\ Head(s) = s[1] /\ Len(s) \in Nat \ {0} /\ Len(Tail(s)) = Len(s) - 1
         /\ \A i \in 1..Len(Tail(s)) : Tail(s)[i] = s[i + 1] /\ i + 1 \in 1..Len(s)
<1>1. /\ Head(s) = s[1] /\ Len(s) \in Nat \ {0} /\ Len(Tail(s)) = Len(s) - 1
      /\ \A i \in 1..Len(Tail(s)) : Tail(s)[i] = s[i + 1] /\ i + 1 \in 1..Len(s)
  OBVIOUS
<1>2. DOMAIN s = 1..Len(s) /\ DOMAIN Tail(s) = 1..Len(Tail(s))
  OBVIOUS
<1>3. ASSUME NEW i \in 1..Len(s), i # 1 PROVE i - 1 \in 1..Len(Tail(s)) /\ s[i] = Tail(s)[i - 1]
  BY <1>1, <1>3
<1>4. ASSUME NEW x \in ToSet(s) PROVE x \in {Head(s)} \union ToSet(Tail(s))
  <2>1. PICK i \in 1..Len(s) : x = s[i]
    BY <1>2, <1>4 DEF ToSet
  <2>2. CASE i = 1
    BY <1>1, <2>1, <2>2
  <2>3. CASE i # 1
    BY <1>2, <1>3, <2>1, <2>3 DEF ToSet
  <2> QED
    BY <2>2, <2>3
<1>5. {Head(s)} \union ToSet(Tail(s)) \subseteq ToSet(s)
  BY <1>1, <1>2 DEF ToSet
<1> QED
  BY <1>1, <1>4, <1>5

LEMMA NextResultInv == CallInv /\ ResultInv /\ [Next]_vars => ResultInv'
<1> SUFFICES ASSUME CallInv, ResultInv, [Next]_vars PROVE ResultInv'
  OBVIOUS
<1>1. CASE UNCHANGED vars \/ Move \/ \E r \in Asked : Begin(r)
  BY <1>1 DEF vars, Move, Begin, ResultInv
<1>2. ASSUME NEW res, NEW txs, pc # "idle", End(res, txs) PROVE ResultInv'
  BY <1>2 DEF End, ResultInv
<1>3. CASE FailRead \/ Exhausted
  BY <1>2, <1>3 DEF FailRead, Exhausted
<1>4. CASE FailPrice
  BY <1>2, <1>4 DEF FailPrice, ResultInv
<1>5. CASE Build \/ RefuseBuild \/ FailNonce
  <2>1. PICK res, txs : Continue(res, txs) /\ pc = "build"
    BY <1>5 DEF Build, RefuseBuild, FailNonce
  <2> QED
    BY <1>2, <2>1 DEF Continue, ResultInv
<1>6. CASE ReadBalances \/ NextAddress \/ PriceTransfer \/ PriceCoinSummary \/ PriceToken
           \/ ReadCoins \/ FailReadCoins
  BY <1>6
  DEF ReadBalances, NextAddress, PriceTransfer, PriceCoinSummary, PriceToken, ReadCoins,
      FailReadCoins, ResultInv
<1> QED
  BY <1>1, <1>3, <1>4, <1>5, <1>6 DEF Next, CreateTransactions

-----------------------------------------------------------------------------
\* What an address lacks it still lacks while the numbers stand still.
LEMMA StillPassed ==
  ASSUME UNCHANGED <<numbers, op, snap>>, built \subseteq built'
  PROVE  /\ FeeAt(price)' = FeeAt(price)
         /\ \A a : Insufficient(a) => Insufficient(a)'
         /\ \A a : NothingToTake(a) => NothingToTake(a)'
<1>1. FeeAt(price)' = FeeAt(price)
  BY DEF numbers, FeeAt
<1>2. ASSUME NEW a, Insufficient(a) PROVE Insufficient(a)'
  BY <1>1, <1>2 DEF Insufficient, numbers
<1>3. ASSUME NEW a, NothingToTake(a) PROVE NothingToTake(a)'
  BY <1>1, <1>3 DEF NothingToTake
<1> QED
  BY <1>1, <1>2, <1>3

\* While a call is under way, nothing is said of its result.
LEMMA UnderWay ==
  ASSUME pc' # "idle", ResultInv'
  PROVE  SufficientIsFound' /\ SummaryComplete'
BY DEF ResultInv, SufficientIsFound, SummaryComplete

\* A summary that had to wait, or one of tokens, is not of coins.
LEMMA TokenSummaryQuiet ==
  ASSUME pc' \in {"read", "next"}, ResultInv', pc' = "next" => op'.kind = "tokenSummary"
  PROVE  QuietInv'
BY UnderWay DEF QuietInv, PassedInv, Choosing, Transfers

LEMMA QuietMoves ==
  ASSUME CallInv, Move
  PROVE  QuietInv'
<1>1. moves' # 0
  BY DEF Move, CallInv, TypeOK
<1> QED
  BY <1>1 DEF QuietInv, Steady

LEMMA QuietBegin ==
  ASSUME CallInv, NEW r \in Asked, Begin(r)
  PROVE  QuietInv'
<1>1. /\ built' = {} /\ result' \in {"none", "error"} /\ pc' \in {"idle", "read"}
      /\ op' = r /\ (result' = "error" => IsSummary(r.kind))
  BY DEF Begin
<1>2. r.kind \in Transfers => result' = "none"
  BY <1>1 DEF Transfers, IsSummary, Summaries
<1> QED
  BY <1>1, <1>2 DEF QuietInv, PassedInv, Choosing, SufficientIsFound, SummaryComplete

LEMMA QuietReadBalances ==
  ASSUME CallInv, ResultInv', ReadBalances
  PROVE  QuietInv'
<1>1. pc = "read" /\ pc' = "next" /\ op' = op /\ todo' \in SetToSeqs(Holders)
  BY DEF ReadBalances
<1>2. ToSet(todo') = Holders
  BY <1>1, HoldersFinite, OrderHasAll
<1>3. op.kind \in Transfers \union {"coinSummary"} => Holders = Account
  BY DEF Holders, Transfers
<1>4. PassedInv'
  BY <1>1, <1>2, <1>3 DEF PassedInv
<1> QED
  BY <1>1, <1>4, UnderWay DEF QuietInv

LEMMA SnapType ==
  ASSUME CallInv, Choosing, NEW a \in Holders
  PROVE  snap[a] \in Nat
<1>1. real[a] \in Nat /\ snap[a] = Rounded(real[a], Unit(op.kind))
  BY DEF CallInv, OpInv, Choosing, BalancesOf
<1>2. Unit(op.kind) \in Nat \ {0}
  BY CreateAssumption DEF Unit
<1> QED
  BY <1>1, <1>2, RoundedIsNat

LEMMA QuietNextAddress ==
  ASSUME CallInv, ResultInv', QuietInv, NextAddress
  PROVE  QuietInv'
<1>1. /\ pc = "next" /\ todo # <<>> /\ cur' = Head(todo) /\ todo' = Tail(todo)
      /\ pc' = IF Worth(cur') THEN "price" ELSE "next"
      /\ UNCHANGED <<numbers, op, snap, built, smooth>>
  BY DEF NextAddress
<1>2. ToSet(todo) = {cur'} \union ToSet(todo')
  <2>1. todo \in Seq(Holders)
    BY <1>1 DEF CallInv, OpInv, BalancesOf
  <2> QED
    BY <1>1, <2>1, HeadAndTail
<1>3. SUFFICES ASSUME Steady PROVE PassedInv'
  <2>1. Steady' => Steady
    BY <1>1 DEF Steady, numbers
  <2> QED
    BY <1>1, <1>3, <2>1, UnderWay DEF QuietInv
<1>4. PassedInv
  BY <1>3 DEF QuietInv
\* A transfer of coins takes any address, one of tokens not one with too few.
<1>5. ASSUME op.kind \in Transfers, NEW a \in Account
      PROVE  (a \in ToSet(todo) \/ At(a) \/ Insufficient(a))'
  <2>1. a \in ToSet(todo) \/ Insufficient(a)
    BY <1>1, <1>4, <1>5 DEF PassedInv, Choosing, At
  <2>2. CASE a = cur' /\ ~Worth(cur')
    <3>1. op.kind = "token" /\ snap[a] < op.amount
      <4>1. ~IsSummary(op.kind)
        BY <1>5 DEF Transfers, IsSummary, Summaries
      <4>2. op.kind = "token" /\ ~(snap[a] >= op.amount)
        BY <2>2, <4>1 DEF Worth, IsSummary, Summaries
      <4>3. snap[a] \in Int /\ op.amount \in Int
        <5>1. a \in Holders
          BY <1>5, <4>2 DEF Holders
        <5> QED
          BY <1>1, <5>1, SnapType, KindsOfCalls DEF Choosing
      <4> QED
        BY <4>2, <4>3
    <3> QED
      BY <1>1, <3>1 DEF Insufficient
  <2>3. CASE a = cur' /\ Worth(cur')
    BY <1>1, <2>3 DEF At
  <2>4. CASE a # cur'
    BY <1>1, <1>2, <2>1, <2>4, StillPassed
  <2> QED
    BY <2>2, <2>3, <2>4
<1>6. ASSUME op.kind = "coinSummary", NEW a \in Account
      PROVE  (a \in ToSet(todo) \/ At(a) \/ NothingToTake(a))'
  <2>1. a \in ToSet(todo) \/ NothingToTake(a)
    BY <1>1, <1>4, <1>6 DEF PassedInv, Choosing, At
  <2>2. CASE a = cur' /\ ~Worth(cur')
    <3>1. ~(snap[a] >= op.min)
      BY <1>6, <2>2 DEF Worth, IsSummary, Summaries
    <3>2. snap[a] \in Int /\ op.min \in Int
      <4>1. a \in Holders
        BY <1>6 DEF Holders
      <4> QED
        BY <1>1, <4>1, SnapType, KindsOfCalls DEF Choosing
    <3> QED
      BY <1>1, <3>1, <3>2 DEF NothingToTake
  <2>3. CASE a = cur' /\ Worth(cur')
    BY <1>1, <2>3 DEF At
  <2>4. CASE a # cur'
    BY <1>1, <1>2, <2>1, <2>4, StillPassed
  <2> QED
    BY <2>2, <2>3, <2>4
<1> QED
  BY <1>1, <1>5, <1>6 DEF PassedInv

\* A transfer has come to no address that can pay, a summary of coins has taken
\* what there is.
LEMMA QuietExhausted ==
  ASSUME CallInv, ResultInv, ResultInv', QuietInv, Exhausted
  PROVE  QuietInv'
<1>1. /\ pc = "next" /\ todo = <<>> /\ UNCHANGED <<numbers, smooth>>
      /\ End(IF IsSummary(op.kind) THEN "done" ELSE "short", built)
  BY DEF Exhausted
<1>2. CASE op.kind = "support"
  <2>1. pc' = "next" /\ op'.kind = "tokenSummary"
    BY <1>1, <1>2, KindsOfCalls DEF End, CallInv, OuterInv
  <2> QED
    BY <2>1, TokenSummaryQuiet
<1>3. CASE op.kind # "support"
  <2>1. /\ UNCHANGED <<numbers, smooth, op, snap, built>> /\ pc' = "idle"
        /\ result' = IF IsSummary(op.kind) THEN "done" ELSE "short"
    BY <1>1, <1>3 DEF End
  <2>2. SUFFICES ASSUME Steady PROVE SufficientIsFound' /\ SummaryComplete'
    BY <2>1 DEF QuietInv, PassedInv, Choosing, Steady, numbers
  <2>3. /\ op.kind \in Transfers => \A a \in Account : Insufficient(a)
        /\ op.kind = "coinSummary" => \A a \in Account : NothingToTake(a)
    BY <1>1, <2>2 DEF QuietInv, PassedInv, Choosing, At, ToSet
  <2>4. FeeAt(price)' = FeeAt(price)
    BY <2>1, StillPassed
  <2>5. SufficientIsFound'
    <3>1. ASSUME op.kind \in Transfers PROVE \A a \in Account : Insufficient(a)'
      BY <2>1, <2>3, <3>1, StillPassed
    <3>2. result' # "error" /\ op' = op
      BY <2>1
    <3> QED
      BY <3>1, <3>2 DEF SufficientIsFound, Insufficient
  <2>6. SummaryComplete'
    <3>1. ASSUME op'.kind = "coinSummary" PROVE \A a \in Account : NothingToTake(a)'
      BY <2>1, <2>3, <3>1, StillPassed
    <3> QED
      BY <3>1 DEF SummaryComplete, NothingToTake
  <2> QED
    BY <2>5, <2>6
<1> QED
  BY <1>2, <1>3

\* A call that goes on from an address has passed it over or takes it.
LEMMA QuietGoesOn ==
  ASSUME CallInv, ResultInv', QuietInv, pc \in {"price", "coin", "build"},
         pc' \in {"next", "coin", "build"}, Steady' => Steady,
         UNCHANGED <<numbers, op, todo, snap>>, built \subseteq built',
         Steady' /\ pc' \in {"coin", "build"} => cur' = cur /\ fee' = FeeAt(price),
         \A a \in Account : Steady' /\ pc' = "next" /\ cur = a =>
           /\ op.kind \in Transfers => Insufficient(a)'
           /\ op.kind = "coinSummary" => NothingToTake(a)'
  PROVE  QuietInv'
<1>1. SUFFICES ASSUME Steady' PROVE PassedInv'
  BY UnderWay DEF QuietInv
<1>2. PassedInv
  BY <1>1 DEF QuietInv
<1>3. FeeAt(price)' = FeeAt(price)
  BY StillPassed
<1>4. ASSUME op.kind \in Transfers, NEW a \in Account
      PROVE  (a \in ToSet(todo) \/ At(a) \/ Insufficient(a))'
  <2>1. a \in ToSet(todo) \/ cur = a \/ Insufficient(a)'
    BY <1>2, <1>4, StillPassed DEF PassedInv, Choosing, At
  <2>2. cur = a => At(a)' \/ Insufficient(a)'
    BY <1>1, <1>4 DEF At
  <2> QED
    BY <2>1, <2>2
<1>5. ASSUME op.kind = "coinSummary", NEW a \in Account
      PROVE  (a \in ToSet(todo) \/ At(a) \/ NothingToTake(a))'
  <2>1. a \in ToSet(todo) \/ cur = a \/ NothingToTake(a)'
    BY <1>2, <1>5, StillPassed DEF PassedInv, Choosing, At
  <2>2. cur = a => At(a)' \/ NothingToTake(a)'
    BY <1>1, <1>5 DEF At
  <2> QED
    BY <2>1, <2>2
<1> QED
  BY <1>1, <1>3, <1>4, <1>5 DEF PassedInv

LEMMA QuietPrice ==
  ASSUME CallInv, ResultInv', QuietInv, PriceTransfer \/ PriceCoinSummary \/ PriceToken
  PROVE  QuietInv'
<1>1. /\ pc = "price" /\ Estimate
      /\ UNCHANGED <<numbers, op, outer, balances, cur, spare, built, result>>
  BY DEF PriceTransfer, PriceCoinSummary, PriceToken
<1>2. Steady' => Steady /\ fee' = FeeAt(price)
  BY <1>1, EstimateType DEF Steady, numbers
<1>3. /\ snap' = snap /\ op' = op /\ price' = price /\ FeeAt(price)' = FeeAt(price)
      /\ UNCHANGED <<todo, built, cur>>
  BY <1>1, StillPassed DEF balances, numbers
<1>4. pc' \in {"next", "coin", "build"}
  BY DEF PriceTransfer, PriceCoinSummary, PriceToken
<1>6. ASSUME NEW a \in Account, Steady', pc' = "next", cur = a, op.kind \in Transfers
      PROVE  Insufficient(a)'
  <2>1. snap[a] < op.amount + fee'.total /\ op.kind # "token"
    BY <1>6 DEF PriceTransfer, PriceCoinSummary, PriceToken, Transfers
  <2> QED
    BY <1>2, <1>3, <1>6, <2>1 DEF Insufficient
<1>7. ASSUME NEW a \in Account, Steady', pc' = "next", cur = a, op.kind = "coinSummary"
      PROVE  NothingToTake(a)'
  <2>1. snap[a] - op.retained - fee'.total <= 0
    BY <1>7 DEF PriceTransfer, PriceCoinSummary, PriceToken, IsToken
  <2> QED
    BY <1>2, <1>3, <1>7, <2>1 DEF NothingToTake
<1> QED
  BY <1>1, <1>2, <1>3, <1>4, <1>6, <1>7, QuietGoesOn

LEMMA QuietReadCoins ==
  ASSUME CallInv, ResultInv', QuietInv, ReadCoins
  PROVE  QuietInv'
<1>1. /\ pc = "coin" /\ Found(coin[cur]) /\ IsToken(op.kind)
      /\ UNCHANGED <<numbers, fee, amount, built, result, smooth>>
  BY DEF ReadCoins, CallInv, OpInv
<1>2. CASE coin[cur] < fee.total /\ op.kind = "tokenSummary" /\ op.supported
  <2>1. pc' = "read"
    BY <1>1, <1>2 DEF Found, StartSupport
  <2> QED
    BY <2>1, TokenSummaryQuiet
<1>3. CASE ~(coin[cur] < fee.total /\ op.kind = "tokenSummary" /\ op.supported)
  <2>1. /\ UNCHANGED <<op, outer, balances, cur>>
        /\ pc' = IF coin[cur] < fee.total /\ op.kind = "token" THEN "next" ELSE "build"
    BY <1>1, <1>3 DEF Found
  <2>2. /\ Steady' => Steady /\ fee' = FeeAt(price)
        /\ FeeAt(price)' = FeeAt(price) /\ coin' = coin
    BY <1>1, <2>1, StillPassed DEF Steady, QuietInv, PassedInv, numbers, balances
  <2>3. ASSUME NEW a \in Account, Steady', pc' = "next", cur = a
        PROVE  Insufficient(a)' /\ op.kind # "coinSummary"
    BY <1>1, <2>1, <2>2, <2>3 DEF Insufficient
  <2> QED
    BY <1>1, <2>1, <2>2, <2>3, QuietGoesOn DEF balances, IsToken
<1> QED
  BY <1>2, <1>3

\* A transaction is built, or refused because of the rounding of the amount.
LEMMA QuietBuild ==
  ASSUME CallInv, ResultInv, ResultInv', QuietInv, Build \/ RefuseBuild
  PROVE  QuietInv'
<1>1. pc = "build" /\ UNCHANGED <<numbers, fee, spare, amount, smooth>>
  BY DEF Build, RefuseBuild
<1>2. Steady' => Steady
  BY <1>1 DEF Steady, numbers
<1>3. CASE IsSummary(op.kind)
  <2>1. /\ pc' = "next" /\ UNCHANGED <<op, outer, balances, result>> /\ built \subseteq built'
        /\ Build => Tx \in built'
    BY <1>3 DEF Build, RefuseBuild, Continue
  <2>2. ASSUME NEW a \in Account, Steady', cur = a, op.kind = "coinSummary"
        PROVE  NothingToTake(a)'
    <3>1. CASE Build
      BY <2>1, <2>2, <3>1 DEF NothingToTake, Tx
    <3>2. CASE RefuseBuild
      <4> DEFINE sum == snap[cur] - op.retained - fee.total
      <4>1. /\ snap[cur] \in Int /\ op.retained \in Int /\ fee.total \in Int
            /\ CoinUnit \in Nat \ {0}
        BY <1>1, WorthIsEnough, KindsOfCalls, CreateAssumption DEF CallInv, TypeOK
      <4>2. sum \in Int /\ amount = Rounded(sum, CoinUnit) /\ amount \in Int
        BY <1>1, <2>2, <4>1 DEF CallInv, OpInv, TypeOK
      <4>3. ~(snap[cur] >= amount + fee.total)
        BY <2>2, <3>2 DEF RefuseBuild, Payable, IsToken
      <4>4. 2 * (amount - sum) <= CoinUnit
        <5> HIDE DEF sum
        <5> QED
          BY <4>1, <4>2, RoundedIsClose
      <4>5. 2 * op.retained < CoinUnit
        BY <4>1, <4>2, <4>3, <4>4
      <4> QED
        BY <2>1, <4>5 DEF NothingToTake
    <3> QED
      BY <3>1, <3>2
  <2> QED
    BY <1>1, <1>2, <1>3, <2>1, <2>2, QuietGoesOn
    DEF balances, IsSummary, Summaries, Transfers
<1>4. CASE op.kind = "support"
  <2>1. pc' = "next" /\ op'.kind = "tokenSummary"
    BY <1>1, <1>4, KindsOfCalls
    DEF Build, RefuseBuild, Continue, IsSummary, Summaries, End, CallInv, OuterInv
  <2> QED
    BY <2>1, TokenSummaryQuiet
<1>5. CASE op.kind \in Transfers
  <2>1. /\ op' = KeepRate /\ pc' = "idle" /\ snap' = snap
        /\ result' = "done"
    <3>1. PICK txs : Continue("done", txs)
      BY <1>5 DEF Build, RefuseBuild, CallInv, OpInv
    <3>2. ~IsSummary(op.kind) /\ op.kind # "support"
      BY <1>5 DEF Transfers, IsSummary, Summaries
    <3> QED
      BY <3>1, <3>2 DEF Continue
  <2>2. op'.kind # "coinSummary"
    BY <1>1, <1>5, <2>1, KeepRateType DEF Transfers
  <2>3. SufficientIsFound' /\ SummaryComplete'
    BY <2>1, <2>2 DEF SufficientIsFound, SummaryComplete
  <2> QED
    BY <2>1, <2>3 DEF QuietInv, PassedInv, Choosing
<1> QED
  BY <1>1, <1>3, <1>4, <1>5, KindsOfCalls DEF Kinds, IsSummary

LEMMA NextQuietInv == CallInv /\ ResultInv /\ QuietInv /\ [Next]_vars => QuietInv'
<1> SUFFICES ASSUME CallInv, ResultInv, QuietInv, [Next]_vars PROVE QuietInv'
  OBVIOUS
<1>1. ResultInv'
  BY NextResultInv
<1>2. CASE UNCHANGED vars
  BY <1>2
  DEF vars, numbers, balances, QuietInv, PassedInv, Steady, SufficientIsFound,
      SummaryComplete, Choosing, At, Insufficient, NothingToTake, FeeAt
<1>3. CASE FailRead \/ FailPrice \/ FailReadCoins \/ FailNonce
  <2>1. smooth' = FALSE
    BY <1>3 DEF FailRead, FailPrice, FailReadCoins, FailNonce
  <2> QED
    BY <2>1 DEF QuietInv, Steady
<1> QED
  BY <1>1, <1>2, <1>3, QuietMoves, QuietBegin, QuietReadBalances, QuietNextAddress,
     QuietExhausted, QuietPrice, QuietReadCoins, QuietBuild
  DEF Next, CreateTransactions

LEMMA SpecQuietInv == Spec => [](ResultInv /\ QuietInv)
<1>1. Init => ResultInv /\ QuietInv
  BY DEF Init, ResultInv, Choosing, QuietInv, PassedInv, SufficientIsFound, SummaryComplete
<1> QED
  BY <1>1, SpecCallInv, NextResultInv, NextQuietInv, PTL DEF Spec

\* When no call failed and the node's numbers stood still, a transfer ends without a
\* transaction only if no address of the account can pay it, in whatever order the
\* addresses are tried (the loops of CreateSimpleRawTransaction and
\* CreateErc20TokenRawTransaction, the check of createRawTransaction).
THEOREM TransfersFindSufficient == Spec => []SufficientIsFound
<1>1. QuietInv => SufficientIsFound
  BY DEF QuietInv, SufficientIsFound
<1> QED
  BY <1>1, SpecQuietInv, PTL

\* When no call failed and the node's numbers stood still, a summary of coins
\* passes over an address only if there is nothing to send above the minimum, or
\* if rounding up makes it unpayable where nothing is retained (the loop of
\* CreateSimpleSummaryRawTransaction).
THEOREM SummariesComplete == Spec => []SummaryComplete
<1>1. QuietInv => SummaryComplete
  BY DEF QuietInv, SummaryComplete
<1> QED
  BY <1>1, SpecQuietInv, PTL
=============================================================================
