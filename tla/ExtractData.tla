---------------------------- MODULE ExtractData ----------------------------
(***************************************************************************)
(* What a transaction and its receipt mean to the accounts of the host     *)
(* (Make*ExtractData, TransactionScanning in ddmchain/blockscanner.go and  *)
(* ParseTransferEvent in models.go), and what they mean to the node.       *)
(*                                                                         *)
(* A transaction is a record of its hash, from, to, value, gasPrice and    *)
(* gas; a receipt is one of gasUsed, status and logs.  A log has its five  *)
(* shape checks (topics, event id, length, two prefixes) folded into       *)
(* "transfer", and is otherwise the contract that wrote it and the         *)
(* addresses and the value of the transfer.                                *)
(***************************************************************************)
EXTENDS Amounts, FiniteSetsExt, Sequences

CONSTANTS
  Hashes,     \* hashes of transactions
  Addresses,  \* addresses of the chain
  KeyOf,      \* filterFunc: the source key of every address the host watches
  Native,     \* the contract id "" of the chain's own coin
  NoEvent,    \* a nil *TransferEvent
  Unit        \* amounts of the coin are rounded to multiples of it

Watched == DOMAIN KeyOf

\* A transaction that creates a contract is to nobody; a log is written by a contract.
Transaction ==
  [hash : Hashes, from : Addresses, to : Addresses \union {Native}, value : Nat,
   gasPrice : Nat, gas : Nat, status : Nat]
Log     == [transfer : BOOLEAN, contract : Addresses, from : Addresses, to : Addresses,
            value : Nat]
Receipt == [gasUsed : Nat, status : Nat, logs : Seq(Log)]

ASSUME DataAssumption ==
  /\ Watched \subseteq Addresses /\ Native \notin Addresses
  /\ NoEvent \notin Log
  /\ Unit \in Nat \ {0}

Key(a)  == {KeyOf[x] : x \in {a} \intersect Watched}

EthString(wei) == Rounded(wei, Unit)
TxFee(tx)      == EthString(tx.gasPrice * tx.gas)

-----------------------------------------------------------------------------
(* The receipt.                                                            *)

UpdateTxByReceipt(tx, receipt) ==
  [tx EXCEPT !.gas = receipt.gasUsed, !.status = receipt.status]

IsTransfer(log) == log.transfer

Transfers(logs) == {i \in DOMAIN logs : IsTransfer(logs[i])}

\* The first transfer event counts, whichever contract wrote it.
ParseTransferEvent(logs) ==
  IF Transfers(logs) = {} THEN NoEvent ELSE logs[Min(Transfers(logs))]

-----------------------------------------------------------------------------
(* The records of one transaction.  A record's id is made of the hash, the *)
(* contract, its direction and an index; a transaction's wx id of the hash *)
(* and the contract.                                                       *)

Recharge(tx, dir, contract, index, address, amount) ==
  [sid |-> <<tx.hash, contract, dir, index>>, address |-> address,
   contract |-> contract, dir |-> dir, amount |-> amount]

TxExtractData(tx, contract, to, amount, inputs, outputs) ==
  [wxid |-> <<tx.hash, contract>>, to |-> <<to, amount>>, status |-> tx.status,
   inputs |-> inputs, outputs |-> outputs]

MakeSimpleTxFromExtractData(tx) ==
  {TxExtractData(tx, Native, tx.to, EthString(tx.value),
     {Recharge(tx, "in", Native, 0, tx.from, EthString(tx.value)),
      Recharge(tx, "in", Native, 1, tx.from, TxFee(tx))}, {})}

MakeSimpleToExtractData(tx) ==
  {TxExtractData(tx, Native, tx.to, EthString(tx.value), {},
     {Recharge(tx, "out", Native, 0, tx.to, EthString(tx.value))})}

\* The fee is a transaction of its own, of the chain's coin.
MakeTokenTxFromExtractData(tx, event) ==
  {TxExtractData(tx, tx.to, event.to, event.value,
     {Recharge(tx, "in", tx.to, 0, tx.from, event.value)}, {}),
   TxExtractData(tx, Native, tx.to, 0,
     {Recharge(tx, "in", Native, 0, tx.from, TxFee(tx))}, {})}

MakeTokenToExtractData(tx, event) ==
  {TxExtractData(tx, tx.to, event.to, event.value, {},
     {Recharge(tx, "out", tx.to, 0, event.to, event.value)})}

Sender(tx, event)   == IF event = NoEvent THEN tx.from ELSE event.from
Receiver(tx, event) == IF event = NoEvent THEN tx.to ELSE event.to

MakeFromExtractData(tx, event) ==
  IF event = NoEvent THEN MakeSimpleTxFromExtractData(tx)
                     ELSE MakeTokenTxFromExtractData(tx, event)

MakeToExtractData(tx, event) ==
  IF event = NoEvent THEN MakeSimpleToExtractData(tx)
                     ELSE MakeTokenToExtractData(tx, event)

\* Mutant: what an account sends to itself is only sent.
MergedSent(sent, received) == sent

\* An account that both sends and receives is told once: what it receives is put
\* into the data of what it sends, where both name the same first target.
Merged(sent, received) ==
  {IF \E r \in received : r.to = s.to
   THEN [s EXCEPT !.outputs = (CHOOSE r \in received : r.to = s.to).outputs]
   ELSE s : s \in sent}

\* The pairs of a source key and a TxExtractData that a transaction leads to.
ExtractResult(sentTx, receipt) ==
  LET tx       == UpdateTxByReceipt(sentTx, receipt)
      event    == ParseTransferEvent(receipt.logs)
      sent     == MakeFromExtractData(tx, event)
      received == MakeToExtractData(tx, event)
      from     == Key(Sender(tx, event))
      to       == Key(Receiver(tx, event))
  IN IF from = to THEN from \X Merged(sent, received)
                  ELSE (from \X sent) \union (to \X received)

-----------------------------------------------------------------------------
(* The books of a host, which keeps one record for each id, and the node's *)
(* own account of a transaction.                                           *)

Recharges(data) == UNION {d[2].inputs \union d[2].outputs : d \in data}

OneOf(S) == CHOOSE x \in S : TRUE

\* What is kept when records arrive under the same id is one of them.
Booked(recharges) ==
  {OneOf({r \in recharges : r.sid = id}) : id \in {r.sid : r \in recharges}}

Of(recharges, address, contract, dir) ==
  {r \in recharges : r.address = address /\ r.contract = contract /\ r.dir = dir}

Total(recharges) == MapThenSumSet(LAMBDA r : r.amount, recharges)

Balance(recharges, address, contract) ==
  Total(Of(recharges, address, contract, "out")) - Total(Of(recharges, address, contract, "in"))

SumOfValues(logs, S) == MapThenSumSet(LAMBDA i : logs[i].value, S)

\* How the node changes the balance of an address.
Moved(tx, receipt, address, contract) ==
  LET logs   == receipt.logs
      events == {i \in Transfers(logs) : logs[i].contract = contract}
      value  == IF receipt.status = 1 THEN tx.value ELSE 0
  IN IF contract = Native
     THEN (IF address = tx.to THEN value ELSE 0)
          - (IF address = tx.from THEN value + tx.gasPrice * receipt.gasUsed ELSE 0)
     ELSE SumOfValues(logs, {i \in events : logs[i].to = address})
          - SumOfValues(logs, {i \in events : logs[i].from = address})

\* The transactions the records are made for: a transfer of the coin that did not
\* fail, or a call of a token contract whose one transfer is of the caller's own
\* tokens and carries no value.
Plain(tx, receipt) ==
  IF Transfers(receipt.logs) = {} THEN receipt.status = 1 \/ tx.value = 0
  ELSE \E i \in DOMAIN receipt.logs :
         /\ Transfers(receipt.logs) = {i}
         /\ receipt.logs[i].contract = tx.to /\ receipt.logs[i].from = tx.from
         /\ tx.value = 0

\* To within the rounding of each record.
RecordsAgree(own, tx, receipt, address, contract) ==
  LET off   == Balance(own, address, contract) - Moved(tx, receipt, address, contract)
      slack == IF contract = Native
               THEN Unit * Cardinality({r \in own : r.address = address /\ r.contract = contract})
               ELSE 0
  IN 2 * off <= slack /\ -2 * off <= slack

OwnRecords(recharges, tx) == {r \in recharges : r.sid[1] = tx.hash}

BooksAgree(recharges, tx, receipt, address, contract) ==
  RecordsAgree(OwnRecords(recharges, tx), tx, receipt, address, contract)
=============================================================================
