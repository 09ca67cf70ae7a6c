----------------------------- MODULE HostBooks -----------------------------
(***************************************************************************)
(* The extraction of transactions together with what the observers make of *)
(* it: each keeps the records it was told under their ids, so that data    *)
(* told twice, by the task, a retry or a host's scan, counts once.  The    *)
(* data are those that ExtractData computes from a transaction and its     *)
(* receipt.  (The observers belong to the host; what they keep is modelled *)
(* from what the scanner gives them.)                                      *)
(***************************************************************************)
EXTENDS TxExtraction, ExtractData

CONSTANTS
  Content,    \* the transaction and the receipt of every transaction
  Contents    \* the transactions and receipts the data are checked for

Extracted == [t \in Txs |-> ExtractResult(Content[t].tx, Content[t].receipt)]

\* A notification names its data by the source key and the wx id.
Name(d) == <<d[1], d[2].wxid>>

ASSUME HostAssumption ==
  /\ DataOf = [t \in Txs |-> {Name(d) : d \in Extracted[t]}]
  /\ \A t \in Txs : Content[t].tx.hash = t
  /\ \A c \in {Content[t] : t \in Txs} \union Contents :
       c.tx \in Transaction /\ c.receipt \in Receipt

VARIABLES
  told,       \* the notifications made so far
  looked      \* history: the transactions a worker has finished with

books    == <<told, looked>>
hostVars == <<vars, books>>

HostInit == Init /\ told = {} /\ looked = {}

\* Every step of the extraction, and what it is to the host.
Told(w) ==
  /\ Notify(w)
  /\ told' = told \union (pending[w] \ pending'[w])
  /\ UNCHANGED looked

Finished(w) ==
  /\ NextTx(w)
  /\ looked' = looked \union {cur[w]}
  /\ UNCHANGED told

PutOff(w) ==
  /\ NullReceipt(w)
  /\ looked' = looked \union (batch[w] \ batch'[w])
  /\ UNCHANGED told

Unnoticed(w) ==
  /\ \/ StartScan(w) \/ FetchReceipt(w) \/ NotifyFails(w) \/ FailBatch(w) \/ EndScan(w)
  /\ UNCHANGED books

HostNext ==
  \/ \E w \in Workers : Told(w) \/ Finished(w) \/ PutOff(w) \/ Unnoticed(w)
  \/ RescanFailedTransactions /\ UNCHANGED books
  \/ \E b \in Blocks : Rewind(b) /\ UNCHANGED books
  \/ \E t \in Txs : ExtractTransactionData(t) /\ UNCHANGED books

HostSpec == HostInit /\ [][HostNext]_hostVars /\ Fairness

-----------------------------------------------------------------------------
ToldOf(o) == UNION {{d \in Extracted[t] : <<t, o, Name(d)>> \in told} : t \in Txs}

Book(o) == Booked(Recharges(ToldOf(o)))

Coins == {Native} \union {Content[t].tx.to : t \in Txs}

\* A transaction that a worker has finished with and that has no record is in the
\* books of every observer, if it is one the records are made for (Plain): they agree
\* with the node, address by address and coin by coin, for what each account sent,
\* received and paid, in whatever order task, host and retry came to tell of it, as
\* long as the task did not go back from a block and nothing failed again during a
\* retry (TransactionScanning, newExtractDataNotify, the record ids).
BooksComplete ==
  ~resaved /\ spent["rewind"] = 0 =>
    \A o \in Observers :
      LET book == Book(o) IN
      \A t \in looked \ unscanned : Plain(Content[t].tx, Content[t].receipt) =>
        \A a \in Watched, c \in Coins :
          BooksAgree(book, Content[t].tx, Content[t].receipt, a, c)

AllDataAgree ==
  \A c \in Contents : Plain(c.tx, c.receipt) =>
    LET data == ExtractResult(c.tx, c.receipt) IN
      /\ \A a \in Watched, coin \in {Native, c.tx.to} :
           BooksAgree(Booked(Recharges(data)), c.tx, c.receipt, a, coin)
      /\ \A d, e \in data : Name(d) = Name(e) => d = e

\* The data extracted from a plain transaction are the node's account of it, for
\* every combination of known and unknown parties, and no two pieces of data for one
\* source key have the same wx id, under which the host would keep one of them only
\* (Make*ExtractData, ParseTransferEvent, GetTxFeeEthString).  The data depend on the
\* transaction and its receipt alone, so it is enough to look once, at the start.
DataAgree == HostInit => AllDataAgree
=============================================================================
