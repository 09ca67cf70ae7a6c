---------------------------- MODULE TxExtraction ----------------------------
(***************************************************************************)
(* The transactions of a block (ddmchain/blockscanner.go): a batch of them *)
(* is extracted and the observers are notified; what fails softly is kept  *)
(* as an UnscanTransaction record, which the scan task retries later while *)
(* a host may be scanning a block on its own.  BlockScanner sees a whole   *)
(* batch as one step; here every call to the node, to an observer and to   *)
(* the database is a step.                                                 *)
(***************************************************************************)
EXTENDS Naturals

CONSTANTS
  Txs,          \* transactions, by TxID, the primary key of a record
  Blocks,       \* blocks
  BlockOf,      \* the block of each transaction
  Observers,    \* the observers of the scanner
  Data,         \* what an observer can be told: a source key and its data
  DataOf,       \* what each transaction has to tell: some of it to its sender's
                \* source key, some to its receiver's, none if both are unknown
  NoTx,         \* no transaction
  Limit         \* bound: how often each kind of disturbance may happen

Kinds   == {"null", "notify", "error", "rewind"}
Workers == {"task", "host"}
Steps   == {"idle", "scan", "retry", "delete"}

ASSUME ExtractionAssumption ==
  /\ BlockOf \in [Txs -> Blocks]
  /\ DataOf \in [Txs -> SUBSET Data]
  /\ NoTx \notin Txs
  /\ Limit \in [Kinds -> Nat]

VARIABLES
  unscanned,    \* the transactions with an UnscanTransaction record
  pc,           \* what each worker is doing
  batch,        \* its transactions not yet looked at
  cur,          \* the transaction it is at
  pending,      \* the notifications of cur it has still to make
  taken,        \* GetAllUnscannedTransactions: the records the task retries
  owed,         \* history: notifications that failed and were not made since
  resaved,      \* history: a record was saved again while it was being retried
  spent         \* bound: the disturbances so far, by kind

history == <<owed, resaved>>
work    == <<pc, batch, cur, pending>>
vars    == <<unscanned, work, taken, history, spent>>

\* The notifications of a transaction: every observer, every piece of data.
Notifications(t) == {t} \X Observers \X DataOf[t]

Happens(kind) ==
  /\ spent[kind] < Limit[kind]
  /\ spent' = [spent EXCEPT ![kind] = @ + 1]

Init ==
  /\ unscanned = {} /\ taken = {}
  /\ pc = [w \in Workers |-> "idle"]
  /\ batch = [w \in Workers |-> {}]
  /\ cur = [w \in Workers |-> NoTx]
  /\ pending = [w \in Workers |-> {}]
  /\ owed = {} /\ resaved = FALSE
  /\ spent = [k \in Kinds |-> 0]

\* The worker's function returns.
Return(w) ==
  /\ pc' = [pc EXCEPT ![w] = "idle"]
  /\ batch' = [batch EXCEPT ![w] = {}]
  /\ cur' = [cur EXCEPT ![w] = NoTx]
  /\ pending' = [pending EXCEPT ![w] = {}]
  /\ taken' = IF w = "task" THEN {} ELSE taken

\* SaveUnscannedTransaction for t, whose notifications ns were not made.  A
\* record of the same transaction is overwritten.
Save(t, ns) ==
  /\ unscanned' = unscanned \union {t}
  /\ owed' = owed \union ns
  /\ resaved' = (resaved \/ t \in taken)

-----------------------------------------------------------------------------
(* BatchExtractTransaction                                                 *)

\* ScanBlockTask and ScanBlock: all transactions of a block.
StartScan(w) ==
  /\ pc[w] = "idle"
  /\ \E b \in Blocks : batch' = [batch EXCEPT ![w] = {t \in Txs : BlockOf[t] = b}]
  /\ pc' = [pc EXCEPT ![w] = "scan"]
  /\ UNCHANGED <<unscanned, cur, pending, taken, history, spent>>

Working(w)  == pc[w] \in {"scan", "retry"}
Fetching(w) == Working(w) /\ cur[w] = NoTx

\* The receipt is there: the transaction's data are extracted from it.
FetchReceipt(w) ==
  /\ Fetching(w)
  /\ \E t \in batch[w] :
       /\ cur' = [cur EXCEPT ![w] = t]
       /\ batch' = [batch EXCEPT ![w] = @ \ {t}]
       /\ pending' = [pending EXCEPT ![w] = Notifications(t)]
  /\ UNCHANGED <<unscanned, pc, taken, history, spent>>

\* Mutant: what is saved is the transaction looked at before.
NullReceiptOfLast(w) ==
  /\ Happens("null")
  /\ Fetching(w)
  /\ \E t \in batch[w] :
       /\ Save(cur[w], Notifications(t))
       /\ batch' = [batch EXCEPT ![w] = @ \ {t}]
  /\ UNCHANGED <<pc, cur, pending, taken>>

\* Mutant: the transaction is skipped and not saved.
NullReceiptSkipped(w) ==
  /\ Happens("null")
  /\ Fetching(w)
  /\ \E t \in batch[w] : batch' = [batch EXCEPT ![w] = @ \ {t}]
  /\ UNCHANGED <<unscanned, pc, cur, pending, taken, history>>

\* The node answers null, for a block it has not indexed or has left.
NullReceipt(w) ==
  /\ Happens("null")
  /\ Fetching(w)
  /\ \E t \in batch[w] :
       /\ Save(t, Notifications(t))
       /\ batch' = [batch EXCEPT ![w] = @ \ {t}]
  /\ UNCHANGED <<pc, cur, pending, taken>>

\* newExtractDataNotify: the observer takes the data.
Notify(w) ==
  /\ \E n \in pending[w] :
       /\ owed' = owed \ {n}
       /\ pending' = [pending EXCEPT ![w] = @ \ {n}]
  /\ UNCHANGED <<unscanned, pc, batch, cur, taken, resaved, spent>>

\* The observer returns an error: the transaction is saved, the loop goes on.
NotifyFails(w) ==
  /\ Happens("notify")
  /\ \E n \in pending[w] :
       /\ Save(cur[w], {n})
       /\ pending' = [pending EXCEPT ![w] = @ \ {n}]
  /\ UNCHANGED <<pc, batch, cur, taken>>

NextTx(w) ==
  /\ cur[w] # NoTx /\ pending[w] = {}
  /\ cur' = [cur EXCEPT ![w] = NoTx]
  /\ UNCHANGED <<unscanned, pc, batch, pending, taken, history, spent>>

\* A call to the node, the decoding of its answer, or the saving of a record
\* fails: the rest of the batch is not looked at.
FailBatch(w) ==
  /\ Happens("error")
  /\ Working(w)
  /\ Return(w)
  /\ UNCHANGED <<unscanned, history>>

EndScan(w) ==
  /\ pc[w] = "scan" /\ cur[w] = NoTx /\ batch[w] = {}
  /\ Return(w)
  /\ UNCHANGED <<unscanned, history, spent>>

-----------------------------------------------------------------------------
(* RescanFailedTransactions, at the end of every scan task.                *)

\* Mutant: the records are deleted as soon as they were read.
StartRetryDeleting ==
  /\ pc["task"] = "idle" /\ unscanned # {}
  /\ taken' = unscanned
  /\ unscanned' = {}
  /\ batch' = [batch EXCEPT !["task"] = unscanned]
  /\ pc' = [pc EXCEPT !["task"] = "retry"]
  /\ UNCHANGED <<cur, pending, history, spent>>

StartRetry ==
  /\ pc["task"] = "idle" /\ unscanned # {}
  /\ taken' = unscanned
  /\ batch' = [batch EXCEPT !["task"] = unscanned]
  /\ pc' = [pc EXCEPT !["task"] = "retry"]
  /\ UNCHANGED <<unscanned, cur, pending, history, spent>>

EndRetry ==
  /\ pc["task"] = "retry" /\ cur["task"] = NoTx /\ batch["task"] = {}
  /\ pc' = [pc EXCEPT !["task"] = "delete"]
  /\ UNCHANGED <<unscanned, batch, cur, pending, taken, history, spent>>

\* Mutant: the records retried are saved again instead of deleted.
DeleteNothing ==
  /\ pc["task"] = "delete"
  /\ unscanned' = unscanned \union taken
  /\ Return("task")
  /\ UNCHANGED <<history, spent>>

\* DeleteUnscannedTransactions deletes what was read before, by TxID, in one
\* transaction that fails when a record is missing.
DeleteUnscannedTransactions ==
  /\ pc["task"] = "delete"
  /\ unscanned' = IF taken \subseteq unscanned THEN unscanned \ taken ELSE unscanned
  /\ Return("task")
  /\ UNCHANGED <<history, spent>>

FailDelete ==
  /\ Happens("error")
  /\ pc["task"] = "delete"
  /\ Return("task")
  /\ UNCHANGED <<unscanned, history>>

\* The task leaves a block: DeleteUnscannedTransactionByHeight.
Rewind(b) ==
  /\ Happens("rewind")
  /\ pc["task"] = "idle"
  /\ unscanned' = {t \in unscanned : BlockOf[t] # b}
  /\ owed' = {n \in owed : BlockOf[n[1]] # b}
  /\ UNCHANGED <<work, taken, resaved>>

\* ExtractTransactionData: a host asks for the data of one transaction, and nobody
\* is notified; if the receipt is null the transaction gets a record all the same.
ExtractTransactionData(t) ==
  /\ Happens("null")
  /\ Save(t, {})
  /\ UNCHANGED <<work, taken>>

-----------------------------------------------------------------------------
TransactionScanning(w) == FetchReceipt(w) \/ NullReceipt(w)

newExtractDataNotify(w) == Notify(w) \/ NotifyFails(w)

BatchExtractTransaction(w) ==
  \/ TransactionScanning(w) \/ newExtractDataNotify(w)
  \/ NextTx(w) \/ FailBatch(w) \/ EndScan(w)

RescanFailedTransactions ==
  StartRetry \/ EndRetry \/ DeleteUnscannedTransactions \/ FailDelete

Next ==
  \/ \E w \in Workers : StartScan(w) \/ BatchExtractTransaction(w)
  \/ RescanFailedTransactions
  \/ \E b \in Blocks : Rewind(b)
  \/ \E t \in Txs : ExtractTransactionData(t)

Spec == Init /\ [][Next]_vars

\* A worker that has started goes on; the timer starts the task again and again,
\* and the task ends with the retry after however many blocks it scanned.
Fairness ==
  /\ \A w \in Workers : WF_vars(BatchExtractTransaction(w))
  /\ SF_vars(StartRetry) /\ WF_vars(RescanFailedTransactions)

FairSpec == Spec /\ Fairness

-----------------------------------------------------------------------------
TypeOK ==
  /\ unscanned \subseteq Txs
  /\ pc \in [Workers -> Steps]
  /\ batch \in [Workers -> SUBSET Txs]
  /\ cur \in [Workers -> Txs \union {NoTx}]
  /\ pending \in [Workers -> SUBSET (Txs \X Observers \X Data)]
  /\ taken \subseteq Txs
  /\ owed \subseteq Txs \X Observers \X Data
  /\ resaved \in BOOLEAN
  /\ spent \in [Kinds -> Nat]

\* Whoever could not be notified will be: the transaction of every notification
\* that failed has a record ("record the block that was not scanned",
\* newExtractDataNotify).
FailuresRecorded == \A n \in owed : n[1] \in unscanned

\* The same as long as no transaction fails again, or for a host, while it is
\* being retried.
FirstFailuresRecorded == ~resaved => FailuresRecorded

\* Once the failures stop, every record is retried and deleted.
RecordsDrain == <>[](unscanned = {})
=============================================================================
