------------------------- MODULE TxExtractionProofs -------------------------
(***************************************************************************)
(* Machine-checked proofs about TxExtraction: its type invariant, and that *)
(* a notification that failed is recorded until it is made, as long as     *)
(* nothing fails again while it is being retried.  And about HostBooks:    *)
(* the observers are told everything of a transaction that is looked at    *)
(* and has no record, the data extracted from a plain transaction are the  *)
(* node's account of it, and so the observers keep complete books.         *)
(***************************************************************************)
EXTENDS HostBooks, FiniteSetTheorems, TLAPS

\* What a worker has still to notify belongs to the transaction it is at.
ShapeInv ==
  /\ \A w \in Workers : \A n \in pending[w] : cur[w] # NoTx /\ n \in Notifications(cur[w])
  /\ \A n \in owed : n \in Notifications(n[1])
  /\ pc["task"] \in {"idle", "scan"} => taken = {}
  /\ pc["task"] = "retry" => batch["task"] \subseteq taken

TypeInv == TypeOK /\ ShapeInv

\* What the retry has already looked at is no longer owed; only then are the
\* records deleted.
RetriedInv ==
  ~resaved =>
    /\ FailuresRecorded
    /\ pc["task"] = "retry" =>
         \A n \in owed :
           n[1] \in taken => n[1] \in batch["task"] \/ n \in pending["task"]
    /\ pc["task"] = "delete" => \A n \in owed : n[1] \notin taken

LEMMA NotificationsType ==
  ASSUME NEW t \in Txs
  PROVE  /\ Notifications(t) \subseteq Txs \X Observers \X Data
         /\ \A n \in Notifications(t) : n[1] = t
BY ExtractionAssumption DEF Notifications

LEMMA HappensType ==
  ASSUME NEW kind \in Kinds, Happens(kind), spent \in [Kinds -> Nat]
  PROVE  spent' \in [Kinds -> Nat]
BY DEF Happens

\* A worker whose function returns has nothing left to do.
LEMMA ReturnTypeInv ==
  ASSUME TypeInv, NEW w \in Workers, Return(w), UNCHANGED owed,
         unscanned' \subseteq Txs, UNCHANGED resaved, spent' \in [Kinds -> Nat]
  PROVE  TypeInv'
<1>1. TypeOK'
  BY DEF TypeInv, TypeOK, Return, Steps
<1>2. ShapeInv'
  BY DEF TypeInv, TypeOK, ShapeInv, Return, Workers
<1> QED
  BY <1>1, <1>2 DEF TypeInv

-----------------------------------------------------------------------------
(* Types.                                                                  *)

LEMMA InitTypeInv == Init => TypeInv
<1> SUFFICES ASSUME Init PROVE TypeInv
  OBVIOUS
<1>1. TypeOK
  BY DEF Init, TypeOK, Steps
<1>2. ShapeInv
  BY DEF Init, ShapeInv, Workers
<1> QED
  BY <1>1, <1>2 DEF TypeInv

LEMMA NextTypeInv == TypeInv /\ [Next]_vars => TypeInv'
<1> SUFFICES ASSUME TypeInv, [Next]_vars PROVE TypeInv'
  OBVIOUS
<1> USE DEF TypeInv
<1>0. CASE UNCHANGED vars
  BY <1>0 DEF TypeOK, ShapeInv, vars, work, history
<1>1. ASSUME NEW w \in Workers, StartScan(w) PROVE TypeInv'
  <2>1. TypeOK'
    BY <1>1 DEF StartScan, TypeOK, Steps, history
  <2>2. ShapeInv'
    BY <1>1 DEF StartScan, TypeOK, ShapeInv, history, Workers
  <2> QED
    BY <2>1, <2>2
<1>2. ASSUME NEW w \in Workers, FetchReceipt(w) PROVE TypeInv'
  <2>1. PICK t \in batch[w] :
          /\ cur' = [cur EXCEPT ![w] = t]
          /\ batch' = [batch EXCEPT ![w] = @ \ {t}]
          /\ pending' = [pending EXCEPT ![w] = Notifications(t)]
    BY <1>2 DEF FetchReceipt
  <2>2. t \in Txs
    BY <2>1 DEF TypeOK
  <2>3. TypeOK'
    BY <1>2, <2>1, <2>2, NotificationsType DEF FetchReceipt, TypeOK, history
  <2>4. ShapeInv'
    BY <1>2, <2>1, <2>2, ExtractionAssumption
    DEF FetchReceipt, TypeOK, ShapeInv, history, Workers
  <2> QED
    BY <2>3, <2>4
<1>3. ASSUME NEW w \in Workers, NullReceipt(w) PROVE TypeInv'
  <2>1. PICK t \in batch[w] :
          Save(t, Notifications(t)) /\ batch' = [batch EXCEPT ![w] = @ \ {t}]
    BY <1>3 DEF NullReceipt
  <2>2. t \in Txs
    BY <2>1 DEF TypeOK
  <2>3. TypeOK'
    BY <1>3, <2>1, <2>2, NotificationsType, HappensType
    DEF NullReceipt, TypeOK, Save, Kinds
  <2>4. ShapeInv'
    BY <1>3, <2>1, <2>2, NotificationsType
    DEF NullReceipt, TypeOK, ShapeInv, Save, Workers
  <2> QED
    BY <2>3, <2>4
<1>4. ASSUME NEW w \in Workers, Notify(w) PROVE TypeInv'
  BY <1>4 DEF Notify, TypeOK, ShapeInv
<1>5. ASSUME NEW w \in Workers, NotifyFails(w) PROVE TypeInv'
  <2>1. PICK n \in pending[w] :
          Save(cur[w], {n}) /\ pending' = [pending EXCEPT ![w] = @ \ {n}]
    BY <1>5 DEF NotifyFails
  <2>2. cur[w] \in Txs /\ n \in Notifications(cur[w])
    BY <2>1 DEF ShapeInv, TypeOK
  <2>3. TypeOK'
    BY <1>5, <2>1, <2>2, NotificationsType, HappensType
    DEF NotifyFails, TypeOK, Save, Kinds
  <2>4. ShapeInv'
    BY <1>5, <2>1, <2>2, NotificationsType DEF NotifyFails, TypeOK, ShapeInv, Save
  <2> QED
    BY <2>3, <2>4
<1>6. ASSUME NEW w \in Workers, NextTx(w) PROVE TypeInv'
  BY <1>6 DEF NextTx, TypeOK, ShapeInv, history
<1>7. ASSUME NEW w \in Workers, FailBatch(w) PROVE TypeInv'
  BY <1>7, ReturnTypeInv, HappensType DEF FailBatch, TypeOK, Kinds, history
<1>8. ASSUME NEW w \in Workers, EndScan(w) PROVE TypeInv'
  BY <1>8, ReturnTypeInv DEF EndScan, TypeOK, history
<1>9. CASE StartRetry
  <2>1. TypeOK'
    BY <1>9 DEF StartRetry, TypeOK, Workers, Steps, history
  <2>2. ShapeInv'
    BY <1>9 DEF StartRetry, TypeOK, ShapeInv, Workers, history
  <2> QED
    BY <2>1, <2>2
<1>10. CASE EndRetry
  BY <1>10 DEF EndRetry, TypeOK, ShapeInv, Workers, Steps, history
<1>11. CASE DeleteUnscannedTransactions
  BY <1>11, ReturnTypeInv DEF DeleteUnscannedTransactions, TypeOK, Workers, history
<1>12. CASE FailDelete
  BY <1>12, ReturnTypeInv, HappensType DEF FailDelete, TypeOK, Kinds, Workers, history
<1>13. ASSUME NEW b \in Blocks, Rewind(b) PROVE TypeInv'
  <2>1. /\ owed' \subseteq owed /\ unscanned' \subseteq unscanned
        /\ UNCHANGED <<work, taken, resaved>>
    BY <1>13 DEF Rewind
  <2>2. spent' \in [Kinds -> Nat]
    BY <1>13, HappensType DEF Rewind, TypeOK, Kinds
  <2> QED
    BY <2>1, <2>2 DEF TypeOK, ShapeInv, work
<1>14. ASSUME NEW t \in Txs, ExtractTransactionData(t) PROVE TypeInv'
  <2>1. /\ unscanned' = unscanned \union {t} /\ owed' = owed
        /\ resaved' \in BOOLEAN /\ UNCHANGED <<work, taken>>
    BY <1>14 DEF ExtractTransactionData, Save, TypeOK
  <2>2. spent' \in [Kinds -> Nat]
    BY <1>14, HappensType DEF ExtractTransactionData, TypeOK, Kinds
  <2> QED
    BY <2>1, <2>2 DEF TypeOK, ShapeInv, work
<1> QED
  BY <1>0, <1>1, <1>2, <1>3, <1>4, <1>5, <1>6, <1>7, <1>8, <1>9, <1>10, <1>11,
     <1>12, <1>13, <1>14
  DEF Next, BatchExtractTransaction, TransactionScanning, newExtractDataNotify,
      RescanFailedTransactions

LEMMA SpecTypeInv == Spec => []TypeInv
<1> QED
  BY InitTypeInv, NextTypeInv, PTL DEF Spec

\* Every variable of the extraction keeps its type, through every failure of
\* BatchExtractTransaction and RescanFailedTransactions.
THEOREM ExtractionTypes == Spec => []TypeOK
<1>1. TypeInv => TypeOK
  BY DEF TypeInv
<1> QED
  BY <1>1, SpecTypeInv, PTL

-----------------------------------------------------------------------------
(* Failures are recorded.                                                  *)

LEMMA InitRetriedInv == Init => RetriedInv
BY DEF Init, RetriedInv, FailuresRecorded

\* A worker that saves a transaction: it is new to the retry, or the record is
\* overwritten during the retry and nothing is claimed.
LEMMA SaveRetriedInv ==
  ASSUME TypeInv, RetriedInv, NEW t \in Txs, NEW ns \in SUBSET Notifications(t),
         Save(t, ns), UNCHANGED <<pc, taken>>,
         \A n \in owed : /\ n[1] \in batch["task"] => n[1] = t \/ n[1] \in batch'["task"]
                         /\ n \in pending["task"] => n[1] = t \/ n \in pending'["task"]
  PROVE  RetriedInv'
<1>1. CASE t \in taken
  BY <1>1 DEF Save, RetriedInv, TypeInv, TypeOK
<1>2. CASE t \notin taken
  <2>1. \A n \in ns : n[1] = t
    BY NotificationsType
  <2> QED
    BY <1>2, <2>1 DEF Save, RetriedInv, FailuresRecorded, TypeInv, TypeOK
<1> QED
  BY <1>1, <1>2

LEMMA ReturnRetriedInv ==
  ASSUME TypeInv, RetriedInv, NEW w \in Workers, Return(w),
         UNCHANGED <<unscanned, owed, resaved>>
  PROVE  RetriedInv'
BY DEF Return, RetriedInv, FailuresRecorded, TypeInv, TypeOK, Workers

LEMMA NextRetriedInv == TypeInv /\ RetriedInv /\ [Next]_vars => RetriedInv'
<1> SUFFICES ASSUME TypeInv, RetriedInv, [Next]_vars PROVE RetriedInv'
  OBVIOUS
<1>0. CASE UNCHANGED vars
  BY <1>0 DEF RetriedInv, FailuresRecorded, vars, work, history
<1>1. ASSUME NEW w \in Workers, StartScan(w) PROVE RetriedInv'
  BY <1>1 DEF StartScan, RetriedInv, FailuresRecorded, TypeInv, TypeOK, Workers, history
<1>2. ASSUME NEW w \in Workers, FetchReceipt(w) PROVE RetriedInv'
  <2>1. PICK t \in batch[w] :
          /\ cur' = [cur EXCEPT ![w] = t]
          /\ batch' = [batch EXCEPT ![w] = @ \ {t}]
          /\ pending' = [pending EXCEPT ![w] = Notifications(t)]
    BY <1>2 DEF FetchReceipt
  <2>2. pending[w] = {}
    BY <1>2 DEF FetchReceipt, Fetching, TypeInv, ShapeInv
  <2>3. \A n \in owed : n \in Notifications(n[1])
    BY DEF TypeInv, ShapeInv
  <2>4. UNCHANGED <<unscanned, pc, taken, history>>
    BY <1>2 DEF FetchReceipt
  <2> QED
    BY <2>1, <2>2, <2>3, <2>4
    DEF RetriedInv, FailuresRecorded, TypeInv, TypeOK, Workers, history
<1>3. ASSUME NEW w \in Workers, NullReceipt(w) PROVE RetriedInv'
  <2>1. PICK t \in batch[w] :
          Save(t, Notifications(t)) /\ batch' = [batch EXCEPT ![w] = @ \ {t}]
    BY <1>3 DEF NullReceipt
  <2>2. t \in Txs /\ UNCHANGED <<pc, taken, pending>>
    BY <1>3, <2>1 DEF NullReceipt, TypeInv, TypeOK
  <2>3. \A n \in owed : n[1] \in batch["task"] => n[1] = t \/ n[1] \in batch'["task"]
    BY <2>1 DEF TypeInv, TypeOK, Workers
  <2> QED
    BY <2>1, <2>2, <2>3, SaveRetriedInv
<1>4. ASSUME NEW w \in Workers, Notify(w) PROVE RetriedInv'
  BY <1>4 DEF Notify, RetriedInv, FailuresRecorded, TypeInv, TypeOK
<1>5. ASSUME NEW w \in Workers, NotifyFails(w) PROVE RetriedInv'
  <2>1. PICK n \in pending[w] :
          Save(cur[w], {n}) /\ pending' = [pending EXCEPT ![w] = @ \ {n}]
    BY <1>5 DEF NotifyFails
  <2>2. cur[w] \in Txs /\ n \in Notifications(cur[w])
    BY <2>1 DEF TypeInv, ShapeInv, TypeOK
  <2>3. n[1] = cur[w] /\ UNCHANGED <<pc, taken, batch>>
    BY <1>5, <2>2, NotificationsType DEF NotifyFails
  <2>4. \A m \in owed : m \in pending["task"] => m[1] = cur[w] \/ m \in pending'["task"]
    BY <2>1, <2>3 DEF TypeInv, TypeOK, Workers
  <2> QED
    BY <2>1, <2>2, <2>3, <2>4, SaveRetriedInv
<1>6. ASSUME NEW w \in Workers, NextTx(w) PROVE RetriedInv'
  BY <1>6 DEF NextTx, RetriedInv, FailuresRecorded, TypeInv, TypeOK, history
<1>7. ASSUME NEW w \in Workers, FailBatch(w) PROVE RetriedInv'
  BY <1>7, ReturnRetriedInv DEF FailBatch, history
<1>8. ASSUME NEW w \in Workers, EndScan(w) PROVE RetriedInv'
  BY <1>8, ReturnRetriedInv DEF EndScan, history
<1>9. CASE StartRetry
  BY <1>9 DEF StartRetry, RetriedInv, FailuresRecorded, TypeInv, TypeOK, Workers, history
<1>10. CASE EndRetry
  <2>1. pending["task"] = {}
    BY <1>10 DEF EndRetry, TypeInv, ShapeInv, Workers
  <2> QED
    BY <1>10, <2>1 DEF EndRetry, RetriedInv, FailuresRecorded, TypeInv, TypeOK, Workers, history
<1>11. CASE DeleteUnscannedTransactions
  BY <1>11
  DEF DeleteUnscannedTransactions, Return, RetriedInv, FailuresRecorded, TypeInv,
      TypeOK, Workers, history
<1>12. CASE FailDelete
  BY <1>12, ReturnRetriedInv DEF FailDelete, Workers, history
<1>13. ASSUME NEW b \in Blocks, Rewind(b) PROVE RetriedInv'
  <2>1. /\ unscanned' = {t \in unscanned : BlockOf[t] # b}
        /\ owed' = {n \in owed : BlockOf[n[1]] # b}
    BY <1>13 DEF Rewind
  <2>2. pc["task"] = "idle" /\ UNCHANGED <<work, taken, resaved>>
    BY <1>13 DEF Rewind
  <2> QED
    BY <2>1, <2>2 DEF RetriedInv, FailuresRecorded, work
<1>14. ASSUME NEW t \in Txs, ExtractTransactionData(t) PROVE RetriedInv'
  <2>1. Save(t, {}) /\ UNCHANGED <<pc, taken, batch, pending>>
    BY <1>14 DEF ExtractTransactionData, work
  <2> QED
    BY <2>1, SaveRetriedInv
<1> QED
  BY <1>0, <1>1, <1>2, <1>3, <1>4, <1>5, <1>6, <1>7, <1>8, <1>9, <1>10, <1>11,
     <1>12, <1>13, <1>14
  DEF Next, BatchExtractTransaction, TransactionScanning, newExtractDataNotify,
      RescanFailedTransactions

\* Unless something failed again while it was being retried, a notification that
\* an observer refused, or that a null receipt put off, is never forgotten
\* (newExtractDataNotify, RescanFailedTransactions).
THEOREM FailuresKept == Spec => []FirstFailuresRecorded
<1>1. RetriedInv => FirstFailuresRecorded
  BY DEF RetriedInv, FirstFailuresRecorded
<1>2. Spec => []RetriedInv
  BY InitRetriedInv, NextRetriedInv, SpecTypeInv, PTL DEF Spec
<1> QED
  BY <1>1, <1>2, PTL

-----------------------------------------------------------------------------
(* What the observers were told.                                           *)

\* As long as the task left no block, what a transaction has to tell was told or is
\* owed once a worker has finished with it, and before that it is still to be told.
ToldInv ==
  spent["rewind"] = 0 =>
    /\ \A t \in looked : Notifications(t) \subseteq told \union owed
    /\ \A w \in Workers :
         cur[w] # NoTx => Notifications(cur[w]) \subseteq told \union owed \union pending[w]

\* The host's steps are steps of the extraction.
LEMMA HostStep == [HostNext]_hostVars => [Next]_vars
BY DEF HostNext, hostVars, Told, Finished, PutOff, Unnoticed, Next, BatchExtractTransaction,
       TransactionScanning, newExtractDataNotify

\* No step takes a rewind back.
LEMMA RewindsGrow ==
  ASSUME TypeInv, [Next]_vars, spent'["rewind"] = 0
  PROVE  spent["rewind"] = 0 /\ \A b \in Blocks : ~Rewind(b)
<1>1. spent \in [Kinds -> Nat] /\ "rewind" \in Kinds
  BY DEF TypeInv, TypeOK, Kinds
<1>2. spent' = spent \/ \E k \in Kinds : Happens(k)
  BY DEF Next, StartScan, BatchExtractTransaction, TransactionScanning, FetchReceipt,
         NullReceipt, newExtractDataNotify, Notify, NotifyFails, NextTx, FailBatch, EndScan,
         RescanFailedTransactions, StartRetry, EndRetry, DeleteUnscannedTransactions,
         FailDelete, Rewind, ExtractTransactionData, Kinds, vars
<1> QED
  BY <1>1, <1>2 DEF Happens, Rewind

\* A step that takes nothing back, and after which no worker is at another
\* transaction or has less to tell than it told, keeps the invariant.
LEMMA ToldFrame ==
  ASSUME ToldInv, spent["rewind"] = 0, looked' = looked,
         told \union owed \subseteq told' \union owed',
         \A w \in Workers : cur'[w] # NoTx =>
           /\ cur'[w] = cur[w]
           /\ pending[w] \subseteq pending'[w] \union told' \union owed'
  PROVE  ToldInv'
BY DEF ToldInv, Notifications

\* A worker that returns is at no transaction.
LEMMA ToldReturn ==
  ASSUME TypeInv, ToldInv, spent["rewind"] = 0, NEW w \in Workers, Return(w),
         UNCHANGED <<told, looked, owed>>
  PROVE  ToldInv'
<1>1. \A v \in Workers : cur'[v] # NoTx => cur'[v] = cur[v] /\ pending'[v] = pending[v]
  BY DEF Return, TypeInv, TypeOK
<1> QED
  BY <1>1, ToldFrame

LEMMA ToldInvStep == TypeInv /\ ToldInv /\ [HostNext]_hostVars => ToldInv'
<1> SUFFICES ASSUME TypeInv, ToldInv, [HostNext]_hostVars, spent'["rewind"] = 0
             PROVE  ToldInv'
  BY DEF ToldInv
<1>0. spent["rewind"] = 0 /\ \A b \in Blocks : ~Rewind(b)
  BY HostStep, RewindsGrow
<1>1. ASSUME NEW w \in Workers, Told(w) PROVE ToldInv'
  <2>1. PICK n \in pending[w] :
          owed' = owed \ {n} /\ pending' = [pending EXCEPT ![w] = @ \ {n}]
    BY <1>1 DEF Told, Notify
  <2>2. pending[w] \ pending'[w] = {n}
    BY <2>1 DEF TypeInv, TypeOK
  <2>3. told' = told \union {n} /\ looked' = looked /\ cur' = cur
    BY <1>1, <2>2 DEF Told, Notify
  <2>4. \A v \in Workers : pending[v] \subseteq pending'[v] \union {n}
    BY <2>1 DEF TypeInv, TypeOK
  <2> QED
    BY <1>0, <2>1, <2>3, <2>4, ToldFrame
<1>2. ASSUME NEW w \in Workers, Finished(w) PROVE ToldInv'
  <2>1. /\ cur[w] # NoTx /\ pending[w] = {} /\ cur' = [cur EXCEPT ![w] = NoTx]
        /\ looked' = looked \union {cur[w]} /\ UNCHANGED <<pending, told, owed>>
    BY <1>2 DEF Finished, NextTx, history
  <2>2. \A v \in Workers : cur'[v] # NoTx => cur'[v] = cur[v]
    BY <2>1 DEF TypeInv, TypeOK
  <2> QED
    BY <1>0, <2>1, <2>2 DEF ToldInv, Notifications
<1>3. ASSUME NEW w \in Workers, PutOff(w) PROVE ToldInv'
  <2>1. PICK t \in batch[w] :
          Save(t, Notifications(t)) /\ batch' = [batch EXCEPT ![w] = @ \ {t}]
    BY <1>3 DEF PutOff, NullReceipt
  <2>2. batch[w] \ batch'[w] = {t}
    BY <2>1 DEF TypeInv, TypeOK
  <2>3. looked' = looked \union {t} /\ UNCHANGED <<cur, pending, told>>
    BY <1>3, <2>2 DEF PutOff, NullReceipt
  <2> QED
    BY <1>0, <2>1, <2>3 DEF ToldInv, Notifications, Save
<1>4. ASSUME NEW w \in Workers, Unnoticed(w) PROVE ToldInv'
  <2>0. UNCHANGED <<told, looked>>
    BY <1>4 DEF Unnoticed, books
  <2>1. CASE StartScan(w)
    BY <1>0, <2>0, <2>1, ToldFrame DEF StartScan, history
  <2>2. CASE FetchReceipt(w)
    <3>1. PICK t \in batch[w] :
            cur' = [cur EXCEPT ![w] = t] /\ pending' = [pending EXCEPT ![w] = Notifications(t)]
      BY <2>2 DEF FetchReceipt
    <3>2. /\ cur'[w] = t /\ pending'[w] = Notifications(t)
          /\ \A v \in Workers \ {w} : cur'[v] = cur[v] /\ pending'[v] = pending[v]
      BY <3>1 DEF TypeInv, TypeOK
    <3>3. owed' = owed
      BY <2>2 DEF FetchReceipt, history
    <3>4. \A x \in looked : Notifications(x) \subseteq told \union owed
      BY <1>0 DEF ToldInv
    <3>5. ASSUME NEW v \in Workers, cur'[v] # NoTx
          PROVE  Notifications(cur'[v]) \subseteq told \union owed \union pending'[v]
      BY <1>0, <3>2, <3>5 DEF ToldInv
    <3> QED
      BY <2>0, <3>3, <3>4, <3>5 DEF ToldInv, Notifications
  <2>3. CASE NotifyFails(w)
    <3>1. PICK n \in pending[w] :
            Save(cur[w], {n}) /\ pending' = [pending EXCEPT ![w] = @ \ {n}]
      BY <2>3 DEF NotifyFails
    <3>2. owed' = owed \union {n} /\ cur' = cur
      BY <2>3, <3>1 DEF NotifyFails, Save
    <3>3. \A v \in Workers : pending[v] \subseteq pending'[v] \union {n}
      BY <3>1 DEF TypeInv, TypeOK
    <3> QED
      BY <1>0, <2>0, <3>2, <3>3, ToldFrame
  <2>4. CASE FailBatch(w) \/ EndScan(w)
    BY <1>0, <2>0, <2>4, ToldReturn DEF FailBatch, EndScan, history
  <2> QED
    BY <1>4, <2>1, <2>2, <2>3, <2>4 DEF Unnoticed
<1>5. CASE RescanFailedTransactions /\ UNCHANGED books
  <2>0. UNCHANGED <<told, looked>> /\ "task" \in Workers
    BY <1>5 DEF books, Workers
  <2>1. CASE StartRetry \/ EndRetry
    BY <1>0, <2>0, <2>1, ToldFrame DEF StartRetry, EndRetry, history
  <2>2. CASE DeleteUnscannedTransactions \/ FailDelete
    BY <1>0, <2>0, <2>2, ToldReturn DEF DeleteUnscannedTransactions, FailDelete, history
  <2> QED
    BY <1>5, <2>1, <2>2 DEF RescanFailedTransactions
<1>6. ASSUME NEW t \in Txs, ExtractTransactionData(t), UNCHANGED books PROVE ToldInv'
  BY <1>0, <1>6, ToldFrame DEF ExtractTransactionData, Save, books, work
<1>7. CASE UNCHANGED hostVars
  BY <1>0, <1>7, ToldFrame DEF hostVars, vars, books, work, history
<1> QED
  BY <1>0, <1>1, <1>2, <1>3, <1>4, <1>5, <1>6, <1>7 DEF HostNext

\* Only transactions are looked at.
LookedInv == looked \subseteq Txs

LEMMA LookedInvStep == TypeInv /\ LookedInv /\ [HostNext]_hostVars => LookedInv'
<1> SUFFICES ASSUME TypeInv, LookedInv, [HostNext]_hostVars PROVE LookedInv'
  OBVIOUS
<1>1. ASSUME NEW w \in Workers, Finished(w) \/ PutOff(w) PROVE LookedInv'
  BY <1>1 DEF Finished, NextTx, PutOff, TypeInv, TypeOK, LookedInv
<1>2. CASE \A w \in Workers : ~Finished(w) /\ ~PutOff(w)
  BY <1>2 DEF HostNext, Told, Unnoticed, books, hostVars, LookedInv
<1> QED
  BY <1>1, <1>2

\* The host's runs are runs of the extraction, and keep its invariants.
LEMMA HostInvariants == HostSpec => [](TypeInv /\ RetriedInv /\ ToldInv /\ LookedInv)
<1>1. HostInit => TypeInv /\ RetriedInv /\ ToldInv /\ LookedInv
  BY InitTypeInv, InitRetriedInv DEF HostInit, ToldInv, LookedInv, Init
<1>2. TypeInv /\ RetriedInv /\ ToldInv /\ LookedInv /\ [HostNext]_hostVars
        => (TypeInv /\ RetriedInv /\ ToldInv /\ LookedInv)'
  BY HostStep, NextTypeInv, NextRetriedInv, ToldInvStep, LookedInvStep
<1> QED
  BY <1>1, <1>2, PTL DEF HostSpec

\* Everything that was to be told of t was told to everybody.
ToldInFull(t) == Notifications(t) \subseteq told

\* A transaction that a worker has finished with and that has no record was told in
\* full, to every observer, by whichever of the task, its retry and the host's scan:
\* no interleaving of the three loses a notification that failed, as long as nothing
\* failed again during a retry and the task did not go back from a block.
THEOREM LookedAtIsTold ==
  HostSpec => [](~resaved /\ spent["rewind"] = 0 =>
                   \A t \in looked \ unscanned : ToldInFull(t))
<1>1. ASSUME RetriedInv, ToldInv, ~resaved, spent["rewind"] = 0,
             NEW t \in looked, t \notin unscanned
      PROVE  ToldInFull(t)
  <2>1. Notifications(t) \subseteq told \union owed
    BY <1>1 DEF ToldInv
  <2>2. \A n \in owed : n[1] \in unscanned
    BY <1>1 DEF RetriedInv, FailuresRecorded
  <2>3. \A n \in Notifications(t) : n[1] = t
    BY DEF Notifications
  <2> QED
    BY <1>1, <2>1, <2>2, <2>3 DEF ToldInFull
<1>2. TypeInv /\ RetriedInv /\ ToldInv =>
        (~resaved /\ spent["rewind"] = 0 => \A t \in looked \ unscanned : ToldInFull(t))
  BY <1>1
<1> QED
  BY <1>2, HostInvariants, PTL

-----------------------------------------------------------------------------
(* Sums.  A fold is defined by a recursive function, whose existence is    *)
(* shown by giving it; for no, one and two records it is soon written down. *)

Sums(S, iter) ==
  [s \in SUBSET S |->
     IF s = {} THEN 0
     ELSE LET x == CHOOSE x \in s : TRUE IN x.amount + iter[s \ {x}]]

LEMMA TotalIsSum ==
  ASSUME NEW S, NEW g, g = Sums(S, g)
  PROVE  \E it : it = Sums(S, it) /\ Total(S) = it[S]
<1> DEFINE it == CHOOSE iter : iter = Sums(S, iter)
<1>1. it = Sums(S, it)
  OBVIOUS
<1>2. Total(S) = it[S]
  BY DEF Total, MapThenSumSet, MapThenFoldSet, Sums
<1> QED
  BY <1>1, <1>2

LEMMA TotalNone == Total({}) = 0
<1>1. [s \in SUBSET {} |-> 0] = Sums({}, [s \in SUBSET {} |-> 0])
  BY DEF Sums
<1>2. PICK it : it = Sums({}, it) /\ Total({}) = it[{}]
  BY <1>1, TotalIsSum
<1> QED
  BY <1>2 DEF Sums

LEMMA TotalOne ==
  ASSUME NEW x, x.amount \in Nat
  PROVE  Total({x}) = x.amount
<1> DEFINE g == [s \in SUBSET {x} |-> IF s = {} THEN 0 ELSE x.amount]
<1>1. g = Sums({x}, g)
  BY DEF Sums
<1>2. PICK it : it = Sums({x}, it) /\ Total({x}) = it[{x}]
  BY <1>1, TotalIsSum
<1>3. (CHOOSE z \in {x} : TRUE) = x /\ {x} \ {x} = {} /\ {x} # {}
  OBVIOUS
<1>4. it[{x}] = x.amount + it[{}] /\ it[{}] = 0
  BY <1>2, <1>3 DEF Sums
<1> QED
  BY <1>2, <1>4

LEMMA TotalTwo ==
  ASSUME NEW x, NEW y, x # y, x.amount \in Nat, y.amount \in Nat
  PROVE  Total({x, y}) = x.amount + y.amount
<1> DEFINE g == [s \in SUBSET {x, y} |->
                   IF s = {} THEN 0 ELSE IF s = {x} THEN x.amount
                   ELSE IF s = {y} THEN y.amount ELSE x.amount + y.amount]
           z == CHOOSE z \in {x, y} : TRUE
<1>1. /\ g[{}] = 0 /\ g[{x}] = x.amount /\ g[{y}] = y.amount
      /\ g[{x, y}] = x.amount + y.amount
  OBVIOUS
<1>2. z \in {x, y}
  OBVIOUS
<1>3. /\ {x, y} \ {x} = {y} /\ {x, y} \ {y} = {x} /\ {x} \ {x} = {} /\ {y} \ {y} = {}
      /\ (CHOOSE u \in {x} : TRUE) = x /\ (CHOOSE u \in {y} : TRUE) = y
  OBVIOUS
<1>4. SUBSET {x, y} = {{}, {x}, {y}, {x, y}}
  OBVIOUS
<1>5. ASSUME NEW f, f = Sums({x, y}, f)
      PROVE  /\ f[{}] = 0
             /\ f[{x}] = x.amount + f[{}]
             /\ f[{y}] = y.amount + f[{}]
             /\ f[{x, y}] = z.amount + f[{x, y} \ {z}]
  BY <1>3, <1>5 DEF Sums
<1>6. /\ Sums({x, y}, g)[{}] = 0
      /\ Sums({x, y}, g)[{x}] = x.amount + g[{}]
      /\ Sums({x, y}, g)[{y}] = y.amount + g[{}]
      /\ Sums({x, y}, g)[{x, y}] = z.amount + g[{x, y} \ {z}]
  BY <1>3 DEF Sums
<1>7. /\ DOMAIN g = SUBSET {x, y} /\ DOMAIN Sums({x, y}, g) = SUBSET {x, y}
      /\ g = [s \in SUBSET {x, y} |-> g[s]]
      /\ Sums({x, y}, g) = [s \in SUBSET {x, y} |-> Sums({x, y}, g)[s]]
  BY DEF Sums
<1> HIDE DEF g, z
<1>8. /\ z.amount + g[{x, y} \ {z}] = x.amount + y.amount
      /\ \A f : f[{}] = 0 /\ f[{x}] = x.amount + f[{}] /\ f[{y}] = y.amount + f[{}]
               => z.amount + f[{x, y} \ {z}] = x.amount + y.amount
  <2>1. CASE z = x
    <3>1. z.amount = x.amount /\ {x, y} \ {z} = {y}
      BY <2>1, <1>3
    <3>2. g[{x, y} \ {z}] = y.amount /\ \A f : f[{x, y} \ {z}] = f[{y}]
      BY <1>1, <3>1
    <3>3. y.amount + 0 = y.amount
      OBVIOUS
    <3> QED
      BY <3>1, <3>2, <3>3
  <2>2. CASE z = y
    <3>1. z.amount = y.amount /\ {x, y} \ {z} = {x}
      BY <2>2, <1>3
    <3>2. g[{x, y} \ {z}] = x.amount /\ \A f : f[{x, y} \ {z}] = f[{x}]
      BY <1>1, <3>1
    <3>3. y.amount + x.amount = x.amount + y.amount /\ x.amount + 0 = x.amount
      OBVIOUS
    <3> QED
      BY <3>1, <3>2, <3>3
  <2> QED
    BY <1>2, <2>1, <2>2
<1>9. g = Sums({x, y}, g)
  <2>1. ASSUME NEW s \in SUBSET {x, y} PROVE g[s] = Sums({x, y}, g)[s]
    <3>1. s = {} \/ s = {x} \/ s = {y} \/ s = {x, y}
      OBVIOUS
    <3>2. g[{}] = 0 /\ g[{x}] = x.amount + g[{}] /\ g[{y}] = y.amount + g[{}]
      BY <1>1
    <3> QED
      BY <1>1, <1>6, <1>8, <3>1, <3>2
  <2> QED
    BY <1>7, <2>1
<1>10. PICK it : it = Sums({x, y}, it) /\ Total({x, y}) = it[{x, y}]
  BY <1>9, TotalIsSum
<1>11. /\ it[{}] = 0 /\ it[{x}] = x.amount + it[{}] /\ it[{y}] = y.amount + it[{}]
       /\ it[{x, y}] = z.amount + it[{x, y} \ {z}]
  BY <1>5, <1>10
<1> QED
  BY <1>8, <1>10, <1>11

LEMMA NoValues ==
  ASSUME NEW logs
  PROVE  SumOfValues(logs, {}) = 0
<1> DEFINE F(f) == [s \in SUBSET {} |->
                      IF s = {} THEN 0
                      ELSE LET i == CHOOSE i \in s : TRUE IN logs[i].value + f[s \ {i}]]
           it == CHOOSE f : f = F(f)
<1>1. [s \in SUBSET {} |-> 0] = F([s \in SUBSET {} |-> 0])
  OBVIOUS
<1>2. it = F(it)
  BY <1>1
<1>3. SumOfValues(logs, {}) = it[{}]
  BY DEF SumOfValues, MapThenSumSet, MapThenFoldSet
<1> HIDE DEF it
<1> QED
  BY <1>2, <1>3

LEMMA OneValue ==
  ASSUME NEW logs, NEW i, logs[i].value \in Nat
  PROVE  SumOfValues(logs, {i}) = logs[i].value
<1> DEFINE F(f) == [s \in SUBSET {i} |->
                      IF s = {} THEN 0
                      ELSE LET j == CHOOSE j \in s : TRUE IN logs[j].value + f[s \ {j}]]
           g  == [s \in SUBSET {i} |-> IF s = {} THEN 0 ELSE logs[i].value]
           it == CHOOSE f : f = F(f)
<1>1. g = F(g)
  OBVIOUS
<1>2. it = F(it)
  BY <1>1
<1>3. SumOfValues(logs, {i}) = it[{i}]
  BY DEF SumOfValues, MapThenSumSet, MapThenFoldSet
<1>4. (CHOOSE j \in {i} : TRUE) = i /\ {i} \ {i} = {} /\ {i} # {}
  OBVIOUS
<1> HIDE DEF it
<1>5. it[{i}] = logs[i].value + it[{}] /\ it[{}] = 0
  BY <1>2, <1>4
<1> QED
  BY <1>3, <1>5

-----------------------------------------------------------------------------
(* Amounts.                                                                *)

LEMMA Division ==
  ASSUME NEW a \in Int, NEW b \in Nat \ {0}
  PROVE  /\ a \div b \in Int
         /\ b * (a \div b) <= a
         /\ a < b * (a \div b) + b
OBVIOUS

\* What is told of an amount of the coin is off by half a unit at most.
LEMMA EthStringIsClose ==
  ASSUME NEW wei \in Nat
  PROVE  /\ EthString(wei) \in Nat
         /\ 2 * (EthString(wei) - wei) <= Unit
         /\ 2 * (wei - EthString(wei)) <= Unit
<1> DEFINE q == (2 * wei + Unit) \div (2 * Unit)
<1>1. Unit \in Nat \ {0} /\ 2 * wei + Unit \in Int /\ 2 * Unit \in Nat \ {0}
  BY DataAssumption
<1>2. q \in Int /\ (2 * Unit) * q <= 2 * wei + Unit /\ 2 * wei + Unit < (2 * Unit) * q + 2 * Unit
  BY <1>1, Division
<1> HIDE DEF q
<1>3. Unit * q \in Int /\ (2 * Unit) * q = 2 * (Unit * q)
  BY <1>1, <1>2
<1>4. EthString(wei) = Unit * q
  BY DEF EthString, Rounded, q
<1>5. q >= 0
  <2>1. ASSUME q <= -1 PROVE FALSE
    <3>1. (2 * Unit) * q <= (2 * Unit) * (-1)
      BY <1>1, <1>2, <2>1
    <3> QED
      BY <1>1, <1>2, <3>1
  <2> QED
    BY <1>2, <2>1
<1>6. Unit * q >= 0
  BY <1>1, <1>2, <1>5
<1> QED
  BY <1>1, <1>2, <1>3, <1>4, <1>6

LEMMA FeeIsNat ==
  ASSUME NEW tx \in Transaction, NEW receipt \in Receipt
  PROVE  tx.gasPrice * receipt.gasUsed \in Nat
<1>1. tx.gasPrice \in Nat /\ receipt.gasUsed \in Nat
  BY DEF Transaction, Receipt
<1>2. \A m, n \in Nat : m * n \in Nat
  OBVIOUS
<1> QED
  BY <1>1, <1>2

-----------------------------------------------------------------------------
(* The ids of the records.                                                 *)

HasHash(data, hash) == \A d \in data : \A r \in d.inputs \union d.outputs : r.sid[1] = hash

\* Every record made for a transaction carries its hash.
LEMMA MadeFromHash ==
  ASSUME NEW tx, NEW event
  PROVE  HasHash(MakeFromExtractData(tx, event), tx.hash)
BY DEF HasHash, MakeFromExtractData, MakeSimpleTxFromExtractData, MakeTokenTxFromExtractData,
       TxExtractData, Recharge

LEMMA MadeToHash ==
  ASSUME NEW tx, NEW event
  PROVE  HasHash(MakeToExtractData(tx, event), tx.hash)
BY DEF HasHash, MakeToExtractData, MakeSimpleToExtractData, MakeTokenToExtractData,
       TxExtractData, Recharge

\* The data of a sender are records.
IsData(s) ==
  s = [wxid |-> s.wxid, to |-> s.to, status |-> s.status,
       inputs |-> s.inputs, outputs |-> s.outputs]

LEMMA MadeFromData ==
  ASSUME NEW tx, NEW event, NEW s \in MakeFromExtractData(tx, event)
  PROVE  IsData(s)
BY DEF IsData, MakeFromExtractData, MakeSimpleTxFromExtractData, MakeTokenTxFromExtractData,
       TxExtractData

LEMMA MergedHash ==
  ASSUME NEW hash, NEW sent, NEW received, HasHash(sent, hash), HasHash(received, hash),
         \A s \in sent : IsData(s)
  PROVE  HasHash(Merged(sent, received), hash)
<1> SUFFICES ASSUME NEW s \in sent, \E r \in received : r.to = s.to
             PROVE  LET c == CHOOSE r \in received : r.to = s.to
                        d == [s EXCEPT !.outputs = c.outputs]
                    IN \A r \in d.inputs \union d.outputs : r.sid[1] = hash
  BY DEF HasHash, Merged
<1> DEFINE c == CHOOSE r \in received : r.to = s.to
           d == [s EXCEPT !.outputs = c.outputs]
<1>1. c \in received
  OBVIOUS
<1>2. d.inputs = s.inputs /\ d.outputs = c.outputs
  <2> HIDE DEF c
  <2>1. IsData(s)
    OBVIOUS
  <2> QED
    BY <2>1 DEF IsData
<1> HIDE DEF c, d
<1>3. \A r \in d.inputs \union d.outputs : r.sid[1] = hash
  BY <1>1, <1>2 DEF HasHash
<1> QED
  BY <1>3 DEF c, d

LEMMA ExtractedHash ==
  ASSUME NEW t \in Txs, NEW d \in Extracted[t], NEW r \in d[2].inputs \union d[2].outputs
  PROVE  r.sid[1] = Content[t].tx.hash
<1> DEFINE receipt  == Content[t].receipt
           tx       == UpdateTxByReceipt(Content[t].tx, receipt)
           event    == ParseTransferEvent(receipt.logs)
           sent     == MakeFromExtractData(tx, event)
           received == MakeToExtractData(tx, event)
           from     == Key(Sender(tx, event))
           to       == Key(Receiver(tx, event))
<1>1. tx.hash = Content[t].tx.hash
  BY HostAssumption DEF UpdateTxByReceipt
<1>2. d \in IF from = to THEN from \X Merged(sent, received)
                         ELSE (from \X sent) \union (to \X received)
  BY DEF Extracted, ExtractResult
<1>3. d[2] \in Merged(sent, received) \union sent \union received
  <2> HIDE DEF sent, received, from, to
  <2> QED
    BY <1>2
<1>4. /\ HasHash(sent, tx.hash) /\ HasHash(received, tx.hash)
      /\ \A s \in sent : IsData(s)
  BY MadeFromHash, MadeToHash, MadeFromData
<1>5. HasHash(Merged(sent, received), tx.hash)
  <2> HIDE DEF sent, received, tx
  <2> QED
    BY <1>4, MergedHash
<1> HIDE DEF sent, received, tx
<1> QED
  BY <1>1, <1>3, <1>4, <1>5 DEF HasHash

-----------------------------------------------------------------------------
(* The records of a plain transaction.                                     *)

IfWatched(a, S) == IF a \in Watched THEN S ELSE {}

Outcome(a, b, sent, r) ==
  IF Key(a) = Key(b) THEN Key(a) \X Merged(sent, {r})
                     ELSE (Key(a) \X sent) \union (Key(b) \X {r})

\* One account at both ends or two, one of them unknown or both: the host is told
\* what the sender sent if it knows the sender, and what the receiver received if it
\* knows the receiver.
LEMMA ResultRecords ==
  ASSUME NEW a, NEW b, NEW sent, NEW r,
         \A s \in sent : IsData(s) /\ s.outputs = {},
         \E s \in sent : s.to = r.to,
         r.inputs = {}
  PROVE  Recharges(Outcome(a, b, sent, r))
           = IfWatched(a, UNION {s.inputs : s \in sent}) \union IfWatched(b, r.outputs)
<1> DEFINE data == Outcome(a, b, sent, r)
           M(s) == IF \E q \in {r} : q.to = s.to
                   THEN [s EXCEPT !.outputs = (CHOOSE q \in {r} : q.to = s.to).outputs]
                   ELSE s
<1>1. ASSUME NEW s \in sent
      PROVE  M(s).inputs = s.inputs /\ M(s).outputs = IF s.to = r.to THEN r.outputs ELSE {}
  <2>1. IsData(s) /\ s.outputs = {}
    OBVIOUS
  <2>2. s.to = r.to => (CHOOSE q \in {r} : q.to = s.to) = r
    OBVIOUS
  <2>3. CASE s.to = r.to
    <3>1. M(s) = [s EXCEPT !.outputs = r.outputs]
      BY <2>2, <2>3
    <3> QED
      BY <2>1, <2>3, <3>1 DEF IsData
  <2>4. CASE s.to # r.to
    BY <2>1, <2>4
  <2> QED
    BY <2>3, <2>4
<1>2. Merged(sent, {r}) = {M(s) : s \in sent}
  BY DEF Merged
<1> HIDE DEF M, data
<1>3. /\ Key(a) = IF a \in Watched THEN {KeyOf[a]} ELSE {}
      /\ Key(b) = IF b \in Watched THEN {KeyOf[b]} ELSE {}
  BY DEF Key
<1>4. CASE Key(a) = Key(b)
  <2>1. data = Key(a) \X {M(s) : s \in sent}
    BY <1>2, <1>4 DEF Outcome, data
  <2>2. (a \in Watched) <=> (b \in Watched)
    BY <1>3, <1>4
  <2>3. CASE a \notin Watched
    <3>1. data = {}
      BY <1>3, <2>1, <2>3
    <3> QED
      BY <2>2, <2>3, <3>1 DEF Recharges, IfWatched, data
  <2>4. CASE a \in Watched
    <3>1. Recharges(data) = UNION {M(s).inputs \union M(s).outputs : s \in sent}
      <4>1. data = {<<KeyOf[a], M(s)>> : s \in sent}
        BY <1>3, <2>1, <2>4
      <4>2. ASSUME NEW x \in Recharges(data)
            PROVE  x \in UNION {M(s).inputs \union M(s).outputs : s \in sent}
        BY <4>1, <4>2 DEF Recharges
      <4>3. ASSUME NEW s \in sent, NEW x \in M(s).inputs \union M(s).outputs
            PROVE  x \in Recharges(data)
        <5> DEFINE d == <<KeyOf[a], M(s)>>
        <5>1. d \in data /\ d[2] = M(s)
          BY <4>1
        <5> HIDE DEF d
        <5> QED
          BY <5>1 DEF Recharges
      <4> QED
        BY <4>2, <4>3
    <3>2. ASSUME NEW x
          PROVE  x \in UNION {M(s).inputs \union M(s).outputs : s \in sent}
                   <=> x \in UNION {s.inputs : s \in sent} \/ x \in r.outputs
      <4>1. PICK first \in sent : first.to = r.to
        OBVIOUS
      <4>2. M(first).outputs = r.outputs
        BY <1>1, <4>1
      <4> QED
        BY <1>1, <4>2
    <3>3. \A S : IfWatched(a, S) = S /\ IfWatched(b, S) = S
      BY <2>2, <2>4 DEF IfWatched
    <3> QED
      BY <3>1, <3>2, <3>3 DEF data
  <2> QED
    BY <2>3, <2>4
<1>5. CASE Key(a) # Key(b)
  <2>1. Recharges(data) = Recharges(Key(a) \X sent) \union Recharges(Key(b) \X {r})
    BY <1>5 DEF Recharges, Outcome, data
  <2>2. Recharges(Key(a) \X sent) = IfWatched(a, UNION {s.inputs : s \in sent})
    <3>1. CASE a \notin Watched
      <4>1. Key(a) \X sent = {}
        BY <1>3, <3>1
      <4> QED
        BY <3>1, <4>1 DEF Recharges, IfWatched
    <3>2. CASE a \in Watched
      <4>1. Key(a) \X sent = {<<KeyOf[a], s>> : s \in sent}
        BY <1>3, <3>2
      <4>2. ASSUME NEW s \in sent, NEW x \in s.inputs
            PROVE  x \in Recharges(Key(a) \X sent)
        <5>1. <<KeyOf[a], s>> \in Key(a) \X sent
          BY <4>1
        <5> QED
          BY <5>1 DEF Recharges
      <4>3. ASSUME NEW x \in Recharges(Key(a) \X sent)
            PROVE  x \in UNION {s.inputs : s \in sent}
        BY <4>1, <4>3 DEF Recharges
      <4> QED
        BY <3>2, <4>2, <4>3 DEF IfWatched
    <3> QED
      BY <3>1, <3>2
  <2>3. Recharges(Key(b) \X {r}) = IfWatched(b, r.outputs)
    <3>1. CASE b \notin Watched
      <4>1. Key(b) \X {r} = {}
        BY <1>3, <3>1
      <4> QED
        BY <3>1, <4>1 DEF Recharges, IfWatched
    <3>2. CASE b \in Watched
      <4>1. Key(b) \X {r} = {<<KeyOf[b], r>>}
        BY <1>3, <3>2
      <4>2. Recharges({<<KeyOf[b], r>>}) = r.inputs \union r.outputs
        BY DEF Recharges
      <4> QED
        BY <3>2, <4>1, <4>2 DEF IfWatched
    <3> QED
      BY <3>1, <3>2
  <2> QED
    BY <2>1, <2>2, <2>3 DEF data
<1> QED
  BY <1>4, <1>5 DEF data

Named(data) == \A d, e \in data : Name(d) = Name(e) => d = e

\* No two pieces of the data have one name, unless two of what the sender sent had.
LEMMA ResultNames ==
  ASSUME NEW a, NEW b, NEW sent, NEW r,
         \A s \in sent : IsData(s),
         \A s, q \in sent : s.wxid = q.wxid => s = q
  PROVE  Named(Outcome(a, b, sent, r))
<1> DEFINE M(s) == IF \E q \in {r} : q.to = s.to
                   THEN [s EXCEPT !.outputs = (CHOOSE q \in {r} : q.to = s.to).outputs]
                   ELSE s
<1>1. ASSUME NEW s \in sent PROVE M(s).wxid = s.wxid
  <2>1. IsData(s)
    OBVIOUS
  <2> DEFINE c == CHOOSE q \in {r} : q.to = s.to
  <2>2. [s EXCEPT !.outputs = c.outputs].wxid = s.wxid
    <3> HIDE DEF c
    <3> QED
      BY <2>1 DEF IsData
  <2> QED
    BY <2>2
<1>2. Merged(sent, {r}) = {M(s) : s \in sent}
  BY DEF Merged
<1> HIDE DEF M
<1>3. /\ Key(a) = IF a \in Watched THEN {KeyOf[a]} ELSE {}
      /\ Key(b) = IF b \in Watched THEN {KeyOf[b]} ELSE {}
  BY DEF Key
<1>4. CASE Key(a) = Key(b)
  <2>1. Outcome(a, b, sent, r) = Key(a) \X {M(s) : s \in sent}
    BY <1>2, <1>4 DEF Outcome
  <2>2. ASSUME NEW d \in Key(a) \X {M(s) : s \in sent}, NEW e \in Key(a) \X {M(s) : s \in sent},
               d[1] = e[1], d[2].wxid = e[2].wxid
        PROVE  d = e
    BY <1>1, <2>2
  <2> QED
    BY <2>1, <2>2 DEF Named, Name
<1>5. CASE Key(a) # Key(b)
  <2>1. Outcome(a, b, sent, r) = (Key(a) \X sent) \union (Key(b) \X {r})
    BY <1>5 DEF Outcome
  <2>2. ASSUME NEW d \in (Key(a) \X sent) \union (Key(b) \X {r}),
               NEW e \in (Key(a) \X sent) \union (Key(b) \X {r}),
               d[1] = e[1], d[2].wxid = e[2].wxid
        PROVE  d = e
    <3>1. Key(a) \intersect Key(b) = {}
      BY <1>3, <1>5
    <3> QED
      BY <2>2, <3>1
  <2> QED
    BY <2>1, <2>2 DEF Named, Name
<1> QED
  BY <1>4, <1>5

LEMMA UpdatedTx ==
  ASSUME NEW tx \in Transaction, NEW receipt \in Receipt
  PROVE  LET u == UpdateTxByReceipt(tx, receipt) IN
           /\ u.hash = tx.hash /\ u.from = tx.from /\ u.to = tx.to /\ u.value = tx.value
           /\ TxFee(u) = EthString(tx.gasPrice * receipt.gasUsed)
BY DEF UpdateTxByReceipt, TxFee, Transaction

\* A transfer of the coin.
SimpleIn(u)  == {Recharge(u, "in", Native, 0, u.from, EthString(u.value)),
                 Recharge(u, "in", Native, 1, u.from, TxFee(u))}
SimpleOut(u) == {Recharge(u, "out", Native, 0, u.to, EthString(u.value))}

LEMMA SimpleRecords ==
  ASSUME NEW tx \in Transaction, NEW receipt \in Receipt, Transfers(receipt.logs) = {}
  PROVE  LET u == UpdateTxByReceipt(tx, receipt) IN
         /\ Recharges(ExtractResult(tx, receipt))
              = IfWatched(u.from, SimpleIn(u)) \union IfWatched(u.to, SimpleOut(u))
         /\ Named(ExtractResult(tx, receipt))
<1> DEFINE u    == UpdateTxByReceipt(tx, receipt)
           s    == TxExtractData(u, Native, u.to, EthString(u.value), SimpleIn(u), {})
           r    == TxExtractData(u, Native, u.to, EthString(u.value), {}, SimpleOut(u))
           data == ExtractResult(tx, receipt)
<1>1. ParseTransferEvent(receipt.logs) = NoEvent
  BY DEF ParseTransferEvent
<1>2. /\ MakeFromExtractData(u, NoEvent) = {s} /\ MakeToExtractData(u, NoEvent) = {r}
      /\ Sender(u, NoEvent) = u.from /\ Receiver(u, NoEvent) = u.to
  BY DEF MakeFromExtractData, MakeToExtractData, MakeSimpleTxFromExtractData,
         MakeSimpleToExtractData, SimpleIn, SimpleOut, Sender, Receiver
<1>3. data = Outcome(u.from, u.to, {s}, r)
  BY <1>1, <1>2 DEF ExtractResult, Outcome
<1>4. /\ IsData(s) /\ s.outputs = {} /\ s.to = r.to /\ r.inputs = {}
      /\ s.inputs = SimpleIn(u) /\ r.outputs = SimpleOut(u)
  BY DEF TxExtractData, IsData
<1> HIDE DEF u, s, r, data
<1>5. Recharges(data) = IfWatched(u.from, UNION {d.inputs : d \in {s}})
                          \union IfWatched(u.to, r.outputs)
  <2>1. /\ \A d \in {s} : IsData(d) /\ d.outputs = {}
        /\ (\E d \in {s} : d.to = r.to) /\ r.inputs = {}
    BY <1>4
  <2> QED
    BY <1>3, <2>1, ResultRecords
<1>6. UNION {d.inputs : d \in {s}} = SimpleIn(u)
  BY <1>4
<1>7. Named(data)
  <2>1. (\A d \in {s} : IsData(d)) /\ (\A d, q \in {s} : d.wxid = q.wxid => d = q)
    BY <1>4
  <2> QED
    BY <1>3, <2>1, ResultNames
<1> QED
  BY <1>4, <1>5, <1>6, <1>7 DEF u, data

\* A transfer of a token.
TokenIn(u, event)  == {Recharge(u, "in", u.to, 0, u.from, event.value),
                       Recharge(u, "in", Native, 0, u.from, TxFee(u))}
TokenOut(u, event) == {Recharge(u, "out", u.to, 0, event.to, event.value)}

LEMMA TheTransfer ==
  ASSUME NEW receipt \in Receipt, NEW i \in DOMAIN receipt.logs, Transfers(receipt.logs) = {i}
  PROVE  /\ receipt.logs[i] \in Log /\ receipt.logs[i] # NoEvent
         /\ ParseTransferEvent(receipt.logs) = receipt.logs[i]
<1>1. receipt.logs \in Seq(Log) /\ i \in Nat
  BY DEF Receipt
<1>2. Min({i}) = i
  BY <1>1 DEF Min
<1> QED
  BY <1>1, <1>2, DataAssumption DEF ParseTransferEvent

LEMMA TokenRecords ==
  ASSUME NEW tx \in Transaction, NEW receipt \in Receipt, NEW i \in DOMAIN receipt.logs,
         Transfers(receipt.logs) = {i}, receipt.logs[i].contract = tx.to,
         receipt.logs[i].from = tx.from
  PROVE  LET u     == UpdateTxByReceipt(tx, receipt)
             event == receipt.logs[i]
         IN /\ Recharges(ExtractResult(tx, receipt))
                 = IfWatched(u.from, TokenIn(u, event))
                     \union IfWatched(event.to, TokenOut(u, event))
            /\ Named(ExtractResult(tx, receipt))
<1> DEFINE u     == UpdateTxByReceipt(tx, receipt)
           event == receipt.logs[i]
           x     == Recharge(u, "in", u.to, 0, u.from, event.value)
           y     == Recharge(u, "in", Native, 0, u.from, TxFee(u))
           s     == TxExtractData(u, u.to, event.to, event.value, {x}, {})
           f     == TxExtractData(u, Native, u.to, 0, {y}, {})
           r     == TxExtractData(u, u.to, event.to, event.value, {}, TokenOut(u, event))
           data  == ExtractResult(tx, receipt)
<1>1. ParseTransferEvent(receipt.logs) = event /\ event # NoEvent
  BY TheTransfer
<1>2. u.from = tx.from /\ event.from = tx.from
  BY UpdatedTx
<1>3. /\ MakeFromExtractData(u, event) = {s, f} /\ MakeToExtractData(u, event) = {r}
      /\ Sender(u, event) = u.from /\ Receiver(u, event) = event.to
  BY <1>1, <1>2 DEF MakeFromExtractData, MakeToExtractData, MakeTokenTxFromExtractData,
         MakeTokenToExtractData, TokenOut, Sender, Receiver
<1>4. data = Outcome(u.from, event.to, {s, f}, r)
  BY <1>1, <1>3 DEF ExtractResult, Outcome
<1>5. /\ IsData(s) /\ s.outputs = {} /\ s.to = r.to /\ r.inputs = {} /\ s.inputs = {x}
      /\ IsData(f) /\ f.outputs = {} /\ f.inputs = {y} /\ r.outputs = TokenOut(u, event)
      /\ s.wxid # f.wxid
  <2>1. u.to \in Addresses /\ u.to # Native
    BY UpdatedTx, TheTransfer, DataAssumption DEF Log
  <2> QED
    BY <2>1 DEF TxExtractData, IsData
<1>6. TokenIn(u, event) = {x, y}
  BY DEF TokenIn
<1> HIDE DEF u, x, y, s, f, r, data, event
<1>7. Recharges(data) = IfWatched(u.from, UNION {d.inputs : d \in {s, f}})
                          \union IfWatched(event.to, r.outputs)
  <2>1. /\ \A d \in {s, f} : IsData(d) /\ d.outputs = {}
        /\ (\E d \in {s, f} : d.to = r.to) /\ r.inputs = {}
    BY <1>5
  <2> QED
    BY <1>4, <2>1, ResultRecords
<1>8. UNION {d.inputs : d \in {s, f}} = {x, y}
  BY <1>5
<1>9. Named(data)
  <2>1. (\A d \in {s, f} : IsData(d)) /\ (\A d, q \in {s, f} : d.wxid = q.wxid => d = q)
    BY <1>5
  <2> QED
    BY <1>4, <2>1, ResultNames
<1> QED
  BY <1>5, <1>6, <1>7, <1>8, <1>9 DEF u, data, event

\* A book keeps records whose ids differ as they are.
LEMMA BookedAll ==
  ASSUME NEW R, \A r, q \in R : r.sid = q.sid => r = q
  PROVE  Booked(R) = R
<1>1. ASSUME NEW r \in R PROVE OneOf({q \in R : q.sid = r.sid}) = r
  <2>1. {q \in R : q.sid = r.sid} = {r}
    BY <1>1
  <2> QED
    BY <2>1 DEF OneOf
<1>2. Booked(R) = {OneOf({q \in R : q.sid = r.sid}) : r \in R}
  <2> DEFINE F(id) == OneOf({q \in R : q.sid = id})
  <2>1. Booked(R) = {F(id) : id \in {r.sid : r \in R}}
    BY DEF Booked
  <2> HIDE DEF F
  <2>2. {F(id) : id \in {r.sid : r \in R}} = {F(r.sid) : r \in R}
    OBVIOUS
  <2> QED
    BY <2>1, <2>2 DEF F
<1> DEFINE G(r) == OneOf({q \in R : q.sid = r.sid})
<1>3. Booked(R) = {G(r) : r \in R} /\ \A r \in R : G(r) = r
  BY <1>1, <1>2
<1> HIDE DEF G
<1> QED
  BY <1>3

AllOf(S, address, dir) == \A r \in S : r.address = address /\ r.dir = dir

\* The records of an account are those of what it sent and those of what it received.
LEMMA SentAndReceived ==
  ASSUME NEW f, NEW g, NEW F, NEW G, AllOf(F, f, "in"), AllOf(G, g, "out"),
         NEW a \in Watched, NEW c,
         NEW R, R = IfWatched(f, F) \union IfWatched(g, G)
  PROVE  /\ Of(R, a, c, "in")  = {r \in F : a = f /\ r.contract = c}
         /\ Of(R, a, c, "out") = {r \in G : a = g /\ r.contract = c}
         /\ {r \in R : r.address = a /\ r.contract = c}
              = {r \in F : a = f /\ r.contract = c} \union {r \in G : a = g /\ r.contract = c}
BY DEF IfWatched, Of, AllOf

LEMMA FewElements ==
  ASSUME NEW x, NEW y, NEW z, x # y, z # x, z # y
  PROVE  /\ Cardinality({}) = 0 /\ Cardinality({x}) = 1
         /\ Cardinality({x, y}) = 2 /\ Cardinality({x, y, z}) = 3
<1>1. Cardinality({}) = 0 /\ IsFiniteSet({})
  BY FS_EmptySet
<1>2. Cardinality({x}) = 1 /\ IsFiniteSet({x})
  BY FS_Singleton
<1>3. Cardinality({x} \union {y}) = 2 /\ IsFiniteSet({x} \union {y})
  <2>1. y \notin {x}
    OBVIOUS
  <2> QED
    BY <1>2, <2>1, FS_AddElement
<1>4. Cardinality({x} \union {y} \union {z}) = 3
  <2>1. z \notin {x} \union {y}
    OBVIOUS
  <2> QED
    BY <1>3, <2>1, FS_AddElement
<1>5. {x} \union {y} = {x, y} /\ {x} \union {y} \union {z} = {x, y, z}
  OBVIOUS
<1> QED
  BY <1>1, <1>2, <1>3, <1>4, <1>5

\* Of a transfer of the coin: one unit of slack for each of its records.
LEMMA SimpleAgree ==
  ASSUME NEW tx \in Transaction, NEW receipt \in Receipt,
         Transfers(receipt.logs) = {}, Plain(tx, receipt), NEW a \in Watched
  PROVE  LET R == Recharges(ExtractResult(tx, receipt)) IN
         RecordsAgree(R, tx, receipt, a, Native)
<1> DEFINE u == UpdateTxByReceipt(tx, receipt)
           R == Recharges(ExtractResult(tx, receipt))
           x == Recharge(u, "in", Native, 0, u.from, EthString(u.value))
           y == Recharge(u, "in", Native, 1, u.from, TxFee(u))
           z == Recharge(u, "out", Native, 0, u.to, EthString(u.value))
           v == tx.value
           w == tx.gasPrice * receipt.gasUsed
           V == EthString(v)
           W == EthString(w)
<1>1. u.from = tx.from /\ u.to = tx.to /\ u.value = v /\ TxFee(u) = W
  BY UpdatedTx
<1>2. R = IfWatched(tx.from, {x, y}) \union IfWatched(tx.to, {z})
  BY SimpleRecords, <1>1 DEF SimpleIn, SimpleOut
<1>3. v \in Nat /\ w \in Nat
  BY FeeIsNat DEF Transaction
<1>4. /\ V \in Nat /\ 2 * (V - v) <= Unit /\ 2 * (v - V) <= Unit
      /\ W \in Nat /\ 2 * (W - w) <= Unit /\ 2 * (w - W) <= Unit
      /\ Unit \in Nat
  BY <1>3, EthStringIsClose, DataAssumption
<1>5. /\ x.address = tx.from /\ x.dir = "in" /\ x.contract = Native /\ x.amount = V
      /\ y.address = tx.from /\ y.dir = "in" /\ y.contract = Native /\ y.amount = W
      /\ z.address = tx.to /\ z.dir = "out" /\ z.contract = Native /\ z.amount = V
      /\ x # y /\ z # x /\ z # y
  BY <1>1 DEF Recharge
<1>6. Moved(tx, receipt, a, Native)
        = (IF a = tx.to THEN v ELSE 0) - (IF a = tx.from THEN v + w ELSE 0)
  <2>1. receipt.status = 1 \/ v = 0
    BY DEF Plain
  <2> QED
    BY <2>1 DEF Moved
<1> HIDE DEF u, R, x, y, z, v, w, V, W
<1>7. /\ Of(R, a, Native, "in") = IF a = tx.from THEN {x, y} ELSE {}
      /\ Of(R, a, Native, "out") = IF a = tx.to THEN {z} ELSE {}
      /\ {r \in R : r.address = a /\ r.contract = Native}
           = (IF a = tx.from THEN {x, y} ELSE {}) \union (IF a = tx.to THEN {z} ELSE {})
  <2>1. \A r \in {x, y} : r.address = tx.from /\ r.dir = "in" /\ r.contract = Native
    BY <1>5
  <2>2. \A r \in {z} : r.address = tx.to /\ r.dir = "out" /\ r.contract = Native
    BY <1>5
  <2>3. /\ {r \in {x, y} : a = tx.from /\ r.contract = Native} = IF a = tx.from THEN {x, y} ELSE {}
        /\ {r \in {z} : a = tx.to /\ r.contract = Native} = IF a = tx.to THEN {z} ELSE {}
    BY <2>1, <2>2
  <2>4. AllOf({x, y}, tx.from, "in") /\ AllOf({z}, tx.to, "out")
    BY <2>1, <2>2 DEF AllOf
  <2> DEFINE F == {x, y}
             G == {z}
  <2> HIDE DEF F, G
  <2>5. /\ Of(R, a, Native, "in")  = {r \in F : a = tx.from /\ r.contract = Native}
        /\ Of(R, a, Native, "out") = {r \in G : a = tx.to /\ r.contract = Native}
        /\ {r \in R : r.address = a /\ r.contract = Native}
             = {r \in F : a = tx.from /\ r.contract = Native}
                 \union {r \in G : a = tx.to /\ r.contract = Native}
    <3>1. AllOf(F, tx.from, "in") /\ AllOf(G, tx.to, "out")
          /\ R = IfWatched(tx.from, F) \union IfWatched(tx.to, G)
      BY <1>2, <2>4 DEF F, G
    <3> QED
      BY <3>1, SentAndReceived
  <2> QED
    BY <2>3, <2>5 DEF F, G
<1>8. /\ Total(IF a = tx.from THEN {x, y} ELSE {}) = IF a = tx.from THEN V + W ELSE 0
      /\ Total(IF a = tx.to THEN {z} ELSE {}) = IF a = tx.to THEN V ELSE 0
  BY <1>4, <1>5, TotalNone, TotalOne, TotalTwo
<1>9. Balance(R, a, Native) = (IF a = tx.to THEN V ELSE 0) - (IF a = tx.from THEN V + W ELSE 0)
  BY <1>7, <1>8 DEF Balance
<1>10. Cardinality({r \in R : r.address = a /\ r.contract = Native})
         = (IF a = tx.from THEN 2 ELSE 0) + (IF a = tx.to THEN 1 ELSE 0)
  <2>1. /\ Cardinality({}) = 0 /\ Cardinality({z}) = 1
        /\ Cardinality({x, y}) = 2 /\ Cardinality({x, y, z}) = 3
    <3>1. x # y /\ z # x /\ z # y
      BY <1>5
    <3>2. Cardinality({}) = 0 /\ Cardinality({x, y}) = 2 /\ Cardinality({x, y, z}) = 3
      BY <3>1, FewElements
    <3>3. Cardinality({z}) = 1
      BY FS_Singleton
    <3> QED
      BY <3>2, <3>3
  <2>2. {x, y} \union {z} = {x, y, z} /\ {x, y} \union {} = {x, y} /\ {} \union {z} = {z}
    OBVIOUS
  <2>3. CASE a = tx.from
    BY <1>7, <2>1, <2>2, <2>3
  <2>4. CASE a # tx.from
    <3>1. {r \in R : r.address = a /\ r.contract = Native} = IF a = tx.to THEN {z} ELSE {}
      BY <1>7, <2>4
    <3>2. CASE a = tx.to
      BY <2>1, <2>4, <3>1, <3>2
    <3>3. CASE a # tx.to
      BY <2>1, <2>4, <3>1, <3>3
    <3> QED
      BY <3>2, <3>3
  <2> QED
    BY <2>3, <2>4
<1> QED
  <2> DEFINE card == Cardinality({r \in R : r.address = a /\ r.contract = Native})
             off  == Balance(R, a, Native) - Moved(tx, receipt, a, Native)
  <2>1. /\ Unit * 0 = 0 /\ Unit * 1 = Unit /\ Unit * 2 = Unit + Unit
        /\ Unit * 3 = Unit + Unit + Unit
    BY <1>4
  <2>2. /\ card = (IF a = tx.from THEN 2 ELSE 0) + (IF a = tx.to THEN 1 ELSE 0)
        /\ off = ((IF a = tx.to THEN V ELSE 0) - (IF a = tx.from THEN V + W ELSE 0))
                 - ((IF a = tx.to THEN v ELSE 0) - (IF a = tx.from THEN v + w ELSE 0))
    BY <1>6, <1>9, <1>10
  <2> HIDE DEF card, off
  <2>3. Unit * card = (IF a = tx.from THEN Unit + Unit ELSE 0) + (IF a = tx.to THEN Unit ELSE 0)
    BY <1>4, <2>1, <2>2
  <2>4. 2 * off <= Unit * card /\ -2 * off <= Unit * card
    <3>1. CASE a = tx.from /\ a = tx.to
      BY <1>3, <1>4, <2>2, <2>3, <3>1
    <3>2. CASE a = tx.from /\ a # tx.to
      BY <1>3, <1>4, <2>2, <2>3, <3>2
    <3>3. CASE a # tx.from /\ a = tx.to
      BY <1>3, <1>4, <2>2, <2>3, <3>3
    <3>4. CASE a # tx.from /\ a # tx.to
      BY <1>3, <1>4, <2>2, <2>3, <3>4
    <3> QED
      BY <3>1, <3>2, <3>3, <3>4
  <2> QED
    BY <2>4 DEF RecordsAgree, R, card, off

\* And of every other coin nothing.
LEMMA SimpleOther ==
  ASSUME NEW tx \in Transaction, NEW receipt \in Receipt,
         Transfers(receipt.logs) = {}, NEW a \in Watched, NEW c, c # Native
  PROVE  RecordsAgree(Recharges(ExtractResult(tx, receipt)), tx, receipt, a, c)
<1> DEFINE u == UpdateTxByReceipt(tx, receipt)
           R == Recharges(ExtractResult(tx, receipt))
<1>1. R = IfWatched(u.from, SimpleIn(u)) \union IfWatched(u.to, SimpleOut(u))
  BY SimpleRecords
<1>2. \A r \in R : r.contract = Native
  BY <1>1 DEF IfWatched, SimpleIn, SimpleOut, Recharge
<1> HIDE DEF R
<1>3. Of(R, a, c, "in") = {} /\ Of(R, a, c, "out") = {}
  BY <1>2 DEF Of
<1>4. Balance(R, a, c) = 0
  BY <1>3, TotalNone DEF Balance
<1>5. Moved(tx, receipt, a, c) = 0
  <2>1. \A S : {i \in {} : S} = {}
    OBVIOUS
  <2>2. Moved(tx, receipt, a, c) = SumOfValues(receipt.logs, {}) - SumOfValues(receipt.logs, {})
    BY <2>1 DEF Moved
  <2> QED
    BY <2>2, NoValues
<1>6. RecordsAgree(R, tx, receipt, a, c)
  BY <1>4, <1>5 DEF RecordsAgree
<1> QED
  BY <1>6 DEF R

\* Of a transfer of a token: the token to the last unit, the fee rounded.
LEMMA TokenAgree ==
  ASSUME NEW tx \in Transaction, NEW receipt \in Receipt, NEW i \in DOMAIN receipt.logs,
         Transfers(receipt.logs) = {i}, receipt.logs[i].contract = tx.to,
         receipt.logs[i].from = tx.from, tx.value = 0, NEW a \in Watched, NEW c
  PROVE  RecordsAgree(Recharges(ExtractResult(tx, receipt)), tx, receipt, a, c)
<1> DEFINE u     == UpdateTxByReceipt(tx, receipt)
           logs  == receipt.logs
           event == logs[i]
           R     == Recharges(ExtractResult(tx, receipt))
           x     == Recharge(u, "in", u.to, 0, u.from, event.value)
           y     == Recharge(u, "in", Native, 0, u.from, TxFee(u))
           z     == Recharge(u, "out", u.to, 0, event.to, event.value)
           w     == tx.gasPrice * receipt.gasUsed
           W     == EthString(w)
           v     == event.value
<1>1. u.from = tx.from /\ u.to = tx.to /\ TxFee(u) = W
  BY UpdatedTx
<1>2. R = IfWatched(tx.from, {x, y}) \union IfWatched(event.to, {z})
  <2>1. R = IfWatched(u.from, TokenIn(u, event)) \union IfWatched(event.to, TokenOut(u, event))
    BY TokenRecords
  <2>2. TokenIn(u, event) = {x, y} /\ TokenOut(u, event) = {z}
    BY DEF TokenIn, TokenOut
  <2> HIDE DEF R, x, y, z, u, event
  <2> QED
    BY <1>1, <2>1, <2>2
<1>3. v \in Nat /\ w \in Nat /\ tx.to # Native
  BY TheTransfer, FeeIsNat, DataAssumption DEF Log
<1>4. W \in Nat /\ 2 * (W - w) <= Unit /\ 2 * (w - W) <= Unit /\ Unit \in Nat
  BY <1>3, EthStringIsClose, DataAssumption
<1>5. /\ x.address = tx.from /\ x.dir = "in" /\ x.contract = tx.to /\ x.amount = v
      /\ y.address = tx.from /\ y.dir = "in" /\ y.contract = Native /\ y.amount = W
      /\ z.address = event.to /\ z.dir = "out" /\ z.contract = tx.to /\ z.amount = v
  BY <1>1 DEF Recharge
<1>6. Moved(tx, receipt, a, Native) = 0 - (IF a = tx.from THEN w ELSE 0)
  BY <1>3 DEF Moved
<1>7. c # Native /\ c # tx.to => Moved(tx, receipt, a, c) = 0
  <2> SUFFICES ASSUME c # Native, c # tx.to PROVE Moved(tx, receipt, a, c) = 0
    OBVIOUS
  <2>1. {j \in Transfers(logs) : logs[j].contract = c} = {}
    OBVIOUS
  <2>2. Moved(tx, receipt, a, c) = SumOfValues(logs, {}) - SumOfValues(logs, {})
    BY <2>1 DEF Moved
  <2> QED
    BY <2>2, NoValues
<1>8. Moved(tx, receipt, a, tx.to)
        = (IF a = event.to THEN v ELSE 0) - (IF a = tx.from THEN v ELSE 0)
  <2>1. {j \in Transfers(logs) : logs[j].contract = tx.to} = {i}
    OBVIOUS
  <2>2. /\ {j \in {i} : logs[j].to = a} = IF a = event.to THEN {i} ELSE {}
        /\ {j \in {i} : logs[j].from = a} = IF a = tx.from THEN {i} ELSE {}
    OBVIOUS
  <2>3. Moved(tx, receipt, a, tx.to)
          = SumOfValues(logs, IF a = event.to THEN {i} ELSE {})
            - SumOfValues(logs, IF a = tx.from THEN {i} ELSE {})
    BY <1>3, <2>1, <2>2 DEF Moved
  <2>4. SumOfValues(logs, {}) = 0 /\ SumOfValues(logs, {i}) = v
    BY <1>3, NoValues, OneValue
  <2> HIDE DEF logs, event, v
  <2> QED
    BY <2>3, <2>4
<1> HIDE DEF u, R, x, y, z, w, W, v, event, logs
<1>9. /\ Of(R, a, c, "in")  = {r \in {x, y} : a = tx.from /\ r.contract = c}
      /\ Of(R, a, c, "out") = {r \in {z} : a = event.to /\ r.contract = c}
      /\ {r \in R : r.address = a /\ r.contract = c}
           = {r \in {x, y} : a = tx.from /\ r.contract = c}
               \union {r \in {z} : a = event.to /\ r.contract = c}
  <2> DEFINE F == {x, y}
             G == {z}
  <2>1. AllOf(F, tx.from, "in") /\ AllOf(G, event.to, "out")
        /\ R = IfWatched(tx.from, F) \union IfWatched(event.to, G)
    BY <1>2, <1>5 DEF AllOf
  <2> HIDE DEF F, G
  <2>2. /\ Of(R, a, c, "in")  = {r \in F : a = tx.from /\ r.contract = c}
        /\ Of(R, a, c, "out") = {r \in G : a = event.to /\ r.contract = c}
        /\ {r \in R : r.address = a /\ r.contract = c}
             = {r \in F : a = tx.from /\ r.contract = c}
                 \union {r \in G : a = event.to /\ r.contract = c}
    BY <2>1, SentAndReceived
  <2> QED
    BY <2>2 DEF F, G
<1>10. CASE c = Native
  <2>1. /\ {r \in {x, y} : a = tx.from /\ r.contract = c} = IF a = tx.from THEN {y} ELSE {}
        /\ {r \in {z} : a = event.to /\ r.contract = c} = {}
    BY <1>3, <1>5, <1>10
  <2>2. /\ Of(R, a, c, "in") = IF a = tx.from THEN {y} ELSE {}
        /\ Of(R, a, c, "out") = {}
        /\ {r \in R : r.address = a /\ r.contract = c} = IF a = tx.from THEN {y} ELSE {}
    BY <1>9, <2>1
  <2>3. Total({}) = 0 /\ Total({y}) = W /\ Cardinality({}) = 0 /\ Cardinality({y}) = 1
    BY <1>4, <1>5, TotalNone, TotalOne, FS_EmptySet, FS_Singleton
  <2>4. Balance(R, a, c) = 0 - (IF a = tx.from THEN W ELSE 0)
    BY <2>2, <2>3 DEF Balance
  <2> DEFINE card == Cardinality({r \in R : r.address = a /\ r.contract = c})
             off  == Balance(R, a, c) - Moved(tx, receipt, a, c)
  <2>5. /\ card = IF a = tx.from THEN 1 ELSE 0
        /\ off = (0 - (IF a = tx.from THEN W ELSE 0)) - (0 - (IF a = tx.from THEN w ELSE 0))
    BY <1>6, <1>10, <2>2, <2>3, <2>4
  <2> HIDE DEF card, off
  <2>6. Unit * 0 = 0 /\ Unit * 1 = Unit
    BY <1>4
  <2>7. 2 * off <= Unit * card /\ -2 * off <= Unit * card
    <3>1. CASE a = tx.from
      BY <1>3, <1>4, <2>5, <2>6, <3>1
    <3>2. CASE a # tx.from
      BY <1>3, <1>4, <2>5, <2>6, <3>2
    <3> QED
      BY <3>1, <3>2
  <2> QED
    BY <1>10, <2>7 DEF RecordsAgree, R, card, off
<1>11. CASE c # Native
  <2>1. Balance(R, a, c) = Moved(tx, receipt, a, c) /\ Moved(tx, receipt, a, c) \in Int
    <3>1. CASE c = tx.to
      <4>1. /\ {r \in {x, y} : a = tx.from /\ r.contract = c} = IF a = tx.from THEN {x} ELSE {}
            /\ {r \in {z} : a = event.to /\ r.contract = c} = IF a = event.to THEN {z} ELSE {}
        BY <1>3, <1>5, <1>11, <3>1
      <4>2. /\ Of(R, a, c, "in") = IF a = tx.from THEN {x} ELSE {}
            /\ Of(R, a, c, "out") = IF a = event.to THEN {z} ELSE {}
        BY <1>9, <4>1
      <4>3. Total({}) = 0 /\ Total({x}) = v /\ Total({z}) = v
        BY <1>3, <1>5, TotalNone, TotalOne
      <4>4. Balance(R, a, c) = (IF a = event.to THEN v ELSE 0) - (IF a = tx.from THEN v ELSE 0)
        BY <4>2, <4>3 DEF Balance
      <4> QED
        BY <1>3, <1>8, <3>1, <4>4
    <3>2. CASE c # tx.to
      <4>1. Of(R, a, c, "in") = {} /\ Of(R, a, c, "out") = {}
        BY <1>5, <1>9, <1>11, <3>2
      <4>2. Balance(R, a, c) = 0
        BY <4>1, TotalNone DEF Balance
      <4> QED
        BY <1>7, <1>11, <3>2, <4>2
    <3> QED
      BY <3>1, <3>2
  <2>2. RecordsAgree(R, tx, receipt, a, c)
    BY <1>11, <2>1 DEF RecordsAgree
  <2> QED
    BY <2>2 DEF R
<1> QED
  BY <1>10, <1>11

\* Every record of a plain transaction has an id of its own, with the hash in it.
LEMMA PlainIds ==
  ASSUME NEW tx \in Transaction, NEW receipt \in Receipt, Plain(tx, receipt)
  PROVE  LET R == Recharges(ExtractResult(tx, receipt)) IN
         /\ \A r, q \in R : r.sid = q.sid => r = q
         /\ \A r \in R : r.sid[1] = tx.hash
         /\ Named(ExtractResult(tx, receipt))
<1> DEFINE u == UpdateTxByReceipt(tx, receipt)
           R == Recharges(ExtractResult(tx, receipt))
<1>1. u.hash = tx.hash
  BY UpdatedTx
<1>2. CASE Transfers(receipt.logs) = {}
  <2>1. /\ R = IfWatched(u.from, SimpleIn(u)) \union IfWatched(u.to, SimpleOut(u))
        /\ Named(ExtractResult(tx, receipt))
    BY <1>2, SimpleRecords
  <2>2. R \subseteq SimpleIn(u) \union SimpleOut(u)
    BY <2>1 DEF IfWatched
  <2> HIDE DEF R, u
  <2>3. \A r, q \in SimpleIn(u) \union SimpleOut(u) : r.sid = q.sid => r = q
    BY DEF SimpleIn, SimpleOut, Recharge
  <2>4. \A r \in SimpleIn(u) \union SimpleOut(u) : r.sid[1] = tx.hash
    BY <1>1 DEF SimpleIn, SimpleOut, Recharge
  <2> QED
    BY <2>1, <2>2, <2>3, <2>4 DEF R
<1>3. CASE Transfers(receipt.logs) # {}
  <2>1. PICK i \in DOMAIN receipt.logs :
          /\ Transfers(receipt.logs) = {i}
          /\ receipt.logs[i].contract = tx.to /\ receipt.logs[i].from = tx.from
    BY <1>3 DEF Plain
  <2> DEFINE event == receipt.logs[i]
  <2>2. /\ R = IfWatched(u.from, TokenIn(u, event)) \union IfWatched(event.to, TokenOut(u, event))
        /\ Named(ExtractResult(tx, receipt))
    BY <2>1, TokenRecords
  <2>3. u.to # Native
    BY <2>1, UpdatedTx, TheTransfer, DataAssumption DEF Log
  <2>4. R \subseteq TokenIn(u, event) \union TokenOut(u, event)
    BY <2>2 DEF IfWatched
  <2> HIDE DEF R, u, event
  <2>5. \A r, q \in TokenIn(u, event) \union TokenOut(u, event) : r.sid = q.sid => r = q
    BY <2>3 DEF TokenIn, TokenOut, Recharge
  <2>6. \A r \in TokenIn(u, event) \union TokenOut(u, event) : r.sid[1] = tx.hash
    BY <1>1 DEF TokenIn, TokenOut, Recharge
  <2> QED
    BY <2>2, <2>4, <2>5, <2>6 DEF R
<1> QED
  BY <1>2, <1>3

\* The data of a plain transaction are the node's account of it, to every account the
\* host watches and of every coin.
LEMMA PlainAgrees ==
  ASSUME NEW tx \in Transaction, NEW receipt \in Receipt, Plain(tx, receipt),
         NEW a \in Watched, NEW c
  PROVE  BooksAgree(Booked(Recharges(ExtractResult(tx, receipt))), tx, receipt, a, c)
<1> DEFINE R == Recharges(ExtractResult(tx, receipt))
<1>1. (\A r, q \in R : r.sid = q.sid => r = q) /\ (\A r \in R : r.sid[1] = tx.hash)
  BY PlainIds
<1>2. RecordsAgree(R, tx, receipt, a, c)
  <2>1. CASE Transfers(receipt.logs) = {}
    BY <2>1, SimpleAgree, SimpleOther
  <2>2. CASE Transfers(receipt.logs) # {}
    <3>1. PICK i \in DOMAIN receipt.logs :
            /\ Transfers(receipt.logs) = {i} /\ receipt.logs[i].contract = tx.to
            /\ receipt.logs[i].from = tx.from /\ tx.value = 0
      BY <2>2 DEF Plain
    <3> QED
      BY <3>1, TokenAgree
  <2> QED
    BY <2>1, <2>2
<1> HIDE DEF R
<1>3. Booked(R) = R
  BY <1>1, BookedAll
<1>4. OwnRecords(R, tx) = R
  BY <1>1 DEF OwnRecords
<1>5. BooksAgree(Booked(R), tx, receipt, a, c)
  BY <1>2, <1>3, <1>4 DEF BooksAgree
<1> QED
  BY <1>5 DEF R

\* What an observer was told in full of t are all the records it has of t.
LEMMA ToldRecords ==
  ASSUME NEW t \in Txs, NEW o \in Observers, ToldInFull(t)
  PROVE  OwnRecords(Recharges(ToldOf(o)), Content[t].tx) = Recharges(Extracted[t])
<1>1. DataOf[t] = {Name(d) : d \in Extracted[t]}
  BY HostAssumption
<1>2. \A d \in Extracted[t] : <<t, o, Name(d)>> \in told
  BY <1>1 DEF ToldInFull, Notifications
<1>3. Extracted[t] \subseteq ToldOf(o)
  BY <1>2 DEF ToldOf
<1>4. ASSUME NEW r \in Recharges(ToldOf(o)), r.sid[1] = Content[t].tx.hash
      PROVE  r \in Recharges(Extracted[t])
  <2>1. PICK u \in Txs : \E d \in Extracted[u] : r \in d[2].inputs \union d[2].outputs
    BY <1>4 DEF Recharges, ToldOf
  <2>2. r.sid[1] = Content[u].tx.hash
    BY <2>1, ExtractedHash
  <2>3. u = t
    BY <1>4, <2>2, HostAssumption
  <2> QED
    BY <2>1, <2>3 DEF Recharges
<1>5. ASSUME NEW r \in Recharges(Extracted[t])
      PROVE  r \in Recharges(ToldOf(o)) /\ r.sid[1] = Content[t].tx.hash
  <2>1. PICK d \in Extracted[t] : r \in d[2].inputs \union d[2].outputs
    BY <1>5 DEF Recharges
  <2> QED
    BY <1>3, <2>1, ExtractedHash DEF Recharges
<1> QED
  BY <1>4, <1>5 DEF OwnRecords

\* Keeping one record for each id and looking at one transaction commute: the ids
\* of different transactions are different.
LEMMA BookedOwn ==
  ASSUME NEW R, NEW tx
  PROVE  OwnRecords(Booked(R), tx) = OwnRecords(Booked(OwnRecords(R, tx)), tx)
<1> DEFINE With(S, id) == {r \in S : r.sid = id}
           own == OwnRecords(R, tx)
<1>1. ASSUME NEW S, NEW id, With(S, id) # {}
      PROVE  OneOf(With(S, id)) \in With(S, id)
  <2> HIDE DEF With
  <2> QED
    BY <1>1 DEF OneOf
<1>2. ASSUME NEW id, id[1] = tx.hash
      PROVE  With(R, id) = With(own, id)
  BY <1>2 DEF OwnRecords
<1>3. \A S : Booked(S) = {OneOf(With(S, id)) : id \in {r.sid : r \in S}}
  BY DEF Booked
<1>4. ASSUME NEW b \in OwnRecords(Booked(R), tx)
      PROVE  b \in Booked(own)
  <2>1. PICK r \in R : b = OneOf(With(R, r.sid)) /\ b.sid[1] = tx.hash
    BY <1>3, <1>4 DEF OwnRecords
  <2>2. b.sid = r.sid
    <3>1. r \in With(R, r.sid)
      OBVIOUS
    <3>2. b \in With(R, r.sid)
      BY <1>1, <2>1, <3>1
    <3> QED
      BY <3>2
  <2>3. r \in own
    BY <2>1, <2>2 DEF OwnRecords
  <2>4. With(R, r.sid) = With(own, r.sid)
    BY <1>2, <2>1, <2>2
  <2> HIDE DEF With, own
  <2> QED
    BY <1>3, <2>1, <2>3, <2>4
<1>5. ASSUME NEW b \in Booked(own)
      PROVE  b \in Booked(R)
  <2>1. PICK r \in own : b = OneOf(With(own, r.sid))
    BY <1>3, <1>5
  <2>2. r \in R /\ With(R, r.sid) = With(own, r.sid)
    BY <1>2, <2>1 DEF OwnRecords
  <2> HIDE DEF With, own
  <2> QED
    BY <1>3, <2>1, <2>2
<1> QED
  BY <1>4, <1>5 DEF OwnRecords

-----------------------------------------------------------------------------
(* The books.                                                              *)

\* The data extracted from a plain transaction are the node's account of it, within
\* the rounding of each record, whichever of its parties the host knows, and no two
\* pieces of data for one source key have the same wx id (Make*ExtractData,
\* ParseTransferEvent, GetTxFeeEthString): for every amount, gas price, log and unit.
THEOREM DataOfPlain == HostSpec => []DataAgree
<1>1. AllDataAgree
  <2> SUFFICES ASSUME NEW c \in Contents, Plain(c.tx, c.receipt)
               PROVE  LET data == ExtractResult(c.tx, c.receipt) IN
                      /\ \A a \in Watched, coin \in {Native, c.tx.to} :
                           BooksAgree(Booked(Recharges(data)), c.tx, c.receipt, a, coin)
                      /\ Named(data)
    BY DEF AllDataAgree, Named
  <2>1. c.tx \in Transaction /\ c.receipt \in Receipt
    BY HostAssumption
  <2> QED
    BY <2>1, PlainAgrees, PlainIds
<1>2. DataAgree
  BY <1>1 DEF DataAgree
<1> QED
  BY <1>2, PTL

\* The books of every observer agree with the node, for any number of transactions,
\* observers, data and blocks: a plain transaction that a worker has finished with and
\* that has no record is in them once and in full, in whatever order the task, the
\* host and the retry told of it (TransactionScanning, newExtractDataNotify).
THEOREM BooksKept == HostSpec => []BooksComplete
<1> DEFINE Complete == ~resaved /\ spent["rewind"] = 0 =>
                         \A t \in looked \ unscanned : ToldInFull(t)
<1>1. ASSUME NEW t \in Txs, NEW o \in Observers, ToldInFull(t),
             Plain(Content[t].tx, Content[t].receipt),
             NEW a \in Watched, NEW c \in Coins
      PROVE  BooksAgree(Book(o), Content[t].tx, Content[t].receipt, a, c)
  <2>1. OwnRecords(Book(o), Content[t].tx)
          = OwnRecords(Booked(Recharges(Extracted[t])), Content[t].tx)
    BY <1>1, ToldRecords, BookedOwn DEF Book
  <2>2. Content[t].tx \in Transaction /\ Content[t].receipt \in Receipt
    BY HostAssumption
  <2>3. BooksAgree(Booked(Recharges(Extracted[t])), Content[t].tx, Content[t].receipt, a, c)
    BY <1>1, <2>2, PlainAgrees DEF Extracted
  <2> QED
    BY <2>1, <2>3 DEF BooksAgree
<1>2. LookedInv /\ Complete => BooksComplete
  BY <1>1 DEF BooksComplete, LookedInv
<1> QED
  BY <1>2, LookedAtIsTold, HostInvariants, PTL
=============================================================================
