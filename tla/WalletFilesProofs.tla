------------------------- MODULE WalletFilesProofs --------------------------
(***************************************************************************)
(* Machine-checked proofs about WalletFiles and the address batches of     *)
(* AddressBatch, for any number of wallets, callers and jobs.              *)
(***************************************************************************)
EXTENDS WalletFiles, WorkerPoolProofs

\* A caller holds the database while its pool works, and only then.
HolderInv ==
  /\ \A c \in Callers : pc[c] \in {"launch", "wait"} <=> holder = c
  /\ holder # None => ~returned /\ base[holder] + count <= MaxAddresses
  /\ holder = None => Cardinality(collected) = count

\* What a call without errors has saved is what it has received; it began where
\* the wallet ended, unless callers have overlapped, and then all the same at an
\* index below which the wallet has every address.
SavedInv ==
  /\ holder # None /\ errcount = 0 =>
       /\ collected \intersect bad = {}
       /\ saved = {base[holder] + i - 1 : i \in collected}
  /\ holder # None /\ ~overlapped => base[holder] = addressCount
  /\ \A c \in Callers : \A k \in 0..MaxAddresses : k < base[c] => k \in addresses
  /\ AddressesCounted

BatchInv == PoolInv /\ TypeOK /\ HolderInv /\ SavedInv

\* Two creations of one name are never under way unless they have raced, and the
\* addresses of a wallet come after its record.
CreationInv ==
  /\ FilesTypeOK
  /\ ~raced => \A v, w \in Wallets :
                 SameName(v, w) => stage[v] = "none" \/ stage[w] = "none"
  /\ \A c \in Callers : pc[c] # "idle" => stage[Main] = "created"
  /\ addresses # {} => stage[Main] = "created"

-----------------------------------------------------------------------------
(* The address batches.                                                    *)

LEMMA HappensType ==
  ASSUME spent \in [Kinds -> Nat], NEW kind \in Kinds, Happens(kind)
  PROVE  spent' \in [Kinds -> Nat]
BY DEF Happens

LEMMA InitBatchInv == Init => BatchInv
<1> SUFFICES ASSUME Init PROVE BatchInv
  OBVIOUS
<1>1. Cardinality({}) = 0
  BY FS_EmptySet
<1>2. PoolInv
  BY <1>1, PoolAssumption DEF Init, PoolInv, PoolTypeOK, Sent, Stages, Jobs
<1>3. TypeOK
  <2>1. /\ addresses \subseteq 0..MaxAddresses - 1 /\ addressCount \in 0..MaxAddresses
        /\ saved \subseteq 0..MaxAddresses - 1 /\ errcount \in Nat
    BY BatchAssumption DEF Init
  <2>2. /\ pc \in [Callers -> {"idle", "restored", "launch", "wait"}]
        /\ base \in [Callers -> 0..MaxAddresses]
        /\ spent \in [Kinds -> Nat]
    BY BatchAssumption DEF Init
  <2>3. holder \in Callers \union {None} /\ overlapped \in BOOLEAN
    BY DEF Init
  <2> QED
    BY <1>2, <2>1, <2>2, <2>3 DEF TypeOK, PoolInv
<1>4. HolderInv
  BY <1>1, BatchAssumption DEF Init, HolderInv
<1>5. SavedInv
  <2>1. \A k \in 0..MaxAddresses : ~(k < 0)
    BY BatchAssumption
  <2> QED
    BY <2>1, BatchAssumption DEF Init, SavedInv, AddressesCounted
<1> QED
  BY <1>2, <1>3, <1>4, <1>5 DEF BatchInv

\* Before the pool.
LEMMA CallerInv ==
  ASSUME BatchInv, NEW c \in Callers, RestoreFromDb(c) \/ Refuse(c)
  PROVE  BatchInv'
<1> USE BatchAssumption DEF BatchInv, TypeOK
<1>1. /\ UNCHANGED <<pool, wallet, holder, saved, errcount, overlapped, spent>>
      /\ pc' \in [Callers -> {"idle", "restored", "launch", "wait"}]
      /\ base' \in [Callers -> 0..MaxAddresses]
  BY DEF RestoreFromDb, Refuse
<1>2. TypeOK'
  BY <1>1 DEF pool, wallet, PoolTypeOK
<1>3. PoolInv'
  BY <1>1 DEF pool, PoolInv, PoolTypeOK, Sent, Jobs
<1>4. holder # c /\ pc'[c] \notin {"launch", "wait"}
  BY DEF RestoreFromDb, Refuse, HolderInv
<1>5. \A d \in Callers : d # c => pc'[d] = pc[d] /\ base'[d] = base[d]
  BY DEF RestoreFromDb, Refuse
<1>6. holder # None => base'[holder] = base[holder]
  BY <1>4, <1>5
<1>7. HolderInv'
  BY <1>1, <1>4, <1>5, <1>6 DEF HolderInv, pool
<1>8. SavedInv'
  <2>1. base'[c] = addressCount \/ base'[c] = 0
    BY DEF RestoreFromDb, Refuse
  <2>2. \A k \in 0..MaxAddresses : k < base'[c] => k \in addresses
    BY <2>1 DEF SavedInv, AddressesCounted
  <2> QED
    BY <1>1, <1>5, <1>6, <2>2 DEF SavedInv, AddressesCounted, pool, wallet
<1> QED
  BY <1>2, <1>3, <1>7, <1>8

LEMMA BeginInv ==
  ASSUME BatchInv, NEW c \in Callers, Begin(c)
  PROVE  BatchInv'
<1> USE BatchAssumption DEF BatchInv, TypeOK
<1>1. PICK n \in 0..MaxJobs : base[c] + n <= MaxAddresses /\ PoolStart(n)
  BY DEF Begin
<1>2. PoolInv' /\ PoolTypeOK'
  BY <1>1, PoolStartInv DEF PoolInv
<1>3. /\ holder' = c /\ pc' = [pc EXCEPT ![c] = "launch"] /\ holder = None
      /\ saved' = {} /\ errcount' = 0
      /\ overlapped' = (overlapped \/ base[c] # addressCount)
      /\ UNCHANGED <<wallet, base, spent>>
  BY DEF Begin
<1>4. count' = n /\ bad' = {} /\ collected' = {} /\ returned' = FALSE
  BY <1>1 DEF PoolStart
<1>5. TypeOK'
  BY <1>2, <1>3 DEF wallet
<1>6. HolderInv'
  BY <1>1, <1>3, <1>4 DEF HolderInv
<1>7. SavedInv'
  BY <1>3, <1>4 DEF SavedInv, AddressesCounted, wallet
<1> QED
  BY <1>2, <1>5, <1>6, <1>7

\* A goroutine moves, without a result that is lost or received.
LEMMA MoveInv ==
  ASSUME BatchInv, NEW i \in Jobs, UNCHANGED others,
         Launch(i) \/ Acquire(i) \/ Put(i) \/ Release(i) \/ Succeed(i)
  PROVE  BatchInv'
<1>1. PoolInv' /\ PoolTypeOK'
  BY PoolStepInv DEF BatchInv, PoolInv, PoolStep
<1>2. UNCHANGED <<count, bad, collected, returned>>
  BY DEF Launch, Acquire, Put, Release, Succeed
<1>3. TypeOK' /\ HolderInv' /\ SavedInv'
  BY <1>1, <1>2
  DEF BatchInv, TypeOK, HolderInv, SavedInv, AddressesCounted, others, wallet
<1> QED
  BY <1>1, <1>3 DEF BatchInv

LEMMA FailDeriveInv ==
  ASSUME BatchInv, NEW i \in Jobs, FailDerive(i)
  PROVE  BatchInv'
<1>1. PoolInv' /\ PoolTypeOK'
  BY PoolStepInv DEF FailDerive, BatchInv, PoolInv, PoolStep
<1>2. /\ UNCHANGED <<count, collected, returned>> /\ bad' = bad \union {i}
      /\ UNCHANGED <<wallet, pc, base, holder, saved, errcount, overlapped>>
      /\ i \notin collected
  BY DEF FailDerive, Fail, Step, BatchInv, PoolInv, Sent
<1>3. spent' \in [Kinds -> Nat]
  BY HappensType DEF FailDerive, Kinds, BatchInv, TypeOK
<1>4. TypeOK' /\ HolderInv' /\ SavedInv'
  BY <1>1, <1>2, <1>3
  DEF BatchInv, TypeOK, HolderInv, SavedInv, AddressesCounted, wallet
<1> QED
  BY <1>1, <1>4 DEF BatchInv

LEMMA CollectInv ==
  ASSUME BatchInv, NEW i \in Jobs, Collect(i)
  PROVE  BatchInv'
<1>1. PoolInv' /\ PoolTypeOK'
  BY PoolStepInv DEF Collect, BatchInv, PoolInv, PoolStep
<1>2. /\ UNCHANGED <<count, bad, returned>> /\ collected' = collected \union {i}
      /\ UNCHANGED <<wallet, pc, base, holder, overlapped>>
      /\ Cardinality(collected) < count
  BY DEF Collect, Receive
<1>3. holder # None /\ base[holder] \in 0..MaxAddresses /\ i \in 1..count
      /\ base[holder] + count <= MaxAddresses /\ count \in Nat
  BY <1>2, BatchAssumption DEF BatchInv, HolderInv, TypeOK, PoolTypeOK, Jobs
<1>4. spent' \in [Kinds -> Nat]
  BY HappensType DEF Collect, Kinds, BatchInv, TypeOK
<1>5. \/ errcount' = errcount + 1 /\ saved' = saved
      \/ /\ errcount' = errcount /\ i \notin bad
         /\ saved' = saved \union {base[holder] + i - 1}
  BY DEF Collect
<1>6. errcount' \in Nat /\ saved' \subseteq 0..MaxAddresses - 1
  <2> DEFINE index == base[holder] + i - 1
  <2>1. index \in 0..MaxAddresses - 1
    BY <1>3, BatchAssumption
  <2>2. errcount \in Nat /\ saved \subseteq 0..MaxAddresses - 1
    BY DEF BatchInv, TypeOK
  <2>3. saved' = saved \/ saved' = saved \union {index}
    BY <1>5
  <2> HIDE DEF index
  <2>4. saved' \subseteq 0..MaxAddresses - 1
    BY <2>1, <2>2, <2>3
  <2> QED
    BY <1>5, <2>2, <2>4
<1>7. TypeOK'
  BY <1>1, <1>2, <1>4, <1>6 DEF BatchInv, TypeOK, wallet
<1>8. HolderInv'
  BY <1>2, <1>3 DEF BatchInv, HolderInv
<1>9. ASSUME errcount' = 0
      PROVE  /\ collected' \intersect bad' = {}
             /\ saved' = {base[holder] + k - 1 : k \in collected'}
  <2>1. errcount = 0 /\ i \notin bad /\ saved' = saved \union {base[holder] + i - 1}
    BY <1>5, <1>9 DEF BatchInv, TypeOK
  <2>2. /\ collected \intersect bad = {}
        /\ saved = {base[holder] + k - 1 : k \in collected}
    BY <1>3, <2>1 DEF BatchInv, SavedInv
  <2> QED
    BY <1>2, <2>1, <2>2
<1>10. SavedInv'
  BY <1>2, <1>9 DEF BatchInv, SavedInv, AddressesCounted, wallet
<1> QED
  BY <1>1, <1>7, <1>8, <1>10 DEF BatchInv

LEMMA EndLaunchingInv ==
  ASSUME BatchInv, EndLaunching
  PROVE  BatchInv'
<1> USE BatchAssumption DEF BatchInv, TypeOK
<1>1. /\ UNCHANGED <<pool, wallet, base, holder, saved, errcount, overlapped, spent>>
      /\ holder \in Callers /\ pc' = [pc EXCEPT ![holder] = "wait"]
  BY DEF EndLaunching, Launching
<1>2. PoolInv' /\ PoolTypeOK'
  BY <1>1 DEF pool, PoolInv, PoolTypeOK, Sent, Jobs
<1>3. TypeOK' /\ HolderInv' /\ SavedInv'
  BY <1>1, <1>2 DEF HolderInv, SavedInv, AddressesCounted, pool, wallet
<1> QED
  BY <1>2, <1>3

\* A call ends with the transaction rolled back, by an error or by a crash.
LEMMA EndCallInv ==
  ASSUME BatchInv, EndCall, holder # None, UNCHANGED wallet, spent' \in [Kinds -> Nat],
         PoolInv', Cardinality(collected') = count'
  PROVE  BatchInv'
<1> USE BatchAssumption DEF BatchInv, TypeOK
<1>1. /\ holder \in Callers /\ pc' = [pc EXCEPT ![holder] = "idle"]
      /\ base' = [base EXCEPT ![holder] = 0]
      /\ holder' = None /\ saved' = {} /\ errcount' = 0
      /\ UNCHANGED <<wallet, overlapped>>
  BY DEF EndCall
<1>2. TypeOK'
  BY <1>1 DEF wallet, PoolInv
<1>3. HolderInv'
  BY <1>1 DEF HolderInv
<1>4. SavedInv'
  <2>1. \A c \in Callers : base'[c] = base[c] \/ base'[c] = 0
    BY <1>1
  <2> QED
    BY <1>1, <2>1 DEF SavedInv, AddressesCounted, wallet
<1> QED
  BY <1>2, <1>3, <1>4

LEMMA RollBackInv ==
  ASSUME BatchInv, RollBack
  PROVE  BatchInv'
<1>1. Close /\ EndCall /\ UNCHANGED wallet /\ holder # None
  BY DEF RollBack, Leave, Waiting
<1>2. PoolInv' /\ Cardinality(collected') = count'
  BY <1>1, CloseInv DEF BatchInv, Close
<1>3. spent' \in [Kinds -> Nat]
  BY HappensType DEF RollBack, Kinds, BatchInv, TypeOK
<1> QED
  BY <1>1, <1>2, <1>3, EndCallInv

LEMMA CrashInv ==
  ASSUME BatchInv, Crash
  PROVE  BatchInv'
<1>1. EndCall /\ UNCHANGED wallet /\ holder # None /\ PoolStart(0)
  BY DEF Crash
<1>2. PoolInv'
  BY <1>1, PoolStartInv, PoolAssumption
<1>3. Cardinality(collected') = count'
  BY <1>1, FS_EmptySet DEF PoolStart
<1>4. spent' \in [Kinds -> Nat]
  BY HappensType DEF Crash, Kinds, BatchInv, TypeOK
<1> QED
  BY <1>1, <1>2, <1>3, <1>4, EndCallInv

\* The new addresses are those that follow the present ones.
LEMMA CommitInv ==
  ASSUME BatchInv, Commit
  PROVE  BatchInv'
<1> USE BatchAssumption DEF BatchInv, TypeOK
<1>1. Close /\ EndCall /\ holder \in Callers /\ holder # None /\ errcount = 0
  BY DEF Commit, Leave, Waiting
<1>2. PoolInv' /\ PoolTypeOK' /\ Cardinality(collected') = count'
  BY <1>1, CloseInv DEF Close, PoolInv
<1>3. /\ pc' = [pc EXCEPT ![holder] = "idle"] /\ base' = [base EXCEPT ![holder] = 0]
      /\ holder' = None /\ saved' = {} /\ errcount' = 0
      /\ UNCHANGED <<overlapped, spent>>
  BY <1>1 DEF EndCall, Commit
<1>4. collected = Jobs
  BY <1>1, AllCollected DEF Close
<1> DEFINE b == base[holder]
<1>5. b \in 0..MaxAddresses /\ count \in Nat /\ b + count <= MaxAddresses
  BY <1>1 DEF HolderInv, PoolTypeOK
<1>6. addressCount' = b + count
  <2>1. {i \in Jobs : worker[i] # "none"} = Jobs
    BY <1>4 DEF PoolInv, Sent
  <2>2. Cardinality(Jobs) = count
    BY <1>5, FS_Interval DEF Jobs
  <2> QED
    BY <2>1, <2>2 DEF Commit
<1>7. saved = {b + i - 1 : i \in 1..count}
  BY <1>1, <1>4 DEF SavedInv, Jobs
<1>8. addresses' = addresses \union {b + i - 1 : i \in 1..count}
  BY <1>7 DEF Commit
<1> HIDE DEF b
<1>9. addresses' \subseteq 0..MaxAddresses - 1 /\ addressCount' \in 0..MaxAddresses
  <2>1. \A i \in 1..count : b + i - 1 \in 0..MaxAddresses - 1
    BY <1>5
  <2>2. addresses \subseteq 0..MaxAddresses - 1
    OBVIOUS
  <2>3. b + count \in 0..MaxAddresses
    BY <1>5
  <2> QED
    BY <1>6, <1>8, <2>1, <2>2, <2>3
<1>10. TypeOK'
  BY <1>1, <1>2, <1>3, <1>9
<1>11. HolderInv'
  BY <1>1, <1>2, <1>3 DEF HolderInv
<1>12. ASSUME NEW k \in 0..MaxAddresses, k < addressCount'
       PROVE  k \in addresses'
  <2>1. CASE k < b
    BY <1>1, <1>8, <2>1 DEF SavedInv, b
  <2>2. CASE ~(k < b)
    <3>1. k - b + 1 \in 1..count /\ k = b + (k - b + 1) - 1
      BY <1>5, <1>6, <1>12, <2>2
    <3> QED
      BY <1>8, <3>1
  <2> QED
    BY <2>1, <2>2
<1>13. ASSUME ~overlapped, NEW k \in addresses'
       PROVE  k < addressCount'
  <2>1. b = addressCount
    BY <1>1, <1>13 DEF SavedInv, b
  <2>2. CASE k \in addresses
    BY <1>5, <1>6, <1>13, <2>1, <2>2 DEF SavedInv, AddressesCounted
  <2>3. CASE k \in {b + i - 1 : i \in 1..count}
    BY <1>5, <1>6, <2>3
  <2> QED
    BY <1>8, <2>2, <2>3
<1>14. ASSUME NEW c \in Callers, NEW k \in 0..MaxAddresses, k < base'[c]
       PROVE  k \in addresses'
  <2>1. base'[c] = base[c] \/ base'[c] = 0
    BY <1>3
  <2>2. k < base[c]
    BY <1>14, <2>1
  <2> QED
    BY <1>8, <2>2 DEF SavedInv
<1>15. SavedInv'
  BY <1>3, <1>12, <1>13, <1>14 DEF SavedInv, AddressesCounted
<1> QED
  BY <1>2, <1>10, <1>11, <1>15

LEMMA CreateBatchInv == BatchInv /\ CreateBatchAddress2 => BatchInv'
<1> SUFFICES ASSUME BatchInv, CreateBatchAddress2 PROVE BatchInv'
  OBVIOUS
<1>1. CASE LaunchNext
  BY <1>1, MoveInv DEF LaunchNext
<1>2. ASSUME NEW i \in Jobs, Move(i) \/ Derive(i) PROVE BatchInv'
  BY <1>2, MoveInv DEF Move, Derive
<1> QED
  BY <1>1, <1>2, EndLaunchingInv, FailDeriveInv, CollectInv, RollBackInv, CommitInv
  DEF CreateBatchAddress2

-----------------------------------------------------------------------------
(* The wallets.                                                            *)

\* A creation touches no address, or only counts a disturbance.
LEMMA CreationKeepsBatches ==
  ASSUME BatchInv, NEW w \in Wallets, CreateWallet(w)
  PROVE  BatchInv'
<1>1. UNCHANGED <<pool, wallet, pc, base, holder, saved, errcount, overlapped>>
  BY DEF CreateWallet, CheckAlias, StoreHDKey, SaveWallet, AbandonWallet, vars, wallet
<1>2. spent' \in [Kinds -> Nat]
  BY HappensType
  DEF CreateWallet, CheckAlias, StoreHDKey, SaveWallet, AbandonWallet, vars, Kinds,
      BatchInv, TypeOK
<1>3. PoolInv' /\ PoolTypeOK'
  BY <1>1 DEF BatchInv, pool, PoolInv, PoolTypeOK, Sent, Jobs
<1>4. TypeOK' /\ HolderInv' /\ SavedInv'
  BY <1>1, <1>2, <1>3
  DEF BatchInv, TypeOK, HolderInv, SavedInv, AddressesCounted, pool, wallet
<1> QED
  BY <1>3, <1>4 DEF BatchInv

LEMMA BatchStepsInv == BatchInv /\ BatchSteps => BatchInv'
BY CallerInv, BeginInv, CreateBatchInv, CrashInv DEF BatchSteps

LEMMA FilesBatchInv == BatchInv /\ [FilesNext]_<<vars, fileVars>> => BatchInv'
<1> SUFFICES ASSUME BatchInv, [FilesNext]_<<vars, fileVars>> PROVE BatchInv'
  OBVIOUS
<1>1. CASE UNCHANGED vars
  BY <1>1
  DEF vars, pool, wallet, BatchInv, PoolInv, PoolTypeOK, TypeOK, HolderInv, SavedInv,
      AddressesCounted, Sent, Jobs
<1>2. ASSUME NEW c \in Callers, RestoreMain(c) PROVE BatchInv'
  BY <1>2, CallerInv DEF RestoreMain
<1> QED
  BY <1>1, <1>2, CreationKeepsBatches, BatchStepsInv DEF FilesNext

\* No call of CreateBatchAddress2 reads the wallet before it is created, and the
\* addresses change only while a caller has gone on from there.
LEMMA BatchStepsFrame ==
  ASSUME BatchInv, BatchSteps
  PROVE  /\ UNCHANGED fileVars
         /\ \A c \in Callers : pc'[c] # "idle" => pc[c] # "idle"
         /\ addresses' # addresses => \E c \in Callers : pc[c] # "idle"
<1> USE BatchAssumption DEF BatchInv, TypeOK
<1>1. UNCHANGED fileVars
  BY DEF BatchSteps
<1>2. ASSUME NEW c \in Callers, Refuse(c) \/ Begin(c)
      PROVE  /\ \A d \in Callers : pc'[d] # "idle" => pc[d] # "idle"
             /\ addresses' = addresses
  BY <1>2 DEF Refuse, Begin, wallet
<1>3. ASSUME NEW i \in Jobs, Move(i) \/ Derive(i) \/ FailDerive(i) \/ Collect(i)
      PROVE  UNCHANGED <<pc, addresses>>
  BY <1>3 DEF Move, Derive, FailDerive, Collect, others, wallet
<1>4. CASE LaunchNext
  BY <1>1, <1>4 DEF LaunchNext, others, wallet
<1>5. CASE EndLaunching
  BY <1>1, <1>5 DEF EndLaunching, Launching, wallet
<1>6. CASE RollBack \/ Crash
  BY <1>1, <1>6 DEF RollBack, Crash, Leave, EndCall, wallet
<1>7. CASE Commit
  <2>1. holder \in Callers /\ pc[holder] = "wait" /\ pc' = [pc EXCEPT ![holder] = "idle"]
    BY <1>7 DEF Commit, Waiting, Leave, EndCall
  <2> QED
    BY <1>1, <2>1
<1> QED
  BY <1>1, <1>2, <1>3, <1>4, <1>5, <1>6, <1>7 DEF BatchSteps, CreateBatchAddress2

LEMMA CreationStep ==
  ASSUME BatchInv, BatchInv', CreationInv, NEW w \in Wallets, CreateWallet(w)
  PROVE  CreationInv'
<1> USE WalletAssumption DEF CreationInv, FilesTypeOK, BatchInv
<1>1. UNCHANGED <<pc, addresses>>
  BY DEF CreateWallet, CheckAlias, StoreHDKey, SaveWallet, AbandonWallet, vars, wallet
<1>2. CASE CheckAlias(w)
  <2>1. /\ stage[w] = "none" /\ stage' = [stage EXCEPT ![w] = "checked"]
        /\ raced' = (raced \/ \E v \in Wallets : SameName(v, w) /\ stage[v] = "checked")
        /\ \A v \in Wallets : SameName(v, w) => stage[v] \in {"none", "checked"}
    BY <1>2 DEF CheckAlias, Advance, KeyFiles
  <2>2. stage[Main] = "created" => stage'[Main] = "created"
    BY <2>1
  <2>3. ASSUME ~raced', NEW u \in Wallets, NEW v \in Wallets, SameName(u, v)
        PROVE  stage'[u] = "none" \/ stage'[v] = "none"
    <3>1. \A x \in Wallets : SameName(x, w) => stage[x] = "none" /\ stage'[x] = "none"
      BY <2>1, <2>3 DEF SameName
    <3>2. CASE u = w
      <4>1. SameName(v, w)
        BY <2>3, <3>2 DEF SameName
      <4> QED
        BY <3>1, <4>1
    <3>3. CASE v = w
      BY <2>3, <3>1, <3>3
    <3>4. CASE u # w /\ v # w
      BY <2>1, <2>3, <3>4
    <3> QED
      BY <3>2, <3>3, <3>4
  <2> QED
    BY <1>1, <2>1, <2>2, <2>3
<1>3. ASSUME raced' = raced, stage[w] # "none", stage[w] # "created",
             \E to \in {"none", "stored", "created", "orphan"} :
               stage' = [stage EXCEPT ![w] = to]
      PROVE  CreationInv'
  <2>1. stage[Main] = "created" => stage'[Main] = "created"
    BY <1>3
  <2>2. \A v \in Wallets : stage[v] = "none" => stage'[v] = "none"
    BY <1>3
  <2> QED
    BY <1>1, <1>3, <2>1, <2>2 DEF SameName
<1>4. CASE StoreHDKey(w) \/ SaveWallet(w) \/ AbandonWallet(w)
  BY <1>3, <1>4 DEF StoreHDKey, SaveWallet, AbandonWallet, Advance
<1> QED
  BY <1>2, <1>4 DEF CreateWallet

LEMMA InitCreationInv == FilesInit => BatchInv /\ CreationInv
<1> SUFFICES ASSUME FilesInit PROVE BatchInv /\ CreationInv
  OBVIOUS
<1>1. BatchInv
  BY InitBatchInv DEF FilesInit
<1>2. CreationInv
  BY <1>1 DEF FilesInit, Init, CreationInv, FilesTypeOK, BatchInv
<1> QED
  BY <1>1, <1>2

LEMMA NextCreationInv ==
  BatchInv /\ CreationInv /\ [FilesNext]_<<vars, fileVars>> => CreationInv'
<1> SUFFICES ASSUME BatchInv, CreationInv, [FilesNext]_<<vars, fileVars>>
             PROVE  CreationInv'
  OBVIOUS
<1>1. BatchInv'
  BY FilesBatchInv
<1>2. CASE UNCHANGED <<vars, fileVars>>
  BY <1>1, <1>2 DEF vars, wallet, fileVars, CreationInv, FilesTypeOK, BatchInv
<1>3. ASSUME NEW w \in Wallets, CreateWallet(w) PROVE CreationInv'
  BY <1>1, <1>3, CreationStep
<1>4. ASSUME NEW c \in Callers, RestoreMain(c) PROVE CreationInv'
  <2>1. /\ stage[Main] = "created" /\ UNCHANGED fileVars
    BY <1>4 DEF RestoreMain, Restorable
  <2> QED
    BY <1>1, <2>1 DEF fileVars, CreationInv, FilesTypeOK, BatchInv
<1>5. CASE BatchSteps
  BY <1>1, <1>5, BatchStepsFrame DEF fileVars, CreationInv, FilesTypeOK, BatchInv
<1> QED
  BY <1>2, <1>3, <1>4, <1>5 DEF FilesNext

LEMMA FilesInv == FilesSpec => [](BatchInv /\ CreationInv)
BY InitCreationInv, FilesBatchInv, NextCreationInv, PTL DEF FilesSpec

-----------------------------------------------------------------------------
\* The variables of the wallets and of the batches hold values of their types: no
\* batch goes beyond the addresses a wallet may get.
THEOREM FilesTypes == FilesSpec => []FilesTypeOK
BY FilesInv, PTL DEF CreationInv

\* No goroutine of CreateBatchAddress2 sends on the channels it has closed, also
\* when the call ends early (the deferred close of threadControl and resultChan).
THEOREM BatchesSendOnOpenChannels == FilesSpec => []NoSendAfterClose
BY FilesInv, PoolNoSendAfterClose, PTL DEF BatchInv

\* A wallet has every address below its AddressCount, whatever failed, was rolled back
\* or crashed and however callers overlap, and no others as long as none overlapped
\* (the transaction of CreateBatchAddress2).
THEOREM BatchesCountAddresses == FilesSpec => []AddressesCounted
BY FilesInv, PTL DEF BatchInv, SavedInv

\* Two key files have one name only if two creations of it overlapped, and there
\* is no address of a wallet without key file and record (the duplicate check of
\* GetWalletKeys, the order of CreateWallet).
THEOREM WalletKeysComeFirst == FilesSpec => []KeysComeFirst
<1>1. CreationInv => KeysComeFirst
  BY WalletAssumption DEF CreationInv, KeysComeFirst, KeyFiles, Restorable
<1> QED
  BY <1>1, FilesInv, PTL

-----------------------------------------------------------------------------
(* A call can go on.                                                       *)

\* A caller waits only when all goroutines are launched, unless too many failed.
AllOut == Waiting /\ errcount < MaxErrors => \A i \in Jobs : worker[i] # "none"

CallingInv == FlowInv /\ AllOut

LEMMA InitCallingInv == Init => CallingInv
<1> SUFFICES ASSUME Init PROVE CallingInv
  OBVIOUS
<1>1. Jobs = {} /\ count = 0 /\ ~Waiting
  BY DEF Init, Jobs, Waiting
<1>2. 0 \in 0..count /\ Sent = {}
  BY <1>1 DEF Sent
<1> QED
  BY <1>1, <1>2 DEF CallingInv, FlowInv, AllOut

\* A goroutine or the collector moves on; failures are not taken back.
LEMMA PoolStepCalling ==
  ASSUME BatchInv, CallingInv, NEW i \in Jobs, PoolStep(i), UNCHANGED <<pc, holder>>,
         errcount' \in {errcount, errcount + 1}
  PROVE  CallingInv'
<1>1. FlowInv'
  BY PoolStepFlow DEF BatchInv, CallingInv
<1>2. Jobs' = Jobs /\ \A j \in Jobs : worker[j] # "none" => worker'[j] # "none"
  BY PoolAssumption
  DEF PoolStep, Launch, Acquire, Succeed, Fail, Put, Release, Receive, Step, Jobs, BatchInv,
      PoolInv, PoolTypeOK
<1>3. errcount \in Nat /\ MaxErrors \in Nat /\ errcount <= errcount'
  BY BatchAssumption DEF BatchInv, TypeOK
<1>4. Waiting' /\ errcount' < MaxErrors => Waiting /\ errcount < MaxErrors
  BY <1>3 DEF Waiting
<1> QED
  BY <1>1, <1>2, <1>4 DEF CallingInv, AllOut

LEMMA NextCallingInv ==
  BatchInv /\ CallingInv /\ [FilesNext]_<<vars, fileVars>> => CallingInv'
<1> SUFFICES ASSUME BatchInv, CallingInv, [FilesNext]_<<vars, fileVars>> PROVE CallingInv'
  OBVIOUS
\* The holder of the database stays where it is, and so does its pool.
<1>1. ASSUME UNCHANGED <<pool, holder, errcount>>, holder # None => pc'[holder] = pc[holder]
      PROVE  CallingInv'
  BY <1>1 DEF CallingInv, FlowInv, AllOut, Waiting, pool, Sent, Jobs
<1>2. CASE UNCHANGED vars
  BY <1>1, <1>2 DEF vars
<1>3. ASSUME NEW w \in Wallets, CreateWallet(w) PROVE CallingInv'
  BY <1>1, <1>3 DEF CreateWallet, CheckAlias, StoreHDKey, SaveWallet, AbandonWallet, vars
<1>4. ASSUME NEW c \in Callers, RestoreFromDb(c) \/ Refuse(c) PROVE CallingInv'
  <2>1. UNCHANGED <<pool, holder, errcount>> /\ holder # c
    BY <1>4 DEF RestoreFromDb, Refuse, BatchInv, HolderInv
  <2>2. \A d \in Callers : d # c => pc'[d] = pc[d]
    BY <1>4 DEF RestoreFromDb, Refuse, BatchInv, TypeOK
  <2>3. holder # None => holder \in Callers
    BY DEF BatchInv, TypeOK
  <2> QED
    BY <1>1, <2>1, <2>2, <2>3
<1>5. ASSUME NEW c \in Callers, Begin(c) PROVE CallingInv'
  <2>1. PICK n \in 0..MaxJobs : PoolStart(n)
    BY <1>5 DEF Begin
  <2>2. ~Waiting'
    BY <1>5 DEF Begin, Waiting, BatchInv, TypeOK
  <2> QED
    BY <2>1, <2>2, PoolStartFlow DEF CallingInv, AllOut
<1>6. CASE Crash
  <2>1. PoolStart(0) /\ 0 \in 0..MaxJobs /\ ~Waiting'
    BY <1>6, PoolAssumption DEF Crash, EndCall, Waiting
  <2> QED
    BY <2>1, PoolStartFlow DEF CallingInv, AllOut
<1>7. CASE RollBack \/ Commit
  <2>1. Close /\ ~Waiting'
    BY <1>7 DEF RollBack, Commit, Leave, EndCall, Waiting
  <2> QED
    BY <2>1, CloseFlow DEF CallingInv, AllOut
<1>8. CASE EndLaunching
  <2>1. /\ UNCHANGED <<pool, holder, errcount>>
        /\ (\A i \in Jobs : worker[i] # "none") \/ errcount >= MaxErrors
    BY <1>8 DEF EndLaunching
  <2>2. errcount \in Nat /\ MaxErrors \in Nat
    BY BatchAssumption DEF BatchInv, TypeOK
  <2>3. FlowInv'
    BY <2>1 DEF CallingInv, FlowInv, pool, Sent, Jobs
  <2>4. AllOut'
    BY <2>1, <2>2 DEF AllOut, pool, Jobs
  <2> QED
    BY <2>3, <2>4 DEF CallingInv
<1>9. CASE LaunchNext
  BY <1>9, PoolStepCalling DEF LaunchNext, others, PoolStep
<1>10. ASSUME NEW i \in Jobs, Move(i) \/ Derive(i) \/ FailDerive(i) \/ Collect(i)
       PROVE  CallingInv'
  <2>1. PoolStep(i) /\ UNCHANGED <<pc, holder>>
    BY <1>10 DEF Move, Derive, FailDerive, Collect, others, PoolStep
  <2>2. errcount' \in {errcount, errcount + 1}
    BY <1>10 DEF Move, Derive, FailDerive, Collect, others
  <2> QED
    BY <2>1, <2>2, PoolStepCalling
<1> QED
  BY <1>2, <1>3, <1>4, <1>5, <1>6, <1>7, <1>8, <1>9, <1>10
  DEF FilesNext, RestoreMain, BatchSteps, CreateBatchAddress2

\* A call of CreateBatchAddress2 in which fewer than errMaximum addresses have failed
\* never blocks, for any number of callers and jobs and any capacities of its channels:
\* the limit on errors is the only way to the hang (errcount, threadControl, resultChan).
THEOREM BatchesNeverStuck == FilesSpec => []BatchNeverStuck
<1>1. ASSUME BatchInv, CallingInv, holder # None, errcount < MaxErrors,
             ~(Launching /\ \E i \in Jobs : AtJob(i)),
             ~(Launching /\ \A i \in Jobs : worker[i] # "none"),
             ~(Waiting /\ Cardinality(collected) = count)
      PROVE  \E i \in Jobs : Ready(i)
  <2>1. Launching \/ Waiting
    BY <1>1 DEF Launching, Waiting, BatchInv, HolderInv, TypeOK
  <2>2. ~Launching
    BY <1>1, AllLaunched DEF BatchInv, CallingInv
  <2>3. Cardinality(collected) # count /\ \A i \in Jobs : worker[i] # "none"
    BY <1>1, <2>1, <2>2 DEF CallingInv, AllOut
  <2> QED
    BY <1>1, <2>3, SomeReady DEF BatchInv, CallingInv
<1>2. BatchInv /\ CallingInv => BatchNeverStuck
  BY <1>1 DEF BatchNeverStuck
<1>3. FilesInit => CallingInv
  BY InitCallingInv DEF FilesInit
<1> QED
  BY <1>2, <1>3, NextCallingInv, FilesInv, PTL DEF FilesSpec
=============================================================================
