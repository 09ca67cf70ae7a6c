# Verification of the DDM chain adapter

TLA+ models, TLC runs and TLAPS proofs for `ddmchain-adapter`, the openwallet
adapter of the DDM chain (`src/ddmchain`). Line numbers are those of the files
under `src/ddmchain` unless a path is given.

## 1. Inventory

| Component | State it keeps | Operations | Interacts with | What is hard | What makes it correct |
|---|---|---|---|---|---|
| Block scanner (`blockscanner.go`, `ddmchain.go`) | cursor (height and hash), headers by number, unscanned records in a storm/bolt file; `Scanning`; local variables of the running task | `ScanBlockTask` on a timer; `SetRescanBlockHeight`, `ScanBlock`, `ClearBlockScanDb`, `Run`, `Pause` by the host | node by RPC; observers by `NewBlockNotify`; extraction | the node reorganises between any two calls; crashes and failed or swallowed writes between two steps; host calls while a task runs | stored headers are one chain; nothing is stored before it was extracted; the calls of `NewBlockNotify` describe a chain that changes at its tip only; the scanner ends up on the node's chain |
| Transaction extraction (`blockscanner.go`, `ddmchain.go`) | `UnscanTransaction` records by TxID | `BatchExtractTransaction`, `newExtractDataNotify`, `RescanFailedTransactions` | node (receipts), observers (`BlockExtractDataNotify`), called by the scanner and by hosts | soft and hard failures mixed in one batch; retry and deletion of records that are saved again meanwhile | a failed notification has a record until it was made; records drain |
| Nonce cache and submission (`tx_decode.go`) | `AddrTxStatisMap`: per address a counter, valid flag, time and mutex, shared by pointers | `GetTransactionCount2`, `Submit*RawTransaction`, `RemoveOutdatedAddrStatic` every five minutes | node (nonce, broadcast), creation | concurrent callers, eviction under use, an entry visible before its nonce is known, lost answers | one submission per entry at a time; no nonce is skipped; entries expire |
| Raw transaction creation and summary (`tx_decode.go`, `manager.go`) | none between calls, except `FeeRate` written back into the host's object | `CreateRawTransaction`, `CreateSummaryRawTransaction` | node (balances, gas price), nonce cache, query pools | every number comes from a call of its own; decimals are rounded; a second account supports fees | nothing is overspent, the retained balance stays, the chosen address is the right one |
| Query pools (`blockscanner.go`, `contract_decoder.go`, `manager.go`) | goroutines, two channels, results of one call | five functions that query many addresses | node; callers above | full channels, early failures, channels closed by deferred calls | the call returns, with all results or an error; no send on a closed channel |
| Batch address creation (`manager.go`) | wallet database: addresses and `AddressCount` | `CreateBatchAddress2` | key derivation, wallet database | a failure or crash in the middle, other callers of the wallet, the error limit | addresses and count agree; the call ends |
| Extracted data (`blockscanner.go`, `models.go`) | none; records of one transaction and its receipt | `Make*ExtractData`, `ParseTransferEvent`, `ExtractTransactionData` | node (receipt), the host's filter of addresses; the observers' books | known and unknown parties, one account at both ends, token events, fees, data told twice | an observer's books agree with the node |
| RPC client (`api.go`, `manager.go`) | none; one request per call | `Call`, `GetAddrBalance`, `ERC20GetAddressBalance`, `ddmGetGasPriceNoParam`, reading of blocks, receipts, nonces | node; every other part | answers that are missing, of an unexpected type or without digits | no answer but a balance passes for one |
| Wallets and keys (`manager.go`, `models.go`) | key files, one database per wallet | `CreateWallet`, `GetWalletInfo`, listings, `BackupWallet2` | key store, batch creation | two files written one after the other, names checked long before they are taken | names are unique, no addresses without a wallet |
| Mempool scan, signing, configuration, assets manager, address codec | settings, or none | - | - | - | not modelled, see section 7 |

The host starts the scanner, whose timer calls `ScanBlockTask` one call at a
time. The task asks the node for blocks, extracts their transactions (receipts
from the node, data computed from the transaction and its receipt to the observers), writes header and cursor, hands the
block to `NewBlockNotify` for the observers, and at the end of every run retries the failed
transactions. Independently, host goroutines create raw transactions (balances
through a query pool, fee, nonce from the cache), sign them and submit them (lock
of the address's entry, broadcast, increment); a background goroutine evicts
entries of the cache. Every call to the node goes through the client, which decides what passes for
an answer. Wallets are created as a key file and a record; their addresses in batches
by a pool of the same shape as that of the queries. The parts meet in the scanner's database file (task
and host), in the nonce cache, in the wallet file and in the node.

## 2. Modules

| Module | Models | Built on |
|---|---|---|
| `ChainFollower` | abstract: what the scanner promises by its calls of `NewBlockNotify`, a set of blocks that grows and shrinks at its tip | - |
| `BlockScanner` | the scan task, its database, the host's calls, a node that mines and reorganises | implements `ChainFollower` |
| `TxExtraction` | a batch of transactions call by call, records and their retry, task and host at once | details what `BlockScanner` does in one step (`Extract`) |
| `Amounts` | the rounding of amounts | - |
| `ExtractData` | the data made of a transaction and its receipt, the books of a host, the node's own account | extends `Amounts` |
| `HostBooks` | extraction and the observers' books together | composes `TxExtraction` and `ExtractData` |
| `RpcClient` | what the client makes of the node's answers | - |
| `NonceCache` | the cache for one address, submission, eviction, node | - |
| `RawTxCreate` | creation of transfers and summaries, fee support, rounding | extends `Amounts`, `RpcClient` |
| `WorkerPool` | goroutines, channels, collector of one call | - |
| `QueryPool` | the five query functions, the values they read from a node that goes on | extends `WorkerPool`, `RpcClient` |
| `AddressBatch` | `CreateBatchAddress2` and the wallet's database | extends `WorkerPool` |
| `WalletFiles` | `CreateWallet`, key files and records, and the batches for one of the wallets | composes creation with `AddressBatch` |
| `MC*` | instances for TLC | |
| `*Proofs` | theorems about the module they are named after | `TxExtractionProofs` is also about `HostBooks`; `WorkerPoolProofs` is used by `QueryPoolProofs` and `WalletFilesProofs` |
| `ScannerObserverProofs` | theorems about `BlockScanner` and `ChainFollower` | extends `BlockScannerProofs` |

### How state and actions correspond to the code

*BlockScanner.* A block is the sequence of branch choices that leads to it, so
it is its own hash; its height is its length and its parent its front.
`db` is `BlockHeight`/`BlockHash` in the database, `headers` the `BlockHeader`
records (primary key `BlockNumber`), `unscanned` the blocks that have
`UnscanTransaction` records. `cur` is `curBlockHeight`/`curBlockHash` at the
head of the loop, `blk` and `fork` are `curBlock` and `forkBlock`. `pc` cuts
`ScanBlockTask` at every call that leaves the process or touches the database:
`LoadCursor`, `QueryBaseHeight`, `FetchBaseBlock` (183-194, 1144-1178),
`StopWhenPaused`, `CompareHeights` (197-212), `FetchNext`, `MissNext` (214-226),
`DropForked` (227-248), `Rewind`, `MissRewind` (250-270), `NotifyFork`
(272-278), `ExtractBlock` (281-285), `SaveBlockHeader2` (287-290),
`NotifyNewBlock` (292-298), `RescanFailedTransactions` (306, 156-181).
`FailX` is the error path of the call at that step; the disturbance `dberr` is
an error the code swallows (line 242, line 287, the ignored `tx.Commit()` of
`ddmchain.go` 167 and 260). `SetRescanBlockHeight` writes `db` at any step, also
while a task has its own cursor in `cur`; `asked` remembers a request made while no
task runs. `StoredChain` are the stored headers of the blocks that lead to the cursor;
`Settled` are the steps at which no notification of a write is due. `announced` are the
blocks handed to `NewBlockNotify` as new and not since as forked. That method belongs to
the openwallet library, not to `src/`, and delivers asynchronously (the comment at 276):
the model ends at the call, which the task makes in its own thread. What the library has
queued but not delivered when the process dies is lost besides; no property is about it. storm gives up opening a file that is locked for
longer than its timeout, and the scanner opens the file anew for every
operation, so these errors are ordinary ones. `Crash` keeps the database only.

*TxExtraction.* One worker is the scan task, the other a host in `ScanBlock`.
A transaction is taken from the batch (`FetchReceipt`), saved if its receipt
is null (`NullReceipt`, 1065-1076), and else the observers are notified one by one
(`Notify`, `NotifyFails`, 309-335). `FailBatch` is every error that ends the batch.
`taken` is the list `GetAllUnscannedTransactions` returned; `DeleteUnscannedTransactions`
deletes that list in one transaction, which fails if a record is missing.
`owed` is a history variable: the notifications that failed and were not made since.
`ExtractTransactionData` (1017-1038) scans a single transaction for a host: it tells
nobody, but saves a record when the receipt is null.

*ExtractData, HostBooks.* A transaction is a record of its fields (`Transaction`), a receipt
one of gas, status and logs (`Receipt`); `Native`, the contract id "" of the coin, is also the
empty `To` of a contract's creation. The five checks of `ParseTransferEvent` on the shape of a log are one
field of it. Each `Make*ExtractData` is an operator of the same name that returns
its records: an id (`Sid`, `WxID` as tuples of what the library hashes), address,
contract, direction, amount. `ExtractResult` is `TransactionScanning` with the update by the
receipt and the merging of both directions for one source key (1090-1107). `told` collects the
notifications; `Book` is what an observer has that keeps one record per id, and `Moved`
what the node did to a balance. `BooksAgree` compares the two to within half a unit
per record, because every amount is rounded on its own.

*RpcClient.* An answer has a type (`gjson`'s, or lost, an error, empty) and digits, which
are a number, none (`Blank`) or no digits at all (`Garbage`). `Replies(good)` are the
answers that can come in the place of a good one. The functions return a
value or an error, as in the code; two of them accept more than the others: `"0x"` is a token
balance of 0 and any result that is no string a gas price of 0.

*NonceCache.* An entry is what the pointers of an `AddressTxStatistic` lead to; a
caller keeps its entry when it has left the map. The count is read, and the
node's answer stored, outside the lock, as in 103-118. `old` is a flag of the
map's copy of `LastModifiedTime`: `UpdateTime` has a pointer receiver
but is called on a local copy, so only the creation sets it. The node
takes a transaction whose nonce is not confirmed and not in its pool; later
nonces than the next are queued, which is what makes a gap possible at all.

*RawTxCreate.* `op` is the request, `outer` the token summary that waits while
`CreateRawTransaction` runs for the support account. `snap` are the balances as
converted, `real` as the node reported them. `Rounded` is
`ConvertAmountToFloatDecimal`: `decimal.Div` keeps 16 digits after the point
(the library's default precision), so a value with 18 decimals is rounded
half up to a multiple of 100 wei. A conversion in the other direction is an
exact multiplication. What a suspended summary holds is typed by `Suspended`. `Estimate` takes the gas price that the client makes of any answer
of the node.

*WorkerPool, QueryPool, AddressBatch.* A goroutine's stages are `queued`
(`threadControl <- 1`), `busy`, `put` (`resultChan <- ...`), `release`, in the
order of its deferred calls. `AtJob` is where the launching loop is. `returned` means that the caller has run its deferred
`close`. The three ways to keep results (`place`, `field`, `list`) are the
five functions' own. `fn.calls` are the balances a query asks for, one after the other;
`Mine` is a block of the node between any two of them, and `read` what came back, by
address. The launching loop of `CreateBatchAddress2` reads
`errcount` without a lock; it may see any earlier value.

*WalletFiles.* `stage` is how far the creation of a wallet got: its name checked
(`CheckAlias`, 136-149), its key file written (`StoreHDKey`, 151-156), its record saved
(`SaveWallet`, 158-191), or given up in between (`AbandonWallet`: an error or the end of the
process, which for the files is the same). A wallet has an id of its own,
two may want the same name. `RestoreMain` is `GetWalletInfo` (446-471), which finds the
wallet by its key file and restores its record.

## 3. Runs

| Run | Question | Bounds |
|---|---|---|
| `scanner_follow` | Is what is handed to `NewBlockNotify` a chain, equal to the stored one, and does the scanner converge? | two branches, chain up to 4 blocks of which the first is final, 3 reorgs, 1 failed call, 1 pause |
| `scanner_deep` | Is it still a chain when the heights the scanner asks for are gone from the node? | two branches, chain up to 6 blocks of which the first is final, 2 reorgs |
| `scanner_disturbed` | Does the stored chain survive a crash, a cleared database, a swallowed error, and is a requested height scanned? | the chain of `scanner_follow`; any 3 (`Budget`) of one reorg, crash, clearing, swallowed error, rescan request and manual scan, each at any step |
| `tx_records` | Are failures remembered and retried, and do the books of the observers agree with the node? | 3 transactions in 2 blocks: a transfer within an account, a token transfer with its fee, one of strangers; task and host; 1 null receipt, 2 refused notifications, 1 failed call, 1 rewind. `DataAgree`: 5 parties of 2 accounts and 2 strangers, with and without value, status, one or two logs of two contracts |
| `nonce_cache` | Locks, eviction and gaps | 2 callers, 3 entries (two held by callers and the map's), nonces below 2, symmetric |
| `nonce_expiry` | Does every entry expire? | 2 callers, 2 entries |
| `raw_tx` | Are amounts and choices right? | 2 addresses and 1 support address, 3 balances, 2 gas prices, 9 requests, 1 change of the node's numbers in a call; unit of rounding 2 |
| `query_pool` | The right values or an error, and an end | up to 4 addresses with different balances, 2 goroutines at a time, room for 1 result, 1 block during the call, every kind of answer |
| `address_batch` | Are names unique, has every address a wallet, do addresses and count agree, can a call go on? | 2 wallets of one name, 2 callers, batches of up to 2, 1 goroutine at a time, room for 1 result, error limit 2, so that one address of a batch may fail below it; any 2 (`Budget`) of one failed creation, derivation, save, commit and a crash |
| `nonce_serialised`, `tx_twice_failed`, `address_batch_stuck` | findings, section 6 | as small as shows them |

Why these bounds are enough to be interesting: with four heights and one final
block a reorg may undo one, two or three blocks, be shorter, equal or longer than
what was scanned, and hit the scanner at every one of its steps; a second and
third one may hit the same rewind. The paths for a height the node no longer has
(`MissBaseBlock`, `MissRewind`) need a cursor two or more blocks above the node's
tip, which takes the six blocks of `scanner_deep`. Three disturbances at a time give
every triple of `scanner_disturbed`, each at every step of the task; `MissedCallsBounded` was also
checked with two reorgs, two crashes and two swallowed errors together. The bounds of the channels (20 and 1024 or 100 in
the code) are scaled so that both fill up. `MaxErrors` is 15 in the code; with 2, a call may
end without an error, with one that is below the limit, or meet the limit. Two
callers and the cleaner give every pair of roles in the nonce cache, and three
entries the case in which each caller holds an entry that has left the map. The
numbers of `raw_tx` are chosen on both sides of every comparison: equal to the
minimum, below, not a multiple of the unit, with and without enough for the fee.

One block of the chain is final and its height is 1 at least: the scanner never goes
back to height 0, which in its database means "nothing saved". The node's chain
grows to `MaxHeight` after its last reorg (a reorg stays below it), as a real chain
keeps growing; on a chain that stopped for good at the height of the cursor the
scanner would not notice a reorg, because it compares heights (209).

What the properties say:

- `LocalChainLinked`: the headers up to the cursor are one chain that ends in it.
- `ExtractedBeforeStored`: no header without the extraction of its block.
- `AnnouncedIsStored`, `FollowsChain`: the blocks handed to `NewBlockNotify` (and not since
  as forked) are the stored chain, and change at the tip only (refinement of
  `ChainFollower`). The order survives a delivery that is late but in order.
- `RollbackDropsRecords`: a step back leaves no unscanned record at the height given up.
- `NoBlockSkipped`: from the lowest stored header to the cursor every block was extracted.
- `MissedCallsBounded`: each crash and each swallowed error makes the scanner miss one call
  of `NewBlockNotify` at most, in each direction. It counts calls, not deliveries: what a
  crash destroys in the library's queue comes on top.
- `RescanAboveFirstHonoured`: a requested height above 1 is scanned before it is passed
  (for 1 see section 8).
- `ScanConverges`: the cursor ends on the node's chain, and with it what was handed over.
- `FirstFailuresRecorded`, `RecordsDrain`: failures are remembered, retried, deleted.
- `BooksComplete`: a transaction that was looked at and has no record is in the books of
  every observer, which agree with the node about it, however often and by whom it was told,
  if it is of the kind the records are made for (`Plain`; section 8 says what happens with
  others).
- `DataAgree`: the same for the data of any one such transaction by themselves, and no two
  pieces of data have one id.
- `EntryExclusion`, `InvalidLeavesMap`, `NoNonceGap`, `EntryExpires`: the locks, the
  eviction, the nonces. `NoNonceGap` includes entries that are used with the count 0 before
  the node has answered for them, and answers that come late and set a raised count back.
  `LocksAreReleased`: who holds a lock is in a part of the code that gives it back, on every
  path, so that nobody waits for it for good.
- `NoSendAfterClose`, `AllOrError`: the pools; every value that the caller
  gets was the node's for that address at a moment of the call.
- `NeverStuck`, `StepsRunOut`, `CallReturns`: a query returns. The first two are the safety
  half of the third: until it returns somebody has not to wait, and every step uses up a
  part of the call that nothing gives back. `BatchNeverStuck` is the first for a batch of
  addresses with fewer than `errMaximum` failures.
- `AddressesCounted`: no index below `AddressCount` is without its address, however callers
  overlap, fail or crash; and there are no other addresses as long as none overlapped.
  `BatchEnds`: a call in which fewer addresses fail than the limit, none or some, ends.
  `KeysComeFirst`: wallets.
  `NoSendAfterClose` is proved for batches and run for queries, whose pool is the same.
- `SummaryKeepsRetained`, `NothingOverspent`, `SufficientIsFound`, `SummaryComplete`,
  `SupportIsNeeded`: creation; "to within the rounding" is part of each, because
  the code rounds. `SufficientIsFound` says that a transfer passes over no address that
  can pay it. Which of those that can is taken depends on the sort of the balances, of whose
  order nothing is claimed: the code and its comments disagree on it (section 8).

Some properties hold only apart from a named disturbance, and say so in their
formula: `AnnouncedIsStored` without any (`Undisturbed`), others without swallowed writes (`dberr`), without calls that overlap
(`overlapped`), without creations of one name that overlap (`raced`), without the node's nonce stored over a smaller count during a broadcast with it (`jumped`), without a
second failure during a retry (`resaved`), without failed calls (`smooth`). What happens
with them is in sections 6 and 8. The address batch may stop (every caller
refused at the bound `MaxAddresses`, or hanging), so its runs do not check deadlock.

## 4. Fairness

- Scanner: the chain keeps growing (`Mine`), the host keeps the scanner running
  (`Run`, after a pause or a restart) and the timer calls the task again and again; within
  it, every RPC is assumed to return, with a result or an error. The
  RPC client sets no timeout of its own, so a node that never answers blocks the task.
- Extraction: a worker that has started goes on. `StartRetry` is strongly fair:
  every task ends with the retry, so although the task is now and then busy with
  blocks it gets there again and again. Hosts need never call.
- Nonce cache: calls that have started go on, time passes, the cleaner runs every five
  minutes; waiting for a mutex is strongly fair for the cleaner, since Go's mutexes hand
  over to whoever has waited for a millisecond.
- Pools and batches: goroutines are scheduled; a query returns or fails. Nobody need
  create a wallet or call for addresses.

Failures are bounded by `Limit` (in the scanner also by `Budget`): liveness says what happens once they stop.

## 5. Proofs

All theorems hold for every value of the constants under the named assumptions of the
modules: `ScannerAssumption`, `ExtractionAssumption`, `DataAssumption` (watched addresses are
addresses, the coin is none, the unit of rounding is positive), `HostAssumption` (a
transaction's hash is the name the extraction has for it, its fields and its receipt have
their types), `CacheAssumption`, `PoolAssumption`, `QueryAssumption`,
`BatchAssumption`, `WalletAssumption`, `CreateAssumption` (an account has finitely many
addresses). TLC evaluates them in the runs. Two hypotheses are in the theorems themselves:
`Finalised # <<>>`, that reorgs stop short of genesis; and that a kind of disturbance does not
happen (`Limit[k] = 0`).

### Scanner

| Theorem | Property | Argument |
|---|---|---|
| `ScannerTypes` | `TypeOK` | `TypeInv` adds what the steps need: the block in hand is one above the cursor and its child, except on the fork path where it is not (`StepInv`); the node keeps its final prefix and is ahead of it (`NodeInv`). A cursor at genesis is never left by a fork, because every block descends from it, so a rewind has a height to go to (`RewindAboveGenesis`) |
| `LocalChain`, if a block is final | `LocalChainLinked` | `ChainInv`: as long as no write was swallowed and no host moved the cursor, the task's cursor is the database's and everything it holds extends the final prefix (`TaskInv`); the headers up to the cursor are its ancestors, none is stored while the database has no cursor, and there is no gap between the lowest of them and the cursor (`DiskInv`). `LocalChainLinked` alone says nothing of the locals the next write takes its block from, nor of where a rewind lands |
| `ExtractionFirst` | `ExtractedBeforeStored` | `ExtractInv`: at the step `save` the block in hand is in `extracted` |
| `NothingSkipped`, if a block is final | `NoBlockSkipped` | `DiskInv` again: the stored headers below the cursor are its ancestors and have no gap, and `ExtractedBeforeStored` says each of them was extracted |
| `RescanHonoured`, if a block is final | `RescanAboveFirstHonoured` | `AskedInv`: until the height is scanned, everything the task works with is below it, and the database has a cursor to start from. A fork can lead further back, but never to height 1 or 0, where the request would be lost: `RootInv` says that every block held or stored has the node's first block as its root, whatever is lost or done by hand, so a fork is seen above it (`RewindAboveFirst`) |
| `RollbackClean`, if a block is final | `RollbackDropsRecords` | `DroppedInv`: between the deletion and the step back of the cursor no record of that height returns, whatever the node, a crash or a cleared database does in between; `ChainInv` says that the cursors, the task's and the database's, are the same, so the height that is given up is the one that was cleaned |
| `MissedCallsCounted`, if a block is final | `MissedCallsBounded` | A missed call must be counted while the two cursors, the task's and the database's, disagree and a notification is due. `Told` is what will have been handed to `NewBlockNotify` once that is done; `Kept` the headers up to both cursors, `Known` up to either. `CountInv`: `Told \ Kept` and `Known \ Told` have at most one element per crash and swallowed error, and strictly fewer at a rewind whose header is not going to be retracted. `StartInv` and `ForkInv` say what the database and the abandoned header are then. Together they are `LossInv`, preserved by every step because a step changes each of these sets by one block at most |
| `AnnouncedStored`, if a block is final | `AnnouncedIsStored` | `LossInv` with no loss: both differences are empty, and with `ChainInv` the cursors agree |
| `ScannerFollowsChain`, if a block is final and nothing is lost or done by hand | `FollowsChain` | Refinement: a notification of a new block adds a child of the tip (`NewBlockExtends`), one of a fork removes the tip (`ForkRetracts`), since what was handed over is the stored chain (`LossInv`) and that is linked (`ChainInv`); every other step is a stutter. `SpentInv` brings the limits of disturbances in |

### Extraction and books

| Theorem | Property | Argument |
|---|---|---|
| `ExtractionTypes`, `FailuresKept` | `TypeOK`, `FirstFailuresRecorded` | `RetriedInv`: what the task is retrying is still recorded, and at the deletion no owed notification belongs to a record it will delete, unless it was saved again |
| `LookedAtIsTold` | stated in the theorem | `ToldInv`: what a transaction has to tell was told or is owed once a worker has finished with it, and before that is pending at the worker. With `RetriedInv`, what is owed has a record |
| `DataOfPlain` | `DataAgree` | What a plain transaction leads to is written out: three records at most, by whom the host watches (`SimpleRecords`, `TokenRecords`, `ResultRecords`), with ids of their own, so that the book is just these (`BookedAll`). Of one address, coin and direction there are two at most (an amount and a fee), and a sum of two is found by giving the function that the fold is (`TotalIsSum`, `TotalTwo`), which needs no induction. Each record is off by half a unit at most (`EthStringIsClose`); tokens are not rounded. The two ids of a token transfer differ because its contract is no coin; a transfer within one account is told once because both directions name the same target (`PlainIds`) |
| `BooksKept` | `BooksComplete` | By `LookedAtIsTold` an observer has all records of the transaction. All records made of a transaction carry its hash in their id (`ExtractedHash`, down to each `Make*ExtractData` and the merging), and hashes differ, so those in the book under its hash are exactly those of its own data (`ToldRecords`, `BookedOwn`): no other transaction, told in whatever order, adds one or takes its place. These agree with the node by what `DataOfPlain` rests on (`PlainAgrees`) |

### Nonce cache

| Theorem | Property | Argument |
|---|---|---|
| `CacheTypes`, `Exclusion`, `InvalidLeaves` | `TypeOK`, `EntryExclusion`, `InvalidLeavesMap` | `LockInv`: who is between Lock and Unlock holds the lock of its entry, and an entry is only invalid, while in the map, in the hands of the cleaner |
| `NoLockIsLost` | `LocksAreReleased` | With `LockInv`, by cases on who takes a step: a caller outside the locked part touches no lock, one that leaves it unlocks its own entry, and an entry is only allocated anew when nobody can reach it |
| `NoGap` | `NoNonceGap` | `GapInv`: every count and every nonce that is in use is covered, that is, the node has all nonces below it; then a broadcast adds the next at most. A fresh entry is covered because its count is 0, and by the node's answer because that is the confirmed nonce; neither needs an order of the two. While a submission broadcasts, the count of its entry is at most the nonce it sends, so that raising the count keeps it covered: a late answer may lower it (`Prime`), and only one that is larger breaks this (`jumped`) |

### Pools, batches and wallets

| Theorem | Property | Argument |
|---|---|---|
| `QueriesSendOnOpenChannels`, `BatchesSendOnOpenChannels` | `NoSendAfterClose` of a query and of a batch | `PoolInv` of `WorkerPool`, proved for the pool's own steps (`WorkerPoolProofs`) and used for both: a result is collected or in the channel only if its goroutine has sent it, and never both; all collected means all sent |
| `QueriesNeverStuck`, `BatchesNeverStuck` | `NeverStuck`, `BatchNeverStuck` | `FlowInv` of `WorkerPool`: a result that was sent is in the channel until it is received, and the jobs launched are those before one job. If nobody can launch, all jobs are launched (`AllLaunched`); a goroutine that waits for a place means that others have it and those do not wait for one, and a full channel is for the collector, which still expects results (`SomeReady`, `NothingMore`). For a batch `CallingInv`: while fewer than `errMaximum` jobs have failed the loop does not end before all are launched (`AllOut`) |
| `QueriesRunOut` | `StepsRunOut` | Each step of the pool takes a goroutine to a later stage, a result out of those to come, or the caller to its return (`PoolStepRunsOut`, `CloseRunsOut`); an answer is one call less. All three are finite, so a call has finitely many steps; with `QueriesNeverStuck` it therefore returns as soon as its goroutines are scheduled |
| `QueryTypes`, `QueriesAllOrError` | `TypeOK`, `AllOrError` of `QueryPool` | `QueryInv`: what a job has read so far was held by the node at moments in order, and a job that has not failed has made every call; for this each function of the client is shown to return a value the node held or an error, for every answer. `ResultInv`: what the caller keeps is what came from the jobs that did not fail, in each of the three ways of keeping it |
| `FilesTypes`, `BatchesCountAddresses` | `FilesTypeOK`, `AddressesCounted` | `HolderInv`: the pool works for the caller that holds the database, and it has all results when it gives it back. `SavedInv`: without errors, what is saved is what was received, from the count the call began at; and the wallet has every address below a count that any caller has read, which is why a call that began too low leaves no gap when it sets the count back |
| `WalletKeysComeFirst` | `KeysComeFirst` | `CreationInv`: two creations of one name are under way only if they raced; a batch works only for a wallet with key file and record |

### Creation

| Theorem | Property | Argument |
|---|---|---|
| `CreateTypes` | `TypeOK` | `CallInv`: the balances a call works on are those it read, rounded (`OpInv`); a summary that waits for a support transfer goes on with what it had (`OuterInv`). A fee is a natural number for every answer to the question for the gas price |
| `SupportOnlyIfNeeded` | `SupportIsNeeded` | `OuterInv` again, with `SupportCoversFee` |
| `CreatedNotOverspent`, `SummariesKeepRetained` | `NothingOverspent`, `SummaryKeepsRetained` | `RoundedIsClose`: rounding moves an amount by at most half a unit. Each transaction is `Covered` and `Kept` when it is built (`TxCovered`, `TxKept`), by the check of `Build` and the choice of the address in `OpInv`, and what the node does afterwards does not matter since both are about the balance that was read |
| `TransfersFindSufficient`, `SummariesComplete` | `SufficientIsFound`, `SummaryComplete` | `PassedInv`, for every order of the addresses: every address is still to come, in hand, or could not pay (`Insufficient`), or has nothing to give or is in a transaction (`NothingToTake`); at the end none is still to come. An address that a transfer has chosen is not refused in the end, because `OpInv` has the check of `Build` for it |

`LossInv` and what it rests on were first checked by TLC, with the bounds of
`scanner_disturbed` and with two reorgs, two swallowed errors, a crash and a failed call.

Two remarks on the models. Where TLC takes the first of several `CASE` arms that hold, the logic
leaves the choice open: the arms of `QueryPool` and `RpcClient` that overlapped are written as
`IF ... ELSE`. `BooksAgree` is one formula for the records of one transaction
(`RecordsAgree` of `OwnRecords`), so that a proof can replace the records and need not look
into the sums.

Only model-checked: all liveness (`ScanConverges`, `RecordsDrain`, `EntryExpires`,
`CallReturns`, `BatchEnds`), which with its fairness is out of the prover's reach. Of
`CallReturns` the part that fairness does not give is proved all the same, for every number
of addresses and any capacities (`QueriesNeverStuck`, `QueriesRunOut`), and of `BatchEnds`
that a batch is never stuck. The three properties of section 6 are false.

## 6. Findings

1. **The nonce is read during a broadcast** (`nonce_serialised`). The comment on
   `AddressTxStatistic` (`tx_decode.go` 73-74) forbids concurrent broadcasts of an address
   and reading its nonce during one. The count is read at 110 after the lock was
   given back at 104, so the reader gets the nonce that is being used;
   its transaction is refused later as "nonce out of dated".
   With two entries for one address (after an eviction) two broadcasts may also overlap.
2. **A second failure is forgotten** (`tx_twice_failed`). `RescanFailedTransactions`
   deletes every record it read (175), also one that was saved again during the retry.
3. **A batch of addresses hangs** (`address_batch_stuck`). At `errMaximum` failures the
   launching loop stops (`manager.go` 599), but the collector waits for `count` results
   (583): the call never returns and keeps the wallet's database open, where it means to
   return "errors ocurred exceed the maximum" (641).

## 7. Not modelled

Signing and verification, configuration, the assets manager and the address codec:
functions of their arguments or plain I/O. Of the wallets: `BackupWallet2` (copies files),
`GetLocalWalletList` and the token lists, unlocking and key derivation. Of the client:
the decoding of blocks, receipts and nonces, where a call is a step that returns or
fails in the module that makes it. `ScanTxMemPool` is behind `IsScanMemPool`,
which `NewDDMBlockScanner` sets to false and nothing in `src/` sets to true.
`GetSequentTxNonce` has no live caller (its call is commented out in
`GetNonceForAddress2`). What is left would add wording or I/O to the models, not behaviour.

Abstractions to be aware of: what is handed to `NewBlockNotify` is not followed any further,
so nothing here says when observers get it, nor how much of it a crash destroys (one crash
may destroy any number of headers queued in the library). `ClearBlockScanDb` is one step, a host runs one `ScanBlock` at a
time, deletion by height deletes all or none when it fails, a support scale is a natural number,
`MinTransfer` and the other amounts of a request parse. A number that is not given in
digits is `Blank` or `Garbage`, whatever its text. Observers keep one record per id; whether a
host does so is its own affair. The summaries' support transfers are created but not
submitted in the model.

## 8. Observations without a run

Seen while modelling. Where a comment or a message of the code promises otherwise, it is quoted.

Scanner:

- An error in `RecoverBlockHeader` at 242 is ignored: the abandoned block is never
  retracted. A write lost at 287-290 has the same effect after the next fork.
- A crash between 266 and 277, or between 287 and 294, loses the notification: the header
  is written and `NewBlockNotify` never called for it. `MissedCallsBounded` says that no
  other call goes wrong with it; headers that the library still has queued are lost too.
- If the header below a fork is not in the database (it was cleared, or its write
  was lost) and the node has reorganised deeper, the scanner goes back to the node's own block
  at that height (257), which it has not extracted: that block is skipped.
- `SetRescanBlockHeight` during a task is overwritten by the task's next block, and the
  request is lost; chain, extraction and convergence hold all the same.
  `SetRescanBlockHeight(0)` underflows (94-95) and asks the node for a block it has not.
- `SetRescanBlockHeight(1)` saves height 0 (94, 105), which `GetScannedBlockHeader` (1159)
  takes for an empty database: the scan starts at the node's height less one and block 1 is
  not scanned, although only other heights are refused ("block height to rescan must greater
  than 0.", 96).

Extracted data (`Plain` leaves these transactions out of `DataAgree`):

- A transaction that failed (status 0) carries its amount all the same; only the field
  `Status` tells.
- With a transfer event the coins that the transaction itself moved are not told.
- The first transfer event counts, whichever contract wrote it; the contract told is
  that of `tx.To`, and further events are not told.
- In a `transferFrom` the tokens and the fee are told to the source key of the token's
  owner with the address of `tx.From`, which may be another account's; if only
  `tx.From` is watched its fee is not told at all.
- Amounts and fees are rounded to 100 wei each, so that sums over records drift.
- The transaction that carries the fee of a token transfer names the token's coin (1000).

Client:

- A gas price whose result is no string is 0 without an error: `err` at 938 is that of the
  call, which is nil. `ERC20GetWalletBalance` returns 0 and a nil error when the query
  failed (951).
- A token balance asked for as "pending" is queried as "latest" (514); `"0x"`, which a
  node answers for an address without a contract, is a balance of 0.

Wallets:

- Creations of one name that overlap both find it free (145) and both write a key file
  (152), past the check whose message is "The wallet's alias is duplicated!" (147).
- A creation that fails or dies after 151 leaves a key file without a record: the name
  is taken for good, and `GetLocalWalletList` and `ERC20GetWalletList` fail for all wallets
  (371-375).
- Callers of `CreateBatchAddress2` that overlap begin at the same index (526): the same
  addresses are saved twice, and a shorter batch that commits last sets the count back, so
  that a later call makes addresses that exist. None is left out (`AddressesCounted`).
- A key file that cannot be read or decoded makes `readWallet` return nil, which is
  dereferenced at 282.
- `BackupWallet2` copies the database without having it open.

Creation and nonces:

- "地址余额从大到小排序", from large to small, say the comments on both sorts of the balances
  (`tx_decode.go` 275, 382); the sorts (279, 386) are ascending, so that the smallest balance
  that suffices pays.
- The token summary asks whether the coins suffice for the fee (1090) of a balance that
  was not read: it checks `err` and not `createErr` (1086), and goes on with the 0 that came
  with the error, so that support is created for an address that has enough.
- An entry is in the map (100) before its nonce is known and may be used with the count 0.
  If the node's answer, larger when a block came in between, is stored (117, without the lock)
  while such a user is between its broadcast (626) and the increment (635), the increment
  counts that nonce: the next transaction is sent with the nonce after it and waits in the
  node's pool. Like finding 1 this is what the comment at 74 forbids.
- The message at 902 and 1026 says "greater than" where equality passes,
  which can build a token summary of amount zero.
- `TxAmount` includes the fee of the creation before: `rawTx.Fees` is read at 1241 and set
  at 1246.
- The gas price of a first creation stays in the host's object (1245) and is
  used again when the transaction is created once more.
- All support transfers of one summary have the same nonce and are planned from the same
  balances (1136).
- An amount with more decimals than the coin converts to nil, with the error ignored
  (`tx_decode.go` 273, `ddmchain.go` 67).
- `UpdateTime` has no effect on the map (77-80, 109, 634): entries live 30 minutes.
- If the first nonce query fails (112-116), the entry stays with nonce 0 until it expires.

## 9. Plan

Done: the modules of section 2 in the order scanner, extraction, nonce cache,
pools, batch, creation, extracted data and books, client, wallets, since the scanner's
database is what a restart depends on and a wrong nonce or a wrong chain is what costs most.

Proved: every invariant and action property that a run checks (section 5), and the
refinement of `ChainFollower`.

Open: `TxExtraction` as a refinement of `Extract` in `BlockScanner`; creation and submission
composed for one summary, whose support transfers share a nonce; what hosts are told of
transactions that are not `Plain`, beyond the list of section 8.
