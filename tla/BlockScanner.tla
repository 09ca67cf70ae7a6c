---------------------------- MODULE BlockScanner ----------------------------
(***************************************************************************)
(* The DDM block scanner (ddmchain/blockscanner.go): the task that follows *)
(* the node's canonical chain, its database (scanned headers, unscanned    *)
(* transactions, cursor), the calls a host makes on it meanwhile, and the  *)
(* node it reads, which mines and reorganises at any time.                 *)
(*                                                                         *)
(* What the scanner tells its observers is modelled as far as its own      *)
(* code goes: to the call of NewBlockNotify, which belongs to the          *)
(* openwallet library and passes the header on asynchronously.  A header   *)
(* that is handed over and still queued there when the process dies is     *)
(* lost as well; no property here is about that queue.                     *)
(*                                                                         *)
(* A block is the sequence of branch choices that leads to it from         *)
(* genesis.  It stands for the block's hash as well: its height is its     *)
(* length, its parent its front, and two blocks are equal exactly when     *)
(* their hashes are.                                                       *)
(***************************************************************************)
EXTENDS Integers, SequencesExt

CONSTANTS
  Branches,      \* what tells two children of one block apart
  MaxHeight,     \* bound: the node's chain grows no higher than this
  Finalised,     \* the prefix of the node's chain that no reorg undoes
  NoBlock,       \* a nil *DdmBlock
  Limit,         \* bound: how often each kind of disturbance may happen
  Budget         \* bound: how many disturbances may happen altogether

Heights == 1..MaxHeight
Blocks  == {b \in Seq(Branches) : Len(b) <= MaxHeight}
Chains  == UNION {[1..n -> Branches] : n \in 0..MaxHeight}   \* Blocks, enumerable
Kinds   == {"reorg", "error", "dberr", "crash", "pause", "rescan", "scan", "clear"}
Steps   == {"idle", "base", "head", "fetch", "fork", "rewind", "forkNotify",
            "extract", "save", "newBlock", "tail"}

ASSUME ScannerAssumption ==
  /\ MaxHeight \in Nat
  /\ Finalised \in Seq(Branches) /\ Len(Finalised) < MaxHeight
  /\ NoBlock \notin Seq(Branches)
  /\ Limit \in [Kinds -> Nat] /\ Budget \in Nat

VARIABLES
  chain,      \* the node's canonical chain, from height 1 to its tip
  db,         \* BlockHeight and BlockHash in the database; <<>> is height 0,
              \* which also means that nothing was saved yet
  headers,    \* the BlockHeader records of the database, by block number
  unscanned,  \* the blocks with an UnscanTransaction record in the database
  scanning,   \* BlockScannerBase.Scanning
  pc,         \* the step ScanBlockTask is at; "idle" between two ticks
  base,       \* GetScannedBlockHeader: the height asked of the node
  cur,        \* curBlockHeight and curBlockHash at the head of the loop
  blk,        \* curBlock, when the loop has fetched it
  fork,       \* forkBlock, between its recovery and its notification
  announced,  \* history: blocks handed to NewBlockNotify as new, and not handed
              \* to it as forked since
  extracted,  \* history: blocks whose transactions were all extracted
  asked,      \* history: height a host asked to rescan from while no task ran, 0
              \* once it is
  spent       \* bound: the disturbances so far, by kind

node  == <<chain>>
disk  == <<db, headers, unscanned>>
local == <<base, cur, blk, fork>>
seen  == <<announced, extracted, asked>>
vars  == <<node, disk, scanning, pc, local, seen, spent>>

Parent(b)      == Front(b)                  \* PreviousHash
AtHeight(c, h) == SubSeq(c, 1, h)           \* ddmGetBlockSpecByBlockNum

Disturbances ==
  spent["reorg"] + spent["error"] + spent["dberr"] + spent["crash"]
  + spent["pause"] + spent["rescan"] + spent["scan"] + spent["clear"]

Happens(kind) ==
  /\ spent[kind] < Limit[kind] /\ Disturbances < Budget
  /\ spent' = [spent EXCEPT ![kind] = @ + 1]

Init ==
  /\ chain \in {c \in Chains : Len(c) = Len(Finalised) + 1 /\ IsPrefix(Finalised, c)}
  /\ db = <<>> /\ headers = [h \in Heights |-> NoBlock] /\ unscanned = {}
  /\ scanning = FALSE /\ pc = "idle"
  /\ base = 0 /\ cur = <<>> /\ blk = NoBlock /\ fork = NoBlock
  /\ announced = {} /\ extracted = {} /\ asked = 0
  /\ spent = [k \in Kinds |-> 0]

-----------------------------------------------------------------------------
(* The node.                                                               *)

Mine ==
  /\ Len(chain) < MaxHeight
  /\ \E x \in Branches : chain' = Append(chain, x)
  /\ UNCHANGED <<disk, scanning, pc, local, seen, spent>>

\* Another branch becomes canonical, shorter or longer than the old one.  It
\* stays below MaxHeight so that the node can still outgrow its last reorg.
Reorg ==
  /\ Happens("reorg")
  /\ Len(chain) < MaxHeight
  /\ \E c \in Chains :
       /\ Len(c) \in Len(Finalised) + 1 .. MaxHeight - 1
       /\ IsPrefix(Finalised, c) /\ ~IsPrefix(chain, c)
       /\ chain' = c
  /\ UNCHANGED <<disk, scanning, pc, local, seen>>

-----------------------------------------------------------------------------
(* The host process and the timer of BlockScannerBase.                     *)

Run ==
  /\ ~scanning
  /\ scanning' = TRUE
  /\ UNCHANGED <<node, disk, pc, local, seen, spent>>

Pause ==
  /\ Happens("pause")
  /\ scanning
  /\ scanning' = FALSE
  /\ UNCHANGED <<node, disk, pc, local, seen>>

\* Every local variable of the task goes out of scope.
EndTask ==
  /\ pc' = "idle"
  /\ base' = 0 /\ cur' = <<>> /\ blk' = NoBlock /\ fork' = NoBlock

\* The process dies and is started again: only the database survives.
Crash ==
  /\ Happens("crash")
  /\ pc # "idle"
  /\ EndTask
  /\ scanning' = FALSE
  /\ UNCHANGED <<node, disk, seen>>

\* Mutant: the height itself is saved as the last one scanned.
SetRescanBlockHeightItself(height) ==
  /\ Happens("rescan")
  /\ height <= Len(chain)
  /\ db' = AtHeight(chain, height)
  /\ asked' = IF pc = "idle" THEN height ELSE 0
  /\ UNCHANGED <<node, headers, unscanned, scanning, pc, local, announced, extracted>>

\* The host moves the database's cursor, whatever a running task is doing; the
\* task keeps its own in memory and later saves that one.
SetRescanBlockHeight(height) ==
  /\ Happens("rescan")
  /\ height - 1 <= Len(chain)
  /\ db' = AtHeight(chain, height - 1)
  /\ asked' = IF pc = "idle" THEN height ELSE 0
  /\ UNCHANGED <<node, headers, unscanned, scanning, pc, local, announced, extracted>>

\* BatchExtractTransaction on the transactions of b, when it returns nil: those
\* whose receipt is null or whose notification failed are saved as unscanned.
Extract(b) ==
  /\ extracted' = extracted \union {b}
  /\ unscanned' \in {unscanned, unscanned \union {b}}

\* The host scans one block by hand and hands it over as a new one; the cursor does
\* not move.
ScanBlock(height) ==
  /\ Happens("scan")
  /\ height <= Len(chain)
  /\ LET b == AtHeight(chain, height) IN
       /\ Extract(b)
       /\ announced' = announced \union {b}
  /\ UNCHANGED <<node, db, headers, scanning, pc, local, asked>>

\* The host clears headers and unscanned records; the cursor keeps its value.
ClearBlockScanDb ==
  /\ Happens("clear")
  /\ headers' = [h \in Heights |-> NoBlock]
  /\ unscanned' = {}
  /\ UNCHANGED <<node, db, scanning, pc, local, seen>>

-----------------------------------------------------------------------------
(* ScanBlockTask: where it starts.                                         *)

\* A tick of the timer; the database has a cursor.
LoadCursor ==
  /\ pc = "idle" /\ scanning
  /\ db # <<>>
  /\ cur' = db /\ pc' = "head"
  /\ UNCHANGED <<node, disk, scanning, base, blk, fork, seen, spent>>

\* A tick of the timer; the saved height is 0, so the node is asked for its own.
QueryBaseHeight ==
  /\ pc = "idle" /\ scanning
  /\ db = <<>>
  /\ base' = Len(chain) - 1 /\ pc' = "base"
  /\ UNCHANGED <<node, disk, scanning, cur, blk, fork, seen, spent>>

FetchBaseBlock ==
  /\ pc = "base"
  /\ base <= Len(chain)
  /\ cur' = AtHeight(chain, base) /\ base' = 0 /\ pc' = "head"
  /\ UNCHANGED <<node, disk, scanning, blk, fork, seen, spent>>

\* The node has no block that high any more: the task returns at once.
MissBaseBlock ==
  /\ pc = "base"
  /\ base > Len(chain)
  /\ EndTask
  /\ UNCHANGED <<node, disk, scanning, seen, spent>>

FailBaseBlock ==
  /\ Happens("error")
  /\ pc = "base"
  /\ EndTask
  /\ UNCHANGED <<node, disk, scanning, seen>>

-----------------------------------------------------------------------------
(* ScanBlockTask: the head of the loop and the next block.                 *)

\* The scanner was paused: the task returns without its tail.
StopWhenPaused ==
  /\ pc = "head" /\ ~scanning
  /\ EndTask
  /\ UNCHANGED <<node, disk, scanning, seen, spent>>

\* ddmGetBlockNumber: only equality of the heights ends the scan.
CompareHeights ==
  /\ pc = "head" /\ scanning
  /\ pc' = IF Len(cur) = Len(chain) THEN "tail" ELSE "fetch"
  /\ UNCHANGED <<node, disk, scanning, local, seen, spent>>

\* Mutant: the parent of the fetched block is not compared.
FetchNextUnlinked ==
  /\ pc = "fetch"
  /\ Len(cur) < Len(chain)
  /\ blk' = AtHeight(chain, Len(cur) + 1)
  /\ pc' = "extract"
  /\ UNCHANGED <<node, disk, scanning, base, cur, fork, seen, spent>>

FetchNext ==
  /\ pc = "fetch"
  /\ Len(cur) < Len(chain)
  /\ blk' = AtHeight(chain, Len(cur) + 1)
  /\ pc' = IF Parent(blk') # cur THEN "fork" ELSE "extract"
  /\ UNCHANGED <<node, disk, scanning, base, cur, fork, seen, spent>>

\* The node's chain is not that long: the result is null and fails to decode.
MissNext ==
  /\ pc = "fetch"
  /\ Len(cur) >= Len(chain)
  /\ pc' = "tail"
  /\ UNCHANGED <<node, disk, scanning, local, seen, spent>>

FailCall ==
  /\ Happens("error")
  /\ pc \in {"head", "fetch"}
  /\ pc = "head" => scanning
  /\ pc' = "tail"
  /\ UNCHANGED <<node, disk, scanning, local, seen>>

-----------------------------------------------------------------------------
(* ScanBlockTask: the next block is not a child of the last one.           *)

Stored(h) == IF h \in Heights THEN headers[h] ELSE NoBlock  \* RecoverBlockHeader

\* Mutant: the header retracted is that of the height gone back to.
DropForkedLate ==
  /\ pc = "fork"
  /\ fork' = Stored(Len(cur) - 1) /\ UNCHANGED spent
  /\ unscanned' = {u \in unscanned : Len(u) # Len(cur)}
  /\ pc' = "rewind"
  /\ UNCHANGED <<node, db, headers, scanning, base, cur, blk, seen>>

\* Mutant: the records deleted are those of the height of the new block.
DropForkedAbove ==
  /\ pc = "fork"
  /\ fork' = Stored(Len(cur)) /\ UNCHANGED spent
  /\ unscanned' = {u \in unscanned : Len(u) # Len(cur) + 1}
  /\ pc' = "rewind"
  /\ UNCHANGED <<node, db, headers, scanning, base, cur, blk, seen>>

\* The header to be retracted is looked up, with every error ignored, then
\* the unscanned records of its height are deleted.
DropForked ==
  /\ pc = "fork"
  /\ \/ /\ fork' = Stored(Len(cur)) /\ UNCHANGED spent
     \/ /\ Happens("dberr") /\ fork' = NoBlock
  /\ unscanned' = {u \in unscanned : Len(u) # Len(cur)}
  /\ pc' = "rewind"
  /\ UNCHANGED <<node, db, headers, scanning, base, cur, blk, seen>>

\* DeleteUnscannedTransactionByHeight is not a transaction: some are deleted.
FailDropForked ==
  /\ Happens("error")
  /\ pc = "fork"
  /\ unscanned' \in {unscanned, {u \in unscanned : Len(u) # Len(cur)}}
  /\ pc' = "tail"
  /\ UNCHANGED <<node, db, headers, scanning, local, seen>>

\* Mutant: a missing header is not looked up at the node.
RewindTargetLocal(h) == Stored(h)

\* Mutant: the node's block is taken for the one that was scanned.
RewindTargetOfNode(h) == IF h <= Len(chain) THEN AtHeight(chain, h) ELSE Stored(h)

\* The block to go back to: the stored header, or else the node's block.
RewindTarget(h) ==
  IF Stored(h) # NoBlock THEN Stored(h) ELSE AtHeight(chain, h)

\* SaveLocalBlockScanned ignores the error of its commit.
Rewind ==
  /\ pc = "rewind"
  /\ LET h == Len(cur) - 1
         b == RewindTarget(h)
     IN /\ Stored(h) = NoBlock => h <= Len(chain)
        /\ cur' = b
        /\ \/ db' = b /\ UNCHANGED spent
           \/ Happens("dberr") /\ UNCHANGED db
  /\ blk' = NoBlock
  /\ pc' = IF fork = NoBlock THEN "head" ELSE "forkNotify"
  /\ UNCHANGED <<node, headers, unscanned, scanning, base, fork, seen>>

\* Neither the database nor the node has the block to go back to.
MissRewind ==
  /\ pc = "rewind"
  /\ Stored(Len(cur) - 1) = NoBlock
  /\ Len(cur) - 1 > Len(chain)
  /\ pc' = "tail"
  /\ UNCHANGED <<node, disk, scanning, local, seen, spent>>

FailRewind ==
  /\ Happens("error")
  /\ pc = "rewind"
  /\ pc' = "tail"
  /\ UNCHANGED <<node, disk, scanning, local, seen>>

\* Mutant: the fork is noticed but nobody is told.
NotifyForkSilent ==
  /\ pc = "forkNotify"
  /\ fork' = NoBlock /\ pc' = "head"
  /\ UNCHANGED <<node, disk, scanning, base, cur, blk, seen, spent>>

\* The forked header is handed to NewBlockNotify, in the task's own thread.
NotifyFork ==
  /\ pc = "forkNotify"
  /\ announced' = announced \ {fork}
  /\ fork' = NoBlock /\ pc' = "head"
  /\ UNCHANGED <<node, disk, scanning, base, cur, blk, extracted, asked, spent>>

-----------------------------------------------------------------------------
(* ScanBlockTask: the next block is a child of the last one.               *)

\* Mutant: the extraction is started and not waited for.
ExtractBlockLater ==
  /\ pc = "extract"
  /\ pc' = "save"
  /\ UNCHANGED <<node, disk, scanning, local, seen, spent>>

ExtractBlock ==
  /\ pc = "extract"
  /\ Extract(blk)
  /\ pc' = "save"
  /\ UNCHANGED <<node, db, headers, scanning, local, announced, asked, spent>>

\* Some transactions of the block may have been saved as unscanned before.
FailExtract ==
  /\ Happens("error")
  /\ pc = "extract"
  /\ unscanned' \in {unscanned, unscanned \union {blk}}
  /\ pc' = "tail"
  /\ UNCHANGED <<node, db, headers, scanning, local, seen>>

\* One transaction for the header and the cursor.  An error is logged only.
SaveBlockHeader2 ==
  /\ pc = "save"
  /\ \/ /\ headers' = [headers EXCEPT ![Len(blk)] = blk]
        /\ db' = blk
        /\ asked' = IF Len(blk) = asked THEN 0 ELSE asked
        /\ UNCHANGED spent
     \/ Happens("dberr") /\ UNCHANGED <<headers, db, asked>>
  /\ pc' = "newBlock"
  /\ UNCHANGED <<node, unscanned, scanning, local, announced, extracted>>

\* Mutant: the loop's height and hash are not moved to the new block.
NotifyNewBlockInPlace ==
  /\ pc = "newBlock"
  /\ announced' = announced \union {blk}
  /\ blk' = NoBlock /\ pc' = "head"
  /\ UNCHANGED <<node, disk, scanning, base, cur, fork, extracted, asked, spent>>

\* The new header is handed over, whether or not it was saved, and the loop moves on.
NotifyNewBlock ==
  /\ pc = "newBlock"
  /\ announced' = announced \union {blk}
  /\ cur' = blk /\ blk' = NoBlock /\ pc' = "head"
  /\ UNCHANGED <<node, disk, scanning, base, fork, extracted, asked, spent>>

-----------------------------------------------------------------------------
(* ScanBlockTask: after the loop.                                          *)

\* Every unscanned record is extracted again and, if that returns nil, all of
\* them are deleted, also those that the second attempt has just saved again.
RescanFailedTransactions ==
  /\ pc = "tail"
  /\ unscanned' \in {unscanned, {}}
  /\ EndTask
  /\ UNCHANGED <<node, db, headers, scanning, seen, spent>>

-----------------------------------------------------------------------------
GetScannedBlockHeader ==
  LoadCursor \/ QueryBaseHeight \/ FetchBaseBlock \/ MissBaseBlock

ScanBlockTask ==
  \/ GetScannedBlockHeader
  \/ StopWhenPaused \/ CompareHeights \/ FetchNext \/ MissNext
  \/ DropForked \/ Rewind \/ MissRewind \/ NotifyFork
  \/ ExtractBlock \/ SaveBlockHeader2 \/ NotifyNewBlock
  \/ RescanFailedTransactions

Failures == FailBaseBlock \/ FailCall \/ FailDropForked \/ FailRewind \/ FailExtract

HostCalls ==
  \/ Run \/ Pause \/ ClearBlockScanDb
  \/ \E h \in Heights : SetRescanBlockHeight(h) \/ ScanBlock(h)

Next == Mine \/ Reorg \/ HostCalls \/ Crash \/ ScanBlockTask \/ Failures

Spec == Init /\ [][Next]_vars

\* The chain keeps growing, the host keeps the scanner running, and the timer
\* calls the task again and again: each of its steps is eventually taken.
Fairness == WF_vars(Mine) /\ WF_vars(Run) /\ WF_vars(ScanBlockTask)

FairSpec == Spec /\ Fairness

-----------------------------------------------------------------------------
TypeOK ==
  /\ chain \in Blocks
  /\ db \in Blocks
  /\ headers \in [Heights -> Blocks \union {NoBlock}]
  /\ unscanned \subseteq Blocks
  /\ scanning \in BOOLEAN
  /\ pc \in Steps
  /\ base \in 0..MaxHeight
  /\ cur \in Blocks
  /\ blk \in Blocks \union {NoBlock}
  /\ fork \in Blocks \union {NoBlock}
  /\ announced \subseteq Blocks
  /\ extracted \subseteq Blocks
  /\ asked \in 0..MaxHeight
  /\ spent \in [Kinds -> Nat]

\* The headers stored at and below the height of b are ancestors of b.
Linked(b) ==
  \A h \in Heights : h <= Len(b) /\ headers[h] # NoBlock => headers[h] = AtHeight(b, h)

Never(kinds) == \A k \in kinds : spent[k] = 0

\* As long as no database error was swallowed and no host moved the cursor, the
\* stored headers up to the cursor are one chain that ends in the cursor,
\* through reorgs, failed calls, pauses, crashes and cleared databases
\* (ScanBlockTask, SaveBlockHeader2, SaveLocalBlockScanned).
LocalChainLinked == Never({"dberr", "rescan"}) => Linked(db)

\* A header is stored only after every transaction of its block was extracted,
\* also when the process dies in between (the order of BatchExtractTransaction
\* and SaveBlockHeader2 in ScanBlockTask).
ExtractedBeforeStored ==
  \A h \in Heights : headers[h] # NoBlock => headers[h] \in extracted

StoredChain == {headers[h] : h \in 1..Len(db)} \ {NoBlock}

Settled == pc \in {"idle", "head", "fetch", "extract", "tail"}

\* No crash came between a write and its notification or into the library's queue, no
\* write was swallowed, nothing done by hand.
Undisturbed == Never({"crash", "dberr", "rescan", "scan", "clear"})

\* Between two blocks, what was handed to NewBlockNotify as new and not since as
\* forked is the stored chain up to the cursor (the notifications of ScanBlockTask).
AnnouncedIsStored == Settled /\ Undisturbed => announced = StoredChain

\* A crash between a write and its notification, or a database error that is
\* ignored, makes the scanner miss at most one call of NewBlockNotify each way, for a
\* new block and for a forked one; the calls before and after are made as without it
\* (the writes precede the calls one by one in ScanBlockTask).  It counts calls: what
\* a crash destroys of headers handed over and still queued in the library comes on
\* top of it and is not bounded by the scanner.
MissedCallsBounded ==
  Settled /\ Never({"rescan", "scan", "clear"}) =>
    /\ Cardinality(announced \ StoredChain) <= spent["crash"] + spent["dberr"]
    /\ Cardinality(StoredChain \ announced) <= spent["crash"] + spent["dberr"]

\* No block is left out: from the lowest header stored up to the cursor, every
\* block of the cursor's chain was extracted, through reorgs that the scanner goes
\* back for, crashes and failed calls, unless a write was lost or a host moved the
\* cursor (ScanBlockTask goes back one block per fork and on one per block).
NoBlockSkipped ==
  Never({"dberr", "rescan"}) =>
    \A g, h \in Heights :
      g <= h /\ h <= Len(db) /\ headers[g] # NoBlock => AtHeight(db, h) \in extracted

\* A host that asks for a rescan from a height above 1 while no task runs sees that
\* height scanned before the cursor moves past it, as long as no write was lost (the
\* cursor set by SetRescanBlockHeight).  A rescan from height 1 saves height 0, which
\* GetScannedBlockHeader takes for an empty database: the scan starts near the tip.
RescanAboveFirstHonoured == asked > 1 /\ Never({"dberr"}) => Len(db) < asked

\* A step of the task that moves the cursor back leaves no unscanned record at the
\* height it gives up (DeleteUnscannedTransactionByHeight before
\* SaveLocalBlockScanned), as long as no write was lost and no host moved the cursor
\* or scanned a block by hand.
RollbackDropsRecords ==
  [][Never({"dberr", "rescan", "scan"})' /\ Len(db') < Len(db) =>
       \A u \in unscanned' : Len(u) # Len(db)]_vars

\* The calls of NewBlockNotify describe a chain that grows and shrinks at its tip
\* only (NotifyNewBlock, NotifyFork); so do they for observers that get them late, as
\* long as they get them in the order of the calls.
Follower == INSTANCE ChainFollower WITH Blocks <- Chains, view <- announced
FollowsChain == Follower!Spec

\* Once the node has outgrown its last reorg the cursor ends up on the node's
\* chain, whatever happened before; and when the scan was undisturbed, the
\* blocks handed over and not retracted are of that chain only.
ScanConverges ==
  <>[](/\ db = chain
       /\ Undisturbed => \A b \in announced : IsPrefix(b, chain))
=============================================================================
