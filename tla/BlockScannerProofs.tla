------------------------- MODULE BlockScannerProofs -------------------------
(***************************************************************************)
(* Machine-checked proofs about BlockScanner: its type invariant, that the *)
(* stored headers up to the cursor stay one chain, that extraction comes   *)
(* first and nothing is passed over, and what a rescan and a rollback of   *)
(* the cursor leave behind.                                                *)
(***************************************************************************)
EXTENDS BlockScanner, SequenceTheorems, TLAPS

-----------------------------------------------------------------------------
(* Blocks as sequences.                                                    *)

\* The block at a height of a chain is a block of that height.
LEMMA AtHeightOfBlock ==
  ASSUME NEW b \in Blocks, NEW h \in 0..Len(b)
  PROVE  AtHeight(b, h) \in Blocks /\ Len(AtHeight(b, h)) = h
<1>1. b \in Seq(Branches) /\ Len(b) \in Nat /\ Len(b) <= MaxHeight
  BY DEF Blocks
<1>2. \A i \in 1..h : b[i] \in Branches
  BY <1>1
<1>3. /\ SubSeq(b, 1, h) \in Seq(Branches)
      /\ Len(SubSeq(b, 1, h)) = h
  BY <1>1, <1>2, SubSeqProperties
<1> QED
  BY <1>1, <1>3, ScannerAssumption DEF AtHeight, Blocks

\* An ancestor of an ancestor is an ancestor.
LEMMA AtHeightOfAtHeight ==
  ASSUME NEW b \in Blocks, NEW k \in 0..Len(b), NEW h \in 0..k
  PROVE  AtHeight(AtHeight(b, k), h) = AtHeight(b, h)
<1>1. b \in Seq(Branches) /\ Len(b) \in Nat
  BY DEF Blocks
<1>2. AtHeight(b, k) \in Seq(Branches) /\ Len(AtHeight(b, k)) = k
  BY AtHeightOfBlock DEF Blocks
<1>3. \A i \in 1..k : AtHeight(b, k)[i] = b[i]
  BY <1>1 DEF AtHeight
<1>4. AtHeight(AtHeight(b, k), h) \in Seq(Branches) /\ AtHeight(b, h) \in Seq(Branches)
  BY <1>1, <1>2, AtHeightOfBlock DEF Blocks
<1>5. Len(AtHeight(AtHeight(b, k), h)) = h /\ Len(AtHeight(b, h)) = h
  BY <1>1, <1>2, AtHeightOfBlock
<1>6. \A i \in 1..h : AtHeight(AtHeight(b, k), h)[i] = AtHeight(b, h)[i]
  BY <1>1, <1>2, <1>3 DEF AtHeight
<1> QED
  BY <1>4, <1>5, <1>6, SeqEqual

\* A block is the block at its own height.
LEMMA AtOwnHeight ==
  ASSUME NEW b \in Blocks
  PROVE  AtHeight(b, Len(b)) = b
BY SubSeqFull DEF AtHeight, Blocks

\* The parent of a block is its ancestor one below.
LEMMA ParentOfBlock ==
  ASSUME NEW b \in Blocks, Len(b) > 0
  PROVE  /\ Parent(b) = AtHeight(b, Len(b) - 1)
         /\ Parent(b) \in Blocks
         /\ Len(Parent(b)) = Len(b) - 1
<1>1. Len(b) - 1 \in 0..Len(b)
  BY DEF Blocks
<1> QED
  BY <1>1, AtHeightOfBlock DEF Parent, Front, AtHeight

LEMMA ChainsAreBlocks == Chains \subseteq Blocks
<1> SUFFICES ASSUME NEW n \in 0..MaxHeight, NEW c \in [1..n -> Branches]
             PROVE  c \in Blocks
  BY DEF Chains
<1>1. n \in Nat
  BY ScannerAssumption
<1>2. c \in Seq(Branches) /\ Len(c) = n
  BY <1>1
<1> QED
  BY <1>1, <1>2, ScannerAssumption DEF Blocks

-----------------------------------------------------------------------------
(* The type invariant.                                                     *)

\* What the step the task is at says about its local variables: the block it
\* has fetched is one above the cursor, and its child except on the fork path.
StepInv ==
  /\ pc \in {"fork", "rewind", "extract", "save", "newBlock"} =>
       /\ blk \in Blocks
       /\ Len(blk) = Len(cur) + 1
  /\ pc \in {"fork", "rewind"} => Parent(blk) # cur
  /\ pc \in {"extract", "save", "newBlock"} => Parent(blk) = cur

\* The node never gives up what is finalised, and is always ahead of it.
NodeInv == Len(chain) > Len(Finalised) /\ IsPrefix(Finalised, chain)

TypeInv == TypeOK /\ StepInv /\ NodeInv

LEMMA FinalisedIsBlock == Finalised \in Blocks /\ Len(Finalised) \in Nat
BY ScannerAssumption DEF Blocks

\* A prefix is an ancestor.
LEMMA PrefixIsAncestor ==
  ASSUME NEW b \in Blocks
  PROVE  IsPrefix(Finalised, b)
           <=> Len(Finalised) <= Len(b) /\ AtHeight(b, Len(Finalised)) = Finalised
BY FinalisedIsBlock, AtOwnHeight DEF IsPrefix, AtHeight

\* A disturbance adds one to its count and leaves the other counts alone.
LEMMA HappensType ==
  ASSUME spent \in [Kinds -> Nat], NEW k \in Kinds, Happens(k)
  PROVE  spent' \in [Kinds -> Nat]
BY DEF Happens

LEMMA InitTypeInv == Init => TypeInv
<1> SUFFICES ASSUME Init PROVE TypeInv
  OBVIOUS
<1>1. chain \in Blocks /\ Len(chain) = Len(Finalised) + 1 /\ IsPrefix(Finalised, chain)
  BY ChainsAreBlocks DEF Init
<1>2. <<>> \in Blocks
  BY ScannerAssumption DEF Blocks
<1>3. headers \in [Heights -> Blocks \union {NoBlock}] /\ spent \in [Kinds -> Nat]
  BY DEF Init
<1>4. pc \in Steps /\ base \in 0..MaxHeight /\ asked \in 0..MaxHeight
  BY ScannerAssumption DEF Init, Steps
<1>5. TypeOK
  BY <1>1, <1>2, <1>3, <1>4 DEF Init, TypeOK
<1> QED
  BY <1>1, <1>5, FinalisedIsBlock DEF TypeInv, StepInv, NodeInv, Init

\* The steps of the node.
LEMMA NodeStepTypeInv == TypeInv /\ (Mine \/ Reorg) => TypeInv'
<1> SUFFICES ASSUME TypeInv, Mine \/ Reorg PROVE TypeInv'
  OBVIOUS
<1> USE DEF TypeInv
<1>1. CASE Mine
  <2>1. PICK x \in Branches : chain' = Append(chain, x)
    BY <1>1 DEF Mine
  <2>2. /\ chain \in Seq(Branches)
        /\ chain' \in Seq(Branches)
        /\ Len(chain') = Len(chain) + 1
        /\ \A i \in 1..Len(chain) : chain'[i] = chain[i]
    BY <2>1, AppendProperties DEF TypeOK, Blocks
  <2>3. chain' \in Blocks
    BY <1>1, <2>2, ScannerAssumption DEF Mine, TypeOK, Blocks
  <2>4. AtHeight(chain', Len(chain)) = chain
    BY <2>1, <2>2 DEF AtHeight
  <2>5. AtHeight(chain', Len(Finalised)) = AtHeight(chain, Len(Finalised))
    BY <2>2, <2>3, <2>4, FinalisedIsBlock, AtHeightOfAtHeight DEF NodeInv
  <2>6. NodeInv'
    BY <2>2, <2>3, <2>5, FinalisedIsBlock, PrefixIsAncestor DEF NodeInv, TypeOK
  <2> QED
    BY <1>1, <2>3, <2>6 DEF Mine, TypeOK, StepInv, disk, local, seen
<1>2. CASE Reorg
  <2>1. chain' \in Blocks /\ NodeInv'
    BY <1>2, ChainsAreBlocks, FinalisedIsBlock DEF Reorg, NodeInv
  <2>2. spent' \in [Kinds -> Nat]
    BY <1>2, HappensType DEF Reorg, Kinds, TypeOK
  <2> QED
    BY <1>2, <2>1, <2>2 DEF Reorg, TypeOK, StepInv, disk, local, seen
<1> QED
  BY <1>1, <1>2

\* The calls of the host and the death of its process.
LEMMA HostStepTypeInv == TypeInv /\ (HostCalls \/ Crash) => TypeInv'
<1> SUFFICES ASSUME TypeInv, HostCalls \/ Crash PROVE TypeInv'
  OBVIOUS
<1> USE DEF TypeInv
<1>0. <<>> \in Blocks /\ 0 \in 0..MaxHeight
  BY ScannerAssumption DEF Blocks
<1>1. CASE Run
  BY <1>1 DEF Run, TypeOK, StepInv, NodeInv, node, disk, local, seen
<1>2. CASE Pause
  <2>1. spent' \in [Kinds -> Nat]
    BY <1>2, HappensType DEF Pause, Kinds, TypeOK
  <2> QED
    BY <1>2, <2>1 DEF Pause, TypeOK, StepInv, NodeInv, node, disk, local, seen
<1>3. CASE ClearBlockScanDb
  <2>1. spent' \in [Kinds -> Nat]
    BY <1>3, HappensType DEF ClearBlockScanDb, Kinds, TypeOK
  <2>2. headers' \in [Heights -> Blocks \union {NoBlock}] /\ unscanned' \subseteq Blocks
    BY <1>3 DEF ClearBlockScanDb
  <2> QED
    BY <1>3, <2>1, <2>2 DEF ClearBlockScanDb, TypeOK, StepInv, NodeInv, node, local, seen
<1>4. ASSUME NEW h \in Heights, SetRescanBlockHeight(h)
      PROVE  TypeInv'
  <2>1. spent' \in [Kinds -> Nat]
    BY <1>4, HappensType DEF SetRescanBlockHeight, Kinds, TypeOK
  <2>2. h \in 0..MaxHeight /\ h - 1 \in 0..Len(chain)
    BY <1>4, ScannerAssumption DEF SetRescanBlockHeight, Heights, TypeOK, Blocks
  <2>3. db' \in Blocks
    BY <1>4, <2>2, AtHeightOfBlock DEF SetRescanBlockHeight, TypeOK
  <2>4. asked' \in 0..MaxHeight
    BY <1>4, <2>2, ScannerAssumption DEF SetRescanBlockHeight
  <2> QED
    BY <1>4, <2>1, <2>2, <2>3, <2>4
    DEF SetRescanBlockHeight, TypeOK, StepInv, NodeInv, node, local
<1>5. ASSUME NEW h \in Heights, ScanBlock(h)
      PROVE  TypeInv'
  <2>1. spent' \in [Kinds -> Nat]
    BY <1>5, HappensType DEF ScanBlock, Kinds, TypeOK
  <2>2. AtHeight(chain, h) \in Blocks
    BY <1>5, AtHeightOfBlock DEF ScanBlock, Heights, TypeOK, Blocks
  <2>3. unscanned' \subseteq Blocks /\ extracted' \subseteq Blocks /\ announced' \subseteq Blocks
    BY <1>5, <2>2 DEF ScanBlock, Extract, TypeOK
  <2> QED
    BY <1>5, <2>1, <2>3 DEF ScanBlock, TypeOK, StepInv, NodeInv, node, local
<1>6. CASE Crash
  <2>1. spent' \in [Kinds -> Nat]
    BY <1>6, HappensType DEF Crash, Kinds, TypeOK
  <2> QED
    BY <1>0, <1>6, <2>1
    DEF Crash, EndTask, TypeOK, StepInv, NodeInv, Steps, node, disk, seen
<1> QED
  BY <1>1, <1>2, <1>3, <1>4, <1>5, <1>6 DEF HostCalls

\* The steps with which the task finds out where to start.
LEMMA StartTypeInv ==
  TypeInv /\ (GetScannedBlockHeader \/ FailBaseBlock) => TypeInv'
<1> SUFFICES ASSUME TypeInv, GetScannedBlockHeader \/ FailBaseBlock PROVE TypeInv'
  OBVIOUS
<1> USE DEF TypeInv
<1>0. <<>> \in Blocks /\ 0 \in 0..MaxHeight
  BY ScannerAssumption DEF Blocks
<1>1. CASE LoadCursor
  BY <1>1 DEF LoadCursor, TypeOK, StepInv, NodeInv, Steps, node, disk, seen
<1>2. CASE QueryBaseHeight
  <2>1. base' \in 0..MaxHeight
    BY <1>2, FinalisedIsBlock, ScannerAssumption
    DEF QueryBaseHeight, TypeOK, Blocks, NodeInv
  <2> QED
    BY <1>2, <2>1 DEF QueryBaseHeight, TypeOK, StepInv, NodeInv, Steps, node, disk, seen
<1>3. CASE FetchBaseBlock
  <2>1. cur' \in Blocks
    BY <1>3, AtHeightOfBlock DEF FetchBaseBlock, TypeOK, Blocks
  <2> QED
    BY <1>0, <1>3, <2>1 DEF FetchBaseBlock, TypeOK, StepInv, NodeInv, Steps, node, disk, seen
<1>4. CASE MissBaseBlock
  BY <1>0, <1>4 DEF MissBaseBlock, EndTask, TypeOK, StepInv, NodeInv, Steps, node, disk, seen
<1>5. CASE FailBaseBlock
  <2>1. spent' \in [Kinds -> Nat]
    BY <1>5, HappensType DEF FailBaseBlock, Kinds, TypeOK
  <2> QED
    BY <1>0, <1>5, <2>1
    DEF FailBaseBlock, EndTask, TypeOK, StepInv, NodeInv, Steps, node, disk, seen
<1> QED
  BY <1>1, <1>2, <1>3, <1>4, <1>5 DEF GetScannedBlockHeader

\* The head of the loop, the next block, and the tail of the task.
LEMMA LoopTypeInv ==
  TypeInv /\ (\/ StopWhenPaused \/ CompareHeights \/ FetchNext \/ MissNext
              \/ FailCall \/ RescanFailedTransactions) => TypeInv'
<1> SUFFICES ASSUME TypeInv,
                    \/ StopWhenPaused \/ CompareHeights \/ FetchNext \/ MissNext
                    \/ FailCall \/ RescanFailedTransactions
             PROVE  TypeInv'
  OBVIOUS
<1> USE DEF TypeInv
<1>0. <<>> \in Blocks /\ 0 \in 0..MaxHeight
  BY ScannerAssumption DEF Blocks
<1>1. CASE StopWhenPaused
  BY <1>0, <1>1 DEF StopWhenPaused, EndTask, TypeOK, StepInv, NodeInv, Steps, node, disk, seen
<1>2. CASE CompareHeights
  BY <1>2 DEF CompareHeights, TypeOK, StepInv, NodeInv, Steps, node, disk, local, seen
<1>3. CASE FetchNext
  <2>1. Len(cur) + 1 \in 0..Len(chain)
    BY <1>3 DEF FetchNext, TypeOK, Blocks
  <2>2. blk' \in Blocks /\ Len(blk') = Len(cur) + 1
    BY <1>3, <2>1, AtHeightOfBlock DEF FetchNext, TypeOK
  <2> QED
    BY <1>3, <2>2 DEF FetchNext, TypeOK, StepInv, NodeInv, Steps, node, disk, seen
<1>4. CASE MissNext
  BY <1>4 DEF MissNext, TypeOK, StepInv, NodeInv, Steps, node, disk, local, seen
<1>5. CASE FailCall
  <2>1. spent' \in [Kinds -> Nat]
    BY <1>5, HappensType DEF FailCall, Kinds, TypeOK
  <2> QED
    BY <1>5, <2>1 DEF FailCall, TypeOK, StepInv, NodeInv, Steps, node, disk, local, seen
<1>6. CASE RescanFailedTransactions
  BY <1>0, <1>6
  DEF RescanFailedTransactions, EndTask, TypeOK, StepInv, NodeInv, Steps, node, seen
<1> QED
  BY <1>1, <1>2, <1>3, <1>4, <1>5, <1>6

\* On the fork path the cursor is above genesis, which every block descends from.
LEMMA RewindAboveGenesis ==
  ASSUME TypeInv, pc \in {"fork", "rewind"}
  PROVE  Len(cur) > 0
<1> SUFFICES ASSUME Len(cur) = 0 PROVE FALSE
  BY DEF TypeInv, TypeOK, Blocks
<1>1. cur = <<>>
  BY DEF TypeInv, TypeOK, Blocks
<1>2. blk \in Blocks /\ Len(blk) = 1 /\ Parent(blk) # cur
  BY DEF TypeInv, StepInv
<1>3. Parent(blk) \in Blocks /\ Len(Parent(blk)) = 0
  <2>1. Len(blk) > 0 /\ Len(blk) - 1 = 0
    BY <1>2
  <2> QED
    BY <1>2, <2>1, ParentOfBlock
<1> QED
  BY <1>1, <1>2, <1>3 DEF Blocks

\* The steps taken when the next block is not a child of the last one.
LEMMA ForkTypeInv ==
  TypeInv /\ (\/ DropForked \/ FailDropForked \/ Rewind \/ MissRewind
              \/ FailRewind \/ NotifyFork) => TypeInv'
<1> SUFFICES ASSUME TypeInv,
                    \/ DropForked \/ FailDropForked \/ Rewind \/ MissRewind
                    \/ FailRewind \/ NotifyFork
             PROVE  TypeInv'
  OBVIOUS
<1> USE DEF TypeInv
<1>0. \A h \in Int : Stored(h) \in Blocks \union {NoBlock}
  BY DEF Stored, TypeOK
<1>1. CASE DropForked
  <2>1. spent' \in [Kinds -> Nat]
    BY <1>1, HappensType DEF DropForked, Kinds, TypeOK
  <2>2. fork' \in Blocks \union {NoBlock}
    BY <1>0, <1>1 DEF DropForked, TypeOK, Blocks
  <2> QED
    BY <1>1, <2>1, <2>2 DEF DropForked, TypeOK, StepInv, NodeInv, Steps, node, seen
<1>2. CASE FailDropForked
  <2>1. spent' \in [Kinds -> Nat]
    BY <1>2, HappensType DEF FailDropForked, Kinds, TypeOK
  <2>2. unscanned' \subseteq Blocks
    BY <1>2 DEF FailDropForked, TypeOK
  <2> QED
    BY <1>2, <2>1, <2>2 DEF FailDropForked, TypeOK, StepInv, NodeInv, Steps, node, local, seen
<1>3. CASE Rewind
  <2> DEFINE h == Len(cur) - 1
  <2>1. Len(cur) > 0
    BY <1>3, RewindAboveGenesis DEF Rewind
  <2>2. h \in Nat
    BY <2>1 DEF TypeOK, Blocks
  <2>3. Stored(h) = NoBlock => AtHeight(chain, h) \in Blocks
    BY <1>3, <2>2, AtHeightOfBlock DEF Rewind, TypeOK, Blocks
  <2>4. RewindTarget(h) \in Blocks
    BY <1>0, <2>2, <2>3 DEF RewindTarget
  <2>5. cur' \in Blocks /\ db' \in Blocks
    BY <1>3, <2>4 DEF Rewind, TypeOK
  <2>6. spent' \in [Kinds -> Nat]
    BY <1>3, HappensType DEF Rewind, Kinds, TypeOK
  <2>7. pc' \in {"head", "forkNotify"} /\ blk' = NoBlock
    BY <1>3 DEF Rewind
  <2> QED
    BY <1>3, <2>5, <2>6, <2>7 DEF Rewind, TypeOK, StepInv, NodeInv, Steps, node, seen
<1>4. CASE MissRewind
  BY <1>4 DEF MissRewind, TypeOK, StepInv, NodeInv, Steps, node, disk, local, seen
<1>5. CASE FailRewind
  <2>1. spent' \in [Kinds -> Nat]
    BY <1>5, HappensType DEF FailRewind, Kinds, TypeOK
  <2> QED
    BY <1>5, <2>1 DEF FailRewind, TypeOK, StepInv, NodeInv, Steps, node, disk, local, seen
<1>6. CASE NotifyFork
  BY <1>6 DEF NotifyFork, TypeOK, StepInv, NodeInv, Steps, node, disk
<1> QED
  BY <1>1, <1>2, <1>3, <1>4, <1>5, <1>6

\* The steps taken when the next block is a child of the last one.
LEMMA AcceptTypeInv ==
  TypeInv /\ (\/ ExtractBlock \/ FailExtract \/ SaveBlockHeader2
              \/ NotifyNewBlock) => TypeInv'
<1> SUFFICES ASSUME TypeInv,
                    ExtractBlock \/ FailExtract \/ SaveBlockHeader2 \/ NotifyNewBlock
             PROVE  TypeInv'
  OBVIOUS
<1> USE DEF TypeInv
<1>1. CASE ExtractBlock
  <2>1. unscanned' \subseteq Blocks /\ extracted' \subseteq Blocks
    BY <1>1 DEF ExtractBlock, Extract, TypeOK, StepInv
  <2> QED
    BY <1>1, <2>1 DEF ExtractBlock, TypeOK, StepInv, NodeInv, Steps, node, local
<1>2. CASE FailExtract
  <2>1. spent' \in [Kinds -> Nat]
    BY <1>2, HappensType DEF FailExtract, Kinds, TypeOK
  <2>2. unscanned' \subseteq Blocks
    BY <1>2 DEF FailExtract, TypeOK, StepInv
  <2> QED
    BY <1>2, <2>1, <2>2 DEF FailExtract, TypeOK, StepInv, NodeInv, Steps, node, local, seen
<1>3. CASE SaveBlockHeader2
  <2>1. spent' \in [Kinds -> Nat]
    BY <1>3, HappensType DEF SaveBlockHeader2, Kinds, TypeOK
  <2>2. blk \in Blocks
    BY <1>3 DEF SaveBlockHeader2, StepInv
  <2>3. headers' \in [Heights -> Blocks \union {NoBlock}] /\ db' \in Blocks
    BY <1>3, <2>2 DEF SaveBlockHeader2, TypeOK
  <2>4. asked' \in 0..MaxHeight
    BY <1>3, ScannerAssumption DEF SaveBlockHeader2, TypeOK
  <2> QED
    BY <1>3, <2>1, <2>2, <2>3, <2>4
    DEF SaveBlockHeader2, TypeOK, StepInv, NodeInv, Steps, node, local
<1>4. CASE NotifyNewBlock
  BY <1>4 DEF NotifyNewBlock, TypeOK, StepInv, NodeInv, Steps, node, disk
<1> QED
  BY <1>1, <1>2, <1>3, <1>4

LEMMA TypeInvStep == TypeInv /\ [Next]_vars => TypeInv'
<1>1. TypeInv /\ UNCHANGED vars => TypeInv'
  BY DEF TypeInv, TypeOK, StepInv, NodeInv, vars, node, disk, local, seen
<1> QED
  BY <1>1, NodeStepTypeInv, HostStepTypeInv, StartTypeInv, LoopTypeInv, ForkTypeInv,
     AcceptTypeInv
  DEF Next, ScanBlockTask, Failures

\* Whatever the node, the host and the database do, the scanner's state keeps
\* its types: in particular it never goes back below genesis, where the heights
\* of ScanBlockTask would wrap around (previousHeight - 1 on uint64).
THEOREM ScannerTypes == Spec => []TypeOK
<1>1. TypeInv => TypeOK
  BY DEF TypeInv
<1> QED
  BY <1>1, InitTypeInv, TypeInvStep, PTL DEF Spec

-----------------------------------------------------------------------------
(* The stored chain.                                                       *)

Extends(b) == Len(Finalised) <= Len(b) /\ AtHeight(b, Len(Finalised)) = Finalised

\* The task's cursor and block are descendants of the finalised prefix, and the
\* cursor is the database's unless that is still empty.
TaskInv ==
  /\ pc = "base" => db = <<>> /\ base >= Len(Finalised)
  /\ pc \notin {"idle", "base"} => Extends(cur)
  /\ pc \in {"fork", "rewind", "extract", "save", "newBlock"} => Extends(blk)
  /\ pc \notin {"idle", "base", "newBlock"} /\ db # <<>> => cur = db
  /\ pc = "newBlock" => db = blk

\* The database: an empty cursor means that no header is stored, and the headers
\* stored up to the cursor are its ancestors, without a gap below the cursor.
DiskInv ==
  /\ db = <<>> => \A h \in Heights : headers[h] = NoBlock
  /\ db # <<>> => Extends(db)
  /\ Linked(db)
  /\ \A g, h \in Heights :
       g < h /\ h <= Len(db) /\ headers[g] # NoBlock => headers[h] # NoBlock

ChainInv == Never({"dberr", "rescan"}) => TaskInv /\ DiskInv

\* A step is one disturbance or none.
LEMMA SpentChanges ==
  ASSUME [Next]_vars
  PROVE  spent' = spent \/ \E k \in Kinds : Happens(k)
BY DEF Next, Mine, Reorg, HostCalls, Run, Pause, ClearBlockScanDb, SetRescanBlockHeight,
       ScanBlock, Crash, ScanBlockTask, GetScannedBlockHeader, LoadCursor,
       QueryBaseHeight, FetchBaseBlock, MissBaseBlock, StopWhenPaused, CompareHeights,
       FetchNext, MissNext, DropForked, Rewind, MissRewind, NotifyFork, ExtractBlock,
       SaveBlockHeader2, NotifyNewBlock, RescanFailedTransactions, Failures,
       FailBaseBlock, FailCall, FailDropForked, FailRewind, FailExtract, Kinds, vars

\* The counts of the disturbances never fall.
LEMMA CountsGrow ==
  ASSUME TypeInv, [Next]_vars, NEW k \in Kinds
  PROVE  spent'[k] >= spent[k] /\ (Happens(k) => spent'[k] > 0)
<1>1. spent \in [Kinds -> Nat]
  BY DEF TypeInv, TypeOK
<1> QED
  BY <1>1, SpentChanges DEF Happens

\* A step that leaves no trace of a kind of disturbance was taken from a state
\* without one, and is none.
LEMMA NeverBefore ==
  ASSUME TypeInv, [Next]_vars, NEW kinds \in SUBSET Kinds, Never(kinds)'
  PROVE  Never(kinds) /\ \A k \in kinds : ~Happens(k)
<1>1. spent \in [Kinds -> Nat]
  BY DEF TypeInv, TypeOK
<1> QED
  BY <1>1, CountsGrow DEF Never

\* While no error was swallowed and no host moved the cursor, neither is happening.
LEMMA NotHappening ==
  ASSUME TypeInv, Never({"dberr", "rescan"})', NEW k \in {"dberr", "rescan"}
  PROVE  ~Happens(k)
BY DEF Never, Happens, TypeInv, TypeOK, Kinds

LEMMA AncestorExtends ==
  ASSUME NEW b \in Blocks, Extends(b), NEW h \in Nat, Len(Finalised) <= h, h <= Len(b)
  PROVE  Extends(AtHeight(b, h))
<1>1. h \in 0..Len(b) /\ Len(Finalised) \in 0..h
  BY FinalisedIsBlock
<1> QED
  BY <1>1, AtHeightOfBlock, AtHeightOfAtHeight DEF Extends

LEMMA ChainExtends == TypeInv => Extends(chain)
BY PrefixIsAncestor DEF TypeInv, TypeOK, NodeInv, Extends

LEMMA InitChainInv == Init => ChainInv
<1> SUFFICES ASSUME Init PROVE TaskInv /\ DiskInv
  BY DEF ChainInv
<1>1. db = <<>> /\ pc = "idle" /\ \A h \in Heights : headers[h] = NoBlock
  BY DEF Init
<1> QED
  BY <1>1 DEF TaskInv, DiskInv, Linked

\* A step that leaves the database's cursor and headers alone keeps DiskInv.
LEMMA DiskUnchanged ==
  ASSUME DiskInv, db' = db, headers' = headers
  PROVE  DiskInv'
BY DEF DiskInv, Linked, Extends, AtHeight

\* The steps that touch neither the task nor the headers and cursor.
LEMMA OutsideChainInv ==
  ASSUME TypeInv, TaskInv, DiskInv, Never({"dberr", "rescan"})',
         Mine \/ Reorg \/ HostCalls
  PROVE  TaskInv' /\ DiskInv'
<1>1. ASSUME UNCHANGED <<db, headers, pc, local>>
      PROVE  TaskInv' /\ DiskInv'
  BY <1>1, DiskUnchanged DEF TaskInv, Extends, AtHeight, local
<1>2. CASE Mine \/ Reorg \/ Run \/ Pause
  BY <1>1, <1>2 DEF Mine, Reorg, Run, Pause, disk
<1>3. CASE \E h \in Heights : SetRescanBlockHeight(h)
  BY <1>3, NotHappening DEF SetRescanBlockHeight
<1>4. CASE \E h \in Heights : ScanBlock(h)
  BY <1>1, <1>4 DEF ScanBlock
<1>5. CASE ClearBlockScanDb
  <2>1. db' = db /\ \A h \in Heights : headers'[h] = NoBlock
    BY <1>5 DEF ClearBlockScanDb
  <2>2. DiskInv'
    BY <2>1 DEF DiskInv, Linked, Extends, AtHeight
  <2>3. TaskInv'
    BY <1>5 DEF ClearBlockScanDb, TaskInv, Extends, AtHeight, local
  <2> QED
    BY <2>2, <2>3
<1> QED
  BY <1>2, <1>3, <1>4, <1>5 DEF HostCalls

\* The steps of the task, and its death, that leave the cursor and headers alone.
LEMMA ReadingChainInv ==
  ASSUME TypeInv, TaskInv, DiskInv,
         \/ GetScannedBlockHeader \/ StopWhenPaused \/ CompareHeights \/ FetchNext
         \/ MissNext \/ DropForked \/ MissRewind \/ NotifyFork \/ ExtractBlock
         \/ RescanFailedTransactions \/ Failures \/ Crash
  PROVE  TaskInv' /\ DiskInv'
<1>1. DiskInv'
  <2>1. db' = db /\ headers' = headers
    BY DEF GetScannedBlockHeader, LoadCursor, QueryBaseHeight, FetchBaseBlock,
           MissBaseBlock, StopWhenPaused, CompareHeights, FetchNext, MissNext, DropForked,
           MissRewind, NotifyFork, ExtractBlock, RescanFailedTransactions, Failures,
           FailBaseBlock, FailCall, FailDropForked, FailRewind, FailExtract, Crash, disk
  <2> QED
    BY <2>1, DiskUnchanged
<1> SUFFICES TaskInv'
  BY <1>1
<1>2. CASE pc' = "idle"
  BY <1>2 DEF TaskInv
<1>3. CASE LoadCursor
  BY <1>3 DEF LoadCursor, TaskInv, DiskInv, Extends, AtHeight, disk
<1>4. CASE QueryBaseHeight
  BY <1>4, FinalisedIsBlock DEF QueryBaseHeight, TaskInv, TypeInv, TypeOK, NodeInv, Blocks, disk
<1>5. CASE FetchBaseBlock
  <2>1. Extends(AtHeight(chain, base))
    BY <1>5, ChainExtends, AncestorExtends
    DEF FetchBaseBlock, TaskInv, TypeInv, TypeOK
  <2> QED
    BY <1>5, <2>1 DEF FetchBaseBlock, TaskInv, Extends, AtHeight, disk
<1>6. CASE FetchNext
  <2>1. Len(cur) + 1 \in Nat /\ Len(cur) + 1 <= Len(chain) /\ Len(Finalised) <= Len(cur) + 1
    BY <1>6, FinalisedIsBlock DEF FetchNext, TaskInv, Extends, TypeInv, TypeOK, Blocks
  <2>2. Extends(AtHeight(chain, Len(cur) + 1))
    BY <2>1, ChainExtends, AncestorExtends DEF TypeInv, TypeOK
  <2> QED
    BY <1>6, <2>2 DEF FetchNext, TaskInv, Extends, AtHeight, disk
<1>7. CASE CompareHeights \/ MissNext \/ DropForked \/ MissRewind \/ ExtractBlock
           \/ FailCall \/ FailDropForked \/ FailRewind \/ FailExtract
  BY <1>7
  DEF CompareHeights, MissNext, DropForked, MissRewind, ExtractBlock, FailCall,
      FailDropForked, FailRewind, FailExtract, TaskInv, Extends, AtHeight, disk, local
<1>8. CASE NotifyFork
  BY <1>8 DEF NotifyFork, TaskInv, Extends, AtHeight, disk
<1> QED
  BY <1>2, <1>3, <1>4, <1>5, <1>6, <1>7, <1>8
  DEF GetScannedBlockHeader, MissBaseBlock, StopWhenPaused, RescanFailedTransactions,
      Failures, FailBaseBlock, Crash, EndTask

\* Going back one block: a stored ancestor of the cursor, or the node's block
\* when there is none, and then no header below is stored either.
LEMMA RewindChainInv ==
  ASSUME TypeInv, TaskInv, DiskInv, Never({"dberr", "rescan"})', Rewind,
         Finalised # <<>>
  PROVE  TaskInv' /\ DiskInv'
<1> DEFINE h == Len(cur) - 1
           b == RewindTarget(h)
<1>1. /\ cur \in Blocks /\ db \in Blocks /\ Extends(cur) /\ Extends(blk)
      /\ blk \in Blocks /\ Len(blk) = Len(cur) + 1 /\ Parent(blk) # cur
      /\ db # <<>> => cur = db
  BY DEF Rewind, TypeInv, TypeOK, StepInv, TaskInv
<1>2. Len(cur) > Len(Finalised)
  <2> SUFFICES ASSUME Len(cur) = Len(Finalised) PROVE FALSE
    BY <1>1, FinalisedIsBlock DEF Extends, Blocks
  <2>1. cur = Finalised
    BY <1>1, AtOwnHeight DEF Extends
  <2>2. Len(blk) > 0 /\ Len(blk) - 1 = Len(Finalised)
    BY <1>1, FinalisedIsBlock
  <2>3. Parent(blk) = AtHeight(blk, Len(Finalised))
    BY <1>1, <2>2, ParentOfBlock
  <2> QED
    BY <1>1, <2>1, <2>3 DEF Extends
<1>3. Len(Finalised) >= 1
  BY FinalisedIsBlock DEF Blocks
<1>4. /\ h \in Heights /\ h \in Nat /\ h <= Len(cur) /\ Len(Finalised) <= h
      /\ h \in 0..Len(cur)
  BY <1>1, <1>2, <1>3, FinalisedIsBlock, ScannerAssumption DEF Blocks, Heights
<1>5. Stored(h) = headers[h]
  BY <1>4 DEF Stored
<1>6. cur' = b /\ db' = b /\ headers' = headers /\ pc' \in {"head", "forkNotify"}
  BY NotHappening DEF Rewind
<1>7. CASE headers[h] # NoBlock
  <2>1. db = cur
    BY <1>1, <1>4, <1>7 DEF DiskInv
  <2>2. b = AtHeight(cur, h)
    BY <1>4, <1>5, <1>7, <2>1 DEF DiskInv, Linked, RewindTarget
  <2>3. b \in Blocks /\ Len(b) = h /\ Extends(b)
    BY <1>1, <1>4, <2>2, AtHeightOfBlock, AncestorExtends
  <2>4. b # <<>>
    BY <2>3, <1>3, <1>4, FinalisedIsBlock
  <2>5. ASSUME NEW g \in Heights, g <= Len(b), headers[g] # NoBlock
        PROVE  headers[g] = AtHeight(b, g)
    <3>1. headers[g] = AtHeight(cur, g)
      BY <1>1, <1>4, <2>1, <2>3, <2>5, ScannerAssumption DEF DiskInv, Linked, Heights, Blocks
    <3>2. g \in 0..h
      BY <2>3, <2>5, <1>4 DEF Heights
    <3> QED
      BY <1>1, <1>4, <2>2, <3>1, <3>2, AtHeightOfAtHeight
  <2>6. \A g, k \in Heights :
          g < k /\ k <= Len(b) /\ headers[g] # NoBlock => headers[k] # NoBlock
    <3>1. \A k \in Heights : k <= Len(b) => k <= Len(db)
      BY <1>1, <1>4, <2>1, <2>3 DEF Heights, Blocks
    <3> QED
      BY <3>1 DEF DiskInv
  <2>7. DiskInv'
    BY <1>6, <2>3, <2>4, <2>5, <2>6 DEF DiskInv, Linked, Extends, AtHeight
  <2> QED
    BY <1>6, <2>3, <2>7 DEF TaskInv, Extends, AtHeight
<1>8. CASE headers[h] = NoBlock
  <2>1. b = AtHeight(chain, h) /\ h <= Len(chain)
    BY <1>5, <1>8 DEF RewindTarget, Rewind
  <2>2. chain \in Blocks /\ Extends(chain)
    BY ChainExtends DEF TypeInv, TypeOK
  <2>3. b \in Blocks /\ Len(b) = h /\ Extends(b)
    <3>1. h \in 0..Len(chain)
      BY <1>4, <2>1, <2>2 DEF Blocks
    <3> QED
      BY <1>4, <2>1, <2>2, <3>1, AtHeightOfBlock, AncestorExtends
  <2>4. b # <<>>
    BY <2>3, <1>3, <1>4, FinalisedIsBlock
  <2>5. \A g \in Heights : g <= h => headers[g] = NoBlock
    <3>1. CASE db = <<>>
      BY <3>1 DEF DiskInv
    <3>2. CASE db = cur
      BY <1>1, <1>4, <1>8, <3>2 DEF DiskInv, Heights
    <3> QED
      BY <1>1, <3>1, <3>2
  <2>6. DiskInv'
    <3>1. \A g, k \in Heights : g < k /\ k <= h => g <= h
      BY <1>4 DEF Heights
    <3> QED
      BY <1>6, <2>3, <2>4, <2>5, <3>1 DEF DiskInv, Linked, Extends, AtHeight
  <2> QED
    BY <1>6, <2>3, <2>6 DEF TaskInv, Extends, AtHeight
<1> QED
  BY <1>7, <1>8

\* Storing the next block on top of its parent.
LEMMA SaveChainInv ==
  ASSUME TypeInv, TaskInv, DiskInv, Never({"dberr", "rescan"})', SaveBlockHeader2
  PROVE  TaskInv' /\ DiskInv'
<1> DEFINE n == Len(blk)
<1>1. /\ cur \in Blocks /\ db \in Blocks /\ Extends(blk)
      /\ blk \in Blocks /\ n = Len(cur) + 1 /\ Parent(blk) = cur
      /\ db # <<>> => cur = db
  BY DEF SaveBlockHeader2, TypeInv, TypeOK, StepInv, TaskInv
<1>2. n \in Heights /\ n \in Nat /\ n - 1 = Len(cur) /\ n > 0
  BY <1>1, ScannerAssumption DEF Blocks, Heights
<1>3. db' = blk /\ headers' = [headers EXCEPT ![n] = blk] /\ pc' = "newBlock"
      /\ UNCHANGED local
  BY NotHappening DEF SaveBlockHeader2
<1>4. headers'[n] = blk /\ \A g \in Heights : g # n => headers'[g] = headers[g]
  BY <1>2, <1>3 DEF TypeInv, TypeOK
<1>5. blk # <<>>
  BY <1>2
<1>6. blk # NoBlock
  BY <1>1, ScannerAssumption DEF Blocks
<1>7. ASSUME NEW g \in Heights, g < n, headers[g] # NoBlock
      PROVE  headers[g] = AtHeight(blk, g)
  <2>1. db = cur
    BY <1>1, <1>7 DEF DiskInv
  <2>2. g \in 0..Len(cur) /\ Len(cur) \in 0..Len(blk) /\ g <= Len(db)
    BY <1>1, <1>2, <1>7, <2>1 DEF Heights, Blocks
  <2>3. headers[g] = AtHeight(cur, g)
    BY <1>7, <2>1, <2>2 DEF DiskInv, Linked
  <2>4. cur = AtHeight(blk, Len(cur))
    BY <1>1, <1>2, ParentOfBlock
  <2> QED
    BY <1>1, <2>2, <2>3, <2>4, AtHeightOfAtHeight
<1>8. Linked(db)'
  <2> SUFFICES ASSUME NEW g \in Heights, g <= n, headers'[g] # NoBlock
               PROVE  headers'[g] = AtHeight(blk, g)
    BY <1>3 DEF Linked, AtHeight
  <2>1. CASE g = n
    BY <1>1, <1>4, <2>1, AtOwnHeight
  <2>2. CASE g < n
    BY <1>2, <1>4, <1>7, <2>2 DEF Heights
  <2> QED
    BY <1>2, <2>1, <2>2 DEF Heights
<1>9. ASSUME NEW g \in Heights, NEW k \in Heights, g < k, k <= n, headers'[g] # NoBlock
      PROVE  headers'[k] # NoBlock
  <2>1. CASE k = n
    BY <1>4, <1>6, <2>1
  <2>2. CASE k < n
    <3>1. headers[g] # NoBlock /\ g \in Int /\ k \in Int
      BY <1>2, <1>4, <1>9, <2>2 DEF Heights
    <3>2. db = cur
      BY <1>1, <3>1 DEF DiskInv
    <3>3. k <= Len(db)
      BY <1>2, <2>2, <3>1, <3>2
    <3>4. headers[k] # NoBlock
      BY <1>9, <3>1, <3>3 DEF DiskInv
    <3> QED
      BY <1>4, <2>2, <3>1, <3>4, <1>2
  <2> QED
    BY <1>2, <1>9, <2>1, <2>2 DEF Heights
<1>10. DiskInv'
  BY <1>1, <1>3, <1>5, <1>8, <1>9 DEF DiskInv, Extends, AtHeight
<1> QED
  BY <1>3, <1>10 DEF SaveBlockHeader2, TaskInv, TypeInv, StepInv, Extends, AtHeight, local

LEMMA ChainInvStep ==
  ASSUME Finalised # <<>>
  PROVE  TypeInv /\ ChainInv /\ [Next]_vars => ChainInv'
<1> SUFFICES ASSUME TypeInv, ChainInv, [Next]_vars, Never({"dberr", "rescan"})'
             PROVE  TaskInv' /\ DiskInv'
  BY DEF ChainInv
<1>1. TaskInv /\ DiskInv
  <2>1. {"dberr", "rescan"} \in SUBSET Kinds
    BY DEF Kinds
  <2> QED
    BY <2>1, NeverBefore DEF ChainInv
<1>2. CASE UNCHANGED vars
  BY <1>1, <1>2, DiskUnchanged DEF TaskInv, Extends, AtHeight, vars, disk, local
<1>3. CASE NotifyNewBlock
  <2>1. DiskInv'
    BY <1>1, <1>3, DiskUnchanged DEF NotifyNewBlock, disk
  <2>2. TaskInv'
    BY <1>1, <1>3 DEF NotifyNewBlock, TaskInv, Extends, AtHeight, disk
  <2> QED
    BY <2>1, <2>2
<1> QED
  BY <1>1, <1>2, <1>3, OutsideChainInv, ReadingChainInv, RewindChainInv, SaveChainInv
  DEF Next, ScanBlockTask

\* If reorgs stop short of genesis, then as long as no database error was
\* swallowed and no host moved the cursor, the headers stored up to the cursor
\* are one chain that ends in it: neither a reorg of any depth and at any step,
\* nor a failed call, a crash or a cleared database can splice two branches.
THEOREM LocalChain ==
  ASSUME Finalised # <<>>
  PROVE  Spec => []LocalChainLinked
<1>1. ChainInv => LocalChainLinked
  BY DEF ChainInv, DiskInv, LocalChainLinked
<1>2. Init => TypeInv /\ ChainInv
  BY InitTypeInv, InitChainInv
<1>3. TypeInv /\ ChainInv /\ [Next]_vars => (TypeInv /\ ChainInv)'
  BY TypeInvStep, ChainInvStep
<1> QED
  BY <1>1, <1>2, <1>3, PTL DEF Spec

-----------------------------------------------------------------------------
(* Extraction comes before storing.                                        *)

ExtractInv ==
  /\ ExtractedBeforeStored
  /\ pc = "save" => blk \in extracted

LEMMA ExtractInvStep == TypeInv /\ ExtractInv /\ [Next]_vars => ExtractInv'
<1> SUFFICES ASSUME TypeInv, ExtractInv, [Next]_vars PROVE ExtractInv'
  OBVIOUS
<1>1. CASE SaveBlockHeader2
  <2>1. blk \in extracted /\ Len(blk) = Len(cur) + 1 /\ pc' = "newBlock" /\ extracted' = extracted
    BY <1>1 DEF SaveBlockHeader2, TypeInv, StepInv, ExtractInv
  <2>2. \A h \in Heights : headers'[h] = headers[h] \/ headers'[h] = blk
    BY <1>1 DEF SaveBlockHeader2, TypeInv, TypeOK
  <2> QED
    BY <2>1, <2>2 DEF ExtractInv, ExtractedBeforeStored
<1>2. CASE ClearBlockScanDb
  BY <1>2 DEF ClearBlockScanDb, ExtractInv, ExtractedBeforeStored, local, seen
<1>3. CASE ExtractBlock \/ \E h \in Heights : ScanBlock(h)
  BY <1>3 DEF ExtractBlock, ScanBlock, Extract, ExtractInv, ExtractedBeforeStored, local
<1>4. CASE \/ Mine \/ Reorg \/ Run \/ Pause \/ UNCHANGED vars
           \/ \E h \in Heights : SetRescanBlockHeight(h)
  BY <1>4
  DEF Mine, Reorg, Run, Pause, SetRescanBlockHeight, ExtractInv, ExtractedBeforeStored,
      vars, disk, local, seen
<1>5. CASE \/ Crash \/ GetScannedBlockHeader \/ StopWhenPaused \/ CompareHeights \/ FetchNext
           \/ MissNext \/ DropForked \/ Rewind \/ MissRewind \/ NotifyFork \/ NotifyNewBlock
           \/ RescanFailedTransactions \/ Failures
  <2>1. headers' = headers /\ extracted' = extracted /\ pc' # "save"
    BY <1>5
    DEF Crash, GetScannedBlockHeader, LoadCursor, QueryBaseHeight, FetchBaseBlock,
        MissBaseBlock, StopWhenPaused, CompareHeights, FetchNext, MissNext, DropForked,
        Rewind, MissRewind, NotifyFork, NotifyNewBlock, RescanFailedTransactions, EndTask,
        Failures, FailBaseBlock, FailCall, FailDropForked, FailRewind, FailExtract,
        disk, seen
  <2> QED
    BY <2>1 DEF ExtractInv, ExtractedBeforeStored
<1> QED
  BY <1>1, <1>2, <1>3, <1>4, <1>5 DEF Next, HostCalls, ScanBlockTask

\* A stored header belongs to a block all of whose transactions were extracted,
\* whatever fails and wherever the process dies: a restart never finds a cursor
\* past transactions that nobody looked at.
THEOREM ExtractionFirst == Spec => []ExtractedBeforeStored
<1>1. Init => TypeInv /\ ExtractInv
  BY InitTypeInv DEF Init, ExtractInv, ExtractedBeforeStored
<1>2. TypeInv /\ ExtractInv /\ [Next]_vars => (TypeInv /\ ExtractInv)'
  BY TypeInvStep, ExtractInvStep
<1>3. ExtractInv => ExtractedBeforeStored
  BY DEF ExtractInv
<1> QED
  BY <1>1, <1>2, <1>3, PTL DEF Spec

\* Nothing is passed over: between the lowest header in the database and the cursor
\* every block of the cursor's chain was extracted, through reorgs of any depth,
\* failed calls, crashes and cleared databases, unless a write was lost or a host
\* moved the cursor.  The stored headers have no gap and are the cursor's ancestors
\* (DiskInv), and each of them was extracted before (ExtractedBeforeStored).
THEOREM NothingSkipped ==
  ASSUME Finalised # <<>>
  PROVE  Spec => []NoBlockSkipped
<1>1. Init => TypeInv /\ ChainInv /\ ExtractInv
  BY InitTypeInv, InitChainInv DEF Init, ExtractInv, ExtractedBeforeStored
<1>2. TypeInv /\ ChainInv /\ ExtractInv /\ [Next]_vars => (TypeInv /\ ChainInv /\ ExtractInv)'
  BY TypeInvStep, ChainInvStep, ExtractInvStep
<1>3. ChainInv /\ ExtractInv => NoBlockSkipped
  <2> SUFFICES ASSUME DiskInv, ExtractInv, NEW g \in Heights, NEW h \in Heights,
                      g <= h, h <= Len(db), headers[g] # NoBlock
               PROVE  AtHeight(db, h) \in extracted
    BY DEF ChainInv, NoBlockSkipped
  <2>1. headers[h] # NoBlock
    <3>1. CASE g = h
      BY <3>1
    <3>2. CASE g # h
      <4>1. g < h
        BY <3>2, ScannerAssumption DEF Heights
      <4> QED
        BY <4>1 DEF DiskInv
    <3> QED
      BY <3>1, <3>2
  <2>2. headers[h] = AtHeight(db, h)
    BY <2>1 DEF DiskInv, Linked
  <2> QED
    BY <2>1, <2>2 DEF ExtractInv, ExtractedBeforeStored
<1> QED
  BY <1>1, <1>2, <1>3, PTL DEF Spec

-----------------------------------------------------------------------------
(* The host's rescan.                                                      *)

\* Every block the scanner holds or has stored descends from the first finalised
\* one, whatever is lost or done by hand.
Rooted(b) == b # <<>> => b[1] = Finalised[1]

HeaderInv ==
  \A h \in Heights : headers[h] # NoBlock => Len(headers[h]) = h /\ Rooted(headers[h])

RootInv ==
  /\ Rooted(db) /\ Rooted(cur)
  /\ pc \in {"fork", "rewind", "extract", "save", "newBlock"} => Rooted(blk)
  /\ HeaderInv

\* A block of the node at some height has that height and the common root.
LEMMA NodeBlockRooted ==
  ASSUME TypeInv, Finalised # <<>>, NEW h \in 0..Len(chain)
  PROVE  /\ AtHeight(chain, h) \in Blocks /\ Len(AtHeight(chain, h)) = h
         /\ Rooted(AtHeight(chain, h))
<1>1. chain \in Blocks /\ chain \in Seq(Branches) /\ Len(chain) \in Nat
  BY DEF TypeInv, TypeOK, Blocks
<1>2. Len(Finalised) \in Nat /\ Len(Finalised) >= 1 /\ Len(Finalised) <= Len(chain)
  BY <1>1, FinalisedIsBlock DEF TypeInv, NodeInv, Blocks
<1>3. chain[1] = Finalised[1]
  <2>1. AtHeight(chain, Len(Finalised)) = Finalised
    BY ChainExtends DEF Extends
  <2>2. AtHeight(chain, Len(Finalised))[1] = chain[1]
    BY <1>1, <1>2 DEF AtHeight
  <2> QED
    BY <2>1, <2>2
<1>4. AtHeight(chain, h) \in Blocks /\ Len(AtHeight(chain, h)) = h
  BY <1>1, AtHeightOfBlock
<1>5. ASSUME AtHeight(chain, h) # <<>>
      PROVE  AtHeight(chain, h)[1] = Finalised[1]
  <2>1. h >= 1
    BY <1>1, <1>4, <1>5 DEF Blocks
  <2> QED
    BY <1>1, <1>3, <2>1 DEF AtHeight
<1> QED
  BY <1>4, <1>5 DEF Rooted

\* The scanner goes back from a block at height 2 or above: the blocks at height 1
\* have one root and are equal.
LEMMA RewindAboveFirst ==
  ASSUME TypeInv, RootInv, pc \in {"fork", "rewind"}
  PROVE  Len(cur) - 1 \in Heights
<1>1. cur \in Blocks /\ blk \in Blocks /\ Len(blk) = Len(cur) + 1 /\ Parent(blk) # cur
  BY DEF TypeInv, TypeOK, StepInv
<1>2. Len(cur) \in Nat /\ Len(cur) > 0 /\ cur \in Seq(Branches) /\ blk \in Seq(Branches)
  BY <1>1, RewindAboveGenesis DEF Blocks
<1>3. Len(cur) # 1
  <2> SUFFICES ASSUME Len(cur) = 1 PROVE FALSE
    OBVIOUS
  <2>1. cur[1] = Finalised[1] /\ blk[1] = Finalised[1]
    BY <1>1, <1>2 DEF RootInv, Rooted
  <2>2. Parent(blk) \in Seq(Branches) /\ Len(Parent(blk)) = 1
    BY <1>1, <1>2, ParentOfBlock DEF Blocks
  <2>3. Parent(blk)[1] = blk[1]
    BY <1>1, <1>2 DEF Parent, Front
  <2> QED
    BY <1>1, <1>2, <2>1, <2>2, <2>3, SeqEqual
<1>4. Len(cur) <= MaxHeight /\ MaxHeight \in Nat
  BY <1>1, ScannerAssumption DEF Blocks
<1>5. \A n \in Nat : n > 0 /\ n # 1 /\ n <= MaxHeight => n - 1 \in 1..MaxHeight
  BY <1>4
<1> QED
  BY <1>2, <1>3, <1>4, <1>5 DEF Heights

\* What the scanner goes back to: a block one below the cursor, of the common root.
LEMMA RewindTargetRooted ==
  ASSUME TypeInv, RootInv, Finalised # <<>>, Rewind
  PROVE  /\ cur' = RewindTarget(Len(cur) - 1)
         /\ cur' \in Blocks /\ Len(cur') = Len(cur) - 1
         /\ Len(cur) - 1 \in Heights /\ Rooted(cur)'
<1> DEFINE h == Len(cur) - 1
<1>1. h \in Heights /\ h \in Nat
  BY RewindAboveFirst DEF Rewind, Heights
<1>2. Stored(h) = headers[h] /\ cur' = RewindTarget(h)
  BY <1>1 DEF Stored, Rewind
<1>3. CASE headers[h] # NoBlock
  BY <1>1, <1>2, <1>3 DEF RewindTarget, RootInv, HeaderInv, Rooted, TypeInv, TypeOK
<1>4. CASE headers[h] = NoBlock
  <2>1. h \in 0..Len(chain)
    BY <1>1, <1>2, <1>4 DEF Rewind, TypeInv, TypeOK, Blocks
  <2> QED
    BY <1>1, <1>2, <1>4, <2>1, NodeBlockRooted DEF RewindTarget, Rooted
<1> QED
  BY <1>1, <1>2, <1>3, <1>4

LEMMA RootInvStep ==
  ASSUME Finalised # <<>>
  PROVE  TypeInv /\ RootInv /\ [Next]_vars => RootInv'
<1> SUFFICES ASSUME TypeInv, RootInv, [Next]_vars PROVE RootInv'
  OBVIOUS
<1>1. CASE \/ Mine \/ Reorg \/ Run \/ Pause \/ UNCHANGED vars
           \/ \E h \in Heights : ScanBlock(h)
  BY <1>1 DEF Mine, Reorg, Run, Pause, ScanBlock, RootInv, HeaderInv, Rooted, vars, disk, local
<1>2. CASE ClearBlockScanDb
  BY <1>2 DEF ClearBlockScanDb, RootInv, HeaderInv, Rooted, local
<1>3. ASSUME NEW h \in Heights, SetRescanBlockHeight(h)
      PROVE  RootInv'
  <2>1. h - 1 \in 0..Len(chain)
    BY <1>3 DEF SetRescanBlockHeight, Heights, TypeInv, TypeOK, Blocks
  <2>2. Rooted(db)'
    BY <1>3, <2>1, NodeBlockRooted DEF SetRescanBlockHeight, Rooted
  <2> QED
    BY <1>3, <2>2 DEF SetRescanBlockHeight, RootInv, HeaderInv, Rooted, local
<1>4. CASE \/ Crash \/ MissBaseBlock \/ FailBaseBlock \/ StopWhenPaused
           \/ RescanFailedTransactions
  BY <1>4
  DEF Crash, MissBaseBlock, FailBaseBlock, StopWhenPaused, RescanFailedTransactions, EndTask,
      RootInv, HeaderInv, Rooted, disk
<1>5. CASE \/ LoadCursor \/ QueryBaseHeight \/ CompareHeights \/ MissNext \/ FailCall
           \/ DropForked \/ FailDropForked \/ MissRewind \/ FailRewind \/ NotifyFork
           \/ ExtractBlock \/ FailExtract \/ NotifyNewBlock
  BY <1>5
  DEF LoadCursor, QueryBaseHeight, CompareHeights, MissNext, FailCall, DropForked,
      FailDropForked, MissRewind, FailRewind, NotifyFork, ExtractBlock, FailExtract,
      NotifyNewBlock, RootInv, HeaderInv, Rooted, disk, local
<1>6. CASE FetchBaseBlock
  <2>1. base \in 0..Len(chain)
    BY <1>6 DEF FetchBaseBlock, TypeInv, TypeOK, Blocks
  <2>2. Rooted(cur)'
    BY <1>6, <2>1, NodeBlockRooted DEF FetchBaseBlock, Rooted
  <2> QED
    BY <1>6, <2>2 DEF FetchBaseBlock, RootInv, HeaderInv, Rooted, disk
<1>7. CASE FetchNext
  <2>1. Len(cur) + 1 \in 0..Len(chain)
    BY <1>7 DEF FetchNext, TypeInv, TypeOK, Blocks
  <2>2. Rooted(blk)'
    BY <1>7, <2>1, NodeBlockRooted DEF FetchNext, Rooted
  <2> QED
    BY <1>7, <2>2 DEF FetchNext, RootInv, HeaderInv, Rooted, disk
<1>8. CASE Rewind
  <2>1. Rooted(cur)' /\ (db' = db \/ db' = cur')
    BY <1>8, RewindTargetRooted DEF Rewind
  <2> QED
    BY <1>8, <2>1 DEF Rewind, RootInv, HeaderInv, Rooted
<1>9. CASE SaveBlockHeader2
  <2>1. Rooted(blk) /\ blk' = blk /\ cur' = cur
    BY <1>9 DEF SaveBlockHeader2, RootInv, local
  <2>2. ASSUME NEW h \in Heights
        PROVE  headers'[h] = headers[h] \/ (h = Len(blk) /\ headers'[h] = blk)
    BY <1>9 DEF SaveBlockHeader2, TypeInv, TypeOK
  <2>3. db' = db \/ db' = blk
    BY <1>9 DEF SaveBlockHeader2
  <2> QED
    BY <2>1, <2>2, <2>3 DEF RootInv, HeaderInv, Rooted
<1> QED
  BY <1>1, <1>2, <1>3, <1>4, <1>5, <1>6, <1>7, <1>8, <1>9
  DEF Next, HostCalls, ScanBlockTask, GetScannedBlockHeader, Failures

\* While a height above 1 is to be rescanned and no write was lost, everything the
\* task works with is below it, and the database has a cursor to start from.
AskedInv ==
  asked > 1 /\ Never({"dberr"}) =>
    /\ db # <<>> /\ Len(db) < asked
    /\ pc # "base"
    /\ pc # "idle" => Len(cur) < asked
    /\ pc = "newBlock" => Len(blk) < asked

LEMMA AskedInvStep ==
  ASSUME Finalised # <<>>
  PROVE  TypeInv /\ RootInv /\ AskedInv /\ [Next]_vars => AskedInv'
<1> SUFFICES ASSUME TypeInv, RootInv, AskedInv, [Next]_vars,
                    asked' > 1, Never({"dberr"})'
             PROVE  /\ db' # <<>> /\ Len(db') < asked'
                    /\ pc' # "base"
                    /\ pc' # "idle" => Len(cur') < asked'
                    /\ pc' = "newBlock" => Len(blk') < asked'
  BY DEF AskedInv
<1>1. Never({"dberr"}) /\ ~Happens("dberr")
  <2>1. {"dberr"} \in SUBSET Kinds
    BY DEF Kinds
  <2> QED
    BY <2>1, NeverBefore
<1>2. /\ asked \in Nat /\ Len(db) \in Nat /\ Len(cur) \in Nat
      /\ blk \in Blocks => Len(blk) \in Nat
  BY ScannerAssumption DEF TypeInv, TypeOK, Blocks
<1>3. CASE \E h \in Heights : SetRescanBlockHeight(h)
  <2>1. PICK h \in Heights : SetRescanBlockHeight(h)
    BY <1>3
  <2>2. pc = "idle" /\ pc' = "idle" /\ asked' = h
    BY <2>1 DEF SetRescanBlockHeight
  <2>3. h - 1 \in 0..Len(chain) /\ h \in Nat
    BY <2>1 DEF SetRescanBlockHeight, Heights, TypeInv, TypeOK, Blocks
  <2>4. Len(db') = h - 1
    BY <2>1, <2>3, NodeBlockRooted DEF SetRescanBlockHeight
  <2> QED
    BY <2>2, <2>3, <2>4
<1>4. CASE \/ Mine \/ Reorg \/ Run \/ Pause \/ ClearBlockScanDb \/ UNCHANGED vars
           \/ \E h \in Heights : ScanBlock(h)
  BY <1>1, <1>4
  DEF Mine, Reorg, Run, Pause, ClearBlockScanDb, ScanBlock, AskedInv, vars, disk, local, seen
<1>5. CASE \/ Crash \/ MissBaseBlock \/ FailBaseBlock \/ StopWhenPaused
           \/ RescanFailedTransactions
  BY <1>1, <1>5
  DEF Crash, MissBaseBlock, FailBaseBlock, StopWhenPaused, RescanFailedTransactions, EndTask,
      AskedInv, disk, seen
<1>6. CASE \/ LoadCursor \/ QueryBaseHeight \/ FetchBaseBlock
  BY <1>1, <1>6 DEF LoadCursor, QueryBaseHeight, FetchBaseBlock, AskedInv, disk, seen
<1>7. CASE \/ CompareHeights \/ FetchNext \/ MissNext \/ FailCall \/ DropForked
           \/ FailDropForked \/ MissRewind \/ FailRewind \/ NotifyFork \/ ExtractBlock
           \/ FailExtract
  BY <1>1, <1>7
  DEF CompareHeights, FetchNext, MissNext, FailCall, DropForked, FailDropForked, MissRewind,
      FailRewind, NotifyFork, ExtractBlock, FailExtract, AskedInv, disk, local, seen
<1>8. CASE Rewind
  <2>1. Len(cur') = Len(cur) - 1 /\ Len(cur) - 1 \in Heights /\ db' = cur' /\ asked' = asked
    BY <1>1, <1>8, RewindTargetRooted DEF Rewind, seen
  <2>2. Len(cur) < asked
    BY <1>1, <1>8, <2>1 DEF Rewind, AskedInv
  <2>3. db' # <<>>
    BY <2>1 DEF Heights
  <2> QED
    BY <1>2, <1>8, <2>1, <2>2, <2>3 DEF Rewind
<1>9. CASE SaveBlockHeader2
  <2>1. /\ blk \in Blocks /\ Len(blk) = Len(cur) + 1 /\ db' = blk /\ UNCHANGED local
        /\ asked' = asked /\ Len(blk) # asked
    BY <1>1, <1>9, <1>2 DEF SaveBlockHeader2, TypeInv, StepInv
  <2>2. Len(cur) < asked
    BY <1>1, <1>9, <2>1 DEF SaveBlockHeader2, AskedInv
  <2>3. Len(blk) < asked /\ blk # <<>>
    BY <1>2, <2>1, <2>2
  <2> QED
    BY <1>2, <1>9, <2>1, <2>2, <2>3 DEF SaveBlockHeader2, local
<1>10. CASE NotifyNewBlock
  BY <1>1, <1>10 DEF NotifyNewBlock, AskedInv, disk
<1> QED
  BY <1>3, <1>4, <1>5, <1>6, <1>7, <1>8, <1>9, <1>10
  DEF Next, HostCalls, ScanBlockTask, GetScannedBlockHeader, Failures

\* If reorgs stop short of genesis, a host that asks, while no task runs, for a
\* rescan from a height above 1 sees the cursor stay below that height until a block
\* of that height is scanned: neither a fork that leads further back, a crash, a
\* pause nor a failed call makes the scanner jump over it, unless a write was lost.
THEOREM RescanHonoured ==
  ASSUME Finalised # <<>>
  PROVE  Spec => []RescanAboveFirstHonoured
<1>1. Init => TypeInv /\ RootInv /\ AskedInv
  BY InitTypeInv DEF Init, RootInv, HeaderInv, Rooted, AskedInv
<1>2. TypeInv /\ RootInv /\ AskedInv /\ [Next]_vars => (TypeInv /\ RootInv /\ AskedInv)'
  BY TypeInvStep, RootInvStep, AskedInvStep
<1>3. AskedInv => RescanAboveFirstHonoured
  BY DEF AskedInv, RescanAboveFirstHonoured
<1> QED
  BY <1>1, <1>2, <1>3, PTL DEF Spec

-----------------------------------------------------------------------------
(* The unscanned records of a height that is given up.                     *)

\* Between the deletion and the cursor's step back no record of the height returns.
DroppedInv ==
  Never({"scan"}) /\ pc = "rewind" => \A u \in unscanned : Len(u) # Len(cur)

LEMMA DroppedInvStep == TypeInv /\ DroppedInv /\ [Next]_vars => DroppedInv'
<1> SUFFICES ASSUME TypeInv, DroppedInv, [Next]_vars, Never({"scan"})', pc' = "rewind"
             PROVE  \A u \in unscanned' : Len(u) # Len(cur')
  BY DEF DroppedInv
<1>1. Never({"scan"}) /\ ~Happens("scan")
  <2>1. {"scan"} \in SUBSET Kinds
    BY DEF Kinds
  <2> QED
    BY <2>1, NeverBefore
<1>2. CASE DropForked
  BY <1>2 DEF DropForked
<1>3. CASE \/ Mine \/ Reorg \/ Run \/ Pause \/ ClearBlockScanDb \/ UNCHANGED vars
           \/ \E h \in Heights : SetRescanBlockHeight(h)
  BY <1>1, <1>3
  DEF Mine, Reorg, Run, Pause, ClearBlockScanDb, SetRescanBlockHeight, DroppedInv, vars,
      disk, local
<1>4. ~\E h \in Heights : ScanBlock(h)
  BY <1>1 DEF ScanBlock
<1>5. ~\/ Crash \/ GetScannedBlockHeader \/ StopWhenPaused \/ CompareHeights \/ FetchNext
       \/ MissNext \/ Rewind \/ MissRewind \/ NotifyFork \/ ExtractBlock
       \/ SaveBlockHeader2 \/ NotifyNewBlock \/ RescanFailedTransactions \/ Failures
  BY DEF Crash, GetScannedBlockHeader, LoadCursor, QueryBaseHeight, FetchBaseBlock,
         MissBaseBlock, StopWhenPaused, CompareHeights, FetchNext, MissNext, Rewind,
         MissRewind, NotifyFork, ExtractBlock, SaveBlockHeader2, NotifyNewBlock,
         RescanFailedTransactions, EndTask, Failures, FailBaseBlock, FailCall,
         FailDropForked, FailRewind, FailExtract
<1> QED
  BY <1>2, <1>3, <1>4, <1>5 DEF Next, HostCalls, ScanBlockTask

\* If reorgs stop short of genesis, the scanner never steps back from a height and
\* leaves an unscanned record there, which a later rescan would extract for a block
\* that is no longer canonical: it holds between any two steps of the task, with the
\* node, crashes and cleared databases in between, unless a write was lost or the
\* host moved the cursor or scanned a block by hand.
THEOREM RollbackClean ==
  ASSUME Finalised # <<>>
  PROVE  Spec => RollbackDropsRecords
<1> DEFINE Lower ==
      Never({"dberr", "rescan", "scan"})' /\ Len(db') < Len(db) =>
        \A u \in unscanned' : Len(u) # Len(db)
<1>1. Init => TypeInv /\ ChainInv /\ DroppedInv
  BY InitTypeInv, InitChainInv DEF Init, DroppedInv
<1>2. TypeInv /\ ChainInv /\ DroppedInv /\ [Next]_vars
        => (TypeInv /\ ChainInv /\ DroppedInv)'
  BY TypeInvStep, ChainInvStep, DroppedInvStep
<1>3. TypeInv /\ ChainInv /\ DroppedInv /\ [Next]_vars => [Lower]_vars
  <2> SUFFICES ASSUME TypeInv, ChainInv, DroppedInv, Next,
                      Never({"dberr", "rescan", "scan"})', Len(db') < Len(db)
               PROVE  \A u \in unscanned' : Len(u) # Len(db)
    OBVIOUS
  <2>1. /\ Never({"dberr", "rescan", "scan"})
        /\ ~Happens("dberr") /\ ~Happens("rescan") /\ ~Happens("scan")
    <3>1. {"dberr", "rescan", "scan"} \in SUBSET Kinds
      BY DEF Kinds
    <3> QED
      BY <3>1, NeverBefore
  <2>2. TaskInv /\ Never({"scan"})
    BY <2>1 DEF ChainInv, Never
  <2>3. Len(db) \in Nat
    BY DEF TypeInv, TypeOK, Blocks
  <2>4. CASE Rewind
    <3>1. Len(db) # 0
      <4>1. db' \in Blocks
        BY <2>4, TypeInvStep DEF TypeInv, TypeOK
      <4> QED
        BY <2>3, <4>1 DEF Blocks
    <3>2. db = cur
      BY <2>2, <2>4, <3>1 DEF Rewind, TaskInv
    <3> QED
      BY <2>2, <2>4, <3>2 DEF Rewind, DroppedInv
  <2>5. CASE SaveBlockHeader2
    <3>1. db' = blk /\ blk \in Blocks /\ Len(blk) = Len(cur) + 1
      BY <2>1, <2>5 DEF SaveBlockHeader2, TypeInv, StepInv
    <3>2. db = cur \/ db = <<>>
      BY <2>2, <2>5 DEF SaveBlockHeader2, TaskInv
    <3> QED
      BY <2>3, <3>1, <3>2 DEF Blocks
  <2>6. db' = db \/ Rewind \/ SaveBlockHeader2
    BY <2>1
    DEF Next, Mine, Reorg, HostCalls, Run, Pause, ClearBlockScanDb, SetRescanBlockHeight,
        ScanBlock, Crash, ScanBlockTask, GetScannedBlockHeader, LoadCursor,
        QueryBaseHeight, FetchBaseBlock, MissBaseBlock, StopWhenPaused, CompareHeights,
        FetchNext, MissNext, DropForked, MissRewind, NotifyFork, ExtractBlock,
        NotifyNewBlock, RescanFailedTransactions, Failures, FailBaseBlock, FailCall,
        FailDropForked, FailRewind, FailExtract, disk
  <2> QED
    BY <2>3, <2>4, <2>5, <2>6
<1> QED
  BY <1>1, <1>2, <1>3, PTL DEF Spec, RollbackDropsRecords
=============================================================================
