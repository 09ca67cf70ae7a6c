----------------------- MODULE ScannerObserverProofs -----------------------
(***************************************************************************)
(* What the block scanner hands to NewBlockNotify, proved: how many calls  *)
(* crashes and swallowed database errors make it miss, that without them   *)
(* the blocks handed over are the stored chain, and that the scanner then  *)
(* implements ChainFollower.  When the library delivers what it was        *)
(* handed, and what of it a crash destroys, is outside of all of this.     *)
(***************************************************************************)
EXTENDS BlockScannerProofs, FiniteSetTheorems

-----------------------------------------------------------------------------
(* Counting.                                                               *)

LEMMA NoMore ==
  ASSUME NEW S, IsFiniteSet(S), NEW T, T \subseteq S
  PROVE  IsFiniteSet(T) /\ Cardinality(T) <= Cardinality(S)
         /\ Cardinality(S) \in Nat /\ Cardinality(T) \in Nat
BY FS_Subset, FS_CardinalityType

LEMMA OneMore ==
  ASSUME NEW S, IsFiniteSet(S), NEW x, NEW T, T \subseteq S \union {x}
  PROVE  IsFiniteSet(T) /\ Cardinality(T) <= Cardinality(S) + 1
         /\ Cardinality(S) \in Nat /\ Cardinality(T) \in Nat
<1>1. /\ IsFiniteSet(S \union {x})
      /\ Cardinality(S \union {x}) <= Cardinality(S) + 1
      /\ Cardinality(S) \in Nat
  BY FS_AddElement, FS_CardinalityType
<1>2. IsFiniteSet(T) /\ Cardinality(T) <= Cardinality(S \union {x})
  BY <1>1, FS_Subset
<1> QED
  BY <1>1, <1>2, FS_CardinalityType

-----------------------------------------------------------------------------
(* The invariant.                                                          *)

ByHand == {"rescan", "scan", "clear"}

\* What will have been handed over once a pending notification is.
Told ==
  IF pc = "newBlock" THEN announced \union {blk}
  ELSE IF pc = "forkNotify" THEN announced \ {fork}
  ELSE announced

\* The height the task will be at then; between two tasks, where the next starts.
Reached ==
  IF pc \in {"idle", "base"} THEN Len(db)
  ELSE IF pc = "newBlock" THEN Len(blk)
  ELSE Len(cur)

\* The stored headers up to both the database's cursor and the task's, and up to
\* either: the two cursors part when the error of a write is swallowed.
Kept ==
  {headers[h] : h \in {k \in Heights : k <= Len(db) /\ k <= Reached}} \ {NoBlock}
Known ==
  {headers[h] : h \in {k \in Heights : k <= Len(db) \/ k <= Reached}} \ {NoBlock}

Surplus == Told \ Kept
Missing == Known \ Told
Lost    == spent["crash"] + spent["dberr"]

\* Until a block is stored or gone back to, the database is empty.
StartInv ==
  /\ db = <<>> => \A h \in Heights : headers[h] = NoBlock
  /\ pc = "base" => db = <<>>

\* The header to be retracted is that of the height gone back from.
ForkInv ==
  /\ pc = "rewind" => fork \in {Stored(Len(cur)), NoBlock}
  /\ pc = "forkNotify" => fork \in Blocks /\ Len(fork) = Len(cur) + 1

\* A header that is not going to be retracted has been counted as lost already.
CountInv ==
  /\ IsFiniteSet(announced)
  /\ Cardinality(Surplus) <= Lost
  /\ pc = "rewind" /\ fork # Stored(Len(cur)) => Cardinality(Surplus) < Lost
  /\ Cardinality(Missing) <= Lost

LossInv == Never(ByHand) => StartInv /\ ForkInv /\ CountInv

LEMMA LostType == TypeInv => Lost \in Nat
BY DEF TypeInv, TypeOK, Lost, Kinds

LEMMA LossesFinite ==
  ASSUME TypeInv, IsFiniteSet(announced)
  PROVE  /\ IsFiniteSet(Surplus) /\ Cardinality(Surplus) \in Nat
         /\ IsFiniteSet(Missing) /\ Cardinality(Missing) \in Nat
<1>1. IsFiniteSet(Told)
  <2>1. IsFiniteSet(announced \union {blk})
    BY FS_AddElement
  <2>2. IsFiniteSet(announced \ {fork})
    BY FS_Subset
  <2> QED
    BY <2>1, <2>2 DEF Told
<1>2. IsFiniteSet(Heights)
  BY FS_Interval, ScannerAssumption DEF Heights
<1>3. IsFiniteSet({headers[h] : h \in Heights})
  <2>1. headers \in Surjection(Heights, {headers[h] : h \in Heights})
    BY DEF Surjection, TypeInv, TypeOK
  <2> QED
    BY <1>2, <2>1, FS_Surjection
<1>4. Surplus \subseteq Told /\ Missing \subseteq {headers[h] : h \in Heights}
  BY DEF Surplus, Missing, Known
<1> QED
  BY <1>1, <1>3, <1>4, FS_Subset, FS_CardinalityType

\* A crash or a swallowed error adds one loss to the count, and no step takes one away.
LEMMA LostGrows ==
  ASSUME TypeInv, [Next]_vars
  PROVE  Lost' >= Lost /\ (Happens("dberr") \/ Happens("crash") => Lost' = Lost + 1)
<1>1. "crash" \in Kinds /\ "dberr" \in Kinds /\ spent \in [Kinds -> Nat]
  BY DEF TypeInv, TypeOK, Kinds
<1>2. spent'["crash"] >= spent["crash"] /\ spent'["dberr"] >= spent["dberr"]
  BY <1>1, CountsGrow
<1>3. spent' \in [Kinds -> Nat]
  BY TypeInvStep DEF TypeInv, TypeOK
<1>4. ASSUME NEW k \in {"crash", "dberr"}, Happens(k)
      PROVE  Lost' = Lost + 1
  BY <1>1, <1>4 DEF Happens, Lost
<1>5. Lost' >= Lost
  BY <1>1, <1>2, <1>3 DEF Lost
<1> QED
  BY <1>4, <1>5

\* The count survives a step that loses nothing.
LEMMA NothingLost ==
  ASSUME TypeInv, CountInv, [Next]_vars, IsFiniteSet(announced'),
         Surplus' \subseteq Surplus, Missing' \subseteq Missing,
         pc' = "rewind" /\ fork' # Stored(Len(cur))' =>
           (pc = "rewind" /\ fork # Stored(Len(cur))) \/ Lost' > Lost
  PROVE  CountInv'
<1>1. /\ Lost \in Nat /\ Lost' >= Lost
      /\ IsFiniteSet(Surplus) /\ IsFiniteSet(Missing)
  BY LostType, LostGrows, LossesFinite DEF CountInv
<1>2. /\ Cardinality(Surplus') <= Cardinality(Surplus)
      /\ Cardinality(Missing') <= Cardinality(Missing)
      /\ Cardinality(Surplus) \in Nat /\ Cardinality(Surplus') \in Nat
      /\ Cardinality(Missing) \in Nat /\ Cardinality(Missing') \in Nat
  BY <1>1, NoMore
<1>3. Lost' \in Nat
  <2>1. spent' \in [Kinds -> Nat]
    BY TypeInvStep DEF TypeInv, TypeOK
  <2> QED
    BY <2>1 DEF Lost, Kinds
<1> QED
  BY <1>1, <1>2, <1>3 DEF CountInv

\* It survives a crash or a swallowed error that loses one notification of a kind.
LEMMA OneLost ==
  ASSUME TypeInv, CountInv, [Next]_vars, IsFiniteSet(announced'),
         NEW x, Surplus' \subseteq Surplus \union {x},
         NEW y, Missing' \subseteq Missing \union {y},
         Lost' = Lost + 1, pc' # "rewind"
  PROVE  CountInv'
<1>1. /\ Lost \in Nat /\ IsFiniteSet(Surplus) /\ IsFiniteSet(Missing)
  BY LostType, LossesFinite DEF CountInv
<1>2. /\ Cardinality(Surplus') <= Cardinality(Surplus) + 1
      /\ Cardinality(Surplus) \in Nat /\ Cardinality(Surplus') \in Nat
  BY <1>1, OneMore
<1>3. /\ Cardinality(Missing') <= Cardinality(Missing) + 1
      /\ Cardinality(Missing) \in Nat /\ Cardinality(Missing') \in Nat
  BY <1>1, OneMore
<1> QED
  BY <1>1, <1>2, <1>3 DEF CountInv

-----------------------------------------------------------------------------
(* The steps that leave the database's cursor and headers alone.           *)

\* Those that change neither what will have been told nor where the task is.
LEMMA SteadyStep ==
  ASSUME TypeInv, CountInv, ForkInv, StartInv, [Next]_vars,
         \/ Mine \/ Reorg \/ Run \/ Pause \/ UNCHANGED vars
         \/ LoadCursor \/ QueryBaseHeight \/ CompareHeights \/ FetchNext \/ MissNext
         \/ FailCall \/ DropForked \/ FailDropForked \/ MissRewind \/ FailRewind
         \/ NotifyFork \/ ExtractBlock \/ FailExtract \/ NotifyNewBlock
  PROVE  StartInv' /\ ForkInv' /\ CountInv'
<1>1. headers' = headers /\ db' = db
  BY DEF Mine, Reorg, Run, Pause, LoadCursor, QueryBaseHeight, CompareHeights, FetchNext,
         MissNext, FailCall, DropForked, FailDropForked, MissRewind, FailRewind,
         NotifyFork, ExtractBlock, FailExtract, NotifyNewBlock, vars, disk
<1>2. Told' = Told /\ Reached' = Reached
  BY DEF Mine, Reorg, Run, Pause, LoadCursor, QueryBaseHeight, CompareHeights, FetchNext,
         MissNext, FailCall, DropForked, FailDropForked, MissRewind, FailRewind,
         NotifyFork, ExtractBlock, FailExtract, NotifyNewBlock, vars, disk, local, seen,
         Told, Reached
<1>3. Surplus' = Surplus /\ Missing' = Missing
  BY <1>1, <1>2 DEF Surplus, Missing, Kept, Known
<1>4. IsFiniteSet(announced')
  <2>1. \/ announced' = announced \/ announced' = announced \union {blk}
        \/ announced' = announced \ {fork}
    BY DEF Mine, Reorg, Run, Pause, LoadCursor, QueryBaseHeight, CompareHeights, FetchNext,
           MissNext, FailCall, DropForked, FailDropForked, MissRewind, FailRewind,
           NotifyFork, ExtractBlock, FailExtract, NotifyNewBlock, vars, seen
  <2>2. IsFiniteSet(announced)
    BY DEF CountInv
  <2>3. IsFiniteSet(announced \union {blk}) /\ IsFiniteSet(announced \ {fork})
    BY <2>2, FS_AddElement, FS_Subset
  <2> QED
    BY <2>1, <2>2, <2>3
<1>5. Stored(Len(cur))' = Stored(Len(cur)) \/ pc' # "rewind"
  BY <1>1
  DEF Mine, Reorg, Run, Pause, LoadCursor, QueryBaseHeight, CompareHeights, FetchNext,
      MissNext, FailCall, DropForked, FailDropForked, MissRewind, FailRewind,
      NotifyFork, ExtractBlock, FailExtract, NotifyNewBlock, vars, local, Stored
<1>6. pc' = "rewind" /\ fork' # Stored(Len(cur))' =>
        (pc = "rewind" /\ fork # Stored(Len(cur))) \/ Lost' > Lost
  <2>1. CASE DropForked
    <3>1. Happens("dberr") => Lost' > Lost
      BY LostGrows, LostType
    <3> QED
      BY <1>5, <2>1, <3>1 DEF DropForked
  <2>2. CASE ~DropForked
    BY <1>5, <2>2
    DEF Mine, Reorg, Run, Pause, LoadCursor, QueryBaseHeight, CompareHeights, FetchNext,
        MissNext, FailCall, FailDropForked, MissRewind, FailRewind,
        NotifyFork, ExtractBlock, FailExtract, NotifyNewBlock, vars, local
  <2> QED
    BY <2>1, <2>2
<1>7. CountInv'
  BY <1>3, <1>4, <1>6, NothingLost
<1>8. StartInv'
  BY <1>1
  DEF Mine, Reorg, Run, Pause, LoadCursor, QueryBaseHeight, CompareHeights, FetchNext,
      MissNext, FailCall, DropForked, FailDropForked, MissRewind, FailRewind,
      NotifyFork, ExtractBlock, FailExtract, NotifyNewBlock, vars, StartInv
<1>9. ForkInv'
  BY <1>5
  DEF Mine, Reorg, Run, Pause, LoadCursor, QueryBaseHeight, CompareHeights, FetchNext,
      MissNext, FailCall, DropForked, FailDropForked, MissRewind, FailRewind,
      NotifyFork, ExtractBlock, FailExtract, NotifyNewBlock, vars, local, ForkInv
<1> QED
  BY <1>7, <1>8, <1>9

\* The end of the task: the next one starts at the database's cursor.  Only a
\* crash can do so with a notification pending, and loses it.
LEMMA EndStep ==
  ASSUME TypeInv, CountInv, StartInv, [Next]_vars,
         \/ Crash \/ MissBaseBlock \/ FailBaseBlock \/ StopWhenPaused
         \/ RescanFailedTransactions
  PROVE  StartInv' /\ ForkInv' /\ CountInv'
<1>1. headers' = headers /\ db' = db /\ announced' = announced /\ pc' = "idle"
  BY DEF Crash, MissBaseBlock, FailBaseBlock, StopWhenPaused, RescanFailedTransactions,
         EndTask, disk, seen
<1>2. StartInv' /\ ForkInv' /\ IsFiniteSet(announced')
  BY <1>1 DEF StartInv, ForkInv, CountInv
<1>3. Kept \subseteq Kept' /\ Known' \subseteq Known
  BY <1>1 DEF Kept, Known, Reached
<1>4. Told' = announced
  BY <1>1 DEF Told
<1>5. CASE pc \notin {"newBlock", "forkNotify"}
  <2>1. Surplus' \subseteq Surplus /\ Missing' \subseteq Missing
    BY <1>3, <1>4, <1>5 DEF Told, Surplus, Missing
  <2> QED
    BY <1>1, <1>2, <2>1, NothingLost
<1>6. CASE pc \in {"newBlock", "forkNotify"}
  <2>1. Lost' = Lost + 1
    BY <1>6, LostGrows
    DEF Crash, MissBaseBlock, FailBaseBlock, StopWhenPaused, RescanFailedTransactions
  <2>2. Surplus' \subseteq Surplus \union {fork} /\ Missing' \subseteq Missing \union {blk}
    BY <1>3, <1>4, <1>6 DEF Told, Surplus, Missing
  <2> QED
    BY <1>1, <1>2, <2>1, <2>2, OneLost
<1> QED
  BY <1>2, <1>5, <1>6

\* The start at the node's height: no header is stored yet.
LEMMA FetchBaseStep ==
  ASSUME TypeInv, CountInv, StartInv, [Next]_vars, FetchBaseBlock
  PROVE  StartInv' /\ ForkInv' /\ CountInv'
<1>1. /\ headers' = headers /\ db' = db /\ announced' = announced /\ pc' = "head"
      /\ pc = "base" /\ \A h \in Heights : headers[h] = NoBlock
  BY DEF FetchBaseBlock, StartInv, disk, seen
<1>2. Kept = {} /\ Known = {} /\ Kept' = {} /\ Known' = {}
  BY <1>1 DEF Kept, Known
<1>3. Surplus' = Surplus /\ Missing' = Missing
  BY <1>1, <1>2 DEF Surplus, Missing, Told
<1>4. CountInv'
  BY <1>1, <1>3, NothingLost DEF CountInv
<1> QED
  BY <1>1, <1>4 DEF StartInv, ForkInv

-----------------------------------------------------------------------------
(* The steps that write the database's cursor.                             *)

\* One block back.  A header known to the task is retracted, and leaves both the
\* announced blocks and the stored ones; when the lookup failed it was counted, and
\* when the write fails the retracted header stays below the database's cursor.
LEMMA RewindStep ==
  ASSUME TypeInv, RootInv, Finalised # <<>>, CountInv, StartInv, ForkInv, [Next]_vars,
         Rewind
  PROVE  StartInv' /\ ForkInv' /\ CountInv'
<1> DEFINE n == Len(cur)
<1>1. /\ n - 1 \in Heights /\ n \in Heights /\ n \in Nat
      /\ cur' \in Blocks /\ Len(cur') = n - 1 /\ cur' # <<>>
  <2>1. n - 1 \in Heights /\ cur' \in Blocks /\ Len(cur') = n - 1
    BY RewindTargetRooted
  <2>2. n \in Nat /\ n <= MaxHeight
    BY DEF TypeInv, TypeOK, Blocks
  <2>3. n - 1 >= 1 /\ MaxHeight \in Nat
    BY <2>1, ScannerAssumption DEF Heights
  <2>4. n \in Heights
    BY <2>2, <2>3 DEF Heights
  <2> QED
    BY <2>1, <2>2, <2>3, <2>4
<1>2. /\ headers' = headers /\ announced' = announced /\ fork' = fork /\ pc = "rewind"
      /\ pc' = IF fork = NoBlock THEN "head" ELSE "forkNotify"
      /\ \/ db' = cur' /\ spent' = spent
         \/ db' = db /\ Happens("dberr")
  BY DEF Rewind, seen
<1>3. Stored(n) = headers[n] /\ fork \in {headers[n], NoBlock}
  BY <1>1, <1>2 DEF ForkInv, Stored
<1>4. fork # NoBlock => fork \in Blocks /\ Len(fork) = n
  BY <1>1, <1>3 DEF RootInv, HeaderInv, TypeInv, TypeOK
<1>5. ForkInv'
  BY <1>1, <1>2, <1>4 DEF ForkInv
<1>6. StartInv'
  BY <1>1, <1>2 DEF StartInv
<1>7. Len(db) \in Nat /\ NoBlock \notin announced
  BY ScannerAssumption DEF TypeInv, TypeOK, Blocks
<1>8. Told = announced /\ Told' = announced \ {fork} /\ Reached = n /\ Reached' = n - 1
  BY <1>1, <1>2, <1>7 DEF Told, Reached
<1>9. \A b \in Kept : b \in Kept' \/ b = headers[n]
  <2> SUFFICES ASSUME NEW h \in Heights, h <= Len(db), h <= n, headers[h] # NoBlock, h # n
               PROVE  headers[h] \in Kept'
    BY <1>8 DEF Kept
  <2>1. h <= n - 1 /\ h <= Len(db')
    BY <1>1, <1>2 DEF Heights
  <2> QED
    BY <1>2, <1>8, <2>1 DEF Kept
<1>10. Surplus' \subseteq Surplus \union ({headers[n]} \ {fork})
  BY <1>8, <1>9 DEF Surplus
<1>11. IsFiniteSet(announced')
  BY <1>2 DEF CountInv
<1>12. CASE db' = cur' /\ spent' = spent
  <2>1. Missing' \subseteq Missing
    <3> SUFFICES ASSUME NEW h \in Heights, h <= n - 1, headers[h] # NoBlock,
                        headers[h] \notin Told'
                 PROVE  headers[h] \in Missing
      BY <1>1, <1>2, <1>8, <1>12 DEF Missing, Known
    <3>1. headers[h] # fork
      BY <1>1, <1>4 DEF RootInv, HeaderInv, Heights
    <3>2. h <= n
      BY <1>1 DEF Heights
    <3> QED
      BY <1>8, <3>1, <3>2 DEF Missing, Known
  <2>2. CASE fork = headers[n]
    <3>1. Surplus' \subseteq Surplus
      BY <1>10, <2>2
    <3> QED
      BY <1>2, <1>11, <2>1, <3>1, NothingLost, <1>5, <1>6
  <2>3. CASE fork # headers[n]
    <3>1. /\ Cardinality(Surplus) < Lost /\ Lost' = Lost /\ Lost \in Nat
          /\ IsFiniteSet(Surplus) /\ IsFiniteSet(Missing) /\ Cardinality(Missing) <= Lost
      BY <1>2, <1>3, <1>12, <2>3, LossesFinite, LostType DEF CountInv, Lost
    <3>2. /\ Cardinality(Surplus') <= Cardinality(Surplus) + 1
          /\ Cardinality(Surplus) \in Nat /\ Cardinality(Surplus') \in Nat
      BY <1>10, <3>1, OneMore
    <3>3. /\ Cardinality(Missing') <= Cardinality(Missing)
          /\ Cardinality(Missing) \in Nat /\ Cardinality(Missing') \in Nat
      BY <2>1, <3>1, NoMore
    <3>4. CountInv'
      BY <1>2, <1>11, <3>1, <3>2, <3>3 DEF CountInv
    <3> QED
      BY <1>5, <1>6, <3>4
  <2> QED
    BY <2>2, <2>3
<1>13. CASE db' = db /\ Happens("dberr")
  <2>1. Missing' \subseteq Missing \union {fork}
    <3> SUFFICES ASSUME NEW h \in Heights, h <= Len(db) \/ h <= n - 1, headers[h] # NoBlock,
                        headers[h] \notin Told', headers[h] # fork
                 PROVE  headers[h] \in Missing
      BY <1>2, <1>8, <1>13 DEF Missing, Known
    <3>1. h <= Len(db) \/ h <= n
      BY <1>1 DEF Heights
    <3> QED
      BY <1>8, <3>1 DEF Missing, Known
  <2>2. Surplus' \subseteq Surplus \union {headers[n]}
    BY <1>10
  <2>3. Lost' = Lost + 1
    BY <1>13, LostGrows
  <2>4. CountInv'
    BY <1>2, <1>11, <2>1, <2>2, <2>3, OneLost
  <2> QED
    BY <1>5, <1>6, <2>4
<1> QED
  BY <1>2, <1>12, <1>13

\* The next block is stored, or is not and will be announced all the same.
LEMMA SaveStep ==
  ASSUME TypeInv, CountInv, StartInv, [Next]_vars, SaveBlockHeader2
  PROVE  StartInv' /\ ForkInv' /\ CountInv'
<1> DEFINE n == Len(blk)
<1>1. /\ blk \in Blocks /\ n = Len(cur) + 1 /\ Len(cur) \in Nat /\ blk # NoBlock
      /\ n \in Heights /\ blk # <<>> /\ n \in Nat
  <2>1. blk \in Blocks /\ n = Len(cur) + 1 /\ Len(cur) \in Nat
    BY DEF SaveBlockHeader2, TypeInv, TypeOK, StepInv, Blocks
  <2>2. n \in Nat /\ n <= MaxHeight /\ blk # NoBlock
    BY <2>1, ScannerAssumption DEF Blocks
  <2> QED
    BY <2>1, <2>2, ScannerAssumption DEF Heights
<1>2. /\ announced' = announced /\ UNCHANGED local /\ pc' = "newBlock" /\ pc = "save"
      /\ \/ db' = blk /\ headers' = [headers EXCEPT ![n] = blk] /\ spent' = spent
         \/ db' = db /\ headers' = headers /\ Happens("dberr")
  BY DEF SaveBlockHeader2
<1>3. StartInv' /\ ForkInv' /\ IsFiniteSet(announced')
  BY <1>1, <1>2 DEF StartInv, ForkInv, CountInv
<1>4. /\ Told = announced /\ Told' = announced \union {blk}
      /\ Reached = n - 1 /\ Reached' = n /\ Len(db) \in Nat
  BY <1>1, <1>2 DEF Told, Reached, local, TypeInv, TypeOK, Blocks
<1>5. CASE db' = blk /\ headers' = [headers EXCEPT ![n] = blk]
  <2>1. /\ headers'[n] = blk
        /\ \A h \in Heights : h # n => headers'[h] = headers[h]
    BY <1>1, <1>5 DEF TypeInv, TypeOK
  <2>2. Kept \union {blk} \subseteq Kept'
    <3>1. blk \in Kept'
      BY <1>1, <1>4, <1>5, <2>1 DEF Kept
    <3>2. ASSUME NEW h \in Heights, h <= Len(db), h <= n - 1, headers[h] # NoBlock
          PROVE  headers[h] \in Kept'
      <4>1. h # n /\ h <= n
        BY <1>1, <3>2 DEF Heights
      <4> QED
        BY <1>4, <1>5, <2>1, <3>2, <4>1 DEF Kept
    <3> QED
      BY <1>4, <3>1, <3>2 DEF Kept
  <2>3. Known' \subseteq Known \union {blk}
    <3> SUFFICES ASSUME NEW h \in Heights, h <= n, h # n, headers'[h] # NoBlock
                 PROVE  headers'[h] \in Known
      BY <1>4, <1>5, <2>1 DEF Known
    <3>1. h <= n - 1
      BY <1>1 DEF Heights
    <3> QED
      BY <1>4, <2>1, <3>1 DEF Known
  <2>4. Surplus' \subseteq Surplus /\ Missing' \subseteq Missing
    BY <1>4, <2>2, <2>3 DEF Surplus, Missing
  <2> QED
    BY <1>2, <1>3, <2>4, NothingLost
<1>6. CASE db' = db /\ headers' = headers /\ Happens("dberr")
  <2>1. Kept \subseteq Kept'
    <3> SUFFICES ASSUME NEW h \in Heights, h <= Len(db), h <= n - 1, headers[h] # NoBlock
                 PROVE  headers[h] \in Kept'
      BY <1>4 DEF Kept
    <3>1. h <= n
      BY <1>1 DEF Heights
    <3> QED
      BY <1>4, <1>6, <3>1 DEF Kept
  <2>2. Known' \subseteq Known \union {headers[n]}
    <3> SUFFICES ASSUME NEW h \in Heights, h <= Len(db) \/ h <= n, h # n,
                        headers[h] # NoBlock
                 PROVE  headers[h] \in Known
      BY <1>4, <1>6 DEF Known
    <3>1. h <= Len(db) \/ h <= n - 1
      BY <1>1 DEF Heights
    <3> QED
      BY <1>4, <3>1 DEF Known
  <2>3. Surplus' \subseteq Surplus \union {blk} /\ Missing' \subseteq Missing \union {headers[n]}
    BY <1>4, <2>1, <2>2 DEF Surplus, Missing
  <2>4. Lost' = Lost + 1
    BY <1>6, LostGrows
  <2> QED
    BY <1>2, <1>3, <2>3, <2>4, OneLost
<1> QED
  BY <1>2, <1>5, <1>6

LEMMA LossInvStep ==
  ASSUME Finalised # <<>>
  PROVE  TypeInv /\ RootInv /\ LossInv /\ [Next]_vars => LossInv'
<1> SUFFICES ASSUME TypeInv, RootInv, LossInv, [Next]_vars, Never(ByHand)'
             PROVE  StartInv' /\ ForkInv' /\ CountInv'
  BY DEF LossInv
<1>1. Never(ByHand) /\ \A k \in ByHand : ~Happens(k)
  <2>1. ByHand \in SUBSET Kinds
    BY DEF ByHand, Kinds
  <2> QED
    BY <2>1, NeverBefore
<1>2. StartInv /\ ForkInv /\ CountInv
  BY <1>1 DEF LossInv
<1>3. /\ ~ClearBlockScanDb
      /\ ~\E h \in Heights : SetRescanBlockHeight(h) \/ ScanBlock(h)
  BY <1>1 DEF ByHand, ClearBlockScanDb, SetRescanBlockHeight, ScanBlock
<1> QED
  BY <1>2, <1>3, SteadyStep, EndStep, FetchBaseStep, RewindStep, SaveStep
  DEF Next, HostCalls, ScanBlockTask, GetScannedBlockHeader, Failures

LEMMA InitLossInv == Init => LossInv
<1> SUFFICES ASSUME Init PROVE LossInv
  OBVIOUS
<1>1. pc = "idle" /\ announced = {} /\ \A h \in Heights : headers[h] = NoBlock
  BY DEF Init
<1>2. Surplus = {} /\ Missing = {}
  BY <1>1 DEF Surplus, Missing, Told, Known
<1>3. Lost \in Nat
  BY InitTypeInv, LostType
<1> QED
  BY <1>1, <1>2, <1>3, FS_EmptySet DEF LossInv, StartInv, ForkInv, CountInv

\* The task's cursor, where stored headers come from, and the notifications: what
\* every theorem below needs of a reachable state.
ObserverInv == TypeInv /\ RootInv /\ LossInv /\ ChainInv

LEMMA InitObserverInv == Init => ObserverInv
BY InitTypeInv, InitLossInv, InitChainInv DEF ObserverInv, Init, RootInv, HeaderInv, Rooted

LEMMA ObserverInvStep ==
  ASSUME Finalised # <<>>
  PROVE  ObserverInv /\ [Next]_vars => ObserverInv'
BY TypeInvStep, RootInvStep, LossInvStep, ChainInvStep DEF ObserverInv

\* Between two blocks nothing is pending: what was announced is what will have been,
\* and the stored headers up to the database's cursor lie between Kept and Known.
LEMMA SettledLosses ==
  ASSUME TypeInv, Settled
  PROVE  announced \ StoredChain \subseteq Surplus /\ StoredChain \ announced \subseteq Missing
<1>1. Told = announced
  BY DEF Settled, Told
<1>2. Len(db) \in Nat /\ Len(db) <= MaxHeight
  BY DEF TypeInv, TypeOK, Blocks
<1>3. \A h \in Heights : h <= Len(db) => h \in 1..Len(db)
  BY <1>2 DEF Heights
<1>4. Kept \subseteq StoredChain
  BY <1>3 DEF Kept, StoredChain
<1>5. \A h \in 1..Len(db) : h \in Heights /\ h <= Len(db)
  BY <1>2, ScannerAssumption DEF Heights
<1>6. StoredChain \subseteq Known
  BY <1>5 DEF Known, StoredChain
<1> QED
  BY <1>1, <1>4, <1>6 DEF Surplus, Missing

\* If reorgs stop short of genesis, then whatever the node, the host's pauses and the
\* failures do, the blocks handed to NewBlockNotify (and not since as forked) and those
\* stored differ, between two blocks, by at most one block each way for every crash and
\* every swallowed database error: no missed call multiplies while the two cursors, the
\* task's and the database's, disagree.  This counts the scanner's calls, not what the
\* library's queue loses in a crash.
THEOREM MissedCallsCounted ==
  ASSUME Finalised # <<>>
  PROVE  Spec => []MissedCallsBounded
<1>1. ObserverInv => MissedCallsBounded
  <2> SUFFICES ASSUME ObserverInv, Settled, Never({"rescan", "scan", "clear"})
               PROVE  /\ Cardinality(announced \ StoredChain) <= Lost
                      /\ Cardinality(StoredChain \ announced) <= Lost
    BY DEF MissedCallsBounded, Lost
  <2>1. TypeInv /\ CountInv
    BY DEF ObserverInv, LossInv, ByHand
  <2>2. /\ IsFiniteSet(Surplus) /\ Cardinality(Surplus) <= Lost
        /\ IsFiniteSet(Missing) /\ Cardinality(Missing) <= Lost
    BY <2>1, LossesFinite DEF CountInv
  <2>3. /\ Cardinality(announced \ StoredChain) <= Cardinality(Surplus)
        /\ Cardinality(Surplus) \in Nat /\ Cardinality(announced \ StoredChain) \in Nat
    BY <2>1, <2>2, SettledLosses, NoMore
  <2>4. /\ Cardinality(StoredChain \ announced) <= Cardinality(Missing)
        /\ Cardinality(Missing) \in Nat /\ Cardinality(StoredChain \ announced) \in Nat
    BY <2>1, <2>2, SettledLosses, NoMore
  <2> QED
    BY <2>1, <2>2, <2>3, <2>4, LostType
<1> QED
  BY <1>1, InitObserverInv, ObserverInvStep, PTL DEF Spec

\* In an undisturbed scan nothing was lost.
LEMMA NothingLostUndisturbed ==
  ASSUME ObserverInv, Undisturbed
  PROVE  /\ Surplus = {} /\ Missing = {}
         /\ StartInv /\ ForkInv /\ TaskInv /\ DiskInv
<1>1. StartInv /\ ForkInv /\ CountInv /\ TaskInv /\ DiskInv
  BY DEF ObserverInv, LossInv, ChainInv, Undisturbed, Never, ByHand
<1>2. Lost = 0
  BY DEF Undisturbed, Never, Lost
<1>3. /\ IsFiniteSet(Surplus) /\ Cardinality(Surplus) \in Nat
      /\ IsFiniteSet(Missing) /\ Cardinality(Missing) \in Nat
  BY <1>1, LossesFinite DEF CountInv, ObserverInv
<1>4. Cardinality(Surplus) = 0 /\ Cardinality(Missing) = 0
  BY <1>1, <1>2, <1>3 DEF CountInv
<1> QED
  BY <1>1, <1>3, <1>4, FS_EmptySet

\* And then, between two blocks, what was handed over is the stored chain, through
\* reorgs of any depth above genesis, at any step, failed calls and pauses.
THEOREM AnnouncedStored ==
  ASSUME Finalised # <<>>
  PROVE  Spec => []AnnouncedIsStored
<1>1. ObserverInv => AnnouncedIsStored
  <2> SUFFICES ASSUME ObserverInv, Settled, Undisturbed
               PROVE  announced = StoredChain
    BY DEF AnnouncedIsStored
  <2> QED
    BY NothingLostUndisturbed, SettledLosses DEF ObserverInv
<1> QED
  BY <1>1, InitObserverInv, ObserverInvStep, PTL DEF Spec

-----------------------------------------------------------------------------
(* The refinement of ChainFollower.                                        *)

LEMMA BlocksAreChains == Blocks \subseteq Chains
<1> SUFFICES ASSUME NEW b \in Blocks PROVE b \in Chains
  OBVIOUS
<1>1. Len(b) \in 0..MaxHeight /\ b \in [1..Len(b) -> Branches]
  BY ScannerAssumption DEF Blocks
<1> QED
  BY <1>1 DEF Chains

\* A block is announced on top of the highest one, its parent.
LEMMA NewBlockExtends ==
  ASSUME ObserverInv, Undisturbed, NotifyNewBlock, announced' # announced
  PROVE  Follower!Extend
<1> DEFINE n == Len(blk)
<1>1. /\ TypeInv /\ HeaderInv /\ Surplus = {} /\ Missing = {} /\ TaskInv /\ DiskInv
  BY NothingLostUndisturbed DEF ObserverInv, RootInv
<1>2. /\ pc = "newBlock" /\ announced' = announced \union {blk} /\ blk \notin announced
      /\ db = blk /\ blk \in Blocks /\ Len(blk) = Len(cur) + 1 /\ Parent(blk) = cur
      /\ Len(cur) \in Nat /\ n \in Nat /\ n <= MaxHeight
  BY <1>1 DEF NotifyNewBlock, TaskInv, TypeInv, TypeOK, StepInv, Blocks
<1>3. Told = announced \union {blk} /\ Reached = n
  BY <1>2 DEF Told, Reached
<1>4. ASSUME NEW b \in announced
      PROVE  /\ Len(b) \in Heights /\ headers[Len(b)] = b /\ Len(b) < n
             /\ headers[Len(b)] # NoBlock
  <2>1. b \in Kept /\ blk \in Kept
    BY <1>1, <1>3, <1>4 DEF Surplus
  <2>2. ASSUME NEW c \in Kept
        PROVE  /\ Len(c) \in Heights /\ headers[Len(c)] = c /\ Len(c) <= n /\ c # NoBlock
    <3>1. PICK h \in Heights : h <= Len(db) /\ headers[h] = c /\ c # NoBlock
      BY <2>2 DEF Kept
    <3>2. Len(c) = h
      BY <1>1, <3>1 DEF HeaderInv
    <3> QED
      BY <1>2, <3>1, <3>2
  <2>3. Len(b) # n
    BY <1>2, <1>4, <2>1, <2>2
  <2> QED
    BY <1>2, <2>1, <2>2, <2>3 DEF Heights
<1>5. blk \in (Chains \intersect announced') \ announced
  BY <1>2, BlocksAreChains
<1>6. ASSUME announced # {}
      PROVE  \E b \in announced : Follower!Tip(b) /\ Follower!Front(blk) = b
  <2>1. PICK g \in announced : TRUE
    BY <1>6
  <2>2. Len(cur) \in Heights /\ n - 1 = Len(cur)
    BY <1>2, <1>4, <2>1, ScannerAssumption DEF Heights
  <2>3. headers[Len(cur)] # NoBlock
    <3>1. CASE Len(g) = Len(cur)
      BY <1>4, <2>1, <3>1
    <3>2. CASE Len(g) # Len(cur)
      <4>1. Len(g) \in Heights /\ Len(g) < Len(cur) /\ Len(cur) <= Len(db)
            /\ headers[Len(g)] # NoBlock
        BY <1>2, <1>4, <2>1, <2>2, <3>2 DEF Heights
      <4> QED
        BY <1>1, <2>2, <4>1 DEF DiskInv
    <3> QED
      BY <3>1, <3>2
  <2>4. headers[Len(cur)] = cur
    <3>1. headers[Len(cur)] = AtHeight(blk, Len(cur)) /\ n > 0
      BY <1>1, <1>2, <2>2, <2>3 DEF DiskInv, Linked
    <3> QED
      BY <1>2, <2>2, <3>1, ParentOfBlock
  <2>5. cur \in announced
    <3>1. cur \in Known
      BY <1>2, <2>2, <2>3, <2>4 DEF Known
    <3>2. cur \in announced \union {blk}
      BY <1>1, <1>3, <3>1 DEF Missing
    <3>3. cur # blk
      BY <1>2
    <3> QED
      BY <3>2, <3>3
  <2>6. \A c \in announced : Len(c) <= Len(cur)
    BY <1>2, <1>4 DEF Heights
  <2> QED
    BY <1>2, <2>5, <2>6 DEF Follower!Tip, Parent, Front, Follower!Front
<1> QED
  BY <1>2, <1>5, <1>6 DEF Follower!Extend

\* The block retracted is the highest one announced.
LEMMA ForkRetracts ==
  ASSUME ObserverInv, Undisturbed, NotifyFork, announced' # announced
  PROVE  Follower!Retract
<1>1. /\ TypeInv /\ HeaderInv /\ Surplus = {} /\ ForkInv
  BY NothingLostUndisturbed DEF ObserverInv, RootInv
<1>2. /\ pc = "forkNotify" /\ announced' = announced \ {fork} /\ fork \in announced
      /\ Len(fork) = Len(cur) + 1 /\ Len(cur) \in Nat
  BY <1>1 DEF NotifyFork, ForkInv, TypeInv, TypeOK, Blocks
<1>3. Told = announced \ {fork} /\ Reached = Len(cur)
  BY <1>2 DEF Told, Reached
<1>4. ASSUME NEW b \in announced, b # fork
      PROVE  Len(b) <= Len(fork)
  <2>1. b \in Kept
    BY <1>1, <1>3, <1>4 DEF Surplus
  <2>2. PICK h \in Heights : h <= Len(cur) /\ headers[h] = b /\ b # NoBlock
    BY <1>3, <2>1 DEF Kept
  <2>3. Len(b) = h
    BY <1>1, <2>2 DEF HeaderInv
  <2> QED
    BY <1>2, <2>2, <2>3 DEF Heights
<1>5. Follower!Tip(fork)
  BY <1>2, <1>4 DEF Follower!Tip
<1> QED
  BY <1>2, <1>5 DEF Follower!Retract

\* No kind of disturbance happens more often than its limit.
SpentInv == \A k \in Kinds : spent[k] <= Limit[k]

LEMMA SpentInvStep == TypeInv /\ SpentInv /\ [Next]_vars => SpentInv'
<1> SUFFICES ASSUME TypeInv, SpentInv, [Next]_vars PROVE SpentInv'
  OBVIOUS
<1>1. spent \in [Kinds -> Nat] /\ Limit \in [Kinds -> Nat]
  BY ScannerAssumption DEF TypeInv, TypeOK
<1> QED
  BY <1>1, SpentChanges DEF Happens, SpentInv

\* When nothing disturbs the scan, the scanner implements ChainFollower: whatever
\* reorgs the node goes through above genesis, at whatever step of the task, and
\* whatever calls fail, the calls of NewBlockNotify describe a chain that only grows by
\* a child of its tip and only shrinks by its tip.
THEOREM ScannerFollowsChain ==
  ASSUME Finalised # <<>>,
         \A k \in {"crash", "dberr", "rescan", "scan", "clear"} : Limit[k] = 0
  PROVE  Spec => FollowsChain
<1>1. Init => Follower!Init
  BY DEF Init, Follower!Init
<1>2. Init => ObserverInv /\ SpentInv
  BY InitObserverInv, ScannerAssumption DEF Init, SpentInv
<1>3. ObserverInv /\ SpentInv /\ [Next]_vars => (ObserverInv /\ SpentInv)'
  BY ObserverInvStep, SpentInvStep DEF ObserverInv
<1>4. ObserverInv /\ SpentInv /\ [Next]_vars => [Follower!Next]_announced
  <2> SUFFICES ASSUME ObserverInv, SpentInv, [Next]_vars, announced' # announced
               PROVE  Follower!Next
    OBVIOUS
  <2>1. Undisturbed /\ ~Happens("scan")
    BY ScannerAssumption
    DEF ObserverInv, TypeInv, TypeOK, SpentInv, Undisturbed, Never, Kinds, Happens
  <2>2. NotifyNewBlock \/ NotifyFork
    BY <2>1
    DEF Next, Mine, Reorg, HostCalls, Run, Pause, ClearBlockScanDb, SetRescanBlockHeight,
        ScanBlock, Crash, ScanBlockTask, GetScannedBlockHeader, LoadCursor,
        QueryBaseHeight, FetchBaseBlock, MissBaseBlock, StopWhenPaused, CompareHeights,
        FetchNext, MissNext, DropForked, Rewind, MissRewind, ExtractBlock,
        SaveBlockHeader2, RescanFailedTransactions, Failures, FailBaseBlock, FailCall,
        FailDropForked, FailRewind, FailExtract, vars, seen
  <2> QED
    BY <2>1, <2>2, NewBlockExtends, ForkRetracts DEF Follower!Next
<1> QED
  BY <1>1, <1>2, <1>3, <1>4, PTL DEF Spec, FollowsChain, Follower!Spec
=============================================================================
