-------------------------- MODULE QueryPoolProofs ---------------------------
(***************************************************************************)
(* Machine-checked proofs about QueryPool, for any number of addresses and *)
(* any capacity of its channels.                                           *)
(***************************************************************************)
EXTENDS QueryPool, WorkerPoolProofs, SequenceTheorems

LEMMA InitPoolInv == Init => PoolInv
BY PoolAssumption DEF Init, PoolInv, PoolTypeOK, Sent, Stages, Jobs

LEMMA NextPoolInv == PoolInv /\ [Next]_vars => PoolInv'
<1> SUFFICES ASSUME PoolInv, [Next]_vars PROVE PoolInv'
  OBVIOUS
<1>1. CASE UNCHANGED pool
  BY <1>1 DEF pool, PoolInv, PoolTypeOK, Sent, Jobs
<1>2. ASSUME NEW i \in Jobs, PoolStep(i) PROVE PoolInv'
  BY <1>2, PoolStepInv
<1>3. CASE Close
  BY <1>3, CloseInv
<1> QED
  BY <1>1, <1>2, <1>3
  DEF Next, Running, Mine, Done, Start, Send, Answer, FailQuery, EndQuery, Collect, Return,
      PoolStep, vars

LEMMA SpecPoolInv == Spec => []PoolInv
BY InitPoolInv, NextPoolInv, PTL DEF Spec

\* None of the query functions panics by sending on a channel it has closed
\* (the deferred close of threadControl and resultChan in GetBalanceByAddress).
THEOREM QueriesSendOnOpenChannels == Spec => []NoSendAfterClose
BY SpecPoolInv, PoolNoSendAfterClose, PTL

-----------------------------------------------------------------------------
(* A caller without an error has what the node held.                       *)

\* Whatever the node answers, a call of the client that succeeds returns what the
\* node holds (the checks of GetAddrBalance and ERC20GetAddressBalance2).
LEMMA BalanceIsHeld ==
  ASSUME NEW asset \in Assets, NEW n \in Nat, NEW reply \in Answers(asset, n),
         Balance(asset, reply).ok
  PROVE  Balance(asset, reply).value = n
<1> USE DEF Reply, Value, Failed, Answered, Broken, Types, ConvertToBigInt, Blank, Garbage
<1>1. ASSUME NEW type \in {"JSON", "String"}, reply \in Replies(Reply(type, n))
      PROVE  \/ reply = Reply(type, n)
             \/ reply.type = type /\ reply.text = Garbage
             \/ reply.type = type /\ reply.text = n /\ reply.contract
             \/ reply.type # type
  BY <1>1 DEF Replies
<1>2. CASE asset = "coin"
  <2>1. \/ reply \in Replies(Reply("JSON", n))
        \/ reply = Reply("JSON", Blank)
    BY <1>2 DEF Answers
  <2>2. GetAddrBalance(reply).ok /\ Balance(asset, reply) = GetAddrBalance(reply)
    BY <1>2 DEF Balance
  <2>3. reply.type = "JSON" /\ ~reply.contract /\ reply.text # Blank
    BY <2>2 DEF GetAddrBalance
  <2>4. reply.text \in {n, Garbage}
    BY <1>1, <2>1, <2>3
  <2> QED
    BY <2>2, <2>3, <2>4 DEF GetAddrBalance
<1>3. CASE asset = "token"
  <2>1. \/ reply \in Replies(Reply("String", n))
        \/ n = 0 /\ reply = Reply("String", Blank)
    BY <1>3 DEF Answers
  <2>2. /\ ERC20GetAddressBalance(reply).ok
        /\ Balance(asset, reply) = ERC20GetAddressBalance(reply)
    BY <1>3 DEF Balance
  <2>3. reply.type = "String"
    BY <2>2 DEF ERC20GetAddressBalance
  <2>4. \/ reply.text \in {n, Garbage}
        \/ n = 0 /\ reply.text = Blank
    BY <1>1, <2>1, <2>3
  <2> QED
    BY <2>2, <2>3, <2>4 DEF ERC20GetAddressBalance
<1> QED
  BY <1>2, <1>3 DEF Assets

LEMMA CallsType ==
  ASSUME fn \in QueryFunctions
  PROVE  /\ Len(fn.calls) \in 1..2
         /\ \A k \in 1..Len(fn.calls) : fn.calls[k] \in Assets
         /\ fn.keep \in {"place", "field", "list"}
BY DEF QueryFunctions, BalanceByAddress, TokenBalanceByAddress,
       TokenBalanceOfContract, ERC20AddressesByWallet, AddressesByWallet, Assets

\* What job i has read so far was held at moments in order, up to this one.
ReadSoFar(i) ==
  /\ Len(read[i]) <= Len(fn.calls)
  /\ \E moment \in [1..Len(read[i]) -> 0..block] :
       /\ \A k, l \in 1..Len(read[i]) : k < l => moment[k] <= moment[l]
       /\ \A k \in 1..Len(read[i]) : read[i][k] = Held[fn.calls[k]][i][moment[k]]

\* A job fails while it is busy, and one that has not failed has made every call.
QueryInv ==
  /\ PoolInv
  /\ fn \in QueryFunctions /\ block \in 0..MaxBlocks
  /\ read \in [1..MaxJobs -> Seq(Nat)]
  /\ bad \subseteq {i \in Jobs : worker[i] \in {"put", "release", "gone"}}
  /\ \A i \in 1..MaxJobs : ReadSoFar(i)
  /\ \A i \in Jobs : worker[i] \in {"put", "release", "gone"} /\ i \notin bad
                       => Len(read[i]) = Len(fn.calls)

\* What the collector has kept is what it has received from the jobs that did not
\* fail, and the outcome is judged by it.
ResultInv ==
  /\ results \in Seq(0..MaxJobs) /\ failed \in BOOLEAN
  /\ fn.keep = "list" =>
       /\ ~failed
       /\ ToSet(results) = collected \ bad
       /\ Len(results) = Cardinality(collected \ bad)
  /\ fn.keep # "list" =>
       /\ failed <=> collected \intersect bad # {}
       /\ results = [i \in Jobs |-> IF i \in collected \ bad THEN i ELSE 0]
  /\ outcome = IF ~returned THEN "none"
               ELSE IF failed \/ Len(results) # count THEN "error" ELSE "ok"

LEMMA InitQueryInv == Init => QueryInv /\ ResultInv
<1> SUFFICES ASSUME Init PROVE QueryInv /\ ResultInv
  OBVIOUS
<1>1. PoolInv /\ fn \in QueryFunctions /\ count \in 0..MaxJobs
  BY InitPoolInv DEF Init
<1>2. Len(fn.calls) \in 1..2 /\ fn.keep \in {"place", "field", "list"}
  BY <1>1, CallsType
<1>3. ASSUME NEW i \in 1..MaxJobs PROVE ReadSoFar(i)
  <2>1. read[i] = <<>> /\ Len(read[i]) = 0
    BY <1>3 DEF Init
  <2> DEFINE never == [k \in 1..0 |-> 0]
  <2>2. never \in [1..Len(read[i]) -> 0..block] /\ 1..Len(read[i]) = {}
    BY <2>1
  <2>3. Len(read[i]) <= Len(fn.calls)
    BY <1>2, <2>1
  <2> HIDE DEF never
  <2> QED
    BY <2>2, <2>3 DEF ReadSoFar
<1>4. QueryInv
  <2>1. block \in 0..MaxBlocks /\ read \in [1..MaxJobs -> Seq(Nat)]
    BY QueryAssumption DEF Init
  <2>2. bad = {} /\ \A i \in Jobs : worker[i] = "none"
    BY <1>1, PoolAssumption DEF Init, Jobs
  <2> QED
    BY <1>1, <1>3, <2>1, <2>2 DEF QueryInv
<1>5. results \in Seq(0..MaxJobs)
  <2>1. CASE fn.keep = "list"
    BY <2>1 DEF Init
  <2>2. CASE fn.keep # "list"
    <3>1. results = [i \in 1..count |-> 0] /\ count \in Nat /\ 0 \in 0..MaxJobs
      BY <1>1, <2>2, PoolAssumption DEF Init
    <3> QED
      BY <3>1
  <2> QED
    BY <2>1, <2>2
<1>6. collected = {} /\ bad = {} /\ failed = FALSE /\ ~returned /\ outcome = "none"
  BY DEF Init
<1>7. ASSUME fn.keep = "list"
      PROVE  ToSet(results) = {} /\ Len(results) = 0
  BY <1>7 DEF Init, ToSet
<1>8. ASSUME fn.keep # "list" PROVE results = [i \in Jobs |-> 0]
  BY <1>8 DEF Init, Jobs
<1>9. collected \ bad = {} /\ collected \intersect bad = {} /\ Cardinality({}) = 0
  BY <1>6, FS_EmptySet
<1>10. ResultInv
  <2>1. fn.keep # "list" =>
          results = [i \in Jobs |-> IF i \in collected \ bad THEN i ELSE 0]
    BY <1>8, <1>9
  <2>2. fn.keep = "list" =>
          ToSet(results) = collected \ bad /\ Len(results) = Cardinality(collected \ bad)
    BY <1>7, <1>9
  <2> QED
    BY <1>5, <1>6, <1>9, <2>1, <2>2 DEF ResultInv
<1> QED
  BY <1>4, <1>10

\* What a job has read stays read while only blocks are mined.
LEMMA ReadSoFarKept ==
  ASSUME NEW i, ReadSoFar(i), block \in Nat, block' \in Nat, block' >= block,
         read'[i] = read[i], fn' = fn
  PROVE  ReadSoFar(i)'
<1>1. PICK moment \in [1..Len(read[i]) -> 0..block] :
        /\ \A k, l \in 1..Len(read[i]) : k < l => moment[k] <= moment[l]
        /\ \A k \in 1..Len(read[i]) : read[i][k] = Held[fn.calls[k]][i][moment[k]]
  BY DEF ReadSoFar
<1>2. moment \in [1..Len(read'[i]) -> 0..block']
  OBVIOUS
<1>3. /\ \A k, l \in 1..Len(read'[i]) : k < l => moment[k] <= moment[l]
      /\ \A k \in 1..Len(read'[i]) : read'[i][k] = Held[fn'.calls[k]][i][moment[k]]
  BY <1>1
<1>4. Len(read'[i]) <= Len(fn'.calls)
  BY DEF ReadSoFar
<1> QED
  BY <1>2, <1>3, <1>4 DEF ReadSoFar

\* An answer adds what the node holds at this moment.
LEMMA AnswerReads ==
  ASSUME QueryInv, NEW i \in Jobs, Answer(i)
  PROVE  /\ read' \in [1..MaxJobs -> Seq(Nat)]
         /\ \A j \in 1..MaxJobs : ReadSoFar(j)'
<1>1. /\ read[i] \in Seq(Nat) /\ i \in 1..MaxJobs /\ fn' = fn /\ block' = block
      /\ Len(read[i]) < Len(fn.calls) /\ block \in Nat
  BY PoolAssumption, QueryAssumption
  DEF QueryInv, PoolInv, PoolTypeOK, Jobs, Answer, Asking
<1>2. Len(fn.calls) \in Nat /\ fn.calls[Len(read[i]) + 1] \in Assets
  <2>1. /\ Len(fn.calls) \in 1..2
        /\ \A k \in 1..Len(fn.calls) : fn.calls[k] \in Assets
    BY CallsType DEF QueryInv
  <2>2. Len(read[i]) \in Nat
    BY <1>1
  <2> QED
    BY <1>1, <2>1, <2>2
<1> DEFINE n == Len(read[i])
           asset == fn.calls[n + 1]
           held == Held[asset][i][block]
<1>3. held \in Nat
  <2>1. asset \in Assets /\ block \in 0..MaxBlocks /\ i \in 1..MaxJobs
    BY <1>1, <1>2 DEF QueryInv
  <2> HIDE DEF asset
  <2>2. Held[asset] \in [1..MaxJobs -> [0..MaxBlocks -> Nat]]
    BY <2>1, QueryAssumption
  <2> QED
    BY <2>1, <2>2
<1>4. PICK r \in Returned(i) : r.ok /\ read' = [read EXCEPT ![i] = Append(@, r.value)]
  BY DEF Answer
<1>5. r.value = held
  BY <1>2, <1>3, <1>4, BalanceIsHeld DEF Returned
<1>6. read' = [read EXCEPT ![i] = Append(read[i], held)]
  BY <1>4, <1>5
<1>7. read' \in [1..MaxJobs -> Seq(Nat)]
  BY <1>1, <1>3, <1>6 DEF QueryInv
<1>8. ReadSoFar(i)'
  <2> DEFINE now == read'[i]
  <2>1. /\ now = Append(read[i], held) /\ Len(now) = n + 1 /\ n \in Nat
        /\ \A k \in 1..n : now[k] = read[i][k]
        /\ now[n + 1] = held
    BY <1>1, <1>3, <1>6 DEF QueryInv
  <2>2. PICK moment \in [1..n -> 0..block] :
          /\ \A k, l \in 1..n : k < l => moment[k] <= moment[l]
          /\ \A k \in 1..n : read[i][k] = Held[fn.calls[k]][i][moment[k]]
    BY <1>1 DEF QueryInv, ReadSoFar
  <2> DEFINE later == [k \in 1..(n + 1) |-> IF k = n + 1 THEN block ELSE moment[k]]
  <2>3. later \in [1..Len(now) -> 0..block]
    BY <1>1, <2>1, <2>2
  <2>4. ASSUME NEW k \in 1..Len(now), NEW l \in 1..Len(now), k < l
        PROVE  later[k] <= later[l]
    <3> HIDE DEF now, n
    <3>1. k \in 1..n /\ later[k] = moment[k] /\ moment[k] \in 0..block
      BY <2>1, <2>2, <2>4
    <3>2. CASE l = n + 1
      BY <1>1, <2>1, <3>1, <3>2
    <3>3. CASE l \in 1..n
      BY <2>1, <2>2, <2>4, <3>1, <3>3
    <3> QED
      BY <2>1, <3>2, <3>3
  <2>5. \A k \in 1..Len(now) : now[k] = Held[fn.calls[k]][i][later[k]]
    BY <2>1, <2>2
  <2>6. Len(now) <= Len(fn.calls)
    BY <1>1, <1>2, <2>1
  <2> QED
    BY <1>1, <2>3, <2>4, <2>5, <2>6 DEF ReadSoFar
<1>9. ASSUME NEW j \in 1..MaxJobs, j # i PROVE ReadSoFar(j)'
  <2>1. read'[j] = read[j] /\ ReadSoFar(j)
    BY <1>6, <1>9 DEF QueryInv
  <2> QED
    BY <1>1, <2>1, ReadSoFarKept
<1> QED
  BY <1>7, <1>8, <1>9

LEMMA NextQueryInv == QueryInv /\ [Next]_vars => QueryInv'
<1> SUFFICES ASSUME QueryInv, [Next]_vars PROVE QueryInv'
  OBVIOUS
<1> DEFINE ended(i) == worker[i] \in {"put", "release", "gone"}
<1>1. PoolInv'
  BY NextPoolInv DEF QueryInv
<1>2. /\ worker \in [1..MaxJobs -> Stages] /\ Jobs \subseteq 1..MaxJobs
      /\ block \in Nat /\ chan \subseteq Sent
  BY PoolAssumption, QueryAssumption DEF QueryInv, PoolInv, PoolTypeOK, Jobs
\* Nothing is read, no block is mined and no job ends.
<1>3. ASSUME UNCHANGED <<fn, block, read, bad, count>>,
             \A i \in Jobs : ended(i)' <=> ended(i)
      PROVE  QueryInv'
  <2>1. \A i \in 1..MaxJobs : ReadSoFar(i)'
    BY <1>2, <1>3, ReadSoFarKept DEF QueryInv
  <2>2. Jobs' = Jobs
    BY <1>3 DEF Jobs
  <2> QED
    BY <1>1, <1>3, <2>1, <2>2 DEF QueryInv
<1>4. CASE UNCHANGED vars
  BY <1>3, <1>4 DEF vars, pool
<1>5. ASSUME NEW i \in Jobs, UNCHANGED <<fn, block, read>>,
             Launch(i) \/ Acquire(i) \/ Put(i) \/ Release(i) \/ Receive(i)
      PROVE  QueryInv'
  <2>1. UNCHANGED <<bad, count>> /\ \A j \in Jobs : ended(j)' <=> ended(j)
    BY <1>2, <1>5 DEF Launch, Acquire, Put, Release, Receive, Step
  <2> QED
    BY <1>3, <1>5, <2>1
<1>6. CASE Return
  <2>1. UNCHANGED <<fn, block, read, bad, count, worker>>
    BY <1>6 DEF Return, Close
  <2> QED
    BY <1>3, <2>1
<1>7. CASE Mine
  <2>1. /\ UNCHANGED <<worker, fn, read, bad, count>> /\ block' = block + 1
        /\ block' \in 0..MaxBlocks
    BY <1>7, QueryAssumption DEF Mine, pool, QueryInv
  <2>2. \A i \in 1..MaxJobs : ReadSoFar(i)'
    BY <1>2, <2>1, ReadSoFarKept DEF QueryInv
  <2> QED
    BY <1>1, <2>1, <2>2 DEF QueryInv, Jobs
<1>8. ASSUME NEW i \in Jobs, Answer(i) PROVE QueryInv'
  <2>1. /\ UNCHANGED <<worker, fn, bad, count, block>>
        /\ worker[i] = "busy" /\ \E v : read' = [read EXCEPT ![i] = v]
    BY <1>8 DEF Answer, Asking, pool
  <2>2. /\ read' \in [1..MaxJobs -> Seq(Nat)]
        /\ \A j \in 1..MaxJobs : ReadSoFar(j)'
    BY <1>8, AnswerReads
  <2>3. \A j \in Jobs : ended(j) => read'[j] = read[j]
    BY <1>2, <2>1 DEF QueryInv
  <2>4. Jobs' = Jobs
    BY <2>1 DEF Jobs
  <2> QED
    BY <1>1, <2>1, <2>2, <2>3, <2>4 DEF QueryInv
<1>9. ASSUME NEW i \in Jobs, FailQuery(i) PROVE QueryInv'
  <2>1. /\ UNCHANGED <<fn, count, block>> /\ bad' = bad \union {i}
        /\ worker' = [worker EXCEPT ![i] = "put"]
        /\ read' = [read EXCEPT ![i] = <<>>]
    BY <1>9 DEF FailQuery, Fail, Step
  <2>2. read' \in [1..MaxJobs -> Seq(Nat)] /\ Jobs' = Jobs
    <3>1. <<>> \in Seq(Nat) /\ read \in [1..MaxJobs -> Seq(Nat)]
      BY DEF QueryInv
    <3> QED
      BY <2>1, <3>1 DEF Jobs
  <2>3. ASSUME NEW j \in 1..MaxJobs, j # i PROVE ReadSoFar(j)' /\ read'[j] = read[j]
    BY <1>2, <2>1, <2>3, ReadSoFarKept DEF QueryInv
  <2>4. ReadSoFar(i)'
    <3> DEFINE never == [k \in 1..0 |-> 0]
    <3>1. read'[i] = <<>> /\ Len(read'[i]) = 0
      BY <1>2, <2>1 DEF QueryInv
    <3>2. never \in [1..Len(read'[i]) -> 0..block'] /\ 1..Len(read'[i]) = {}
      BY <3>1
    <3>3. Len(read'[i]) <= Len(fn'.calls)
      BY <2>1, <3>1, CallsType DEF QueryInv
    <3> HIDE DEF never
    <3> QED
      BY <3>2, <3>3 DEF ReadSoFar
  <2>5. \A j \in 1..MaxJobs : ReadSoFar(j)'
    BY <2>3, <2>4
  <2> QED
    BY <1>1, <1>2, <2>1, <2>2, <2>3, <2>5 DEF QueryInv
<1>10. ASSUME NEW i \in Jobs, EndQuery(i) PROVE QueryInv'
  <2>1. /\ UNCHANGED <<fn, count, block, bad, read>>
        /\ worker' = [worker EXCEPT ![i] = "put"]
        /\ Len(read[i]) = Len(fn.calls)
    BY <1>10 DEF EndQuery, Succeed, Step
  <2>2. \A j \in 1..MaxJobs : ReadSoFar(j)'
    BY <1>2, <2>1, ReadSoFarKept DEF QueryInv
  <2>3. Jobs' = Jobs
    BY <2>1 DEF Jobs
  <2> QED
    BY <1>1, <1>2, <2>1, <2>2, <2>3 DEF QueryInv
<1>11. ASSUME NEW i \in Jobs, Collect(i) PROVE QueryInv'
  BY <1>5, <1>11 DEF Collect
<1>12. CASE Start /\ UNCHANGED <<fn, block, read, results, failed, outcome>>
  BY <1>5, <1>12 DEF Start
<1>13. CASE Send /\ UNCHANGED <<fn, block, read, results, failed, outcome>>
  BY <1>5, <1>13 DEF Send
<1> QED
  BY <1>4, <1>6, <1>7, <1>8, <1>9, <1>10, <1>11, <1>12, <1>13 DEF Next, Running, Done

\* A result that is received was not received before.
LEMMA CollectKeeps ==
  ASSUME QueryInv, ResultInv, NEW i \in Jobs, Collect(i)
  PROVE  ResultInv'
<1>1. /\ i \in chan /\ i \notin collected /\ i \in 1..MaxJobs /\ i \in 0..MaxJobs
      /\ collected' = collected \union {i}
      /\ UNCHANGED <<bad, fn, count, outcome, returned>>
      /\ failed' = (failed \/ (i \in bad /\ fn.keep # "list"))
  BY PoolAssumption DEF Collect, Receive, QueryInv, PoolInv, PoolTypeOK, Jobs
<1>2. IsFiniteSet(collected) /\ IsFiniteSet(collected \ bad)
  <2>1. IsFiniteSet(1..MaxJobs) /\ collected \subseteq 1..MaxJobs
    BY FS_Interval, PoolAssumption DEF QueryInv, PoolInv, PoolTypeOK
  <2> QED
    BY <2>1, FS_Subset
<1>3. ~returned
  <2>1. Cardinality(collected) # count
    <3>1. Cardinality(collected) < count /\ count \in Nat
      BY DEF Collect, Receive, QueryInv, PoolInv, PoolTypeOK
    <3>2. Cardinality(collected) \in Nat
      BY <1>2, FS_CardinalityType
    <3> QED
      BY <3>1, <3>2
  <2> QED
    BY <2>1 DEF QueryInv, PoolInv
<1>4. results' = IF i \in bad THEN results
                 ELSE IF fn.keep = "list" THEN Append(results, i)
                 ELSE [results EXCEPT ![i] = i]
  BY DEF Collect
<1>5. outcome' = IF ~returned' THEN "none"
                 ELSE IF failed' \/ Len(results') # count' THEN "error" ELSE "ok"
  BY <1>1, <1>3 DEF ResultInv
<1>6. CASE i \in bad
  <2>1. results' = results /\ collected' \ bad = collected \ bad
    BY <1>1, <1>4, <1>6
  <2>2. Jobs' = Jobs
    BY <1>1 DEF Jobs
  <2> QED
    BY <1>1, <1>5, <1>6, <2>1, <2>2 DEF ResultInv
<1>7. CASE i \notin bad /\ fn.keep = "list"
  <2>1. results' = Append(results, i) /\ collected' \ bad = (collected \ bad) \union {i}
    BY <1>1, <1>4, <1>7
  <2>2. results' \in Seq(0..MaxJobs) /\ Len(results') = Len(results) + 1
    BY <1>1, <2>1 DEF ResultInv
  <2>3. ToSet(results') = ToSet(results) \union {i}
    BY <1>1, <2>1 DEF ResultInv, ToSet
  <2>4. Cardinality(collected' \ bad) = Cardinality(collected \ bad) + 1
    BY <1>1, <1>2, <2>1, FS_AddElement
  <2> QED
    BY <1>1, <1>5, <1>7, <2>1, <2>2, <2>3, <2>4 DEF ResultInv
<1>8. CASE i \notin bad /\ fn.keep # "list"
  <2>1. /\ results' = [results EXCEPT ![i] = i]
        /\ collected' \ bad = (collected \ bad) \union {i}
        /\ collected' \intersect bad = collected \intersect bad
    BY <1>1, <1>4, <1>8
  <2>2. results = [j \in Jobs |-> IF j \in collected \ bad THEN j ELSE 0]
    BY <1>8 DEF ResultInv
  <2>3. results' = [j \in Jobs |-> IF j \in collected' \ bad THEN j ELSE 0]
    BY <2>1, <2>2
  <2>4. results' \in Seq(0..MaxJobs)
    <3>1. results \in Seq(0..MaxJobs) /\ Len(results) = count
      BY <2>2, PoolAssumption DEF ResultInv, Jobs, QueryInv, PoolInv, PoolTypeOK
    <3> QED
      BY <1>1, <2>1, <3>1, ExceptSeq DEF Jobs
  <2>5. Jobs' = Jobs
    BY <1>1 DEF Jobs
  <2> QED
    BY <1>1, <1>5, <1>8, <2>1, <2>3, <2>4, <2>5 DEF ResultInv
<1> QED
  BY <1>6, <1>7, <1>8

LEMMA NextResultInv == QueryInv /\ ResultInv /\ [Next]_vars => ResultInv'
<1> SUFFICES ASSUME QueryInv, ResultInv, [Next]_vars PROVE ResultInv'
  OBVIOUS
<1>1. ASSUME UNCHANGED <<fn, count, bad, collected, returned, results, failed, outcome>>
      PROVE  ResultInv'
  BY <1>1 DEF ResultInv, Jobs
<1>2. CASE UNCHANGED vars
  BY <1>1, <1>2 DEF vars, pool
<1>3. ASSUME NEW i \in Jobs, UNCHANGED <<fn, results, failed, outcome>>,
             Launch(i) \/ Acquire(i) \/ Put(i) \/ Release(i) \/ Succeed(i)
      PROVE  ResultInv'
  BY <1>1, <1>3 DEF Launch, Acquire, Put, Release, Succeed
<1>4. CASE Mine
  BY <1>1, <1>4 DEF Mine, pool
<1>5. ASSUME NEW i \in Jobs, Answer(i) PROVE ResultInv'
  BY <1>1, <1>5 DEF Answer, pool
\* A job that fails now was not received yet.
<1>6. ASSUME NEW i \in Jobs, FailQuery(i) PROVE ResultInv'
  <2>1. /\ UNCHANGED <<fn, count, collected, returned, results, failed, outcome>>
        /\ bad' = bad \union {i} /\ worker[i] = "busy"
    BY <1>6 DEF FailQuery, Fail, Step
  <2>2. i \notin collected
    BY <2>1 DEF QueryInv, PoolInv, Sent
  <2>3. collected \ bad' = collected \ bad /\ collected \intersect bad' = collected \intersect bad
    BY <2>1, <2>2
  <2> QED
    BY <2>1, <2>3 DEF ResultInv, Jobs
<1>7. ASSUME NEW i \in Jobs, EndQuery(i) PROVE ResultInv'
  BY <1>3, <1>7 DEF EndQuery
<1>8. ASSUME NEW i \in Jobs, Collect(i) PROVE ResultInv'
  BY <1>8, CollectKeeps
<1>9. CASE Return
  <2>1. /\ UNCHANGED <<fn, count, bad, collected, results, failed>> /\ returned'
        /\ outcome' = IF failed \/ Len(results) # count THEN "error" ELSE "ok"
    BY <1>9 DEF Return, Close
  <2> QED
    BY <2>1 DEF ResultInv, Jobs
<1>10. CASE Start /\ UNCHANGED <<fn, block, read, results, failed, outcome>>
  BY <1>3, <1>10 DEF Start
<1>11. CASE Send /\ UNCHANGED <<fn, block, read, results, failed, outcome>>
  BY <1>3, <1>11 DEF Send
<1> QED
  BY <1>2, <1>4, <1>5, <1>6, <1>7, <1>8, <1>9, <1>10, <1>11 DEF Next, Running, Done

LEMMA SpecQueryInv == Spec => [](QueryInv /\ ResultInv)
BY InitQueryInv, NextQueryInv, NextResultInv, PTL DEF Spec

\* The variables of a query function hold values of their types: what is read of
\* the node are amounts, and never more of them than the function asks for.
THEOREM QueryTypes == Spec => []TypeOK
<1>1. ASSUME QueryInv, ResultInv PROVE TypeOK
  <2>1. ASSUME NEW i \in 1..MaxJobs PROVE read[i] \in Seq(Nat) /\ Len(read[i]) <= Len(fn.calls)
    BY <1>1 DEF QueryInv, ReadSoFar
  <2> QED
    BY <1>1, <2>1 DEF QueryInv, PoolInv, ResultInv, TypeOK
<1> QED
  BY <1>1, SpecQueryInv, PTL

\* A caller gets an error exactly when one of its queries failed, and otherwise
\* for every address a result that the node held during the call, whatever the
\* node answered and in whatever order the results came (resultSaveFailed, the
\* count of the results, the checks of the client on every answer).
THEOREM QueriesAllOrError == Spec => []AllOrError
<1>1. ASSUME QueryInv, ResultInv, returned PROVE AllOrError
  <2>1. collected = Jobs
    BY <1>1, AllCollected DEF QueryInv, PoolInv
  <2>2. bad \subseteq Jobs /\ IsFiniteSet(Jobs) /\ Cardinality(Jobs) = count /\ count \in Nat
    BY <1>1, FS_Interval, PoolAssumption DEF QueryInv, PoolInv, PoolTypeOK, Jobs
  <2>3. fn.keep \in {"place", "field", "list"}
    BY <1>1, CallsType DEF QueryInv
  <2>4. outcome = IF failed \/ Len(results) # count THEN "error" ELSE "ok"
    BY <1>1 DEF ResultInv
  <2>5. Cardinality(Jobs \ bad) = count <=> bad = {}
    BY <2>2, FS_Subset
  <2>6. ASSUME fn.keep = "list"
        PROVE  /\ outcome = "ok" <=> bad = {}
               /\ bad = {} => ToSet(results) = Jobs /\ Len(results) = count
    BY <1>1, <2>1, <2>2, <2>4, <2>5, <2>6 DEF ResultInv
  <2>7. ASSUME fn.keep # "list"
        PROVE  /\ outcome = "ok" <=> bad = {}
               /\ bad = {} => /\ ToSet(results) = Jobs /\ Len(results) = count
                              /\ \A i \in Jobs : results[i] = i
    <3>1. /\ results = [i \in Jobs |-> IF i \in Jobs \ bad THEN i ELSE 0]
          /\ failed <=> bad # {}
      BY <1>1, <2>1, <2>2, <2>7 DEF ResultInv
    <3>2. Len(results) = count /\ DOMAIN results = Jobs
      BY <2>2, <3>1 DEF Jobs
    <3>3. bad = {} => /\ \A i \in Jobs : results[i] = i
                      /\ ToSet(results) = Jobs
      BY <3>1, <3>2 DEF ToSet
    <3> QED
      BY <2>4, <3>1, <3>2, <3>3
  <2>8. ASSUME bad = {}, NEW i \in Jobs PROVE ReadFrom(i)
    <3>1. worker[i] \in {"release", "gone"} /\ i \in 1..MaxJobs
      BY <1>1, <2>1, PoolAssumption DEF QueryInv, PoolInv, PoolTypeOK, Sent, Jobs
    <3>2. Len(read[i]) = Len(fn.calls) /\ ReadSoFar(i)
      BY <1>1, <2>8, <3>1 DEF QueryInv
    <3> QED
      BY <3>2 DEF ReadSoFar, ReadFrom
  <2> QED
    BY <2>3, <2>6, <2>7, <2>8 DEF AllOrError
<1>2. ASSUME ~returned PROVE AllOrError
  BY <1>2 DEF AllOrError
<1> QED
  BY <1>1, <1>2, SpecQueryInv, PTL

-----------------------------------------------------------------------------
(* A call can go on until it returns, and runs out of steps.               *)

LEMMA InitFlowInv == Init => FlowInv
<1> SUFFICES ASSUME Init PROVE FlowInv
  OBVIOUS
<1>1. count \in Nat /\ \A i \in Jobs : worker[i] = "none" /\ i > 0
  BY PoolAssumption DEF Init, Jobs
<1>2. Sent = {}
  BY <1>1 DEF Sent
<1>3. 0 \in 0..count /\ \A i \in Jobs : worker[i] # "none" <=> i <= 0
  BY <1>1 DEF Jobs
<1> QED
  BY <1>2, <1>3 DEF FlowInv

LEMMA NextFlowInv == PoolInv /\ FlowInv /\ [Next]_vars => FlowInv'
<1> SUFFICES ASSUME PoolInv, FlowInv, [Next]_vars PROVE FlowInv'
  OBVIOUS
<1>1. CASE UNCHANGED pool
  BY <1>1 DEF pool, FlowInv, Sent, Jobs
<1>2. ASSUME NEW i \in Jobs, PoolStep(i) PROVE FlowInv'
  BY <1>2, PoolStepFlow
<1>3. CASE Close
  BY <1>3, CloseFlow
<1> QED
  BY <1>1, <1>2, <1>3
  DEF Next, Running, Mine, Done, Start, Send, Answer, FailQuery, EndQuery, Collect, Return,
      PoolStep, vars

\* No call of a query function blocks for ever, for any number of addresses and any
\* capacities of the channels: until it returns somebody can go on (threadControl,
\* resultChan, the collector of GetBalanceByAddress).
THEOREM QueriesNeverStuck == Spec => []NeverStuck
<1>1. PoolInv /\ FlowInv => NeverStuck
  BY AllLaunched, SomeReady DEF NeverStuck
<1>2. Spec => []FlowInv
  BY InitFlowInv, NextFlowInv, SpecPoolInv, PTL DEF Spec
<1> QED
  BY <1>1, <1>2, SpecPoolInv, PTL

\* A goroutine that moves on has no more calls to make than before.
LEMMA MovesCallsRunOut ==
  ASSUME QueryInv, NEW i \in Jobs, PoolStep(i), UNCHANGED fn,
         \A j \in Jobs : read'[j] = read[j] \/ worker'[j] = "put"
  PROVE  CallsToDo' \subseteq CallsToDo
<1>1. worker \in [1..MaxJobs -> Stages] /\ Jobs \subseteq 1..MaxJobs /\ Jobs' = Jobs
  BY PoolAssumption
  DEF QueryInv, PoolInv, PoolTypeOK, Jobs, PoolStep, Launch, Acquire, Succeed, Fail, Put,
      Release, Receive
<1>2. \A j \in Jobs : worker'[j] \in {"none", "queued", "busy"}
                      => worker[j] \in {"none", "queued", "busy"}
  BY <1>1 DEF PoolStep, Launch, Acquire, Succeed, Fail, Put, Release, Receive, Step
<1> QED
  BY <1>1, <1>2 DEF CallsToDo

\* A query that got an answer has one call less to make.
LEMMA AnswerRunsOut ==
  ASSUME QueryInv, NEW i \in Jobs, Answer(i)
  PROVE  CallsToDo' \subseteq CallsToDo /\ CallsToDo' # CallsToDo
<1>1. i \in 1..MaxJobs /\ Jobs' = Jobs
  BY PoolAssumption DEF QueryInv, PoolInv, PoolTypeOK, Jobs, Answer, pool
<1>2. PICK v : read' = [read EXCEPT ![i] = Append(@, v)]
  BY DEF Answer
<1>3. read[i] \in Seq(Nat) /\ Len(read[i]) \in Nat /\ Len(fn.calls) \in 1..2
  BY <1>1, CallsType DEF QueryInv
<1>4. Len(read'[i]) = Len(read[i]) + 1 /\ \A j \in Jobs \ {i} : read'[j] = read[j]
  <2>1. v \in Nat
    BY <1>1, <1>2, AnswerReads DEF QueryInv
  <2> QED
    BY <1>1, <1>2, <1>3, <2>1 DEF QueryInv
<1>5. /\ UNCHANGED <<worker, fn>> /\ worker[i] = "busy" /\ Len(read[i]) < Len(fn.calls)
  BY DEF Answer, Asking, pool
<1> DEFINE Left(j, k) == /\ worker[j] \in {"none", "queued", "busy"}
                         /\ Len(read[j]) < k /\ k <= Len(fn.calls)
<1>6. /\ CallsToDo = {m \in Jobs \X (1..2) : Left(m[1], m[2])}
      /\ CallsToDo' = {m \in Jobs \X (1..2) : Left(m[1], m[2])'}
  BY <1>1 DEF CallsToDo
<1>7. ASSUME NEW j \in Jobs, NEW k \in 1..2, Left(j, k)' PROVE Left(j, k)
  <2>1. CASE j = i
    BY <1>3, <1>4, <1>5, <1>7, <2>1
  <2>2. CASE j # i
    BY <1>4, <1>5, <1>7, <2>2
  <2> QED
    BY <2>1, <2>2
<1>8. PICK n \in 1..2 : n = Len(read[i]) + 1
  <2>1. ASSUME NEW m \in Nat, NEW l \in 1..2, m < l PROVE m + 1 \in 1..2
    BY <2>1
  <2>2. Len(read[i]) + 1 \in 1..2
    BY <1>3, <1>5, <2>1
  <2> QED
    BY <2>2
<1>9. Left(i, n) /\ ~Left(i, n)'
  BY <1>3, <1>4, <1>5, <1>8
<1> HIDE DEF Left
<1>10. CallsToDo' \subseteq CallsToDo
  BY <1>6, <1>7
<1>11. <<i, n>> \in CallsToDo /\ <<i, n>> \notin CallsToDo'
  BY <1>6, <1>9
<1> QED
  BY <1>10, <1>11

\* Every step of a call leaves less of it to do and no step adds to it, so that a call
\* for any number of addresses, which is never stuck, comes to its end.
THEOREM QueriesRunOut == Spec => StepsRunOut
<1> DEFINE Less == <<PoolToDo, CallsToDo>>' # <<PoolToDo, CallsToDo>>
           NoMore == NothingMore /\ CallsToDo' \subseteq CallsToDo
<1>1. ASSUME QueryInv, [Next]_vars PROVE NoMore /\ (Running => Less)
  <2>1. CASE UNCHANGED <<pool, fn, read>> /\ ~Running
    BY <2>1 DEF pool, PoolToDo, CallsToDo, NothingMore, Jobs
  <2>2. ASSUME NEW i \in Jobs, PoolStep(i), UNCHANGED <<fn, read>> PROVE NoMore /\ Less
    <3>1. NothingMore /\ PoolToDo' # PoolToDo
      BY <1>1, <2>2, PoolStepRunsOut DEF QueryInv
    <3>2. CallsToDo' \subseteq CallsToDo
      <4>1. \A j \in Jobs : read'[j] = read[j] \/ worker'[j] = "put"
        BY <2>2
      <4> QED
        BY <1>1, <2>2, <4>1, MovesCallsRunOut
    <3> QED
      BY <3>1, <3>2
  <2>3. ASSUME NEW i \in Jobs, FailQuery(i) PROVE NoMore /\ Less
    <3>1. /\ PoolStep(i) /\ worker[i] = "busy" /\ UNCHANGED fn
          /\ worker' = [worker EXCEPT ![i] = "put"]
          /\ read' = [read EXCEPT ![i] = <<>>]
      BY <2>3 DEF FailQuery, Fail, Step, PoolStep
    <3>2. \A j \in Jobs : read'[j] = read[j] \/ worker'[j] = "put"
      BY <1>1, <3>1, PoolAssumption DEF QueryInv, PoolInv, PoolTypeOK, Jobs
    <3> QED
      BY <1>1, <3>1, <3>2, PoolStepRunsOut, MovesCallsRunOut DEF QueryInv
  <2>4. ASSUME NEW i \in Jobs, Answer(i) PROVE NoMore /\ Less
    <3>1. NothingMore
      BY <2>4 DEF Answer, pool, PoolToDo, NothingMore, Jobs
    <3> QED
      BY <1>1, <2>4, <3>1, AnswerRunsOut
  <2>5. CASE Return
    <3>1. Close /\ UNCHANGED <<fn, read>>
      BY <2>5 DEF Return
    <3>2. CallsToDo' = CallsToDo
      BY <3>1 DEF Close, CallsToDo, Jobs
    <3> QED
      BY <3>1, <3>2, CloseRunsOut
  <2>6. ASSUME NEW i \in Jobs, EndQuery(i) \/ Collect(i) PROVE NoMore /\ Less
    BY <2>2, <2>6 DEF EndQuery, Collect, PoolStep
  <2>7. CASE (Start \/ Send) /\ UNCHANGED <<fn, block, read, results, failed, outcome>>
    BY <2>2, <2>7 DEF Start, Send, PoolStep
  <2>8. Running => NoMore /\ Less
    BY <2>3, <2>4, <2>5, <2>6, <2>7 DEF Running
  <2>9. ~Running => UNCHANGED <<pool, fn, read>>
    BY <1>1 DEF Next, Mine, Done, vars
  <2> QED
    BY <2>1, <2>8, <2>9
<1> DEFINE Shrinks ==
             /\ \A k \in DOMAIN PoolToDo : PoolToDo'[k] \subseteq PoolToDo[k]
             /\ CallsToDo' \subseteq CallsToDo
             /\ Running => <<PoolToDo, CallsToDo>>' # <<PoolToDo, CallsToDo>>
<1>2. QueryInv /\ [Next]_vars => [Shrinks]_vars
  BY <1>1 DEF NothingMore
<1> HIDE DEF Shrinks
<1>3. Spec => [][Shrinks]_vars
  BY <1>2, SpecQueryInv, PTL DEF Spec
<1> QED
  BY <1>3 DEF StepsRunOut, Shrinks
=============================================================================
