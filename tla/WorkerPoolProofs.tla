-------------------------- MODULE WorkerPoolProofs --------------------------
(***************************************************************************)
(* Machine-checked lemmas about the steps of WorkerPool, for the modules   *)
(* that build on it.                                                       *)
(***************************************************************************)
EXTENDS WorkerPool, FiniteSetTheorems, TLAPS

\* The jobs whose goroutine has nothing more to send.
Sent == {i \in Jobs : worker[i] \in {"release", "gone"}}

\* A result is received once, from a goroutine that has sent it, and the caller
\* returns only when there are as many as jobs.
PoolInv ==
  /\ PoolTypeOK
  /\ chan \subseteq Sent
  /\ collected \subseteq Sent
  /\ chan \intersect collected = {}
  /\ returned => Cardinality(collected) = count

PoolStep(i) ==
  \/ Launch(i) \/ Acquire(i) \/ Succeed(i) \/ Fail(i) \/ Put(i) \/ Release(i)
  \/ Receive(i)

LEMMA PoolStartInv ==
  ASSUME NEW n \in 0..MaxJobs, PoolStart(n)
  PROVE  PoolInv'
BY PoolAssumption DEF PoolStart, PoolInv, PoolTypeOK, Sent, Stages, Jobs

LEMMA PoolStepInv ==
  ASSUME PoolInv, NEW i \in Jobs, PoolStep(i)
  PROVE  PoolInv'
<1> USE PoolAssumption DEF PoolInv, PoolTypeOK, Sent, Stages, Jobs, Step
<1>1. CASE Launch(i)
  BY <1>1 DEF Launch
<1>2. CASE Acquire(i)
  BY <1>2 DEF Acquire
<1>3. CASE Succeed(i)
  BY <1>3 DEF Succeed
<1>4. CASE Fail(i)
  BY <1>4 DEF Fail
<1>5. CASE Put(i)
  BY <1>5 DEF Put
<1>6. CASE Release(i)
  BY <1>6 DEF Release
<1>7. CASE Receive(i)
  <2>1. Cardinality(collected) # count
    BY <1>7, FS_CardinalityType, FS_Interval, FS_Subset DEF Receive
  <2> QED
    BY <1>7, <2>1 DEF Receive
<1> QED
  BY <1>1, <1>2, <1>3, <1>4, <1>5, <1>6, <1>7 DEF PoolStep

LEMMA CloseInv ==
  ASSUME PoolInv, Close
  PROVE  PoolInv'
BY DEF Close, PoolInv, PoolTypeOK, Sent, Jobs

\* When the caller has returned, every result was received.
LEMMA AllCollected ==
  ASSUME PoolInv, Cardinality(collected) = count
  PROVE  collected = Jobs
<1>1. IsFiniteSet(Jobs) /\ Cardinality(Jobs) = count
  BY FS_Interval, PoolAssumption DEF Jobs, PoolInv, PoolTypeOK
<1>2. collected \subseteq Jobs
  BY DEF PoolInv, Sent
<1> QED
  BY <1>1, <1>2, FS_Subset

LEMMA PoolNoSendAfterClose == PoolInv => NoSendAfterClose
BY AllCollected DEF PoolInv, Sent, NoSendAfterClose

-----------------------------------------------------------------------------
(* Somebody can go on.                                                     *)

\* A result that was sent is in the channel until it is received, and goroutines
\* are launched in the order of the jobs.
FlowInv ==
  /\ Sent \subseteq chan \union collected
  /\ \E n \in 0..count : \A i \in Jobs : worker[i] # "none" <=> i <= n

LEMMA PoolStartFlow ==
  ASSUME NEW n \in 0..MaxJobs, PoolStart(n)
  PROVE  FlowInv'
<1>1. count' = n /\ n \in Nat /\ \A i \in Jobs' : worker'[i] = "none" /\ i > 0
  BY PoolAssumption DEF PoolStart, Jobs
<1>2. Sent' = {}
  BY <1>1 DEF Sent
<1>3. 0 \in 0..count' /\ \A i \in Jobs' : worker'[i] # "none" <=> i <= 0
  BY <1>1 DEF Jobs
<1> QED
  BY <1>2, <1>3 DEF FlowInv

LEMMA PoolStepFlow ==
  ASSUME PoolInv, FlowInv, NEW i \in Jobs, PoolStep(i)
  PROVE  FlowInv'
<1> USE PoolAssumption DEF PoolInv, PoolTypeOK, Sent, Stages, Jobs, Step
<1>0. Jobs' = Jobs /\ count' = count
  BY DEF PoolStep, Launch, Acquire, Succeed, Fail, Put, Release, Receive
<1>1. Sent' \subseteq (chan \union collected)'
  BY DEF FlowInv, PoolStep, Launch, Acquire, Succeed, Fail, Put, Release, Receive
<1>2. PICK n \in 0..count : \A j \in Jobs : worker[j] # "none" <=> j <= n
  BY DEF FlowInv
<1>3. CASE Launch(i)
  <2>1. \A j \in Jobs : worker'[j] # "none" <=> j = i \/ worker[j] # "none"
    BY <1>3 DEF Launch
  <2>2. i > n /\ \A j \in Jobs : j < i => j <= n
    BY <1>2, <1>3 DEF Launch, AtJob
  <2>3. \A j \in Jobs : worker'[j] # "none" <=> j <= i
    BY <1>2, <2>1, <2>2
  <2>4. i \in 0..count
    OBVIOUS
  <2>5. \E k \in 0..count' : \A j \in Jobs' : worker'[j] # "none" <=> j <= k
    BY <1>0, <2>3, <2>4
  <2> QED
    BY <1>1, <2>5 DEF FlowInv
<1>4. CASE ~Launch(i)
  <2>1. \A j \in Jobs : worker'[j] # "none" <=> worker[j] # "none"
    BY <1>4 DEF PoolStep, Acquire, Succeed, Fail, Put, Release, Receive
  <2> QED
    BY <1>0, <1>1, <1>2, <2>1 DEF FlowInv
<1> QED
  BY <1>3, <1>4

LEMMA CloseFlow ==
  ASSUME FlowInv, Close
  PROVE  FlowInv'
BY DEF Close, FlowInv, Sent, Jobs

\* If the next goroutine is not to be launched they all are.
LEMMA AllLaunched ==
  ASSUME PoolInv, FlowInv, \A i \in Jobs : ~AtJob(i)
  PROVE  \A i \in Jobs : worker[i] # "none"
<1>1. count \in Nat
  BY PoolAssumption DEF PoolInv, PoolTypeOK
<1>2. PICK n \in 0..count : \A i \in Jobs : worker[i] # "none" <=> i <= n
  BY DEF FlowInv
<1>3. CASE n = count
  BY <1>1, <1>2, <1>3 DEF Jobs
<1>4. CASE n # count
  <2>1. n + 1 \in Jobs /\ ~(n + 1 <= n) /\ \A j \in Jobs : j < n + 1 => j <= n
    BY <1>1, <1>4 DEF Jobs
  <2>2. AtJob(n + 1)
    BY <1>2, <2>1 DEF AtJob
  <2> QED
    BY <2>1, <2>2
<1> QED
  BY <1>3, <1>4

\* When all goroutines are launched and not all results are received, one of them or
\* the collector has not to wait: a full channel has a result to receive, and an
\* empty one has room.
LEMMA SomeReady ==
  ASSUME PoolInv, FlowInv, \A i \in Jobs : worker[i] # "none", Cardinality(collected) # count
  PROVE  \E i \in Jobs : Ready(i)
<1> SUFFICES ASSUME \A i \in Jobs : ~Ready(i) PROVE FALSE
  OBVIOUS
<1>1. IsFiniteSet(Jobs) /\ Cardinality(Jobs) = count /\ count \in Nat /\ Jobs \subseteq 1..MaxJobs
  BY FS_Interval, PoolAssumption DEF Jobs, PoolInv, PoolTypeOK
<1>2. collected \subseteq Jobs /\ chan \subseteq Jobs
  BY DEF PoolInv, Sent
<1>3. Cardinality(collected) < count
  <2>1. Cardinality(collected) <= count /\ Cardinality(collected) \in Nat
    BY <1>1, <1>2, FS_Subset, FS_CardinalityType
  <2> QED
    BY <1>1, <2>1
<1>4. chan = {}
  BY <1>2, <1>3 DEF Ready
<1>5. \A i \in Jobs : worker[i] \notin {"busy", "release", "put"}
  <2>1. Cardinality(chan) = 0 /\ 0 < ChanCap
    BY <1>4, FS_EmptySet, PoolAssumption
  <2> QED
    BY <2>1 DEF Ready
<1>6. \A i \in Jobs : worker[i] # "queued"
  <2>1. Slots = {}
    BY <1>5 DEF Slots
  <2>2. Cardinality(Slots) = 0 /\ 0 < ThreadCap
    BY <2>1, FS_EmptySet, PoolAssumption
  <2> QED
    BY <2>2 DEF Ready
<1>7. Sent = Jobs
  BY <1>1, <1>5, <1>6 DEF Sent, PoolInv, PoolTypeOK, Stages
<1>8. collected = Jobs
  BY <1>2, <1>4, <1>7 DEF FlowInv
<1> QED
  BY <1>1, <1>3, <1>8

-----------------------------------------------------------------------------
(* A call runs out of steps.                                               *)

NothingMore == \A k \in DOMAIN PoolToDo : PoolToDo'[k] \subseteq PoolToDo[k]

\* The next stage of a goroutine is behind it then.
LEMMA StepRunsOut ==
  ASSUME PoolInv, NEW i \in Jobs, NEW from \in Stages, NEW to \in StagesAfter[from],
         Step(i, from, to), StagesAfter[to] \subseteq StagesAfter[from], to \notin StagesAfter[to],
         UNCHANGED <<count, collected, returned>>
  PROVE  NothingMore /\ PoolToDo' # PoolToDo
<1> DEFINE Stage == {m \in Jobs \X Stages : m[2] \in StagesAfter[worker[m[1]]]}
<1>1. worker \in [1..MaxJobs -> Stages] /\ Jobs \subseteq 1..MaxJobs /\ Jobs' = Jobs
  BY PoolAssumption DEF PoolInv, PoolTypeOK, Jobs
<1>2. /\ worker[i] = from /\ worker'[i] = to
      /\ \A j \in Jobs \ {i} : worker'[j] = worker[j]
  BY <1>1 DEF Step
<1>3. Stage' \subseteq Stage
  BY <1>1, <1>2
<1>4. <<i, to>> \in Stage /\ <<i, to>> \notin Stage'
  <2>1. to \in Stages
    BY DEF Stages, StagesAfter
  <2> QED
    BY <1>1, <1>2, <2>1
<1> HIDE DEF Stage
<1>5. /\ PoolToDo = [stages |-> Stage, results |-> Jobs \ collected,
                     return |-> {j \in {0} : ~returned}]
      /\ PoolToDo' = [stages |-> Stage', results |-> Jobs \ collected,
                      return |-> {j \in {0} : ~returned}]
  BY <1>1 DEF PoolToDo, Stage
<1> QED
  BY <1>3, <1>4, <1>5 DEF NothingMore

LEMMA PoolStepRunsOut ==
  ASSUME PoolInv, NEW i \in Jobs, PoolStep(i)
  PROVE  NothingMore /\ PoolToDo' # PoolToDo
<1> DEFINE Moved(from, to) ==
             Step(i, from, to) /\ UNCHANGED <<count, collected, returned>>
<1>1. \/ Moved("none", "queued") \/ Moved("queued", "busy") \/ Moved("busy", "put")
      \/ Moved("put", "release") \/ Moved("release", "gone") \/ Receive(i)
  BY DEF PoolStep, Launch, Acquire, Succeed, Fail, Put, Release
<1>2. \A m \in {<<"none", "queued">>, <<"queued", "busy">>, <<"busy", "put">>,
               <<"put", "release">>, <<"release", "gone">>} :
        /\ m[1] \in Stages /\ m[2] \in StagesAfter[m[1]]
        /\ StagesAfter[m[2]] \subseteq StagesAfter[m[1]] /\ m[2] \notin StagesAfter[m[2]]
  BY DEF Stages, StagesAfter
<1>3. CASE Receive(i)
  <2>1. i \in Jobs \ collected /\ Jobs' = Jobs
    BY <1>3 DEF Receive, PoolInv, Jobs
  <2>2. /\ UNCHANGED <<worker, count, returned>> /\ i \notin (Jobs \ collected)'
        /\ (Jobs \ collected)' \subseteq Jobs \ collected
    BY <1>3, <2>1 DEF Receive
  <2> QED
    BY <2>1, <2>2 DEF PoolToDo, NothingMore
<1>4. ASSUME NEW from \in Stages, NEW to, Moved(from, to), to \in StagesAfter[from],
             StagesAfter[to] \subseteq StagesAfter[from], to \notin StagesAfter[to]
      PROVE  NothingMore /\ PoolToDo' # PoolToDo
  BY <1>4, StepRunsOut
<1> HIDE DEF Moved
<1> QED
  BY <1>1, <1>2, <1>3, <1>4

LEMMA CloseRunsOut ==
  ASSUME Close
  PROVE  NothingMore /\ PoolToDo' # PoolToDo
<1>1. /\ UNCHANGED <<count, worker, collected>> /\ Jobs' = Jobs
      /\ {j \in {0} : ~returned} = {0} /\ {j \in {0} : ~returned'} = {}
  BY DEF Close, Jobs
<1> QED
  BY <1>1 DEF PoolToDo, NothingMore
=============================================================================
