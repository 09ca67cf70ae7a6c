----------------------------- MODULE WorkerPool -----------------------------
(***************************************************************************)
(* The pool of goroutines that the adapter builds in every function that   *)
(* works on many addresses at once.  One goroutine is launched per job; a  *)
(* buffered channel admits a limited number of them; each sends its result *)
(* on a second channel, also when it failed, before it gives its place     *)
(* back; a collector receives one result per job and then lets the caller  *)
(* return, which closes both channels.  QueryPool and AddressBatch add     *)
(* what the jobs and the collector do.  The steps are those of             *)
(* GetBalanceByAddress in ddmchain/blockscanner.go.                        *)
(***************************************************************************)
EXTENDS Naturals, FiniteSets

CONSTANTS
  MaxJobs,      \* bound: jobs of a call
  ThreadCap,    \* capacity of threadControl, 20 in the code
  ChanCap       \* capacity of resultChan, 1024 or 100 in the code

ASSUME PoolAssumption ==
  MaxJobs \in Nat /\ ThreadCap \in Nat \ {0} /\ ChanCap \in Nat \ {0}

VARIABLES
  count,        \* the jobs of the call
  worker,       \* the stage each job's goroutine is at
  bad,          \* the jobs whose result is nil
  chan,         \* the jobs whose result is in resultChan
  collected,    \* the jobs whose result was received
  returned      \* the caller has returned: both channels are closed

pool == <<count, worker, bad, chan, collected, returned>>

Jobs   == 1..count
Stages == {"none", "queued", "busy", "put", "release", "gone"}

\* The deferred calls of a goroutine run in this order.
Step(i, from, to) == worker[i] = from /\ worker' = [worker EXCEPT ![i] = to]

PoolStart(n) ==
  /\ count' = n
  /\ worker' = [i \in 1..MaxJobs |-> "none"]
  /\ bad' = {} /\ chan' = {} /\ collected' = {}
  /\ returned' = FALSE

\* The loop that launches the goroutines is at job i.
AtJob(i) == worker[i] = "none" /\ \A j \in Jobs : j < i => worker[j] # "none"

\* go query(addrbl), in the order of the jobs.
Launch(i) ==
  /\ ~returned
  /\ AtJob(i)
  /\ Step(i, "none", "queued")
  /\ UNCHANGED <<count, bad, chan, collected, returned>>

Slots == {i \in Jobs : worker[i] \in {"busy", "put", "release"}}

\* threadControl <- 1
Acquire(i) ==
  /\ Step(i, "queued", "busy")
  /\ Cardinality(Slots) < ThreadCap
  /\ UNCHANGED <<count, bad, chan, collected, returned>>

Succeed(i) ==
  /\ Step(i, "busy", "put")
  /\ UNCHANGED <<count, bad, chan, collected, returned>>

\* A goroutine that returns early leaves its result nil.
Fail(i) ==
  /\ Step(i, "busy", "put")
  /\ bad' = bad \union {i}
  /\ UNCHANGED <<count, chan, collected, returned>>

\* Mutant: the result of a failed job is not sent.
PutGoodOnly(i) ==
  /\ Step(i, "put", "release")
  /\ Cardinality(chan) < ChanCap
  /\ chan' = IF i \in bad THEN chan ELSE chan \union {i}
  /\ UNCHANGED <<count, bad, collected, returned>>

\* resultChan <- addr
Put(i) ==
  /\ Step(i, "put", "release")
  /\ Cardinality(chan) < ChanCap
  /\ chan' = chan \union {i}
  /\ UNCHANGED <<count, bad, collected, returned>>

\* <-threadControl, which a closed channel does not block
Release(i) ==
  /\ Step(i, "release", "gone")
  /\ UNCHANGED <<count, bad, chan, collected, returned>>

\* The collector: addr := <-resultChan
Receive(i) ==
  /\ i \in chan
  /\ Cardinality(collected) < count
  /\ chan' = chan \ {i}
  /\ collected' = collected \union {i}
  /\ UNCHANGED <<count, worker, bad, returned>>

\* Mutant: the collector gives up at the first failure.
CloseAtFailure ==
  /\ ~returned
  /\ Cardinality(collected) = count \/ bad \intersect collected # {}
  /\ returned' = TRUE
  /\ UNCHANGED <<count, worker, bad, chan, collected>>

\* The caller gets <-done and its deferred calls close the channels.
Close ==
  /\ ~returned
  /\ Cardinality(collected) = count
  /\ returned' = TRUE
  /\ UNCHANGED <<count, worker, bad, chan, collected>>

-----------------------------------------------------------------------------
PoolTypeOK ==
  /\ count \in 0..MaxJobs
  /\ worker \in [1..MaxJobs -> Stages]
  /\ bad \subseteq 1..MaxJobs
  /\ chan \subseteq 1..MaxJobs
  /\ collected \subseteq 1..MaxJobs
  /\ returned \in BOOLEAN

\* The goroutine of job i, or the collector with its result, has not to wait.
Ready(i) ==
  \/ worker[i] = "queued" /\ Cardinality(Slots) < ThreadCap
  \/ worker[i] \in {"busy", "release"}
  \/ worker[i] = "put" /\ Cardinality(chan) < ChanCap
  \/ i \in chan /\ Cardinality(collected) < count

\* What is left of a call: the stages its goroutines have before them, the results
\* that were not received, and the return of the caller.
StagesAfter ==
  [none    |-> {"queued", "busy", "put", "release", "gone"},
   queued  |-> {"busy", "put", "release", "gone"},
   busy    |-> {"put", "release", "gone"},
   put     |-> {"release", "gone"},
   release |-> {"gone"},
   gone    |-> {}]

PoolToDo ==
  [stages  |-> {m \in Jobs \X Stages : m[2] \in StagesAfter[worker[m[1]]]},
   results |-> Jobs \ collected,
   return  |-> {i \in {0} : ~returned}]

\* No goroutine sends on a channel that the caller has closed by returning,
\* which would panic (the deferred close of threadControl and resultChan).
NoSendAfterClose ==
  returned => \A i \in Jobs : worker[i] \in {"release", "gone"}
=============================================================================
