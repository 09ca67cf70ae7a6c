----------------------------- MODULE QueryPool ------------------------------
(***************************************************************************)
(* The functions that query the node for many addresses at once: the       *)
(* balances of the block scanner, the contract decoder and the wallet      *)
(* manager.  They share the pool of WorkerPool and differ in the calls a   *)
(* query makes and in how the collector keeps the results.  Meanwhile the  *)
(* node goes on: a block may change every balance between two calls.       *)
(***************************************************************************)
EXTENDS WorkerPool, RpcClient, SequencesExt

CONSTANTS
  MaxBlocks,  \* bound: blocks of the node during one call
  Held        \* the balances: asset, address and blocks since the call began

Assets == {"coin", "token"}

ASSUME QueryAssumption ==
  MaxBlocks \in Nat /\ Held \in [Assets -> [1..MaxJobs -> [0..MaxBlocks -> Nat]]]

VARIABLES
  fn,         \* the function called
  block,      \* the blocks of the node since the call began
  read,       \* the balances each job has got from the node
  results,    \* the jobs whose results the caller gets, by place; 0 is none
  failed,     \* resultSaveFailed, or err: the collector saw a failure
  outcome     \* "none", "ok" or "error"

vars == <<pool, fn, block, read, results, failed, outcome>>

-----------------------------------------------------------------------------
(* The functions.  "place": resultBalance, made with one place per address. *)
(* "list": results are appended as they come and counted at the end.        *)
(* "field": a query writes its result into the address it was given.        *)

BalanceByAddress        == [calls |-> <<"coin", "coin">>,   keep |-> "place"]
TokenBalanceByAddress   == [calls |-> <<"token">>,          keep |-> "field"]
TokenBalanceOfContract  == [calls |-> <<"token", "token">>, keep |-> "list"]
ERC20AddressesByWallet  == [calls |-> <<"token", "coin">>,  keep |-> "list"]
AddressesByWallet       == [calls |-> <<"coin">>,           keep |-> "list"]

QueryFunctions ==
  {BalanceByAddress, TokenBalanceByAddress, TokenBalanceOfContract,
   ERC20AddressesByWallet, AddressesByWallet}

Init ==
  /\ fn \in QueryFunctions
  /\ count \in 0..MaxJobs
  /\ worker = [i \in 1..MaxJobs |-> "none"]
  /\ bad = {} /\ chan = {} /\ collected = {} /\ returned = FALSE
  /\ block = 0 /\ read = [i \in 1..MaxJobs |-> <<>>]
  /\ results = IF fn.keep = "list" THEN <<>> ELSE [i \in 1..count |-> 0]
  /\ failed = FALSE
  /\ outcome = "none"

Start == \E i \in Jobs : Launch(i) \/ Acquire(i)

Mine ==
  /\ ~returned /\ block < MaxBlocks
  /\ block' = block + 1
  /\ UNCHANGED <<pool, fn, read, results, failed, outcome>>

\* What the node may answer: the account may lack a balance, and a token that is
\* held by nobody has no contract.
Answers(asset, n) ==
  IF asset = "coin" THEN Replies(Reply("JSON", n)) \union {Reply("JSON", Blank)}
  ELSE Replies(Reply("String", n)) \union (IF n = 0 THEN {Reply("String", Blank)} ELSE {})

Balance(asset, reply) ==
  IF asset = "coin" THEN GetAddrBalance(reply) ELSE ERC20GetAddressBalance(reply)

\* What the next call of job i returns.
Returned(i) ==
  LET asset == fn.calls[Len(read[i]) + 1]
  IN {Balance(asset, reply) : reply \in Answers(asset, Held[asset][i][block])}

Asking(i) == worker[i] = "busy" /\ Len(read[i]) < Len(fn.calls)

\* Mutant: a query does not count its calls.
AnswerAgain(i) ==
  /\ worker[i] = "busy" /\ Len(read[i]) < 3
  /\ read' = [read EXCEPT ![i] = Append(@, Held["coin"][i][block])]
  /\ UNCHANGED <<pool, fn, block, results, failed, outcome>>

\* A call to the node returns.
Answer(i) ==
  /\ Asking(i)
  /\ \E r \in Returned(i) : r.ok /\ read' = [read EXCEPT ![i] = Append(@, r.value)]
  /\ UNCHANGED <<pool, fn, block, results, failed, outcome>>

\* A call, or the conversion of an answer, fails: what was read is forgotten.
FailQuery(i) ==
  /\ Asking(i)
  /\ \E r \in Returned(i) : ~r.ok
  /\ Fail(i)
  /\ read' = [read EXCEPT ![i] = <<>>]
  /\ UNCHANGED <<fn, block, results, failed, outcome>>

EndQuery(i) ==
  /\ Len(read[i]) = Len(fn.calls)
  /\ Succeed(i)
  /\ UNCHANGED <<fn, block, read, results, failed, outcome>>

Send == \E i \in Jobs : Put(i) \/ Release(i)

\* Mutant: results are put in place in the order of their arrival.
CollectInOrder(i) ==
  /\ Receive(i)
  /\ results' = IF i \in bad THEN results
                ELSE IF fn.keep = "list" THEN Append(results, i)
                ELSE [results EXCEPT ![Cardinality(collected) + 1] = i]
  /\ failed' = (failed \/ (i \in bad /\ fn.keep # "list"))
  /\ UNCHANGED <<fn, block, read, outcome>>

Collect(i) ==
  /\ Receive(i)
  /\ results' = IF i \in bad THEN results
                ELSE IF fn.keep = "list" THEN Append(results, i)
                ELSE [results EXCEPT ![i] = i]
  /\ failed' = (failed \/ (i \in bad /\ fn.keep # "list"))
  /\ UNCHANGED <<fn, block, read, outcome>>

Return ==
  /\ Close
  /\ outcome' = IF failed \/ Len(results) # count THEN "error" ELSE "ok"
  /\ UNCHANGED <<fn, block, read, results, failed>>

Running ==
  \/ Start /\ UNCHANGED <<fn, block, read, results, failed, outcome>>
  \/ \E i \in Jobs : Answer(i) \/ FailQuery(i) \/ EndQuery(i) \/ Collect(i)
  \/ Send /\ UNCHANGED <<fn, block, read, results, failed, outcome>>
  \/ Return

\* The function has returned and its goroutines have ended.
Done ==
  /\ returned /\ \A i \in Jobs : worker[i] = "gone"
  /\ UNCHANGED vars

Next == Running \/ Mine \/ Done

Spec == Init /\ [][Next]_vars

\* Goroutines are scheduled, and a call to the node returns or fails.
FairSpec == Spec /\ WF_vars(Running)

-----------------------------------------------------------------------------
TypeOK ==
  /\ PoolTypeOK
  /\ fn \in QueryFunctions
  /\ block \in 0..MaxBlocks
  /\ \A i \in 1..MaxJobs : read[i] \in Seq(Nat) /\ Len(read[i]) <= Len(fn.calls)
  /\ results \in Seq(0..MaxJobs)
  /\ failed \in BOOLEAN
  /\ outcome \in {"none", "ok", "error"}

\* What was read for address i was its balance at one moment of the call each, in
\* the order of the calls; what they differ by is due to the node's blocks.
ReadFrom(i) ==
  /\ Len(read[i]) = Len(fn.calls)
  /\ \E moment \in [1..Len(fn.calls) -> 0..block] :
       /\ \A k, l \in 1..Len(fn.calls) : k < l => moment[k] <= moment[l]
       /\ \A k \in 1..Len(fn.calls) : read[i][k] = Held[fn.calls[k]][i][moment[k]]

\* The caller gets an error exactly when a query failed; otherwise it gets one
\* result for every address, at its address's place if places were made for
\* them, and each is what the node held for that address during the call,
\* whatever the node answered to the other calls (resultSaveFailed,
\* "len(addrResults) != count", the checks of the client on every answer).
AllOrError ==
  returned =>
    /\ (outcome = "ok") <=> (bad = {})
    /\ outcome = "ok" =>
         /\ ToSet(results) = Jobs /\ Len(results) = count
         /\ fn.keep = "place" => \A i \in Jobs : results[i] = i
         /\ \A i \in Jobs : ReadFrom(i)

\* Until the caller returns somebody can go on, whatever failed and however few
\* places the channels have: the next goroutine can be launched, one of them or the
\* collector has not to wait, or every result was received (threadControl, resultChan).
NeverStuck ==
  ~returned =>
    \/ \E i \in Jobs : AtJob(i) \/ Ready(i)
    \/ Cardinality(collected) = count

\* The calls to the node that a job which has not ended can still make.
CallsToDo ==
  {m \in Jobs \X (1..2) :
     /\ worker[m[1]] \in {"none", "queued", "busy"}
     /\ Len(read[m[1]]) < m[2] /\ m[2] <= Len(fn.calls)}

\* Every step of the call leaves less of it to do, and nothing adds to it: no query,
\* failure or result makes a goroutine or the collector start again, so that a call
\* which is never stuck ends.
StepsRunOut ==
  [][/\ \A k \in DOMAIN PoolToDo : PoolToDo'[k] \subseteq PoolToDo[k]
     /\ CallsToDo' \subseteq CallsToDo
     /\ Running => <<PoolToDo, CallsToDo>>' # <<PoolToDo, CallsToDo>>]_vars

\* The caller returns, however few goroutines and results the channels admit.
CallReturns == <>returned
=============================================================================
