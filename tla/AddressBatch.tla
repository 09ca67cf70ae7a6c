---------------------------- MODULE AddressBatch ----------------------------
(***************************************************************************)
(* CreateBatchAddress2 (ddmchain/manager.go): the addresses of a wallet    *)
(* are derived by a pool of goroutines and saved, with the new number of   *)
(* addresses, in one transaction of the wallet's database.  Several        *)
(* callers may create addresses of the same wallet; the database file is   *)
(* open for one of them at a time, and a caller that waits for it too      *)
(* long gets an error.                                                     *)
(***************************************************************************)
EXTENDS WorkerPool

CONSTANTS
  Callers,      \* goroutines or processes that call CreateBatchAddress2
  None,         \* no caller
  MaxErrors,    \* errMaximum, 15 in the code
  MaxAddresses, \* bound: a wallet gets no more addresses than this
  Limit,        \* bound: how often each kind of disturbance may happen
  Budget        \* bound: how many disturbances may happen altogether

Kinds == {"create", "derive", "save", "commit", "crash"}

ASSUME BatchAssumption ==
  /\ None \notin Callers
  /\ MaxErrors \in Nat \ {0} /\ MaxAddresses \in Nat
  /\ Limit \in [Kinds -> Nat] /\ Budget \in Nat

VARIABLES
  addresses,    \* the indices of the addresses in the wallet's database
  addressCount, \* AddressCount in the wallet's database
  pc, base,     \* each caller's step and the AddressCount it has read
  holder,       \* the caller that has the database open, or None
  saved,        \* the indices saved in the holder's transaction
  errcount,     \* errcount, shared by the launching loop and the collector
  overlapped,   \* history: AddressCount has changed under a caller's base
  spent         \* bound: the disturbances so far, by kind

wallet == <<addresses, addressCount>>
vars   == <<pool, wallet, pc, base, holder, saved, errcount, overlapped, spent>>

Disturbances ==
  spent["create"] + spent["derive"] + spent["save"] + spent["commit"] + spent["crash"]

Happens(kind) ==
  /\ spent[kind] < Limit[kind] /\ Disturbances < Budget
  /\ spent' = [spent EXCEPT ![kind] = @ + 1]

Init ==
  /\ addresses = {} /\ addressCount = 0
  /\ pc = [c \in Callers |-> "idle"] /\ base = [c \in Callers |-> 0]
  /\ holder = None /\ saved = {} /\ errcount = 0
  /\ overlapped = FALSE
  /\ spent = [k \in Kinds |-> 0]
  /\ count = 0 /\ worker = [i \in 1..MaxJobs |-> "none"]
  /\ bad = {} /\ chan = {} /\ collected = {} /\ returned = TRUE

-----------------------------------------------------------------------------
(* Before the pool.                                                        *)

\* GetWalletInfo: the wallet is read and the database closed again.
RestoreFromDb(c) ==
  /\ pc[c] = "idle" /\ holder = None
  /\ base' = [base EXCEPT ![c] = addressCount]
  /\ pc' = [pc EXCEPT ![c] = "restored"]
  /\ UNCHANGED <<pool, wallet, holder, saved, errcount, overlapped, spent>>

\* The balance of the wallet or its key is not to be had, or the database is
\* not to be opened because another caller has it open.
Refuse(c) ==
  /\ pc[c] = "restored"
  /\ pc' = [pc EXCEPT ![c] = "idle"] /\ base' = [base EXCEPT ![c] = 0]
  /\ UNCHANGED <<pool, wallet, holder, saved, errcount, overlapped, spent>>

\* OpenDB and Begin; the first index is the AddressCount read before.
Begin(c) ==
  /\ pc[c] = "restored" /\ holder = None
  /\ \E n \in 0..MaxJobs : base[c] + n <= MaxAddresses /\ PoolStart(n)
  /\ holder' = c
  /\ pc' = [pc EXCEPT ![c] = "launch"]
  /\ saved' = {} /\ errcount' = 0
  /\ overlapped' = (overlapped \/ base[c] # addressCount)
  /\ UNCHANGED <<wallet, base, spent>>

-----------------------------------------------------------------------------
(* The pool of the caller that has the database open.                      *)

Launching == holder # None /\ pc[holder] = "launch"
Waiting   == holder # None /\ pc[holder] = "wait"

others == <<wallet, pc, base, holder, saved, errcount, overlapped, spent>>

\* The loop reads errcount while the collector writes it, without a lock: it
\* may see any value from 0 up to the present one, so it may always go on.
LaunchNext == Launching /\ (\E i \in Jobs : Launch(i)) /\ UNCHANGED others

EndLaunching ==
  /\ Launching
  /\ \/ \A i \in Jobs : worker[i] # "none"
     \/ errcount >= MaxErrors
  /\ pc' = [pc EXCEPT ![holder] = "wait"]
  /\ UNCHANGED <<pool, wallet, base, holder, saved, errcount, overlapped, spent>>

Derive(i) == Succeed(i) /\ UNCHANGED others

FailDerive(i) ==
  /\ Happens("derive")
  /\ Fail(i)
  /\ UNCHANGED <<wallet, pc, base, holder, saved, errcount, overlapped>>

Move(i) == (Acquire(i) \/ Put(i) \/ Release(i)) /\ UNCHANGED others

\* Mutant: the first new index is one too high.
CollectFromOne(i) ==
  /\ Receive(i)
  /\ IF i \in bad
     THEN errcount' = errcount + 1 /\ UNCHANGED <<saved, spent>>
     ELSE \/ saved' = saved \union {base[holder] + i} /\ UNCHANGED <<errcount, spent>>
          \/ Happens("save") /\ errcount' = errcount + 1 /\ UNCHANGED saved
  /\ UNCHANGED <<wallet, pc, base, holder, overlapped>>

\* Job i has the i-th new index.
Collect(i) ==
  /\ Receive(i)
  /\ IF i \in bad
     THEN errcount' = errcount + 1 /\ UNCHANGED <<saved, spent>>
     ELSE \/ saved' = saved \union {base[holder] + i - 1} /\ UNCHANGED <<errcount, spent>>
          \/ Happens("save") /\ errcount' = errcount + 1 /\ UNCHANGED saved
  /\ UNCHANGED <<wallet, pc, base, holder, overlapped>>

-----------------------------------------------------------------------------
(* After the pool.                                                         *)

EndCall ==
  /\ pc' = [pc EXCEPT ![holder] = "idle"]
  /\ base' = [base EXCEPT ![holder] = 0]
  /\ holder' = None
  /\ saved' = {} /\ errcount' = 0
  /\ UNCHANGED overlapped

Leave == Close /\ EndCall

\* "errors ocurred exceed the maximum.": one is enough.  The transaction is
\* rolled back, as it is when the saving of the wallet or the commit fails.
RollBack ==
  /\ Waiting
  /\ \/ errcount > 0 /\ UNCHANGED spent
     \/ errcount = 0 /\ Happens("commit")
  /\ Leave
  /\ UNCHANGED wallet

\* Mutant: what was launched is added to the count that the wallet has by now.
CommitOnTop ==
  /\ Waiting /\ errcount = 0
  /\ Leave
  /\ addresses' = addresses \union saved
  /\ addressCount' = addressCount + Cardinality({i \in Jobs : worker[i] # "none"})
  /\ UNCHANGED spent

\* The wallet gets base plus the number of goroutines launched.
Commit ==
  /\ Waiting /\ errcount = 0
  /\ Leave
  /\ addresses' = addresses \union saved
  /\ addressCount' = base[holder] + Cardinality({i \in Jobs : worker[i] # "none"})
  /\ UNCHANGED spent

\* The process of the caller dies: the file lock and the transaction are gone.
Crash ==
  /\ Happens("crash")
  /\ holder # None
  /\ EndCall /\ PoolStart(0)
  /\ UNCHANGED wallet

-----------------------------------------------------------------------------
CreateBatchAddress2 ==
  \/ LaunchNext \/ EndLaunching
  \/ \E i \in Jobs : Move(i) \/ Derive(i) \/ FailDerive(i) \/ Collect(i)
  \/ RollBack \/ Commit

Next ==
  \/ \E c \in Callers : RestoreFromDb(c) \/ Refuse(c) \/ Begin(c)
  \/ CreateBatchAddress2 \/ Crash

Spec == Init /\ [][Next]_vars

\* Goroutines are scheduled.
FairSpec == Spec /\ WF_vars(CreateBatchAddress2)

-----------------------------------------------------------------------------
TypeOK ==
  /\ PoolTypeOK
  /\ addresses \subseteq 0..MaxAddresses - 1
  /\ addressCount \in 0..MaxAddresses
  /\ pc \in [Callers -> {"idle", "restored", "launch", "wait"}]
  /\ base \in [Callers -> 0..MaxAddresses]
  /\ holder \in Callers \union {None}
  /\ saved \subseteq 0..MaxAddresses - 1
  /\ errcount \in Nat
  /\ overlapped \in BOOLEAN
  /\ spent \in [Kinds -> Nat]

\* The wallet has every address below its AddressCount, through failures, rollbacks,
\* crashes and callers that overlap and set the count back; and as long as no two
\* overlapped it has no others, so that none is handed out twice (the transaction of
\* CreateBatchAddress2, and the count it begins at, which was read before).
AddressesCounted ==
  /\ \A k \in 0..MaxAddresses : k < addressCount => k \in addresses
  /\ ~overlapped => \A k \in addresses : k < addressCount

\* As long as fewer than errMaximum addresses have failed somebody can go on with a
\* call: launch or end launching, a goroutine or the collector, or the caller, which
\* rolls back or commits (threadControl, resultChan, errcount).
BatchNeverStuck ==
  holder # None /\ errcount < MaxErrors =>
    \/ Launching /\ ((\E i \in Jobs : AtJob(i)) \/ \A i \in Jobs : worker[i] # "none")
    \/ \E i \in Jobs : Ready(i)
    \/ Waiting /\ Cardinality(collected) = count

\* A call in which fewer than errMaximum addresses fail, none or some, ends.
BatchEnds ==
  [](errcount < MaxErrors) => \A c \in Callers : pc[c] = "launch" ~> pc[c] = "idle"

\* A call ends, also when it meets errMaximum errors ("errors ocurred exceed the
\* maximum").
BatchAlwaysEnds == \A c \in Callers : pc[c] = "launch" ~> pc[c] = "idle"
=============================================================================
