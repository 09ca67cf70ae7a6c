----------------------------- MODULE NonceCache -----------------------------
(***************************************************************************)
(* The per-address nonce cache of the transaction decoder                  *)
(* (ddmchain/tx_decode.go, AddrTxStatisMap), for one address: the callers  *)
(* that create and submit transactions of the address at the same time,    *)
(* the goroutine that evicts outdated entries, and the node, whose account *)
(* nonce only counts confirmed transactions.                               *)
(*                                                                         *)
(* The map stores AddressTxStatistic values that share their counter,      *)
(* valid flag and lock through pointers: an entry here is what these       *)
(* pointers lead to, and a caller keeps it after it left the map.          *)
(***************************************************************************)
EXTENDS Integers, FiniteSets

CONSTANTS
  Callers,      \* goroutines that call the decoder
  Entries,      \* identities of AddressTxStatistic values
  None,         \* no entry, no lock holder
  Cleaner,      \* the goroutine of RunClearAddrStatic
  MaxNonce,     \* bound: no transaction of this nonce or above is submitted
  FirstNonces   \* the confirmed nonces the address may have at the start

ASSUME CacheAssumption ==
  /\ None \notin Entries /\ None \notin Callers
  /\ Cleaner \notin Callers /\ Cleaner # None
  /\ MaxNonce \in Nat /\ FirstNonces \subseteq Nat

VARIABLES
  entry,      \* AddrTxStatisMap: the entry of the address, or None
  count,      \* *TransactionCount
  valid,      \* *Valid
  lock,       \* AddressLocker: its holder, or None
  old,        \* LastModifiedTime is 30 minutes ago: the map's copy of the time
              \* is never refreshed, UpdateTime sets that of a local copy
  jumped,     \* history: an answer of the node was stored over a smaller count
              \* while a caller was broadcasting with that count
  raws,       \* the nonces of the raw transactions built so far
  pc, ent, raw, val,      \* each caller's step, entry, nonce to submit, nonce read
  cleaning,   \* the entry the cleaner is at, or None
  confirmed,  \* the node's account nonce
  pool        \* nonces of transactions the node has accepted, not confirmed

cache  == <<entry, count, valid, lock, old>>
caller == <<pc, ent, raw, val>>
node   == <<confirmed, pool>>
vars   == <<cache, jumped, raws, caller, cleaning, node>>

Steps == {"idle", "load", "await", "valid", "read", "query", "prime",
          "lock", "check", "send", "bump"}

NoRaw == -1     \* the caller builds a transaction, it submits none

Init ==
  /\ entry = None
  /\ count = [e \in Entries |-> 0]
  /\ valid = [e \in Entries |-> FALSE]
  /\ lock = [e \in Entries |-> None]
  /\ old = [e \in Entries |-> FALSE]
  /\ jumped = FALSE /\ raws = {}
  /\ pc = [t \in Callers |-> "idle"]
  /\ ent = [t \in Callers |-> None]
  /\ raw = [t \in Callers |-> NoRaw]
  /\ val = [t \in Callers |-> 0]
  /\ cleaning = None
  /\ confirmed \in FirstNonces /\ pool = {}

\* Nobody has a pointer to the entry: a new one may be allocated there.
Unreachable(e) == e # entry /\ e # cleaning /\ \A t \in Callers : ent[t] # e

Goto(t, step) == pc' = [pc EXCEPT ![t] = step]

\* The caller's function returns; its local variables are gone.
Finish(t) ==
  /\ Goto(t, "idle")
  /\ ent' = [ent EXCEPT ![t] = None]
  /\ raw' = [raw EXCEPT ![t] = NoRaw]
  /\ val' = [val EXCEPT ![t] = 0]

-----------------------------------------------------------------------------
(* GetTransactionCount2, called to build and to submit a transaction.      *)

\* createRawTransaction.
StartCreate(t) ==
  /\ pc[t] = "idle"
  /\ Goto(t, "load")
  /\ UNCHANGED <<cache, jumped, raws, ent, raw, val, cleaning, node>>

\* SubmitSimpleRawTransaction, SubmitErc20TokenRawTransaction: any raw
\* transaction built before, also one already submitted.
StartSubmit(t) ==
  /\ pc[t] = "idle"
  /\ \E n \in raws : n < MaxNonce /\ raw' = [raw EXCEPT ![t] = n]
  /\ Goto(t, "load")
  /\ UNCHANGED <<cache, jumped, raws, ent, val, cleaning, node>>

\* LoadOrStore finds an entry.
Load(t) ==
  /\ pc[t] = "load"
  /\ entry # None
  /\ ent' = [ent EXCEPT ![t] = entry]
  /\ val' = [val EXCEPT ![t] = 1]                \* loaded
  /\ Goto(t, "await")
  /\ UNCHANGED <<cache, jumped, raws, raw, cleaning, node>>

\* LoadOrStore stores a new entry: it is in the map before its nonce is known.
Store(t) ==
  /\ pc[t] = "load"
  /\ entry = None
  /\ \E e \in Entries :
       /\ Unreachable(e)
       /\ entry' = e
       /\ ent' = [ent EXCEPT ![t] = e]
       /\ count' = [count EXCEPT ![e] = 0]
       /\ valid' = [valid EXCEPT ![e] = TRUE]
       /\ lock' = [lock EXCEPT ![e] = None]
       /\ old' = [old EXCEPT ![e] = FALSE]
  /\ Goto(t, "await")
  /\ UNCHANGED <<jumped, raws, raw, val, cleaning, node>>

\* The lock is taken and released at once, to wait for the cleaner.
AwaitLock(t) ==
  /\ pc[t] = "await"
  /\ lock[ent[t]] = None
  /\ Goto(t, IF val[t] = 1 THEN "valid" ELSE "query")
  /\ val' = [val EXCEPT ![t] = 0]
  /\ UNCHANGED <<cache, jumped, raws, ent, raw, cleaning, node>>

\* "the node is busy, try it again later."
RefuseInvalid(t) ==
  /\ pc[t] = "valid"
  /\ ~valid[ent[t]]
  /\ Finish(t)
  /\ UNCHANGED <<cache, jumped, raws, cleaning, node>>

AcceptValid(t) ==
  /\ pc[t] = "valid"
  /\ valid[ent[t]]
  /\ Goto(t, "read")
  /\ UNCHANGED <<cache, jumped, raws, ent, raw, val, cleaning, node>>

\* GetTransactionCount2 returns n.  A submission goes on to the lock; the
\* creation builds a raw transaction, unless a balance is insufficient.
Return(t, n) ==
  \/ /\ raw[t] # NoRaw
     /\ Goto(t, "lock") /\ val' = [val EXCEPT ![t] = 0]
     /\ UNCHANGED <<raws, ent, raw>>
  \/ /\ raw[t] = NoRaw
     /\ raws' \in {raws, raws \union {n}}
     /\ Finish(t)

\* Mutant: the nonce of the last transaction instead of the next.
ReadCountLast(t) ==
  /\ pc[t] = "read"
  /\ Return(t, count[ent[t]] - 1)
  /\ UNCHANGED <<cache, jumped, cleaning, node>>

\* The count is read with the lock released.
ReadCount(t) ==
  /\ pc[t] = "read"
  /\ Return(t, count[ent[t]])
  /\ UNCHANGED <<cache, jumped, cleaning, node>>

\* GetNonceForAddress2.
QueryNonce(t) ==
  /\ pc[t] = "query"
  /\ val' = [val EXCEPT ![t] = confirmed]
  /\ Goto(t, "prime")
  /\ UNCHANGED <<cache, jumped, raws, ent, raw, cleaning, node>>

\* The call fails: the entry stays in the map with the count 0.
FailQuery(t) ==
  /\ pc[t] = "query"
  /\ Finish(t)
  /\ UNCHANGED <<cache, jumped, raws, cleaning, node>>

\* The caller is between "nonce out of dated" and the raising of the count.
Broadcasting(t) == pc[t] \in {"send", "bump"}

\* The answer is stored without the lock, over whatever the count is by now.
Prime(t) ==
  /\ pc[t] = "prime"
  /\ count' = [count EXCEPT ![ent[t]] = val[t]]
  /\ jumped' = (jumped \/ \E u \in Callers :
                   Broadcasting(u) /\ ent[u] = ent[t] /\ count[ent[t]] < val[t])
  /\ Return(t, val[t])
  /\ UNCHANGED <<entry, valid, lock, old, cleaning, node>>

-----------------------------------------------------------------------------
(* The locked part of the submission.                                      *)

\* Mutant: the lock is not waited for.
LockAtOnce(t) ==
  /\ pc[t] = "lock"
  /\ lock' = [lock EXCEPT ![ent[t]] = t]
  /\ Goto(t, "check")
  /\ UNCHANGED <<entry, count, valid, old, jumped, raws, ent, raw, val,
                 cleaning, node>>

Lock(t) ==
  /\ pc[t] = "lock"
  /\ lock[ent[t]] = None
  /\ lock' = [lock EXCEPT ![ent[t]] = t]
  /\ Goto(t, "check")
  /\ UNCHANGED <<entry, count, valid, old, jumped, raws, ent, raw, val,
                 cleaning, node>>

Unlock(t) ==
  /\ lock' = [lock EXCEPT ![ent[t]] = None]
  /\ UNCHANGED <<entry, valid, old>>

\* Mutant: an early return of the locked part keeps the lock.
RefuseRawHolding(t) ==
  /\ pc[t] = "check"
  /\ Finish(t)
  /\ UNCHANGED <<cache, jumped, raws, cleaning, node>>

\* "nonce out of dated", or the transaction does not decode, sign or encode.
RefuseRaw(t) ==
  /\ pc[t] = "check"
  /\ Unlock(t) /\ Finish(t)
  /\ UNCHANGED <<count, jumped, raws, cleaning, node>>

CheckNonce(t) ==
  /\ pc[t] = "check"
  /\ raw[t] = count[ent[t]]
  /\ Goto(t, "send")
  /\ UNCHANGED <<cache, jumped, raws, ent, raw, val, cleaning, node>>

\* The node takes a transaction unless it has one of that nonce already.
NodeTakes(n) == n >= confirmed /\ n \notin pool

\* ddmSendRawTransaction returns the transaction's id.
SendAccepted(t) ==
  /\ pc[t] = "send"
  /\ NodeTakes(raw[t])
  /\ pool' = pool \union {raw[t]}
  /\ Goto(t, "bump")
  /\ UNCHANGED <<cache, jumped, raws, ent, raw, val, cleaning, confirmed>>

\* The node takes the transaction but its answer is lost.
SendUnanswered(t) ==
  /\ pc[t] = "send"
  /\ NodeTakes(raw[t])
  /\ pool' = pool \union {raw[t]}
  /\ Unlock(t) /\ Finish(t)
  /\ UNCHANGED <<count, jumped, raws, cleaning, confirmed>>

\* Mutant: the transaction is counted although the call failed.
SendRefusedCounted(t) ==
  /\ pc[t] = "send"
  /\ count' = [count EXCEPT ![ent[t]] = @ + 1]
  /\ Unlock(t) /\ Finish(t)
  /\ UNCHANGED <<jumped, raws, cleaning, node>>

\* The node refuses the transaction or the request is lost.
SendRefused(t) ==
  /\ pc[t] = "send"
  /\ Unlock(t) /\ Finish(t)
  /\ UNCHANGED <<count, jumped, raws, cleaning, node>>

\* (*txStatis.TransactionCount)++, whatever it is by now.
Bump(t) ==
  /\ pc[t] = "bump"
  /\ count' = [count EXCEPT ![ent[t]] = @ + 1]
  /\ Unlock(t) /\ Finish(t)
  /\ UNCHANGED <<jumped, raws, cleaning, node>>

-----------------------------------------------------------------------------
(* RemoveOutdatedAddrStatic, called every five minutes.                    *)

\* Range over the map.
Collect ==
  /\ cleaning = None
  /\ entry # None
  /\ old[entry]
  /\ cleaning' = entry
  /\ UNCHANGED <<cache, jumped, raws, caller, node>>

Invalidate ==
  /\ cleaning # None
  /\ lock[cleaning] = None
  /\ lock' = [lock EXCEPT ![cleaning] = Cleaner]
  /\ valid' = [valid EXCEPT ![cleaning] = FALSE]
  /\ UNCHANGED <<entry, count, old, jumped, raws, caller, cleaning, node>>

\* Mutant: the invalidated entry stays in the map.
DeleteNothing ==
  /\ cleaning # None
  /\ lock[cleaning] = Cleaner
  /\ lock' = [lock EXCEPT ![cleaning] = None]
  /\ cleaning' = None
  /\ UNCHANGED <<entry, count, valid, old, jumped, raws, caller, node>>

\* Delete is by address, then the deferred Unlock.
Delete ==
  /\ cleaning # None
  /\ lock[cleaning] = Cleaner
  /\ entry' = None
  /\ lock' = [lock EXCEPT ![cleaning] = None]
  /\ cleaning' = None
  /\ UNCHANGED <<count, valid, old, jumped, raws, caller, node>>

\* Thirty minutes pass.
Age ==
  /\ entry # None
  /\ ~old[entry]
  /\ old' = [old EXCEPT ![entry] = TRUE]
  /\ UNCHANGED <<entry, count, valid, lock, jumped, raws, caller, cleaning, node>>

\* A block confirms the next transaction of the address.
Confirm ==
  /\ confirmed \in pool
  /\ confirmed' = confirmed + 1
  /\ pool' = pool \ {confirmed}
  /\ UNCHANGED <<cache, jumped, raws, caller, cleaning>>

-----------------------------------------------------------------------------
Start(t) == StartCreate(t) \/ StartSubmit(t)

GetTransactionCount2(t) ==
  \/ Load(t) \/ Store(t) \/ AwaitLock(t) \/ RefuseInvalid(t) \/ AcceptValid(t)
  \/ ReadCount(t) \/ QueryNonce(t) \/ FailQuery(t) \/ Prime(t)

SubmitLocked(t) ==
  \/ Lock(t) \/ RefuseRaw(t) \/ CheckNonce(t)
  \/ SendAccepted(t) \/ SendUnanswered(t) \/ SendRefused(t) \/ Bump(t)

RemoveOutdatedAddrStatic == Collect \/ Invalidate \/ Delete

Next ==
  \/ \E t \in Callers : Start(t) \/ GetTransactionCount2(t) \/ SubmitLocked(t)
  \/ RemoveOutdatedAddrStatic \/ Age \/ Confirm

Spec == Init /\ [][Next]_vars

\* Calls that have started go on, time passes, the cleaner runs again and
\* again, and Go's mutexes starve nobody who waits for one.
Fairness ==
  /\ \A t \in Callers : WF_vars(GetTransactionCount2(t) \/ SubmitLocked(t))
  /\ SF_vars(Invalidate)
  /\ WF_vars(Collect) /\ WF_vars(Delete) /\ WF_vars(Age)

FairSpec == Spec /\ Fairness

-----------------------------------------------------------------------------
TypeOK ==
  /\ entry \in Entries \union {None}
  /\ count \in [Entries -> Nat]
  /\ valid \in [Entries -> BOOLEAN]
  /\ lock \in [Entries -> Callers \union {Cleaner, None}]
  /\ old \in [Entries -> BOOLEAN]
  /\ jumped \in BOOLEAN
  /\ raws \subseteq Nat
  /\ pc \in [Callers -> Steps]
  /\ ent \in [Callers -> Entries \union {None}]
  /\ raw \in [Callers -> Nat \union {NoRaw}]
  /\ val \in [Callers -> Nat]
  /\ cleaning \in Entries \union {None}
  /\ confirmed \in Nat
  /\ pool \subseteq Nat

Locked(t) == pc[t] \in {"check", "send", "bump"}

\* Two callers are never in the locked part of a submission with the same
\* entry, and the cleaner invalidates no entry whose broadcast is going on
\* (AddressLocker in SubmitSimpleRawTransaction and RemoveOutdatedAddrStatic).
EntryExclusion ==
  \A t \in Callers :
    Locked(t) =>
      /\ lock[ent[t]] = t
      /\ \A u \in Callers : u # t /\ Locked(u) => ent[u] # ent[t]

\* The lock of an entry is held only by a caller that is in the locked part of a
\* submission with that entry, or by the cleaner while it evicts it: on every
\* path out of these parts the deferred Unlock is run, so nobody waits for an
\* entry whose holder is gone or waits itself.
LocksAreReleased ==
  \A e \in Entries :
    lock[e] # None =>
      \/ \E t \in Callers : lock[e] = t /\ Locked(t) /\ ent[t] = e
      \/ lock[e] = Cleaner /\ cleaning = e

\* An invalidated entry is in the map only while the cleaner is still at it: no
\* address is refused as busy for good (Valid and Delete under AddressLocker).
InvalidLeavesMap ==
  entry # None /\ ~valid[entry] => cleaning = entry /\ lock[entry] = Cleaner

\* No transaction waits in the node's pool for one that nobody has sent, although
\* answers are lost, entries are evicted under their users, used with the count 0
\* before the node's nonce has arrived, and set back when it arrives late (the count
\* is raised only after ddmSendRawTransaction succeeded).  The one exception: the
\* nonce arrives over a smaller count while a broadcast with that count is going on,
\* which then raises the nonce instead of the count.
NoNonceGap ==
  ~jumped => \A n \in pool : \A m \in confirmed..n : m \in pool

\* An entry does not stay in the map for good, so that a count that fell behind
\* the node, or never was is replaced (RunClearAddrStatic).
EntryExpires == \A e \in Entries : entry = e ~> entry # e

\* "At the address level, transactions must not be broadcast concurrently, it
\* mixes up the nonces", and neither may broadcasting and reading the nonce (the
\* comment on AddressTxStatistic).
AddressSerialised ==
  \A t, u \in Callers :
    Broadcasting(t) /\ t # u => ~Broadcasting(u) /\ pc[u] # "read"
=============================================================================
