-------------------------- MODULE NonceCacheProofs --------------------------
(***************************************************************************)
(* Machine-checked proofs about NonceCache: its type invariant, that the   *)
(* lock of an entry excludes and is given back, that an invalidated entry  *)
(* leaves the map, and that no nonce is skipped.                           *)
(***************************************************************************)
EXTENDS NonceCache, TLAPS

-----------------------------------------------------------------------------
(* The type invariant, and the lock.                                       *)

\* A caller past LoadOrStore has an entry; one in the locked part holds its
\* lock; a submission has the nonce to submit.
HoldInv ==
  \A t \in Callers :
    /\ pc[t] \notin {"idle", "load"} => ent[t] \in Entries
    /\ Locked(t) => lock[ent[t]] = t
    /\ pc[t] \in {"lock", "check", "send", "bump"} => raw[t] \in Nat

LockInv == TypeOK /\ HoldInv /\ InvalidLeavesMap

LEMMA InitLockInv == Init => LockInv
<1> SUFFICES ASSUME Init PROVE LockInv
  OBVIOUS
<1>1. /\ count \in [Entries -> Nat] /\ valid \in [Entries -> BOOLEAN]
      /\ lock \in [Entries -> Callers \union {Cleaner, None}]
      /\ old \in [Entries -> BOOLEAN]
  BY DEF Init
<1>2. /\ pc \in [Callers -> Steps] /\ ent \in [Callers -> Entries \union {None}]
      /\ raw \in [Callers -> Nat \union {NoRaw}] /\ val \in [Callers -> Nat]
  BY DEF Init, Steps
<1>3. confirmed \in Nat
  BY CacheAssumption DEF Init
<1>4. TypeOK
  BY <1>1, <1>2, <1>3 DEF Init, TypeOK
<1>5. \A t \in Callers : pc[t] = "idle"
  BY DEF Init
<1> QED
  BY <1>4, <1>5 DEF Init, LockInv, HoldInv, InvalidLeavesMap, Locked

\* What a caller does when its function returns.
LEMMA FinishLockInv ==
  ASSUME LockInv, NEW t \in Callers, Finish(t), ~Locked(t), UNCHANGED <<valid, lock>>
  PROVE  /\ pc' \in [Callers -> Steps] /\ ent' \in [Callers -> Entries \union {None}]
         /\ raw' \in [Callers -> Nat \union {NoRaw}] /\ val' \in [Callers -> Nat]
         /\ HoldInv'
<1>1. /\ pc' \in [Callers -> Steps] /\ ent' \in [Callers -> Entries \union {None}]
      /\ raw' \in [Callers -> Nat \union {NoRaw}] /\ val' \in [Callers -> Nat]
  BY DEF Finish, Goto, LockInv, TypeOK, Steps
<1>2. HoldInv'
  BY DEF Finish, Goto, LockInv, TypeOK, HoldInv, Locked
<1> QED
  BY <1>1, <1>2

\* What GetTransactionCount2 does when it returns a nonce.
LEMMA ReturnLockInv ==
  ASSUME LockInv, NEW t \in Callers, NEW n \in Nat, Return(t, n),
         pc[t] \in {"read", "prime"}, UNCHANGED <<valid, lock>>
  PROVE  /\ pc' \in [Callers -> Steps] /\ ent' \in [Callers -> Entries \union {None}]
         /\ raw' \in [Callers -> Nat \union {NoRaw}] /\ val' \in [Callers -> Nat]
         /\ raws' \subseteq Nat
         /\ HoldInv'
<1>1. CASE raw[t] = NoRaw
  <2>1. Finish(t) /\ raws' \in {raws, raws \union {n}} /\ ~Locked(t)
    BY <1>1 DEF Return, Locked
  <2> QED
    BY <2>1, FinishLockInv DEF LockInv, TypeOK
<1>2. CASE raw[t] # NoRaw
  <2>1. /\ pc' = [pc EXCEPT ![t] = "lock"] /\ val' = [val EXCEPT ![t] = 0]
        /\ UNCHANGED <<raws, ent, raw>>
    BY <1>2 DEF Return, Goto
  <2>2. raw[t] \in Nat
    BY <1>2 DEF LockInv, TypeOK
  <2> QED
    BY <2>1, <2>2 DEF LockInv, TypeOK, HoldInv, Locked, Steps
<1> QED
  BY <1>1, <1>2

\* The steps by which a caller starts and finds or stores its entry.
LEMMA LoadLockInv ==
  ASSUME LockInv, NEW t \in Callers,
         \/ Start(t) \/ Load(t) \/ Store(t) \/ AwaitLock(t) \/ RefuseInvalid(t)
         \/ AcceptValid(t)
  PROVE  LockInv'
<1> USE CacheAssumption DEF LockInv, Locked
<1>1. CASE Start(t)
  <2>1. raw' \in [Callers -> Nat \union {NoRaw}]
    BY <1>1 DEF Start, StartCreate, StartSubmit, TypeOK
  <2>2. /\ pc[t] = "idle" /\ pc' = [pc EXCEPT ![t] = "load"]
        /\ \A u \in Callers \ {t} : raw'[u] = raw[u]
        /\ UNCHANGED <<cache, jumped, raws, ent, val, cleaning, node>>
    BY <1>1 DEF Start, StartCreate, StartSubmit, Goto, TypeOK
  <2>3. TypeOK'
    BY <2>1, <2>2 DEF TypeOK, Steps, cache, node
  <2>4. HoldInv'
    BY <2>2 DEF TypeOK, HoldInv, cache
  <2> QED
    BY <2>2, <2>3, <2>4 DEF InvalidLeavesMap, cache
<1>2. CASE Load(t)
  BY <1>2 DEF Load, TypeOK, HoldInv, InvalidLeavesMap, Goto, Steps, cache, node
<1>3. CASE Store(t)
  <2>1. PICK e \in Entries : Unreachable(e) /\ Store(t)!3!(e)
    BY <1>3 DEF Store
  <2>2. TypeOK'
    BY <1>3, <2>1 DEF Store, TypeOK, Goto, Steps, node
  <2>3. HoldInv'
    BY <1>3, <2>1 DEF Store, TypeOK, HoldInv, Goto, Unreachable
  <2>4. InvalidLeavesMap'
    BY <1>3, <2>1 DEF Store, TypeOK, InvalidLeavesMap
  <2> QED
    BY <2>2, <2>3, <2>4
<1>4. CASE AwaitLock(t)
  BY <1>4 DEF AwaitLock, TypeOK, HoldInv, InvalidLeavesMap, Goto, Steps, cache, node
<1>5. CASE RefuseInvalid(t)
  BY <1>5 DEF RefuseInvalid, Finish, TypeOK, HoldInv, InvalidLeavesMap, Goto, Steps,
              cache, node, NoRaw
<1>6. CASE AcceptValid(t)
  BY <1>6 DEF AcceptValid, TypeOK, HoldInv, InvalidLeavesMap, Goto, Steps, cache, node
<1> QED
  BY <1>1, <1>2, <1>3, <1>4, <1>5, <1>6

\* The steps by which a caller gets its nonce.
LEMMA NonceLockInv ==
  ASSUME LockInv, NEW t \in Callers,
         ReadCount(t) \/ QueryNonce(t) \/ FailQuery(t) \/ Prime(t)
  PROVE  LockInv'
<1> USE CacheAssumption DEF LockInv, Locked
<1>1. CASE ReadCount(t)
  <2>1. ent[t] \in Entries /\ pc[t] = "read"
    BY <1>1 DEF ReadCount, HoldInv
  <2>2. count[ent[t]] \in Nat /\ jumped' \in BOOLEAN
    BY <1>1, <2>1 DEF ReadCount, TypeOK
  <2>3. Return(t, count[ent[t]]) /\ UNCHANGED <<cache, cleaning, node>>
    BY <1>1 DEF ReadCount
  <2> QED
    BY <2>1, <2>2, <2>3, ReturnLockInv DEF TypeOK, InvalidLeavesMap, cache, node
<1>2. CASE QueryNonce(t)
  BY <1>2 DEF QueryNonce, TypeOK, HoldInv, InvalidLeavesMap, Goto, Steps, cache, node
<1>3. CASE FailQuery(t)
  BY <1>3 DEF FailQuery, Finish, TypeOK, HoldInv, InvalidLeavesMap, Goto, Steps, cache,
              node, NoRaw
<1>4. CASE Prime(t)
  <2>1. pc[t] = "prime" /\ val[t] \in Nat /\ Return(t, val[t])
    BY <1>4 DEF Prime, TypeOK
  <2>2. count' \in [Entries -> Nat] /\ jumped' \in BOOLEAN
    BY <1>4, <2>1 DEF Prime, TypeOK
  <2>3. UNCHANGED <<entry, valid, lock, old, cleaning, node>>
    BY <1>4 DEF Prime
  <2> QED
    BY <2>1, <2>2, <2>3, ReturnLockInv DEF TypeOK, InvalidLeavesMap, node
<1> QED
  BY <1>1, <1>2, <1>3, <1>4

\* The locked part of a submission.
LEMMA SubmitLockInv ==
  ASSUME LockInv, NEW t \in Callers, SubmitLocked(t)
  PROVE  LockInv'
<1> USE CacheAssumption DEF LockInv, Locked
<1>1. CASE Lock(t)
  BY <1>1 DEF Lock, TypeOK, HoldInv, InvalidLeavesMap, Goto, Steps, node
<1>2. CASE CheckNonce(t)
  BY <1>2 DEF CheckNonce, TypeOK, HoldInv, InvalidLeavesMap, Goto, Steps, cache, node
<1>3. CASE SendAccepted(t)
  BY <1>3 DEF SendAccepted, TypeOK, HoldInv, InvalidLeavesMap, Goto, Steps, cache
<1>4. CASE RefuseRaw(t) \/ SendUnanswered(t) \/ SendRefused(t) \/ Bump(t)
  <2>1. Locked(t) /\ ent[t] \in Entries /\ lock[ent[t]] = t /\ raw[t] \in Nat
    BY <1>4 DEF RefuseRaw, SendUnanswered, SendRefused, Bump, HoldInv
  <2>2. Unlock(t) /\ Finish(t) /\ UNCHANGED <<jumped, raws, cleaning, confirmed>>
    BY <1>4 DEF RefuseRaw, SendUnanswered, SendRefused, Bump, node
  <2>3. count' \in [Entries -> Nat] /\ pool' \subseteq Nat
    <3>1. count' = count \/ count' = [count EXCEPT ![ent[t]] = @ + 1]
      BY <1>4 DEF RefuseRaw, SendUnanswered, SendRefused, Bump
    <3>2. pool' = pool \/ pool' = pool \union {raw[t]}
      BY <1>4 DEF RefuseRaw, SendUnanswered, SendRefused, Bump, node
    <3>3. count' \in [Entries -> Nat]
      BY <2>1, <3>1 DEF TypeOK
    <3> QED
      BY <2>1, <3>2, <3>3 DEF TypeOK
  <2>4. TypeOK'
    BY <2>2, <2>3 DEF Unlock, Finish, Goto, TypeOK, Steps, NoRaw
  <2>5. HoldInv'
    BY <2>1, <2>2 DEF Unlock, Finish, Goto, TypeOK, HoldInv
  <2>6. InvalidLeavesMap'
    BY <2>1, <2>2 DEF Unlock, TypeOK, InvalidLeavesMap
  <2> QED
    BY <2>4, <2>5, <2>6
<1> QED
  BY <1>1, <1>2, <1>3, <1>4 DEF SubmitLocked

\* The cleaner, the clock and the node.
LEMMA OtherLockInv ==
  ASSUME LockInv, RemoveOutdatedAddrStatic \/ Age \/ Confirm
  PROVE  LockInv'
<1> USE CacheAssumption DEF LockInv, Locked
<1>1. CASE Collect
  BY <1>1 DEF Collect, TypeOK, HoldInv, InvalidLeavesMap, cache, caller, node
<1>2. CASE Invalidate
  BY <1>2 DEF Invalidate, TypeOK, HoldInv, InvalidLeavesMap, caller, node
<1>3. CASE Delete
  BY <1>3 DEF Delete, TypeOK, HoldInv, InvalidLeavesMap, caller, node
<1>4. CASE Age
  BY <1>4 DEF Age, TypeOK, HoldInv, InvalidLeavesMap, caller, node
<1>5. CASE Confirm
  BY <1>5 DEF Confirm, TypeOK, HoldInv, InvalidLeavesMap, caller, cache
<1> QED
  BY <1>1, <1>2, <1>3, <1>4, <1>5 DEF RemoveOutdatedAddrStatic

LEMMA LockInvStep == LockInv /\ [Next]_vars => LockInv'
<1>1. LockInv /\ UNCHANGED vars => LockInv'
  BY DEF LockInv, TypeOK, HoldInv, InvalidLeavesMap, Locked, vars, cache, caller, node
<1> QED
  BY <1>1, LoadLockInv, NonceLockInv, SubmitLockInv, OtherLockInv
  DEF Next, GetTransactionCount2

THEOREM SpecLockInv == Spec => []LockInv
BY InitLockInv, LockInvStep, PTL DEF Spec

\* The state of the cache keeps its types, for any number of callers and entries.
THEOREM CacheTypes == Spec => []TypeOK
<1>1. LockInv => TypeOK
  BY DEF LockInv
<1> QED
  BY <1>1, SpecLockInv, PTL

\* Through AddressLocker, at most one caller at a time checks, broadcasts and
\* counts with one entry, whatever the cleaner evicts meanwhile.
THEOREM Exclusion == Spec => []EntryExclusion
<1>1. LockInv => EntryExclusion
  BY DEF LockInv, HoldInv, EntryExclusion
<1> QED
  BY <1>1, SpecLockInv, PTL

\* An entry whose valid flag was cleared is in the map only while the cleaner
\* holds its lock: no address stays refused as busy.
THEOREM InvalidLeaves == Spec => []InvalidLeavesMap
<1>1. LockInv => InvalidLeavesMap
  BY DEF LockInv
<1> QED
  BY <1>1, SpecLockInv, PTL

-----------------------------------------------------------------------------
(* Every lock that is held is going to be released.                        *)

\* A step that leaves locks, cleaner and locked callers alone.
LEMMA HeldStays ==
  ASSUME LocksAreReleased, UNCHANGED <<lock, cleaning>>,
         \A u \in Callers : Locked(u) => Locked(u)' /\ ent'[u] = ent[u]
  PROVE  LocksAreReleased'
BY DEF LocksAreReleased

\* A step of a caller outside the locked part, which leaves the locks alone.
LEMMA OutsideStays ==
  ASSUME LockInv, LocksAreReleased, UNCHANGED <<lock, cleaning>>,
         NEW t \in Callers, ~Locked(t),
         \A u \in Callers \ {t} : pc'[u] = pc[u] /\ ent'[u] = ent[u]
  PROVE  LocksAreReleased'
<1>1. ASSUME NEW u \in Callers, Locked(u)
      PROVE  Locked(u)' /\ ent'[u] = ent[u]
  <2>1. u # t
    BY <1>1
  <2> QED
    BY <1>1, <2>1 DEF Locked
<1> QED
  BY <1>1, HeldStays

\* The unlocking that ends the locked part.
LEMMA UnlockStays ==
  ASSUME LockInv, LocksAreReleased, NEW t \in Callers, Locked(t), Unlock(t),
         Finish(t), cleaning' = cleaning
  PROVE  LocksAreReleased'
<1>1. ent[t] \in Entries /\ lock[ent[t]] = t
  BY DEF LockInv, HoldInv, Locked
<1>2. lock' = [lock EXCEPT ![ent[t]] = None] /\ lock \in [Entries -> Callers \union {Cleaner, None}]
  BY DEF Unlock, LockInv, TypeOK
<1>3. \A u \in Callers \ {t} : pc'[u] = pc[u] /\ ent'[u] = ent[u]
  BY DEF Finish, Goto, LockInv, TypeOK
<1>4. ASSUME NEW e \in Entries, lock'[e] # None
      PROVE  \/ \E u \in Callers : lock'[e] = u /\ Locked(u)' /\ ent'[u] = e
             \/ lock'[e] = Cleaner /\ cleaning' = e
  <2>1. e # ent[t] /\ lock'[e] = lock[e]
    BY <1>1, <1>2, <1>4
  <2>2. CASE lock[e] = Cleaner /\ cleaning = e
    BY <2>1, <2>2
  <2>3. ASSUME NEW u \in Callers, lock[e] = u, Locked(u), ent[u] = e
        PROVE  lock'[e] = u /\ Locked(u)' /\ ent'[u] = e
    BY <1>3, <2>1, <2>3 DEF Locked
  <2> QED
    BY <1>4, <2>1, <2>2, <2>3 DEF LocksAreReleased
<1> QED
  BY <1>4 DEF LocksAreReleased

LEMMA CallerStays ==
  ASSUME LockInv, LocksAreReleased, NEW t \in Callers,
         Start(t) \/ GetTransactionCount2(t) \/ SubmitLocked(t)
  PROVE  LocksAreReleased'
<1> USE DEF LockInv
<1>1. CASE Start(t) \/ Load(t) \/ AwaitLock(t) \/ RefuseInvalid(t) \/ AcceptValid(t)
  <2>1. ~Locked(t) /\ UNCHANGED <<lock, cleaning>>
    BY <1>1 DEF Start, StartCreate, StartSubmit, Load, AwaitLock, RefuseInvalid,
                AcceptValid, Locked, cache
  <2>2. \A u \in Callers \ {t} : pc'[u] = pc[u] /\ ent'[u] = ent[u]
    BY <1>1 DEF Start, StartCreate, StartSubmit, Load, AwaitLock, RefuseInvalid,
                AcceptValid, Finish, Goto, TypeOK
  <2> QED
    BY <2>1, <2>2, OutsideStays
<1>2. CASE Store(t)
  <2>1. PICK e \in Entries : Unreachable(e) /\ Store(t)!3!(e)
    BY <1>2 DEF Store
  <2>2. /\ pc[t] = "load" /\ pc' = [pc EXCEPT ![t] = "await"]
        /\ ent' = [ent EXCEPT ![t] = e] /\ lock' = [lock EXCEPT ![e] = None]
        /\ cleaning' = cleaning
    BY <1>2, <2>1 DEF Store, Goto
  <2>3. ASSUME NEW d \in Entries, lock'[d] # None
        PROVE  \/ \E u \in Callers : lock'[d] = u /\ Locked(u)' /\ ent'[u] = d
               \/ lock'[d] = Cleaner /\ cleaning' = d
    <3>1. d # e /\ lock'[d] = lock[d]
      BY <2>2, <2>3 DEF TypeOK
    <3>2. CASE lock[d] = Cleaner /\ cleaning = d
      BY <2>2, <3>1, <3>2
    <3>3. ASSUME NEW u \in Callers, lock[d] = u, Locked(u), ent[u] = d
          PROVE  lock'[d] = u /\ Locked(u)' /\ ent'[u] = d
      <4>1. u # t
        BY <2>2, <3>3 DEF Locked
      <4> QED
        BY <2>2, <3>1, <3>3, <4>1 DEF Locked, TypeOK
    <3> QED
      BY <2>3, <3>1, <3>2, <3>3 DEF LocksAreReleased
  <2> QED
    BY <2>3 DEF LocksAreReleased
<1>3. CASE ReadCount(t) \/ QueryNonce(t) \/ FailQuery(t) \/ Prime(t)
  <2>1. ~Locked(t) /\ UNCHANGED <<lock, cleaning>>
    BY <1>3 DEF ReadCount, QueryNonce, FailQuery, Prime, Locked, cache
  <2>2. \A u \in Callers \ {t} : pc'[u] = pc[u] /\ ent'[u] = ent[u]
    BY <1>3 DEF ReadCount, QueryNonce, FailQuery, Prime, Return, Finish, Goto, TypeOK
  <2> QED
    BY <2>1, <2>2, OutsideStays
<1>4. CASE Lock(t)
  <2>1. ent[t] \in Entries /\ lock[ent[t]] = None
    BY <1>4 DEF Lock, HoldInv
  <2>2. /\ pc[t] = "lock" /\ pc' = [pc EXCEPT ![t] = "check"]
        /\ lock' = [lock EXCEPT ![ent[t]] = t] /\ UNCHANGED <<ent, cleaning>>
    BY <1>4 DEF Lock, Goto
  <2>3. lock'[ent[t]] = t /\ Locked(t)' /\ ent'[t] = ent[t]
    BY <2>1, <2>2 DEF Locked, TypeOK
  <2>4. ASSUME NEW d \in Entries, d # ent[t], lock'[d] # None
        PROVE  \/ \E u \in Callers : lock'[d] = u /\ Locked(u)' /\ ent'[u] = d
               \/ lock'[d] = Cleaner /\ cleaning' = d
    <3>1. lock'[d] = lock[d]
      BY <2>2, <2>4 DEF TypeOK
    <3>2. CASE lock[d] = Cleaner /\ cleaning = d
      BY <2>2, <3>1, <3>2
    <3>3. ASSUME NEW u \in Callers, lock[d] = u, Locked(u), ent[u] = d
          PROVE  lock'[d] = u /\ Locked(u)' /\ ent'[u] = d
      BY <2>2, <3>1, <3>3 DEF Locked, TypeOK
    <3> QED
      BY <2>4, <3>1, <3>2, <3>3 DEF LocksAreReleased
  <2> QED
    BY <2>3, <2>4 DEF LocksAreReleased
<1>5. CASE CheckNonce(t) \/ SendAccepted(t)
  <2>1. Locked(t)' /\ UNCHANGED <<lock, cleaning, ent>>
    BY <1>5 DEF CheckNonce, SendAccepted, Goto, Locked, cache, TypeOK
  <2>2. \A u \in Callers \ {t} : pc'[u] = pc[u]
    BY <1>5 DEF CheckNonce, SendAccepted, Goto, TypeOK
  <2>3. \A u \in Callers : Locked(u) => Locked(u)' /\ ent'[u] = ent[u]
    BY <2>1, <2>2 DEF Locked
  <2> QED
    BY <2>1, <2>3, HeldStays
<1>6. CASE RefuseRaw(t) \/ SendUnanswered(t) \/ SendRefused(t) \/ Bump(t)
  <2>1. Locked(t) /\ Unlock(t) /\ Finish(t) /\ cleaning' = cleaning
    BY <1>6 DEF RefuseRaw, SendUnanswered, SendRefused, Bump, Locked
  <2> QED
    BY <2>1, UnlockStays
<1> QED
  BY <1>1, <1>2, <1>3, <1>4, <1>5, <1>6 DEF GetTransactionCount2, SubmitLocked

LEMMA OtherStays ==
  ASSUME LockInv, LocksAreReleased, RemoveOutdatedAddrStatic \/ Age \/ Confirm
  PROVE  LocksAreReleased'
<1> USE CacheAssumption DEF LockInv, TypeOK
<1>1. CASE Collect
  <2>1. \A e \in Entries : ~(lock[e] = Cleaner /\ cleaning = e)
    BY <1>1 DEF Collect
  <2> QED
    BY <1>1, <2>1 DEF Collect, LocksAreReleased, Locked, cache, caller
<1>2. CASE Invalidate
  BY <1>2 DEF Invalidate, LocksAreReleased, Locked, caller
<1>3. CASE Delete
  BY <1>3 DEF Delete, LocksAreReleased, Locked, caller
<1>4. CASE Age \/ Confirm
  BY <1>4 DEF Age, Confirm, LocksAreReleased, Locked, cache, caller
<1> QED
  BY <1>1, <1>2, <1>3, <1>4 DEF RemoveOutdatedAddrStatic

\* Whoever holds the lock of an entry is in a part of the code that unlocks it
\* on every path out, and waits for no other lock there: nobody waits for an
\* entry for good, for any number of callers, entries and evictions.
THEOREM NoLockIsLost == Spec => []LocksAreReleased
<1>1. Init => LocksAreReleased
  BY DEF Init, LocksAreReleased
<1>2. LocksAreReleased /\ UNCHANGED vars => LocksAreReleased'
  BY DEF LocksAreReleased, Locked, vars, cache, caller
<1>3. LockInv /\ LocksAreReleased /\ [Next]_vars => LocksAreReleased'
  BY <1>2, CallerStays, OtherStays DEF Next
<1> QED
  BY <1>1, <1>3, SpecLockInv, PTL DEF Spec

-----------------------------------------------------------------------------
(* No nonce is skipped.                                                    *)

\* The nonces the node has, confirmed or in its pool.
Known      == {m \in Nat : m < confirmed \/ m \in pool}
Covered(n) == 0 .. n - 1 \subseteq Known

\* Every nonce the callers hold, build with or have sent, and every count, is one
\* below which the node has all nonces; a count is at most the nonce that is being
\* broadcast with its entry, and the one being counted is there already.
CoverInv ==
  /\ \A e \in Entries : Covered(count[e])
  /\ \A n \in raws \union pool : Covered(n)
  /\ \A t \in Callers :
       /\ pc[t] = "prime" => Covered(val[t])
       /\ raw[t] \in Nat => Covered(raw[t])
       /\ Broadcasting(t) => count[ent[t]] <= raw[t]
       /\ pc[t] = "bump" => raw[t] \in Known

GapInv == ~jumped => CoverInv

LEMMA InitGapInv == Init => GapInv
<1> SUFFICES ASSUME Init PROVE GapInv
  OBVIOUS
<1>1. Covered(0)
  BY DEF Covered
<1>2. CoverInv
  BY <1>1 DEF Init, CoverInv, Broadcasting, NoRaw
<1> QED
  BY <1>2 DEF GapInv

\* What a caller does when GetTransactionCount2 returns a nonce.
LEMMA ReturnGapInv ==
  ASSUME LockInv, CoverInv, NEW t \in Callers, NEW n \in Nat, Covered(n), Return(t, n),
         UNCHANGED <<node, lock>>,
         \A e \in Entries : Covered(count'[e]),
         \A u \in Callers : Broadcasting(u) => count'[ent[u]] <= raw[u]
  PROVE  CoverInv'
<1>1. Known' = Known
  BY DEF Known, node
<1>2. CASE raw[t] = NoRaw
  <2>1. pc' = [pc EXCEPT ![t] = "idle"] /\ val' = [val EXCEPT ![t] = 0]
        /\ ent' = [ent EXCEPT ![t] = None] /\ raw' = [raw EXCEPT ![t] = NoRaw]
        /\ raws' \in {raws, raws \union {n}}
    BY <1>2 DEF Return, Finish, Goto
  <2>2. \A m \in raws' \union pool' : Covered(m)'
    BY <1>1, <2>1 DEF CoverInv, Covered, node
  <2>3. ASSUME NEW u \in Callers
        PROVE  (/\ pc[u] = "prime" => Covered(val[u])
                /\ raw[u] \in Nat => Covered(raw[u])
                /\ Broadcasting(u) => count[ent[u]] <= raw[u]
                /\ pc[u] = "bump" => raw[u] \in Known)'
    <3>1. CASE u = t
      BY <1>1, <2>1, <3>1 DEF Covered, Broadcasting, LockInv, TypeOK, NoRaw
    <3>2. CASE u # t
      BY <1>1, <2>1, <3>2 DEF CoverInv, Covered, Broadcasting, LockInv, TypeOK
    <3> QED
      BY <3>1, <3>2
  <2> QED
    BY <1>1, <2>2, <2>3 DEF CoverInv, Covered
<1>3. CASE raw[t] # NoRaw
  <2>1. /\ pc' = [pc EXCEPT ![t] = "lock"] /\ val' = [val EXCEPT ![t] = 0]
        /\ UNCHANGED <<raws, ent, raw>>
    BY <1>3 DEF Return, Goto
  <2>2. \A m \in raws' \union pool' : Covered(m)'
    BY <1>1, <2>1 DEF CoverInv, Covered, node
  <2>3. ASSUME NEW u \in Callers
        PROVE  (/\ pc[u] = "prime" => Covered(val[u])
                /\ raw[u] \in Nat => Covered(raw[u])
                /\ Broadcasting(u) => count[ent[u]] <= raw[u]
                /\ pc[u] = "bump" => raw[u] \in Known)'
    BY <1>1, <2>1 DEF CoverInv, Covered, Broadcasting, LockInv, TypeOK
  <2> QED
    BY <1>1, <2>2, <2>3 DEF CoverInv, Covered
<1> QED
  BY <1>2, <1>3

LEMMA LoadGapInv ==
  ASSUME LockInv, GapInv, NEW t \in Callers,
         \/ Start(t) \/ Load(t) \/ Store(t) \/ AwaitLock(t) \/ RefuseInvalid(t)
         \/ AcceptValid(t)
  PROVE  GapInv'
<1>1. UNCHANGED <<jumped, node>>
  BY DEF Start, StartCreate, StartSubmit, Load, Store, AwaitLock, RefuseInvalid,
         AcceptValid
<1>2. SUFFICES ASSUME CoverInv PROVE CoverInv'
  BY <1>1 DEF GapInv
<1>3. Known' = Known
  BY <1>1 DEF Known, node
<1> USE CacheAssumption DEF LockInv
<1>4. CASE Start(t)
  <2>1. /\ pc[t] = "idle" /\ pc' = [pc EXCEPT ![t] = "load"]
        /\ UNCHANGED <<cache, jumped, raws, ent, val, cleaning, node>>
        /\ raw' = raw \/ \E n \in raws : raw' = [raw EXCEPT ![t] = n]
    BY <1>4 DEF Start, StartCreate, StartSubmit, Goto
  <2> QED
    BY <1>2, <1>3, <2>1 DEF CoverInv, Covered, Broadcasting, TypeOK, cache, node
<1>5. CASE Load(t)
  BY <1>2, <1>3, <1>5 DEF Load, CoverInv, Covered, Broadcasting, TypeOK, Goto, cache, node
<1>6. CASE Store(t)
  <2>1. PICK e \in Entries : Unreachable(e) /\ Store(t)!3!(e)
    BY <1>6 DEF Store
  <2>2. \A u \in Callers : ent[u] \in Entries => count'[ent[u]] = count[ent[u]]
    BY <2>1 DEF Unreachable, TypeOK
  <2>3. /\ \A u \in Callers : u # t => ent'[u] = ent[u] /\ pc'[u] = pc[u]
        /\ pc'[t] = "await" /\ UNCHANGED <<raws, raw, val, node>>
    BY <1>6, <2>1 DEF Store, TypeOK, Goto
  <2>4. \A d \in Entries : Covered(count[d])'
    BY <1>2, <1>3, <2>1 DEF CoverInv, Covered, TypeOK
  <2> QED
    BY <1>2, <1>3, <2>2, <2>3, <2>4 DEF CoverInv, Covered, Broadcasting, HoldInv, node
<1>7. CASE AwaitLock(t)
  BY <1>2, <1>3, <1>7
  DEF AwaitLock, CoverInv, Covered, Broadcasting, TypeOK, Goto, cache, node
<1>8. CASE RefuseInvalid(t)
  BY <1>2, <1>3, <1>8
  DEF RefuseInvalid, Finish, CoverInv, Covered, Broadcasting, TypeOK, Goto, NoRaw,
      cache, node
<1>9. CASE AcceptValid(t)
  BY <1>2, <1>3, <1>9
  DEF AcceptValid, CoverInv, Covered, Broadcasting, TypeOK, Goto, cache, node
<1> QED
  BY <1>4, <1>5, <1>6, <1>7, <1>8, <1>9

LEMMA NonceGapInv ==
  ASSUME LockInv, GapInv, NEW t \in Callers,
         ReadCount(t) \/ QueryNonce(t) \/ FailQuery(t) \/ Prime(t)
  PROVE  GapInv'
<1>1. SUFFICES ASSUME CoverInv, ~jumped' PROVE CoverInv'
  BY DEF GapInv, ReadCount, QueryNonce, FailQuery, Prime
<1>2. Known' = Known
  BY DEF ReadCount, QueryNonce, FailQuery, Prime, node, Known
<1>3. CASE ReadCount(t)
  <2>1. ent[t] \in Entries
    BY <1>3 DEF ReadCount, LockInv, HoldInv
  <2>2. Covered(count[ent[t]]) /\ count[ent[t]] \in Nat
    BY <1>1, <2>1 DEF CoverInv, LockInv, TypeOK
  <2>3. Return(t, count[ent[t]]) /\ UNCHANGED <<cache, node>>
    BY <1>3 DEF ReadCount
  <2>4. /\ \A e \in Entries : Covered(count'[e])
        /\ \A u \in Callers : Broadcasting(u) => count'[ent[u]] <= raw[u]
    BY <1>1, <2>3 DEF CoverInv, cache
  <2> QED
    BY <1>1, <2>2, <2>3, <2>4, ReturnGapInv DEF cache
<1>4. CASE QueryNonce(t)
  <2>1. Covered(confirmed)
    BY DEF Covered, Known, LockInv, TypeOK
  <2> QED
    BY <1>1, <1>2, <1>4, <2>1
    DEF QueryNonce, CoverInv, Covered, Broadcasting, LockInv, TypeOK, Goto, cache, node
<1>5. CASE FailQuery(t)
  BY <1>1, <1>2, <1>5, CacheAssumption
  DEF FailQuery, Finish, CoverInv, Covered, Broadcasting, LockInv, TypeOK, Goto, NoRaw,
      cache, node
\* Where a broadcast is going on with the entry, the count becomes no larger.
<1>6. CASE Prime(t)
  <2>1. /\ ent[t] \in Entries /\ pc[t] = "prime" /\ val[t] \in Nat /\ Covered(val[t])
    BY <1>1, <1>6 DEF Prime, LockInv, HoldInv, TypeOK, CoverInv
  <2>2. /\ Return(t, val[t]) /\ count' = [count EXCEPT ![ent[t]] = val[t]]
        /\ UNCHANGED <<lock, node>>
    BY <1>6 DEF Prime
  <2>3. \A e \in Entries : Covered(count'[e])
    BY <1>1, <2>1, <2>2 DEF CoverInv, LockInv, TypeOK
  <2>4. ASSUME NEW u \in Callers, Broadcasting(u) PROVE count'[ent[u]] <= raw[u]
    <3>1. ent[u] \in Entries /\ raw[u] \in Nat /\ count[ent[u]] \in Nat
          /\ count[ent[u]] <= raw[u]
      BY <1>1, <2>4 DEF Broadcasting, LockInv, HoldInv, TypeOK, CoverInv
    <3>2. ent[u] = ent[t] => ~(count[ent[t]] < val[t])
      BY <1>1, <1>6, <2>4 DEF Prime
    <3> QED
      BY <2>1, <2>2, <3>1, <3>2 DEF LockInv, TypeOK
  <2> QED
    BY <1>1, <2>1, <2>2, <2>3, <2>4, ReturnGapInv
<1> QED
  BY <1>3, <1>4, <1>5, <1>6

LEMMA SubmitGapInv ==
  ASSUME LockInv, GapInv, NEW t \in Callers, SubmitLocked(t)
  PROVE  GapInv'
<1>1. UNCHANGED jumped
  BY DEF SubmitLocked, Lock, RefuseRaw, CheckNonce, SendAccepted, SendUnanswered,
         SendRefused, Bump
<1>2. SUFFICES ASSUME CoverInv PROVE CoverInv'
  BY <1>1 DEF GapInv
<1> USE CacheAssumption
<1>3. CASE Lock(t)
  <2>1. Known' = Known
    BY <1>3 DEF Lock, node, Known
  <2> QED
    BY <1>2, <1>3, <2>1
    DEF Lock, CoverInv, Covered, Broadcasting, LockInv, TypeOK, Goto, cache, node
<1>4. CASE CheckNonce(t)
  <2>1. Known' = Known
    BY <1>4 DEF CheckNonce, node, Known
  <2>2. raw[t] \in Nat /\ raw[t] <= raw[t]
    BY <1>4 DEF CheckNonce, LockInv, HoldInv
  <2> QED
    BY <1>2, <1>4, <2>1, <2>2
    DEF CheckNonce, CoverInv, Covered, Broadcasting, LockInv, TypeOK, Goto, cache, node
<1>5. CASE SendAccepted(t)
  <2>1. raw[t] \in Nat /\ pc[t] = "send"
    BY <1>5 DEF SendAccepted, LockInv, HoldInv
  <2>2. Known \subseteq Known' /\ raw[t] \in Known'
    BY <1>5, <2>1 DEF SendAccepted, Known
  <2> QED
    BY <1>2, <1>5, <2>1, <2>2
    DEF SendAccepted, CoverInv, Covered, Broadcasting, LockInv, TypeOK, Goto, cache
<1>6. CASE RefuseRaw(t) \/ SendUnanswered(t) \/ SendRefused(t) \/ Bump(t)
  <2>1. Locked(t) /\ ent[t] \in Entries /\ lock[ent[t]] = t /\ raw[t] \in Nat
    BY <1>6 DEF RefuseRaw, SendUnanswered, SendRefused, Bump, Locked, LockInv, HoldInv
  <2>2. Unlock(t) /\ Finish(t) /\ UNCHANGED <<jumped, raws, cleaning, confirmed>>
    BY <1>6 DEF RefuseRaw, SendUnanswered, SendRefused, Bump, node
  <2>3. pool' = pool \/ pool' = pool \union {raw[t]}
    BY <1>6 DEF RefuseRaw, SendUnanswered, SendRefused, Bump, node
  <2>4. Known \subseteq Known'
    BY <2>2, <2>3 DEF Known
  <2>5. \A e \in Entries : Covered(count[e])'
    <3>1. CASE count' = count
      BY <1>2, <2>4, <3>1 DEF CoverInv, Covered
    <3>2. CASE Bump(t)
      <4>1. /\ raw[t] \in Known /\ Covered(raw[t])
            /\ count[ent[t]] \in Nat /\ count[ent[t]] <= raw[t]
        BY <1>2, <2>1, <3>2 DEF Bump, CoverInv, Broadcasting, LockInv, TypeOK
      <4>2. 0 .. count[ent[t]] \subseteq Known
        BY <2>1, <4>1 DEF Covered
      <4>3. count' = [count EXCEPT ![ent[t]] = @ + 1]
        BY <3>2 DEF Bump
      <4> QED
        BY <1>2, <2>1, <2>4, <4>1, <4>2, <4>3 DEF CoverInv, Covered, LockInv, TypeOK
    <3> QED
      BY <1>6, <3>1, <3>2 DEF RefuseRaw, SendUnanswered, SendRefused
  <2>6. \A u \in Callers : Broadcasting(u) /\ u # t => count'[ent[u]] = count[ent[u]]
    <3>1. \A u \in Callers : Broadcasting(u) /\ u # t => ent[u] # ent[t]
      BY <2>1 DEF LockInv, HoldInv, Locked, Broadcasting
    <3> QED
      BY <1>6, <2>1, <3>1
      DEF RefuseRaw, SendUnanswered, SendRefused, Bump, LockInv, TypeOK, HoldInv, Broadcasting
  <2>7. \A n \in raws' \union pool' : Covered(n)'
    BY <1>2, <2>1, <2>2, <2>3, <2>4 DEF CoverInv, Covered
  <2> QED
    BY <1>2, <2>2, <2>4, <2>5, <2>6, <2>7
    DEF Finish, Goto, CoverInv, Covered, Broadcasting, LockInv, TypeOK, NoRaw
<1> QED
  BY <1>3, <1>4, <1>5, <1>6 DEF SubmitLocked

LEMMA OtherGapInv ==
  ASSUME LockInv, GapInv, RemoveOutdatedAddrStatic \/ Age \/ Confirm
  PROVE  GapInv'
<1> USE DEF GapInv
<1>1. CASE RemoveOutdatedAddrStatic \/ Age
  <2>1. UNCHANGED <<count, jumped, raws, caller, node>>
    BY <1>1 DEF RemoveOutdatedAddrStatic, Collect, Invalidate, Delete, Age, cache
  <2> QED
    BY <2>1 DEF CoverInv, Covered, Known, Broadcasting, caller, node
<1>2. CASE Confirm
  <2>1. Known \subseteq Known' /\ pool' \subseteq pool
    BY <1>2 DEF Confirm, Known, LockInv, TypeOK
  <2> QED
    BY <1>2, <2>1
    DEF Confirm, CoverInv, Covered, Broadcasting, cache, caller
<1> QED
  BY <1>1, <1>2

LEMMA GapInvStep == LockInv /\ GapInv /\ [Next]_vars => GapInv'
<1>1. GapInv /\ UNCHANGED vars => GapInv'
  BY DEF GapInv, CoverInv, Covered, Known, Broadcasting, vars, cache,
         caller, node
<1> QED
  BY <1>1, LoadGapInv, NonceGapInv, SubmitGapInv, OtherGapInv
  DEF Next, GetTransactionCount2

\* Unless the node's nonce was stored over a smaller count during a broadcast with
\* that count, no transaction waits in the node's pool for one that nobody has sent,
\* although entries are used before their nonce has arrived, set back when it arrives
\* late, and evicted under their users (Prime, Bump).
THEOREM NoGap == Spec => []NoNonceGap
<1>1. LockInv /\ GapInv => NoNonceGap
  <2> SUFFICES ASSUME LockInv, GapInv, ~jumped, NEW n \in pool, NEW m \in confirmed..n
               PROVE  m \in pool
    BY DEF NoNonceGap
  <2>1. Covered(n)
    BY DEF GapInv, CoverInv
  <2>2. m \in Nat /\ (m < n \/ m = n) /\ m >= confirmed
    BY DEF LockInv, TypeOK
  <2> QED
    BY <2>1, <2>2 DEF Covered, Known, LockInv, TypeOK
<1>2. Spec => []GapInv
  BY InitGapInv, GapInvStep, SpecLockInv, PTL DEF Spec
<1> QED
  BY <1>1, <1>2, SpecLockInv, PTL
=============================================================================
