----------------------------- MODULE ContractProofs -----------------------------
(* The lockers and the token stores keep their contracts, and what decides   *)
(* over a token store that keeps its own decides right.  The in-memory       *)
(* locker keeps its leases, for any locks, names, durations and purge        *)
(* interval, and so implements LockContract; so do the Redis and the MySQL   *)
(* locker, each for one name, and the two token stores TokenContract.  The   *)
(* listeners of a request decide by the rule in force, the roles a user has  *)
(* and a token that was his, under every configuration.                      *)
EXTENDS SecurityListeners, Lockers, TokenStores, FiniteSetTheorems, WellFoundedInduction, TLAPS

USE LockersAssumption DEF Memory!LockerAssumption, Memory!Never

(* What an expiry is: a time, or Never.                                      *)
LEMMA ExpiryType ==
  ASSUME Memory!TypeOK, NEW ttl \in Int
  PROVE  Memory!Expiry(ttl) \in Nat /\ (Memory!Expiry(ttl) = Memory!Never \/ now < Memory!Expiry(ttl))
BY DEF Memory!TypeOK, Memory!Expiry

LEMMA PurgedType ==
  ASSUME Memory!TypeOK
  PROVE  Memory!Purged(holders) \in [Name -> Memory!Holder \cup {NoHolder}]
BY DEF Memory!TypeOK, Memory!Purged

(* A purge leaves the leases that count as they are.                         *)
LEMMA PurgeKeepsHeld ==
  ASSUME Memory!TypeOK, NEW n \in Name
  PROVE  /\ Memory!Held(n) => Memory!Purged(holders)[n] = holders[n]
         /\ ~Memory!Held(n) => Memory!Purged(holders)[n] = NoHolder
BY DEF Memory!TypeOK, Memory!Purged, Memory!Held

(* Every field keeps its type, and the purge counter stays below the         *)
(* interval.                                                                 *)
THEOREM TypeInvariance == Memory!Spec => []Memory!TypeOK
<1>1. Memory!Init => Memory!TypeOK
  BY DEF Memory!Init, Memory!TypeOK, Memory!Holder, Memory!Answers
<1>2. Memory!TypeOK /\ [Memory!Next]_(Memory!vars) => Memory!TypeOK'
  <2> SUFFICES ASSUME Memory!TypeOK, [Memory!Next]_(Memory!vars) PROVE Memory!TypeOK'
    OBVIOUS
  <2>1. CASE Memory!Tick
    BY <2>1 DEF Memory!Tick, Memory!TypeOK
  <2>2. CASE Memory!PurgeExpired
    BY <2>2, PurgedType DEF Memory!PurgeExpired, Memory!TypeOK
  <2>3. ASSUME NEW l \in Lock, Memory!Acquire(l) PROVE Memory!TypeOK'
    <3>1. Memory!Lease(l, Ttl[l]) \in Memory!Holder /\ Memory!Expiry(Ttl[l]) \in Nat
      BY ExpiryType DEF Memory!Lease, Memory!Holder
    <3>2. purgeTicks' \in 0 .. PurgeInterval - 1
      BY <2>3 DEF Memory!Acquire, Memory!PurgeDue, Memory!TypeOK
    <3>3. now' \in Nat \ {0} /\ answer' \in [Lock -> Memory!Answers] /\ until' \in [Lock -> Nat]
      BY <2>3, <3>1 DEF Memory!Acquire, Memory!Tell, Memory!TypeOK, Memory!Answers
    <3>4. holders' \in [Name -> Memory!Holder \cup {NoHolder}]
      BY <2>3, <3>1, PurgedType DEF Memory!Acquire, Memory!TypeOK
    <3> QED BY <3>2, <3>3, <3>4 DEF Memory!TypeOK
  <2>4. ASSUME NEW l \in Lock, Memory!Release(l) PROVE Memory!TypeOK'
    BY <2>4 DEF Memory!Release, Memory!Tell, Memory!TypeOK, Memory!Answers
  <2>5. ASSUME NEW l \in Lock, NEW ttl \in RefreshTtl, Memory!RefreshRejected(l, ttl) PROVE Memory!TypeOK'
    BY <2>5 DEF Memory!RefreshRejected, Memory!TypeOK, Memory!Answers
  <2>6. ASSUME NEW l \in Lock, NEW ttl \in RefreshTtl, Memory!Refresh(l, ttl) PROVE Memory!TypeOK'
    <3>1. Memory!Lease(l, ttl) \in Memory!Holder /\ Memory!Expiry(ttl) \in Nat
      BY ExpiryType DEF Memory!Lease, Memory!Holder
    <3> QED BY <2>6, <3>1 DEF Memory!Refresh, Memory!Tell, Memory!TypeOK, Memory!Answers
  <2>7. CASE UNCHANGED Memory!vars
    BY <2>7 DEF Memory!vars, Memory!TypeOK
  <2> QED BY <2>1, <2>2, <2>3, <2>4, <2>5, <2>6, <2>7 DEF Memory!Next
<1> QED BY <1>1, <1>2, PTL DEF Memory!Spec

(* Who relies on a lock holds a lease that counts.                           *)
LEMMA ReliesHolds ==
  ASSUME Memory!TypeOK, Memory!LeaseKept, NEW l \in Lock, Memory!Relies(l)
  PROVE  /\ Memory!Held(NameOf[l])
         /\ holders[NameOf[l]].token = l
         /\ holders[NameOf[l]].expiresAt = until[l]
BY DEF Memory!TypeOK, Memory!LeaseKept, Memory!Relies, Memory!Owns, Memory!Held, Memory!IsActive

(* No call of another lock, no purge and no tick ends a lease its caller     *)
(* may still rely on.                                                        *)
LEMMA LeaseStep ==
  ASSUME Memory!TypeOK, Memory!TypeOK', Memory!LeaseKept, [Memory!Next]_(Memory!vars)
  PROVE  Memory!LeaseKept'
<1> SUFFICES ASSUME NEW k \in Lock, Memory!Relies(k)'
             PROVE  Memory!Owns(k)' /\ holders'[NameOf[k]].expiresAt = until'[k]
  BY DEF Memory!LeaseKept
<1> NameOf[k] \in Name
  OBVIOUS
<1>1. CASE Memory!Tick
  <2>1. Memory!Relies(k)
    BY <1>1 DEF Memory!Tick, Memory!Relies, Memory!TypeOK
  <2> QED BY <1>1, <2>1 DEF Memory!Tick, Memory!LeaseKept, Memory!Owns
<1>2. CASE Memory!PurgeExpired
  <2>1. Memory!Relies(k)
    BY <1>2 DEF Memory!PurgeExpired, Memory!Relies
  <2> QED BY <1>2, <2>1, ReliesHolds, PurgeKeepsHeld DEF Memory!PurgeExpired, Memory!Owns, Memory!Held
<1>3. ASSUME NEW l \in Lock, Memory!Acquire(l)
      PROVE  Memory!Owns(k)' /\ holders'[NameOf[k]].expiresAt = until'[k]
  <2> DEFINE table == IF Memory!PurgeDue THEN Memory!Purged(holders) ELSE holders
  <2>0. table \in [Name -> Memory!Holder \cup {NoHolder}]
    BY PurgedType DEF Memory!TypeOK
  <2>1. CASE Memory!TakenByAnother(l)
    <3>1. holders' = table /\ now' = now /\ until' = [until EXCEPT ![l] = now]
      BY <1>3, <2>1 DEF Memory!Acquire, Memory!Tell
    <3>2. k # l /\ Memory!Relies(k)
      BY <3>1 DEF Memory!Relies, Memory!TypeOK
    <3> QED BY <3>1, <3>2, ReliesHolds, PurgeKeepsHeld DEF Memory!Owns, Memory!Held, Memory!TypeOK
  <2>2. CASE ~Memory!TakenByAnother(l)
    <3>1. /\ holders' = [table EXCEPT ![NameOf[l]] = Memory!Lease(l, Ttl[l])]
          /\ now' = now /\ until' = [until EXCEPT ![l] = Memory!Expiry(Ttl[l])]
      BY <1>3, <2>2 DEF Memory!Acquire, Memory!Tell
    <3>2. CASE k = l
      <4>1. holders'[NameOf[l]] = Memory!Lease(l, Ttl[l]) /\ until'[l] = Memory!Expiry(Ttl[l])
        BY <2>0, <3>1 DEF Memory!TypeOK
      <4>2. Memory!Lease(l, Ttl[l]) \in Memory!Holder
        BY ExpiryType DEF Memory!Lease, Memory!Holder
      <4> QED BY <3>2, <4>1, <4>2 DEF Memory!Owns, Memory!Lease, Memory!Holder
    <3>3. CASE k # l
      <4>1. Memory!Relies(k) /\ until'[k] = until[k]
        BY <3>1, <3>3 DEF Memory!Relies, Memory!TypeOK
      <4>2. NameOf[k] # NameOf[l]
        BY <2>2, <3>3, <4>1, ReliesHolds DEF Memory!TakenByAnother
      <4> QED BY <2>0, <3>1, <4>1, <4>2, ReliesHolds, PurgeKeepsHeld DEF Memory!Owns, Memory!Held
    <3> QED BY <3>2, <3>3
  <2> QED BY <2>1, <2>2
<1>4. ASSUME NEW l \in Lock, Memory!Release(l)
      PROVE  Memory!Owns(k)' /\ holders'[NameOf[k]].expiresAt = until'[k]
  <2>1. k # l /\ Memory!Relies(k) /\ until'[k] = until[k]
    BY <1>4 DEF Memory!Release, Memory!Tell, Memory!Relies, Memory!TypeOK
  <2>2. holders'[NameOf[k]] = holders[NameOf[k]]
    <3>1. CASE Memory!Owns(l)
      <4>1. NameOf[k] # NameOf[l]
        BY <2>1, <3>1, ReliesHolds DEF Memory!Owns
      <4> QED BY <1>4, <3>1, <4>1 DEF Memory!Release, Memory!TypeOK
    <3> QED BY <1>4, <3>1 DEF Memory!Release
  <2> QED BY <2>1, <2>2, ReliesHolds DEF Memory!Owns, Memory!Held
<1>5. ASSUME NEW l \in Lock, NEW ttl \in RefreshTtl, Memory!RefreshRejected(l, ttl)
      PROVE  Memory!Owns(k)' /\ holders'[NameOf[k]].expiresAt = until'[k]
  BY <1>5 DEF Memory!RefreshRejected, Memory!Relies, Memory!LeaseKept, Memory!Owns
<1>6. ASSUME NEW l \in Lock, NEW ttl \in RefreshTtl, Memory!Refresh(l, ttl)
      PROVE  Memory!Owns(k)' /\ holders'[NameOf[k]].expiresAt = until'[k]
  <2>1. CASE Memory!StillHolds(l)
    <3>1. /\ holders' = [holders EXCEPT ![NameOf[l]] = Memory!Lease(l, ttl)]
          /\ now' = now /\ until' = [until EXCEPT ![l] = Memory!Expiry(ttl)]
      BY <1>6, <2>1 DEF Memory!Refresh, Memory!Tell
    <3>2. CASE k = l
      <4>1. holders'[NameOf[l]] = Memory!Lease(l, ttl) /\ until'[l] = Memory!Expiry(ttl)
        BY <3>1 DEF Memory!TypeOK
      <4>2. Memory!Lease(l, ttl) \in Memory!Holder
        BY ExpiryType DEF Memory!Lease, Memory!Holder
      <4> QED BY <3>2, <4>1, <4>2 DEF Memory!Owns, Memory!Lease, Memory!Holder
    <3>3. CASE k # l
      <4>1. Memory!Relies(k) /\ until'[k] = until[k]
        BY <3>1, <3>3 DEF Memory!Relies, Memory!TypeOK
      <4>2. NameOf[k] # NameOf[l]
        BY <2>1, <3>3, <4>1, ReliesHolds DEF Memory!StillHolds, Memory!Owns
      <4> QED BY <3>1, <4>1, <4>2, ReliesHolds DEF Memory!Owns, Memory!Held, Memory!TypeOK
    <3> QED BY <3>2, <3>3
  <2>2. CASE ~Memory!StillHolds(l)
    <3>1. holders' = holders /\ now' = now /\ until' = [until EXCEPT ![l] = now]
      BY <1>6, <2>2 DEF Memory!Refresh, Memory!Tell
    <3>2. k # l /\ Memory!Relies(k) /\ until'[k] = until[k]
      BY <3>1 DEF Memory!Relies, Memory!TypeOK
    <3> QED BY <3>1, <3>2, ReliesHolds DEF Memory!Owns, Memory!Held
  <2> QED BY <2>1, <2>2
<1>7. CASE UNCHANGED Memory!vars
  BY <1>7 DEF Memory!vars, Memory!Relies, Memory!LeaseKept, Memory!Owns
<1> QED BY <1>1, <1>2, <1>3, <1>4, <1>5, <1>6, <1>7 DEF Memory!Next

(* Nobody loses a lease early.                                               *)
THEOREM LeaseInvariance == Memory!Spec => []Memory!LeaseKept
<1>1. Memory!Init => Memory!LeaseKept
  BY DEF Memory!Init, Memory!LeaseKept, Memory!Relies
<1>2. Memory!TypeOK /\ Memory!TypeOK' /\ Memory!LeaseKept /\ [Memory!Next]_(Memory!vars) => Memory!LeaseKept'
  BY LeaseStep
<1> QED BY <1>1, <1>2, TypeInvariance, PTL DEF Memory!Spec

(* Two callers never rely on locks of one name at once.                      *)
THEOREM MutualExclusionHolds == Memory!Spec => []MutualExclusion
<1>1. Memory!TypeOK /\ Memory!LeaseKept => MutualExclusion
  BY ReliesHolds DEF MutualExclusion, Memory!MutualExclusion
<1> QED BY <1>1, TypeInvariance, LeaseInvariance, PTL
-------------------------------------------------------------------------------
LEMMA OwnerType ==
  ASSUME Memory!TypeOK
  PROVE  /\ Memory!OwnerOf \in [Name -> Lock \cup {NoHolder}]
         /\ \A n \in Name : Memory!Held(n) <=> Memory!OwnerOf[n] # NoHolder
         /\ \A n \in Name : Memory!Held(n) => Memory!OwnerOf[n] = holders[n].token
BY DEF Memory!TypeOK, Memory!OwnerOf, Memory!Held, Memory!Holder

(* What matters of a step is which leases count afterwards.                  *)
LEMMA OwnerUnchanged ==
  ASSUME Memory!TypeOK, Memory!TypeOK',
         \A n \in Name : Memory!Held(n)' = Memory!Held(n),
         \A n \in Name : Memory!Held(n) => holders'[n].token = holders[n].token
  PROVE  Memory!OwnerOf' = Memory!OwnerOf
BY DEF Memory!OwnerOf

LEMMA OwnerSet ==
  ASSUME Memory!TypeOK, Memory!TypeOK', NEW l \in Lock,
         Memory!Held(NameOf[l])', holders'[NameOf[l]].token = l,
         \A n \in Name \ {NameOf[l]} : /\ Memory!Held(n)' = Memory!Held(n)
                                       /\ Memory!Held(n) => holders'[n].token = holders[n].token
  PROVE  Memory!OwnerOf' = [Memory!OwnerOf EXCEPT ![NameOf[l]] = l]
<1>1. \A n \in Name : Memory!OwnerOf'[n] = [Memory!OwnerOf EXCEPT ![NameOf[l]] = l][n]
  BY DEF Memory!OwnerOf
<1> QED BY <1>1, OwnerType DEF Memory!OwnerOf

(* A lease given out now counts.                                             *)
LEMMA NewLeaseHeld ==
  ASSUME Memory!TypeOK, NEW l \in Lock, NEW ttl \in Int, now' = now,
         holders'[NameOf[l]] = Memory!Lease(l, ttl)
  PROVE  Memory!Held(NameOf[l])' /\ holders'[NameOf[l]].token = l
<1>1. Memory!Lease(l, ttl) \in Memory!Holder
  BY ExpiryType DEF Memory!Lease, Memory!Holder
<1>2. /\ holders'[NameOf[l]] # NoHolder
      /\ holders'[NameOf[l]].token = l
      /\ holders'[NameOf[l]].expiresAt = Memory!Expiry(ttl)
  BY <1>1 DEF Memory!Lease, Memory!Holder
<1>3. Memory!Expiry(ttl) = Memory!Never \/ now' < Memory!Expiry(ttl)
  BY ExpiryType
<1> QED BY <1>2, <1>3 DEF Memory!Held, Memory!IsActive

LEMMA ContractStep ==
  ASSUME Memory!TypeOK, Memory!TypeOK', [Memory!Next]_(Memory!vars)
  PROVE  [Memory!Contract!Next]_<<Memory!OwnerOf, answer>>
<1> USE DEF Memory!Contract!Keep, Memory!Contract!Tell
<1>1. CASE Memory!Tick
  <2> DEFINE N == {n \in Name : Memory!Held(n) /\ ~Memory!Held(n)'}
  <2>1. \A n \in Name : Memory!Held(n)' => Memory!Held(n) /\ holders'[n] = holders[n]
    BY <1>1 DEF Memory!Tick, Memory!Held, Memory!IsActive, Memory!TypeOK, Memory!Holder
  <2>2. Memory!OwnerOf' = [n \in Name |-> IF n \in N THEN NoHolder ELSE Memory!OwnerOf[n]]
    BY <2>1 DEF Memory!OwnerOf
  <2>3. N \in SUBSET Name /\ answer' = answer
    BY <1>1 DEF Memory!Tick
  <2>4. Memory!Contract!Lose
    BY <2>2, <2>3 DEF Memory!Contract!Lose
  <2> QED BY <2>4 DEF Memory!Contract!Next
<1>2. CASE Memory!PurgeExpired
  <2>1. \A n \in Name : /\ Memory!Held(n)' = Memory!Held(n)
                        /\ Memory!Held(n) => holders'[n].token = holders[n].token
    BY <1>2, PurgeKeepsHeld DEF Memory!PurgeExpired, Memory!Held, Memory!IsActive
  <2> QED BY <1>2, <2>1, OwnerUnchanged DEF Memory!PurgeExpired
<1>3. ASSUME NEW l \in Lock, Memory!Acquire(l) PROVE Memory!Contract!Acquire(l)
  <2> DEFINE table == IF Memory!PurgeDue THEN Memory!Purged(holders) ELSE holders
  <2>0. /\ table \in [Name -> Memory!Holder \cup {NoHolder}]
        /\ NameOf[l] \in Name
        /\ \A n \in Name : Memory!Held(n) => table[n] = holders[n]
        /\ \A n \in Name : ~Memory!Held(n) => table[n] = NoHolder \/ table[n] = holders[n]
    BY PurgedType, PurgeKeepsHeld DEF Memory!TypeOK
  <2>1. CASE Memory!TakenByAnother(l)
    <3>1. holders' = table /\ now' = now /\ answer' = [answer EXCEPT ![l] = "refused"]
      BY <1>3, <2>1 DEF Memory!Acquire, Memory!Tell
    <3>2. Memory!OwnerOf' = Memory!OwnerOf
      BY <2>0, <3>1, OwnerUnchanged DEF Memory!Held, Memory!IsActive
    <3>3. Memory!OwnerOf[NameOf[l]] \notin {NoHolder, l}
      BY <2>1, <2>0, OwnerType DEF Memory!TakenByAnother
    <3> QED BY <3>1, <3>2, <3>3 DEF Memory!Contract!Acquire
  <2>2. CASE ~Memory!TakenByAnother(l)
    <3>1. /\ holders' = [table EXCEPT ![NameOf[l]] = Memory!Lease(l, Ttl[l])]
          /\ now' = now /\ answer' = [answer EXCEPT ![l] = "acquired"]
      BY <1>3, <2>2 DEF Memory!Acquire, Memory!Tell
    <3>2. Memory!Held(NameOf[l])' /\ holders'[NameOf[l]].token = l
      BY <2>0, <3>1, NewLeaseHeld
    <3>3. \A n \in Name \ {NameOf[l]} : /\ Memory!Held(n)' = Memory!Held(n)
                                        /\ Memory!Held(n) => holders'[n].token = holders[n].token
      BY <2>0, <3>1 DEF Memory!Held, Memory!IsActive
    <3>4. Memory!OwnerOf' = [Memory!OwnerOf EXCEPT ![NameOf[l]] = l]
      BY <3>2, <3>3, OwnerSet
    <3>5. Memory!OwnerOf[NameOf[l]] \in {NoHolder, l}
      BY <2>0, <2>2, OwnerType DEF Memory!TakenByAnother
    <3> QED BY <3>1, <3>4, <3>5 DEF Memory!Contract!Acquire, Memory!Contract!Own
  <2> QED BY <2>1, <2>2
<1>4. ASSUME NEW l \in Lock, Memory!Release(l) PROVE Memory!Contract!Release(l)
  <2>0. now' = now /\ answer' = [answer EXCEPT ![l] = "released"] /\ NameOf[l] \in Name
    BY <1>4 DEF Memory!Release, Memory!Tell
  <2>1. CASE Memory!Owns(l) /\ Memory!Held(NameOf[l])
    <3>1. holders' = [holders EXCEPT ![NameOf[l]] = NoHolder]
      BY <1>4, <2>1 DEF Memory!Release
    <3>2. Memory!OwnerOf' = [Memory!OwnerOf EXCEPT ![NameOf[l]] = NoHolder]
      BY <2>0, <3>1 DEF Memory!OwnerOf, Memory!Held, Memory!IsActive, Memory!TypeOK
    <3>3. Memory!OwnerOf[NameOf[l]] = l
      BY <2>0, <2>1, OwnerType DEF Memory!Owns
    <3> QED BY <2>0, <3>2, <3>3 DEF Memory!Contract!Release, Memory!Contract!Free
  <2>2. CASE ~(Memory!Owns(l) /\ Memory!Held(NameOf[l]))
    <3>1. \A n \in Name : /\ Memory!Held(n)' = Memory!Held(n)
                          /\ Memory!Held(n) => holders'[n].token = holders[n].token
      BY <1>4, <2>0, <2>2 DEF Memory!Release, Memory!Held, Memory!IsActive, Memory!TypeOK
    <3>2. Memory!OwnerOf' = Memory!OwnerOf
      BY <3>1, OwnerUnchanged
    <3>3. Memory!OwnerOf[NameOf[l]] # l
      BY <2>0, <2>2, OwnerType DEF Memory!Owns, Memory!Held
    <3> QED BY <2>0, <3>2, <3>3 DEF Memory!Contract!Release
  <2> QED BY <2>1, <2>2
<1>5. ASSUME NEW l \in Lock, NEW ttl \in RefreshTtl, Memory!RefreshRejected(l, ttl)
      PROVE  Memory!Contract!Fail(l)
  <2>1. Memory!OwnerOf' = Memory!OwnerOf
    BY <1>5 DEF Memory!RefreshRejected, Memory!OwnerOf, Memory!Held, Memory!IsActive
  <2> QED BY <1>5, <2>1 DEF Memory!RefreshRejected, Memory!Contract!Fail
<1>6. ASSUME NEW l \in Lock, NEW ttl \in RefreshTtl, Memory!Refresh(l, ttl)
      PROVE  Memory!Contract!Refresh(l)
  <2>1. CASE Memory!StillHolds(l)
    <3>1. /\ holders' = [holders EXCEPT ![NameOf[l]] = Memory!Lease(l, ttl)]
          /\ now' = now /\ answer' = [answer EXCEPT ![l] = "refreshed"]
      BY <1>6, <2>1 DEF Memory!Refresh, Memory!Tell
    <3>2. Memory!Held(NameOf[l])' /\ holders'[NameOf[l]].token = l
      BY <3>1, NewLeaseHeld DEF Memory!TypeOK
    <3>3. Memory!Held(NameOf[l]) /\ holders[NameOf[l]].token = l
      BY <2>1 DEF Memory!StillHolds, Memory!Owns, Memory!Held
    <3>4. Memory!OwnerOf' = Memory!OwnerOf
      BY <3>1, <3>2, <3>3, OwnerUnchanged DEF Memory!Held, Memory!IsActive, Memory!TypeOK
    <3>5. Memory!OwnerOf[NameOf[l]] = l
      BY <3>3, OwnerType
    <3> QED BY <3>1, <3>4, <3>5 DEF Memory!Contract!Refresh
  <2>2. CASE ~Memory!StillHolds(l)
    <3>1. holders' = holders /\ now' = now /\ answer' = [answer EXCEPT ![l] = "lost"]
      BY <1>6, <2>2 DEF Memory!Refresh, Memory!Tell
    <3>2. Memory!OwnerOf' = Memory!OwnerOf
      BY <3>1 DEF Memory!OwnerOf, Memory!Held, Memory!IsActive
    <3>3. Memory!OwnerOf[NameOf[l]] # l
      BY <2>2, OwnerType DEF Memory!StillHolds, Memory!Owns, Memory!Held
    <3> QED BY <3>1, <3>2, <3>3 DEF Memory!Contract!Refresh
  <2> QED BY <2>1, <2>2
<1>7. CASE UNCHANGED Memory!vars
  BY <1>7 DEF Memory!vars, Memory!OwnerOf, Memory!Held, Memory!IsActive
<1> QED BY <1>1, <1>2, <1>3, <1>4, <1>5, <1>6, <1>7 DEF Memory!Next, Memory!Contract!Next

(* The in-memory locker does what a Locker promises.                         *)
THEOREM LockerKeepsContract == Memory!Spec => MemoryLocksKeepContract
<1>1. Memory!Init => Memory!Contract!Init
  BY DEF Memory!Init, Memory!Contract!Init, Memory!OwnerOf, Memory!Held
<1>2. Memory!TypeOK /\ Memory!TypeOK' /\ [Memory!Next]_(Memory!vars)
      => [Memory!Contract!Next]_<<Memory!OwnerOf, answer>>
  BY ContractStep
<1> QED BY <1>1, <1>2, TypeInvariance, PTL
    DEF Memory!Spec, MemoryLocksKeepContract, Memory!KeepsContract, Memory!Contract!Spec

HIDE LockersAssumption DEF Memory!LockerAssumption, Memory!Never
-------------------------------------------------------------------------------
(* The MySQL locker.  No two locks use one session, a lock that opens one    *)
(* has none pinned, and what the pool has is nobody's and holds nothing.     *)
Uses(c, o, l) == {c[l], o[l]} \ {NoSession}

Apart(c, o) == \A k, l \in DatabaseLock : Uses(c, o, k) \cap Uses(c, o, l) # {} => k = l

PcAgrees ==
  \A l \in DatabaseLock :
    /\ pc[l] \in {"connect", "ask", "undo"} => connection[l] = NoSession
    /\ pc[l] \in {"verify", "drop", "giveUp"} => connection[l] # NoSession
    /\ pc[l] \in {"ask", "undo"} <=> opening[l] # NoSession

PoolIsClean ==
  \A s \in Session :
    /\ session[s] \in {"pooled", "dead"} => holder # s
    /\ session[s] = "pooled" => \A l \in DatabaseLock : s \notin Uses(connection, opening, l)

MysqlInv == MysqlLocks!TypeOK /\ Apart(connection, opening) /\ PcAgrees /\ PoolIsClean

(* The session s is no longer l's; it may have given up the name, and went   *)
(* back to the pool only if it did, or did not have it.                      *)
LetsGo(l, s) ==
  /\ s \in Session /\ Uses(connection, opening, l) = {s}
  /\ Uses(connection', opening', l) = {}
  /\ \A k \in DatabaseLock \ {l} : connection'[k] = connection[k] /\ opening'[k] = opening[k]
  /\ holder' = holder \/ (holder = s /\ holder' = NoSession)
  /\ \A r \in Session \ {s} : session'[r] = session[r]
  /\ session'[s] = "pooled" => holder' # s
  /\ session'[s] = "dead" => session[s] = "dead"

(* Nobody's session changes.                                                 *)
SameUses == connection' = connection /\ opening' = opening

LEMMA LetsGoKeeps ==
  ASSUME MysqlLocks!MysqlAssumption, MysqlInv, NEW l \in DatabaseLock, NEW s, LetsGo(l, s),
         \A r \in Session : session'[r] \in {"pooled", "used", "broken", "dead"}
  PROVE  Apart(connection', opening') /\ PoolIsClean'
<1>1. Apart(connection', opening')
  <2>1. \A k \in DatabaseLock : Uses(connection', opening', k) \subseteq Uses(connection, opening, k)
    BY DEF LetsGo, Uses
  <2> QED BY <2>1 DEF MysqlInv, Apart
<1>2. ASSUME NEW r \in Session
      PROVE  /\ session'[r] \in {"pooled", "dead"} => holder' # r
             /\ session'[r] = "pooled" => \A k \in DatabaseLock : r \notin Uses(connection', opening', k)
  <2>0. NoSession \notin Session /\ s \in Session
    BY DEF LetsGo, MysqlLocks!MysqlAssumption
  <2>1. CASE r = s
    <3>1. session'[s] \in {"pooled", "dead"} => holder' # s
      BY <2>0 DEF LetsGo, MysqlInv, PoolIsClean
    <3>2. \A k \in DatabaseLock : s \notin Uses(connection', opening', k)
      <4>1. \A k \in DatabaseLock \ {l} : s \notin Uses(connection, opening, k)
        BY DEF MysqlInv, Apart, LetsGo
      <4>2. \A k \in DatabaseLock \ {l} : Uses(connection', opening', k) = Uses(connection, opening, k)
        BY DEF LetsGo, Uses
      <4> QED BY <4>1, <4>2 DEF LetsGo
    <3> QED BY <2>1, <3>1, <3>2
  <2>2. CASE r # s
    <3>1. session'[r] = session[r]
      BY <2>2 DEF LetsGo
    <3>2. \A k \in DatabaseLock : Uses(connection', opening', k) \subseteq Uses(connection, opening, k)
      BY DEF LetsGo, Uses
    <3>3. holder' = r => holder = r
      BY <2>0, <2>2 DEF LetsGo
    <3> QED BY <3>1, <3>2, <3>3 DEF MysqlInv, PoolIsClean
  <2> QED BY <2>1, <2>2
<1> QED BY <1>1, <1>2 DEF PoolIsClean

LEMMA PcKeeps ==
  ASSUME MysqlInv, NEW l \in DatabaseLock, NEW p, pc' = [pc EXCEPT ![l] = p],
         \A k \in DatabaseLock \ {l} : connection'[k] = connection[k] /\ opening'[k] = opening[k],
         p \in {"connect", "ask", "undo"} => connection'[l] = NoSession,
         p \in {"verify", "drop", "giveUp"} => connection'[l] # NoSession,
         p \in {"ask", "undo"} <=> opening'[l] # NoSession
  PROVE  PcAgrees'
<1>1. pc'[l] = p /\ \A k \in DatabaseLock \ {l} : pc'[k] = pc[k]
  BY DEF MysqlInv, MysqlLocks!TypeOK
<1> QED BY <1>1 DEF MysqlInv, PcAgrees

(* A session in use becomes one that is not, or dies.                        *)
LEMMA PoolKeeps ==
  ASSUME MysqlLocks!MysqlAssumption, MysqlInv, SameUses, holder' = holder,
         \A r \in Session : session'[r] = session[r] \/ session'[r] = "broken"
  PROVE  PoolIsClean'
BY DEF MysqlInv, PoolIsClean, SameUses, Uses

LEMMA MysqlInvStep ==
  ASSUME MysqlLocks!MysqlAssumption, MysqlInv, [MysqlLocks!Next]_(MysqlLocks!vars)
  PROVE  MysqlInv'
<1> USE DEF MysqlLocks!Go, MysqlLocks!Return
<1> DEFINE States == {"pooled", "used", "broken", "dead"}
           Places == {"idle", "verify", "drop", "connect", "ask", "undo", "giveUp"}
           Answers2 == {"none", "acquired", "refused", "refreshed", "lost", "released", "error"}
<1>a. /\ holder \in Session \cup {NoSession} /\ session \in [Session -> States]
      /\ connection \in [DatabaseLock -> Session \cup {NoSession}]
      /\ opening \in [DatabaseLock -> Session \cup {NoSession}]
      /\ pc \in [DatabaseLock -> Places] /\ mysqlAnswer \in [DatabaseLock -> Answers2]
      /\ NoSession \notin Session
  BY DEF MysqlInv, MysqlLocks!TypeOK, MysqlLocks!MysqlAssumption
<1>b. /\ Apart(connection, opening) /\ PcAgrees /\ PoolIsClean
  BY DEF MysqlInv
<1>1. ASSUME NEW l \in DatabaseLock, MysqlLocks!AcquireStart(l) PROVE MysqlInv'
  <2>1. /\ UNCHANGED <<holder, session, connection, opening, mysqlAnswer>>
        /\ pc[l] = "idle"
        /\ pc' = [pc EXCEPT ![l] = IF connection[l] # NoSession THEN "verify" ELSE "connect"]
    BY <1>1 DEF MysqlLocks!AcquireStart, MysqlLocks!Pinned
  <2>2. opening[l] = NoSession
    BY <1>b, <2>1 DEF PcAgrees
  <2>3. PcAgrees'
    BY <2>1, <2>2, PcKeeps
  <2> QED BY <1>a, <1>b, <2>1, <2>3, PoolKeeps DEF MysqlInv, MysqlLocks!TypeOK, SameUses
<1>2. ASSUME NEW l \in DatabaseLock, MysqlLocks!Verify(l) PROVE MysqlInv'
  <2>1. /\ UNCHANGED <<holder, connection, opening>> /\ pc[l] = "verify"
        /\ \/ pc' = [pc EXCEPT ![l] = "idle"] /\ mysqlAnswer' = [mysqlAnswer EXCEPT ![l] = "acquired"]
           \/ pc' = [pc EXCEPT ![l] = "drop"] /\ mysqlAnswer' = mysqlAnswer
        /\ session' \in {session, [session EXCEPT ![connection[l]] = "broken"]}
    BY <1>2 DEF MysqlLocks!Verify, MysqlLocks!StatementFails
  <2>2. opening[l] = NoSession /\ connection[l] # NoSession
    BY <1>b, <2>1 DEF PcAgrees
  <2>3. PcAgrees'
    BY <2>1, <2>2, PcKeeps
  <2>4. PoolIsClean'
    BY <1>a, <2>1, PoolKeeps DEF SameUses
  <2>5. MysqlLocks!TypeOK'
    BY <1>a, <2>1 DEF MysqlLocks!TypeOK
  <2> QED BY <1>b, <2>1, <2>3, <2>4, <2>5 DEF MysqlInv
<1>3. ASSUME NEW l \in DatabaseLock, MysqlLocks!Drop(l) PROVE MysqlInv'
  <2> DEFINE s == connection[l]
  <2>1. /\ pc[l] = "drop" /\ pc' = [pc EXCEPT ![l] = "connect"]
        /\ opening' = opening /\ connection' = [connection EXCEPT ![l] = NoSession]
        /\ mysqlAnswer' = mysqlAnswer /\ MysqlLocks!ReleaseAndClose(s)
    BY <1>3 DEF MysqlLocks!Drop, MysqlLocks!Unpin
  <2>2. opening[l] = NoSession /\ s # NoSession
    BY <1>b, <2>1 DEF PcAgrees
  <2>3. /\ holder' = IF session[s] = "used" /\ holder = s THEN NoSession ELSE holder
        /\ session' = [session EXCEPT ![s] = IF @ = "used" THEN "pooled" ELSE @]
    BY <2>1 DEF MysqlLocks!ReleaseAndClose, MysqlLocks!Holds
  <2>4. MysqlLocks!TypeOK'
    BY <1>a, <2>1, <2>3 DEF MysqlLocks!TypeOK
  <2>5. LetsGo(l, s)
    BY <1>a, <1>b, <2>1, <2>2, <2>3 DEF LetsGo, Uses, PoolIsClean
  <2>6. PcAgrees'
    BY <1>a, <2>1, <2>2, PcKeeps
  <2>7. \A r \in Session : session'[r] \in States
    BY <2>4 DEF MysqlLocks!TypeOK
  <2> QED BY <2>1, <2>4, <2>5, <2>6, <2>7, LetsGoKeeps DEF MysqlInv
<1>4. ASSUME NEW l \in DatabaseLock, MysqlLocks!Connect(l) PROVE MysqlInv'
  <2>0. holder' = holder /\ connection' = connection /\ pc[l] = "connect"
        /\ connection[l] = NoSession /\ opening[l] = NoSession
    BY <1>4, <1>b DEF MysqlLocks!Connect, PcAgrees
  <2>1. CASE UNCHANGED <<session, opening>> /\ pc' = [pc EXCEPT ![l] = "idle"]
             /\ mysqlAnswer' = [mysqlAnswer EXCEPT ![l] = "error"]
    <3>1. PcAgrees'
      BY <2>0, <2>1, PcKeeps
    <3> QED BY <1>a, <1>b, <2>0, <2>1, <3>1, PoolKeeps DEF MysqlInv, MysqlLocks!TypeOK, SameUses
  <2>2. ASSUME NEW s \in Session, session[s] = "pooled", session' = [session EXCEPT ![s] = "used"],
               opening' = [opening EXCEPT ![l] = s], pc' = [pc EXCEPT ![l] = "ask"],
               mysqlAnswer' = mysqlAnswer
        PROVE  MysqlInv'
    <3>1. MysqlLocks!TypeOK'
      BY <1>a, <2>0, <2>2 DEF MysqlLocks!TypeOK
    <3>2. PcAgrees'
      BY <1>a, <2>0, <2>2, PcKeeps
    <3>3. \A k \in DatabaseLock : Uses(connection', opening', k) = IF k = l THEN {s} ELSE Uses(connection, opening, k)
      BY <1>a, <2>0, <2>2 DEF Uses
    <3>4. \A k \in DatabaseLock : s \notin Uses(connection, opening, k)
      BY <1>b, <2>2 DEF PoolIsClean
    <3>5. Apart(connection', opening')
      BY <1>b, <3>3, <3>4 DEF Apart
    <3>6. PoolIsClean'
      <4>1. session'[s] = "used" /\ \A r \in Session \ {s} : session'[r] = session[r]
        BY <1>a, <2>2
      <4>2. \A r \in Session \ {s}, k \in DatabaseLock :
              r \in Uses(connection', opening', k) => r \in Uses(connection, opening, k)
        BY <3>3
      <4> QED BY <1>b, <2>0, <4>1, <4>2 DEF PoolIsClean
    <3> QED BY <3>1, <3>2, <3>5, <3>6 DEF MysqlInv
  <2> QED BY <1>4, <2>1, <2>2 DEF MysqlLocks!Connect
<1>5. ASSUME NEW l \in DatabaseLock, MysqlLocks!AskGranted(l) PROVE MysqlInv'
  <2> DEFINE s == opening[l]
  <2>1. /\ pc[l] = "ask" /\ session[s] = "used" /\ holder \in {NoSession, s} /\ holder' = s
        /\ connection' = [connection EXCEPT ![l] = s] /\ opening' = [opening EXCEPT ![l] = NoSession]
        /\ pc' = [pc EXCEPT ![l] = "idle"] /\ mysqlAnswer' = [mysqlAnswer EXCEPT ![l] = "acquired"]
        /\ session' = session
    BY <1>5 DEF MysqlLocks!AskGranted, MysqlLocks!Grants
  <2>2. connection[l] = NoSession /\ s # NoSession
    BY <1>b, <2>1 DEF PcAgrees
  <2>3. MysqlLocks!TypeOK'
    BY <1>a, <2>1 DEF MysqlLocks!TypeOK
  <2>4. PcAgrees'
    BY <1>a, <2>1, PcKeeps
  <2>5. \A k \in DatabaseLock : Uses(connection', opening', k) = Uses(connection, opening, k)
    BY <1>a, <2>1, <2>2 DEF Uses
  <2>6. Apart(connection', opening')
    BY <1>b, <2>5 DEF Apart
  <2>7. PoolIsClean'
    BY <1>b, <2>1, <2>5 DEF PoolIsClean
  <2> QED BY <2>3, <2>4, <2>6, <2>7 DEF MysqlInv
<1>6. ASSUME NEW l \in DatabaseLock, MysqlLocks!AskRefused(l) PROVE MysqlInv'
  <2> DEFINE s == opening[l]
  <2>1. /\ pc[l] = "ask" /\ session[s] = "used" /\ holder \notin {NoSession, s} /\ holder' = holder
        /\ connection' = connection /\ opening' = [opening EXCEPT ![l] = NoSession]
        /\ pc' = [pc EXCEPT ![l] = "idle"] /\ mysqlAnswer' = [mysqlAnswer EXCEPT ![l] = "refused"]
        /\ session' = [session EXCEPT ![s] = "pooled"]
    BY <1>6 DEF MysqlLocks!AskRefused, MysqlLocks!Grants
  <2>2. connection[l] = NoSession /\ s # NoSession
    BY <1>b, <2>1 DEF PcAgrees
  <2>3. MysqlLocks!TypeOK'
    BY <1>a, <2>1 DEF MysqlLocks!TypeOK
  <2>4. PcAgrees'
    BY <1>a, <2>1, <2>2, PcKeeps
  <2>5. LetsGo(l, s)
    BY <1>a, <2>1, <2>2 DEF LetsGo, Uses
  <2>6. \A r \in Session : session'[r] \in States
    BY <2>3 DEF MysqlLocks!TypeOK
  <2> QED BY <2>3, <2>4, <2>5, <2>6, LetsGoKeeps DEF MysqlInv
<1>7. ASSUME NEW l \in DatabaseLock, MysqlLocks!AskFails(l) PROVE MysqlInv'
  <2> DEFINE s == opening[l]
  <2>1. /\ pc[l] = "ask" /\ connection' = connection /\ opening' = opening
        /\ \/ holder' = holder
           \/ holder' = s /\ session[s] = "used"
        /\ session' \in {session, [session EXCEPT ![s] = "broken"]}
        /\ pc' = [pc EXCEPT ![l] = "undo"] /\ mysqlAnswer' = mysqlAnswer
    BY <1>7 DEF MysqlLocks!AskFails, MysqlLocks!Grants, MysqlLocks!StatementFails
  <2>2. connection[l] = NoSession /\ s # NoSession
    BY <1>b, <2>1 DEF PcAgrees
  <2>3. MysqlLocks!TypeOK'
    BY <1>a, <2>1 DEF MysqlLocks!TypeOK
  <2>4. PcAgrees'
    BY <2>1, <2>2, PcKeeps
  <2>5. PoolIsClean'
    BY <1>a, <1>b, <2>1 DEF PoolIsClean
  <2> QED BY <1>b, <2>1, <2>3, <2>4, <2>5 DEF MysqlInv
<1>8. ASSUME NEW l \in DatabaseLock, MysqlLocks!Undo(l) PROVE MysqlInv'
  <2> DEFINE s == opening[l]
  <2>1. /\ pc[l] = "undo" /\ pc' = [pc EXCEPT ![l] = "idle"]
        /\ connection' = connection /\ opening' = [opening EXCEPT ![l] = NoSession]
        /\ mysqlAnswer' = [mysqlAnswer EXCEPT ![l] = "error"] /\ MysqlLocks!ReleaseAndClose(s)
    BY <1>8 DEF MysqlLocks!Undo
  <2>2. connection[l] = NoSession /\ s # NoSession
    BY <1>b, <2>1 DEF PcAgrees
  <2>3. /\ holder' = IF session[s] = "used" /\ holder = s THEN NoSession ELSE holder
        /\ session' = [session EXCEPT ![s] = IF @ = "used" THEN "pooled" ELSE @]
    BY <2>1 DEF MysqlLocks!ReleaseAndClose, MysqlLocks!Holds
  <2>4. MysqlLocks!TypeOK'
    BY <1>a, <2>1, <2>3 DEF MysqlLocks!TypeOK
  <2>5. LetsGo(l, s)
    BY <1>a, <1>b, <2>1, <2>2, <2>3 DEF LetsGo, Uses, PoolIsClean
  <2>6. PcAgrees'
    BY <1>a, <2>1, <2>2, PcKeeps
  <2>7. \A r \in Session : session'[r] \in States
    BY <2>4 DEF MysqlLocks!TypeOK
  <2> QED BY <2>1, <2>4, <2>5, <2>6, <2>7, LetsGoKeeps DEF MysqlInv
<1>9. ASSUME NEW l \in DatabaseLock, MysqlLocks!Release(l) PROVE MysqlInv'
  <2> DEFINE s == connection[l]
  <2>1. /\ pc[l] = "idle" /\ pc' = [pc EXCEPT ![l] = "idle"] /\ opening' = opening
        /\ connection' = [connection EXCEPT ![l] = NoSession]
        /\ mysqlAnswer' \in {[mysqlAnswer EXCEPT ![l] = "released"], [mysqlAnswer EXCEPT ![l] = "error"]}
        /\ \/ s = NoSession /\ UNCHANGED <<holder, session>>
           \/ s # NoSession /\ MysqlLocks!ReleaseAndClose(s)
           \/ /\ s # NoSession /\ holder' = holder
              /\ session' = [session EXCEPT ![s] = IF @ = "used" THEN "broken" ELSE @]
    BY <1>9 DEF MysqlLocks!Release, MysqlLocks!Unpin, MysqlLocks!Pinned
  <2>2. opening[l] = NoSession
    BY <1>b, <2>1 DEF PcAgrees
  <2>3. \/ s = NoSession /\ UNCHANGED <<holder, session>>
        \/ /\ s # NoSession
           /\ holder' = IF session[s] = "used" /\ holder = s THEN NoSession ELSE holder
           /\ session' = [session EXCEPT ![s] = IF @ = "used" THEN "pooled" ELSE @]
        \/ /\ s # NoSession /\ holder' = holder
           /\ session' = [session EXCEPT ![s] = IF @ = "used" THEN "broken" ELSE @]
    BY <2>1 DEF MysqlLocks!ReleaseAndClose, MysqlLocks!Holds
  <2>4. MysqlLocks!TypeOK'
    BY <1>a, <2>1, <2>3 DEF MysqlLocks!TypeOK
  <2>5. PcAgrees'
    BY <1>a, <2>1, <2>2, PcKeeps
  <2>6. \A r \in Session : session'[r] \in States
    BY <2>4 DEF MysqlLocks!TypeOK
  <2>7. CASE s = NoSession
    <3>1. connection' = connection /\ UNCHANGED <<holder, session>>
      BY <1>a, <2>1, <2>3, <2>7
    <3> QED BY <1>b, <2>1, <2>4, <2>5, <3>1, PoolKeeps DEF MysqlInv, SameUses
  <2>8. CASE s # NoSession
    <3>1. LetsGo(l, s)
      BY <1>a, <1>b, <2>1, <2>2, <2>3, <2>8 DEF LetsGo, Uses, PoolIsClean
    <3> QED BY <2>4, <2>5, <2>6, <3>1, LetsGoKeeps DEF MysqlInv
  <2> QED BY <2>7, <2>8
<1>10. ASSUME NEW l \in DatabaseLock, MysqlLocks!Refresh(l) PROVE MysqlInv'
  <2> DEFINE s == connection[l]
  <2>1. /\ pc[l] = "idle" /\ UNCHANGED <<holder, opening>> /\ opening[l] = NoSession
    BY <1>10, <1>b DEF MysqlLocks!Refresh, PcAgrees
  <2>2. \/ /\ UNCHANGED <<session, connection>> /\ pc' = [pc EXCEPT ![l] = "idle"]
           /\ mysqlAnswer' \in {[mysqlAnswer EXCEPT ![l] = "lost"], [mysqlAnswer EXCEPT ![l] = "refreshed"]}
        \/ /\ s # NoSession /\ session[s] = "used" /\ holder # s
           /\ connection' = [connection EXCEPT ![l] = NoSession]
           /\ session' = [session EXCEPT ![s] = IF @ = "used" THEN "pooled" ELSE @]
           /\ pc' = [pc EXCEPT ![l] = "idle"] /\ mysqlAnswer' = [mysqlAnswer EXCEPT ![l] = "lost"]
        \/ /\ s # NoSession /\ connection' = connection
           /\ session' \in {session, [session EXCEPT ![s] = "broken"]}
           /\ pc' = [pc EXCEPT ![l] = "giveUp"] /\ mysqlAnswer' = mysqlAnswer
    BY <1>10 DEF MysqlLocks!Refresh, MysqlLocks!Pinned, MysqlLocks!VerifiedHeld, MysqlLocks!Holds,
                 MysqlLocks!CloseLost, MysqlLocks!Unpin, MysqlLocks!StatementFails
  <2>3. MysqlLocks!TypeOK'
    BY <1>a, <2>1, <2>2 DEF MysqlLocks!TypeOK
  <2>4. PcAgrees'
    BY <1>a, <2>1, <2>2, PcKeeps
  <2>5. CASE connection' = connection /\ session' \in {session, [session EXCEPT ![s] = "broken"]}
    <3>1. PoolIsClean'
      BY <1>a, <2>1, <2>5, PoolKeeps DEF SameUses
    <3> QED BY <1>b, <2>1, <2>3, <2>4, <2>5, <3>1 DEF MysqlInv
  <2>6. CASE /\ s # NoSession /\ session[s] = "used" /\ holder # s
             /\ connection' = [connection EXCEPT ![l] = NoSession]
             /\ session' = [session EXCEPT ![s] = IF @ = "used" THEN "pooled" ELSE @]
    <3>1. LetsGo(l, s)
      BY <1>a, <2>1, <2>6 DEF LetsGo, Uses
    <3>2. \A r \in Session : session'[r] \in States
      BY <2>3 DEF MysqlLocks!TypeOK
    <3> QED BY <2>3, <2>4, <3>1, <3>2, LetsGoKeeps DEF MysqlInv
  <2> QED BY <2>2, <2>5, <2>6
<1>11. ASSUME NEW l \in DatabaseLock, MysqlLocks!GiveUp(l) PROVE MysqlInv'
  <2> DEFINE s == connection[l]
  <2>1. /\ pc[l] = "giveUp" /\ pc' = [pc EXCEPT ![l] = "idle"]
        /\ opening' = opening /\ connection' = [connection EXCEPT ![l] = NoSession]
        /\ mysqlAnswer' = [mysqlAnswer EXCEPT ![l] = "error"] /\ MysqlLocks!ReleaseAndClose(s)
    BY <1>11 DEF MysqlLocks!GiveUp, MysqlLocks!Unpin
  <2>2. opening[l] = NoSession /\ s # NoSession
    BY <1>b, <2>1 DEF PcAgrees
  <2>3. /\ holder' = IF session[s] = "used" /\ holder = s THEN NoSession ELSE holder
        /\ session' = [session EXCEPT ![s] = IF @ = "used" THEN "pooled" ELSE @]
    BY <2>1 DEF MysqlLocks!ReleaseAndClose, MysqlLocks!Holds
  <2>4. MysqlLocks!TypeOK'
    BY <1>a, <2>1, <2>3 DEF MysqlLocks!TypeOK
  <2>5. LetsGo(l, s)
    BY <1>a, <1>b, <2>1, <2>2, <2>3 DEF LetsGo, Uses, PoolIsClean
  <2>6. PcAgrees'
    BY <1>a, <2>1, <2>2, PcKeeps
  <2>7. \A r \in Session : session'[r] \in States
    BY <2>4 DEF MysqlLocks!TypeOK
  <2> QED BY <2>1, <2>4, <2>5, <2>6, <2>7, LetsGoKeeps DEF MysqlInv
<1>12. ASSUME NEW s \in Session, MysqlLocks!SessionDies(s) PROVE MysqlInv'
  <2>1. /\ session' = [session EXCEPT ![s] = "dead"]
        /\ holder' = IF holder = s THEN NoSession ELSE holder
        /\ UNCHANGED <<connection, opening, pc, mysqlAnswer>>
    BY <1>12 DEF MysqlLocks!SessionDies
  <2>2. MysqlLocks!TypeOK'
    BY <1>a, <2>1 DEF MysqlLocks!TypeOK
  <2>3. PoolIsClean'
    BY <1>a, <1>b, <2>1 DEF PoolIsClean
  <2> QED BY <1>b, <2>1, <2>2, <2>3 DEF MysqlInv, PcAgrees
<1>13. ASSUME NEW s \in Session, MysqlLocks!NewSession(s) PROVE MysqlInv'
  <2>1. /\ session[s] = "dead" /\ session' = [session EXCEPT ![s] = "pooled"]
        /\ \A l \in DatabaseLock : s \notin {connection[l], opening[l]}
        /\ UNCHANGED <<holder, connection, opening, pc, mysqlAnswer>>
    BY <1>13 DEF MysqlLocks!NewSession, MysqlLocks!Referenced
  <2>2. MysqlLocks!TypeOK'
    BY <1>a, <2>1 DEF MysqlLocks!TypeOK
  <2>3. PoolIsClean'
    BY <1>a, <1>b, <2>1 DEF PoolIsClean, Uses
  <2> QED BY <1>b, <2>1, <2>2, <2>3 DEF MysqlInv, PcAgrees
<1>14. CASE MysqlLocks!ForcedRelease
  <2>1. holder' = NoSession /\ UNCHANGED <<session, connection, opening, pc, mysqlAnswer>>
    BY <1>14 DEF MysqlLocks!ForcedRelease
  <2>2. MysqlLocks!TypeOK'
    BY <1>a, <2>1 DEF MysqlLocks!TypeOK
  <2>3. PoolIsClean'
    BY <1>a, <1>b, <2>1 DEF PoolIsClean
  <2> QED BY <1>b, <2>1, <2>2, <2>3 DEF MysqlInv, PcAgrees
<1>15. CASE UNCHANGED MysqlLocks!vars
  <2>1. UNCHANGED <<holder, session, connection, opening, pc, mysqlAnswer>>
    BY <1>15 DEF MysqlLocks!vars
  <2> QED BY <1>a, <1>b, <2>1 DEF MysqlInv, PcAgrees, PoolIsClean, MysqlLocks!TypeOK
<1> QED BY <1>1, <1>2, <1>3, <1>4, <1>5, <1>6, <1>7, <1>8, <1>9, <1>10, <1>11, <1>12, <1>13,
           <1>14, <1>15
        DEF MysqlLocks!Next, MysqlLocks!Call
-------------------------------------------------------------------------------
(* Who has the name, in the terms of the contract.                           *)
Owners(h, c, o) == {l \in DatabaseLock : h # NoSession /\ h \in {c[l], o[l]}}

OwnerFor(h, c, o) ==
  IF h = NoSession THEN NoHolder
  ELSE IF Owners(h, c, o) = {} THEN Stray ELSE CHOOSE l \in Owners(h, c, o) : TRUE

Who == OwnerFor(holder, connection, opening)

MysqlOwner == [n \in {TheName} |-> MysqlLocks!OwnerOf]

LEMMA MysqlOwnerIs ==
  /\ MysqlOwner = [n \in {TheName} |-> Who]
  /\ MysqlOwner' = [n \in {TheName} |-> Who']
BY DEF MysqlOwner, MysqlLocks!OwnerOf, MysqlLocks!Owners, Who, OwnerFor, Owners

LEMMA OwnerForIs ==
  ASSUME MysqlLocks!MysqlAssumption, NEW h, NEW c, NEW o, Apart(c, o)
  PROVE  /\ OwnerFor(h, c, o) = NoHolder <=> h = NoSession
         /\ \A l \in DatabaseLock : OwnerFor(h, c, o) = l <=> h \in Uses(c, o, l)
         /\ OwnerFor(h, c, o) = Stray <=> h # NoSession /\ \A l \in DatabaseLock : h \notin Uses(c, o, l)
<1> DEFINE owners == Owners(h, c, o)
<1>0. owners = {l \in DatabaseLock : h \in Uses(c, o, l)}
  BY DEF Owners, Uses
<1>1. OwnerFor(h, c, o) = IF h = NoSession THEN NoHolder
                          ELSE IF owners = {} THEN Stray ELSE CHOOSE l \in owners : TRUE
  BY DEF OwnerFor
<1> HIDE DEF owners
<1>2. \A k, l \in owners : k = l
  BY <1>0 DEF Apart
<1>3. h = NoSession => owners = {}
  BY <1>0 DEF Uses
<1>4. owners # {} => (CHOOSE l \in owners : TRUE) \in owners
  OBVIOUS
<1>5. NoHolder \notin DatabaseLock /\ Stray \notin DatabaseLock /\ Stray # NoHolder
  BY DEF MysqlLocks!MysqlAssumption
<1>6. \A l \in DatabaseLock : l \in owners <=> h \in Uses(c, o, l)
  BY <1>0
<1>7. owners \subseteq DatabaseLock
  BY <1>0
<1>8. CASE h = NoSession
  BY <1>1, <1>3, <1>5, <1>6, <1>8
<1>9. CASE h # NoSession /\ owners = {}
  BY <1>1, <1>5, <1>6, <1>9
<1>10. CASE h # NoSession /\ owners # {}
  BY <1>1, <1>2, <1>4, <1>5, <1>6, <1>7, <1>10
<1> QED BY <1>8, <1>9, <1>10

(* What a step does for the contract follows from who has the name before    *)
(* and after it, and the answer.                                             *)
Told(l, a) == mysqlAnswer' = [mysqlAnswer EXCEPT ![l] = a]

LEMMA MysqlPromises ==
  ASSUME NEW l \in DatabaseLock
  PROVE  /\ Who \in {NoHolder, l} /\ Who' = l /\ Told(l, "acquired") => MysqlLocks!Contract!Acquire(l)
         /\ Who \notin {NoHolder, l} /\ Who' = Who /\ Told(l, "refused") => MysqlLocks!Contract!Acquire(l)
         /\ Who = l /\ Who' = Who /\ Told(l, "refreshed") => MysqlLocks!Contract!Refresh(l)
         /\ Who # l /\ Who' = Who /\ Told(l, "lost") => MysqlLocks!Contract!Refresh(l)
         /\ Who' = (IF Who = l THEN NoHolder ELSE Who) /\ Told(l, "released") =>
              MysqlLocks!Contract!Release(l)
         /\ /\ Who' = Who \/ (Who = NoHolder /\ Who' = l) \/ (Who = l /\ Who' \in {NoHolder, Stray})
            /\ mysqlAnswer' = mysqlAnswer \/ Told(l, "error")
            => MysqlLocks!Contract!Fail(l)
<1> DEFINE before == [n \in {TheName} |-> Who]
           after == [n \in {TheName} |-> Who']
<1>1. /\ [k \in DatabaseLock |-> TheName][l] = TheName /\ before[TheName] = Who
      /\ \A x : [before EXCEPT ![TheName] = x] = [n \in {TheName} |-> x]
      /\ Who' = Who => after = before
  OBVIOUS
<1>2. MysqlOwner = before /\ MysqlOwner' = after
  BY MysqlOwnerIs
<1> HIDE DEF before, after
<1>3. /\ MysqlOwner[TheName] = Who /\ [k \in DatabaseLock |-> TheName][l] = TheName
      /\ Who' = Who => MysqlOwner' = MysqlOwner
      /\ MysqlOwner' = [MysqlOwner EXCEPT ![TheName] = Who']
  BY <1>1, <1>2 DEF after
<1>4. /\ [n \in {TheName} |-> MysqlLocks!OwnerOf] = MysqlOwner
      /\ [n \in {TheName} |-> MysqlLocks!OwnerOf]' = MysqlOwner'
  BY DEF MysqlOwner
<1> QED BY <1>3
        DEF MysqlOwner, Told, MysqlLocks!Contract!Acquire, MysqlLocks!Contract!Refresh,
            MysqlLocks!Contract!Release, MysqlLocks!Contract!Fail, MysqlLocks!Contract!Keep,
            MysqlLocks!Contract!Own, MysqlLocks!Contract!Free, MysqlLocks!Contract!Tell

(* A call that lets its session go gives the name up, or leaves it stray.    *)
LEMMA LetsGoTells ==
  ASSUME MysqlLocks!MysqlAssumption, MysqlInv, MysqlInv', NEW l \in DatabaseLock, NEW s, LetsGo(l, s)
  PROVE  /\ Who = l <=> holder = s
         /\ holder # s => Who' = Who
         /\ holder = s => Who' = IF holder' = NoSession THEN NoHolder ELSE Stray
<1>1. /\ Uses(connection, opening, l) = {s} /\ Uses(connection', opening', l) = {}
      /\ \A k \in DatabaseLock \ {l} : Uses(connection', opening', k) = Uses(connection, opening, k)
      /\ \A k \in DatabaseLock \ {l} : s \notin Uses(connection, opening, k)
      /\ s \in Session /\ s # NoSession
  BY DEF LetsGo, Uses, MysqlInv, Apart, MysqlLocks!MysqlAssumption
<1>2. /\ Who = NoHolder <=> holder = NoSession
      /\ \A k \in DatabaseLock : Who = k <=> holder \in Uses(connection, opening, k)
      /\ Who = Stray <=> holder # NoSession /\ \A k \in DatabaseLock : holder \notin Uses(connection, opening, k)
  BY OwnerForIs, Zenon DEF Who, MysqlInv
<1>3. /\ Who' = NoHolder <=> holder' = NoSession
      /\ \A k \in DatabaseLock : Who' = k <=> holder' \in Uses(connection', opening', k)
      /\ Who' = Stray <=> holder' # NoSession /\ \A k \in DatabaseLock : holder' \notin Uses(connection', opening', k)
  BY OwnerForIs, Zenon DEF Who, MysqlInv
<1>4. Who = l <=> holder = s
  BY <1>1, <1>2
<1>5. CASE holder = s
  BY <1>1, <1>3, <1>4, <1>5 DEF LetsGo
<1>6. CASE holder # s
  <2>1. holder' = holder
    BY <1>6 DEF LetsGo
  <2>2. \A k \in DatabaseLock : holder \in Uses(connection', opening', k) <=> holder \in Uses(connection, opening, k)
    BY <1>1, <1>6
  <2>3. Who' = Who
    BY <1>2, <1>3, <2>1, <2>2
  <2> QED BY <1>4, <1>6, <2>3
<1> QED BY <1>5, <1>6

(* Who' follows the sessions in use when nobody's changes.                   *)
LEMMA WhoKeeps ==
  ASSUME SameUses, holder' = holder
  PROVE  Who' = Who
BY DEF SameUses, Who

(* Giving a session back lets it go, whichever way that turns out.           *)
GivesBack(s) ==
  \/ MysqlLocks!ReleaseAndClose(s)
  \/ holder' = holder /\ session' = [session EXCEPT ![s] = IF @ = "used" THEN "broken" ELSE @]
  \/ /\ holder' = holder /\ holder # s
     /\ session' = [session EXCEPT ![s] = IF @ = "used" THEN "pooled" ELSE @]

LEMMA GivesBackLetsGo ==
  ASSUME MysqlLocks!MysqlAssumption, MysqlInv, NEW l \in DatabaseLock, NEW s, GivesBack(s), s # NoSession,
         \/ /\ connection[l] = s /\ connection' = [connection EXCEPT ![l] = NoSession]
            /\ opening[l] = NoSession /\ opening' = opening
         \/ /\ opening[l] = s /\ opening' = [opening EXCEPT ![l] = NoSession]
            /\ connection[l] = NoSession /\ connection' = connection
  PROVE  LetsGo(l, s)
<1>1. /\ holder \in Session \cup {NoSession} /\ session \in [Session -> {"pooled", "used", "broken", "dead"}]
      /\ connection \in [DatabaseLock -> Session \cup {NoSession}]
      /\ opening \in [DatabaseLock -> Session \cup {NoSession}] /\ NoSession \notin Session /\ PoolIsClean
  BY DEF MysqlInv, MysqlLocks!TypeOK, MysqlLocks!MysqlAssumption
<1>2. /\ s \in Session /\ Uses(connection, opening, l) = {s} /\ Uses(connection', opening', l) = {}
      /\ \A k \in DatabaseLock \ {l} : connection'[k] = connection[k] /\ opening'[k] = opening[k]
  BY <1>1 DEF Uses
<1>3. \/ /\ holder' = IF session[s] = "used" /\ holder = s THEN NoSession ELSE holder
         /\ session' = [session EXCEPT ![s] = IF @ = "used" THEN "pooled" ELSE @]
      \/ holder' = holder /\ session' = [session EXCEPT ![s] = IF @ = "used" THEN "broken" ELSE @]
      \/ /\ holder' = holder /\ holder # s
         /\ session' = [session EXCEPT ![s] = IF @ = "used" THEN "pooled" ELSE @]
  BY DEF GivesBack, MysqlLocks!ReleaseAndClose, MysqlLocks!Holds
<1>4. holder' = holder \/ (holder = s /\ holder' = NoSession)
  BY <1>3
<1>5. /\ \A r \in Session \ {s} : session'[r] = session[r]
      /\ session'[s] = "pooled" => holder' # s
      /\ session'[s] = "dead" => session[s] = "dead"
  BY <1>1, <1>2, <1>3 DEF PoolIsClean
<1> QED BY <1>2, <1>4, <1>5 DEF LetsGo

LEMMA MysqlStep ==
  ASSUME MysqlLocks!MysqlAssumption, MysqlInv, MysqlInv', [MysqlLocks!Next]_(MysqlLocks!vars)
  PROVE  [MysqlLocks!Contract!Next]_<<MysqlOwner, mysqlAnswer>>
<1> DEFINE Done == [MysqlLocks!Contract!Next]_<<MysqlOwner, mysqlAnswer>>
           Stutters == Who' = Who /\ mysqlAnswer' = mysqlAnswer
<1>a. Stutters => Done
  BY MysqlOwnerIs
<1>b. \A l \in DatabaseLock : (MysqlLocks!Contract!Acquire(l) \/ MysqlLocks!Contract!Refresh(l)
                         \/ MysqlLocks!Contract!Release(l) \/ MysqlLocks!Contract!Fail(l)) => Done
  BY DEF MysqlLocks!Contract!Next
<1>c. MysqlLocks!Contract!Lose => Done
  BY DEF MysqlLocks!Contract!Next
<1>d. /\ NoSession \notin Session /\ NoHolder \notin DatabaseLock /\ Stray \notin DatabaseLock /\ Stray # NoHolder
      /\ connection \in [DatabaseLock -> Session \cup {NoSession}]
      /\ opening \in [DatabaseLock -> Session \cup {NoSession}]
      /\ mysqlAnswer \in [DatabaseLock -> {"none", "acquired", "refused", "refreshed", "lost", "released", "error"}]
      /\ PcAgrees
  BY DEF MysqlInv, MysqlLocks!TypeOK, MysqlLocks!MysqlAssumption
<1>e. /\ Who = NoHolder <=> holder = NoSession
      /\ \A l \in DatabaseLock : Who = l <=> holder \in Uses(connection, opening, l)
      /\ Who = Stray <=> holder # NoSession /\ \A l \in DatabaseLock : holder \notin Uses(connection, opening, l)
  BY OwnerForIs, Zenon DEF Who, MysqlInv
<1>f. /\ Who' = NoHolder <=> holder' = NoSession
      /\ \A l \in DatabaseLock : Who' = l <=> holder' \in Uses(connection', opening', l)
      /\ Who' = Stray <=> holder' # NoSession /\ \A l \in DatabaseLock : holder' \notin Uses(connection', opening', l)
  BY OwnerForIs, Zenon DEF Who, MysqlInv
<1> SUFFICES Done
  OBVIOUS
<1> HIDE DEF Done
<1>1. ASSUME NEW l \in DatabaseLock, MysqlLocks!AcquireStart(l) PROVE Done
  BY <1>1, <1>a, WhoKeeps DEF MysqlLocks!AcquireStart, MysqlLocks!Go, SameUses
<1>2. ASSUME NEW l \in DatabaseLock, MysqlLocks!Verify(l) PROVE Done
  <2>1. SameUses /\ holder' = holder
    BY <1>2 DEF MysqlLocks!Verify, SameUses
  <2>2. CASE mysqlAnswer' = mysqlAnswer
    BY <2>1, <2>2, <1>a, WhoKeeps
  <2>3. CASE Told(l, "acquired") /\ MysqlLocks!VerifiedHeld(l)
    <3>1. Who = l /\ Who' = l
      BY <2>1, <2>3, <1>d, <1>e, WhoKeeps DEF MysqlLocks!VerifiedHeld, MysqlLocks!Pinned, MysqlLocks!Holds, Uses
    <3> QED BY <2>3, <3>1, <1>b, MysqlPromises
  <2> QED BY <1>2, <2>2, <2>3 DEF MysqlLocks!Verify, MysqlLocks!Go, MysqlLocks!Return, Told
<1>3. ASSUME NEW l \in DatabaseLock, NEW s, LetsGo(l, s), mysqlAnswer' = mysqlAnswer \/ Told(l, "error")
      PROVE  Done
  <2>1. /\ Who = l <=> holder = s
        /\ holder # s => Who' = Who
        /\ holder = s => Who' \in {NoHolder, Stray}
    BY <1>3, LetsGoTells, Zenon
  <2> QED BY <1>3, <2>1, <1>b, MysqlPromises
<1>4. ASSUME NEW l \in DatabaseLock, MysqlLocks!Drop(l) PROVE Done
  <2>1. opening[l] = NoSession /\ connection[l] # NoSession
    BY <1>4, <1>d DEF MysqlLocks!Drop, PcAgrees
  <2>2. /\ GivesBack(connection[l]) /\ opening' = opening /\ mysqlAnswer' = mysqlAnswer
        /\ connection' = [connection EXCEPT ![l] = NoSession]
    BY <1>4 DEF MysqlLocks!Drop, MysqlLocks!Unpin, MysqlLocks!Go, GivesBack
  <2>3. LetsGo(l, connection[l])
    BY <2>1, <2>2, GivesBackLetsGo
  <2> QED BY <1>3, <2>2, <2>3
<1>5. ASSUME NEW l \in DatabaseLock, MysqlLocks!Connect(l) PROVE Done
  <2>1. /\ holder' = holder /\ connection' = connection
        /\ \/ opening' = opening /\ Told(l, "error")
           \/ /\ mysqlAnswer' = mysqlAnswer
              /\ \E s \in Session : session[s] = "pooled" /\ opening' = [opening EXCEPT ![l] = s]
    BY <1>5 DEF MysqlLocks!Connect, MysqlLocks!Go, MysqlLocks!Return, Told
  <2>2. CASE opening' = opening /\ Told(l, "error")
    <3>1. Who' = Who
      BY <2>1, <2>2, WhoKeeps DEF SameUses
    <3> QED BY <2>2, <3>1, <1>b, MysqlPromises
  <2>3. ASSUME NEW s \in Session, session[s] = "pooled", opening' = [opening EXCEPT ![l] = s],
               mysqlAnswer' = mysqlAnswer
        PROVE  Done
    <3>1. holder # s
      BY <2>3 DEF MysqlInv, PoolIsClean
    <3>2. opening[l] = NoSession
      BY <1>5, <1>d DEF MysqlLocks!Connect, PcAgrees
    <3>3. \A k \in DatabaseLock : Uses(connection', opening', k) = IF k = l THEN Uses(connection, opening, l) \cup {s}
                                                          ELSE Uses(connection, opening, k)
      BY <1>d, <2>1, <2>3, <3>2 DEF Uses
    <3>4. \A k \in DatabaseLock : holder' \in Uses(connection', opening', k) <=> holder \in Uses(connection, opening, k)
      BY <2>1, <3>1, <3>3
    <3>5. Who' = Who
      BY <1>e, <1>f, <2>1, <3>4
    <3> QED BY <2>3, <3>5, <1>a
  <2> QED BY <2>1, <2>2, <2>3
<1>6. ASSUME NEW l \in DatabaseLock, MysqlLocks!AskGranted(l) PROVE Done
  <2> DEFINE s == opening[l]
  <2>1. /\ pc[l] = "ask" /\ holder \in {NoSession, s} /\ holder' = s /\ Told(l, "acquired")
        /\ connection' = [connection EXCEPT ![l] = s]
    BY <1>6 DEF MysqlLocks!AskGranted, MysqlLocks!Grants, MysqlLocks!Return, Told
  <2>2. s # NoSession
    BY <1>d, <2>1 DEF PcAgrees
  <2>3. Who' = l
    BY <1>d, <1>f, <2>1, <2>2 DEF Uses
  <2>4. Who \in {NoHolder, l}
    BY <1>e, <2>1, <2>2 DEF Uses
  <2> QED BY <2>1, <2>3, <2>4, <1>b, MysqlPromises
<1>7. ASSUME NEW l \in DatabaseLock, MysqlLocks!AskRefused(l) PROVE Done
  <2> DEFINE s == opening[l]
  <2>1. /\ pc[l] = "ask" /\ session[s] = "used" /\ holder \notin {NoSession, s} /\ holder' = holder
        /\ connection' = connection /\ opening' = [opening EXCEPT ![l] = NoSession]
        /\ Told(l, "refused") /\ session' = [session EXCEPT ![s] = "pooled"]
    BY <1>7 DEF MysqlLocks!AskRefused, MysqlLocks!Grants, MysqlLocks!Return, Told
  <2>2. connection[l] = NoSession /\ s # NoSession
    BY <1>d, <2>1 DEF PcAgrees
  <2>3. \A k \in DatabaseLock \ {l} : opening'[k] = opening[k]
    BY <1>d, <2>1
  <2>4. opening'[l] = NoSession
    BY <1>d, <2>1
  <2>5. \A k \in DatabaseLock : holder' \in Uses(connection', opening', k) <=> holder \in Uses(connection, opening, k)
    BY <2>1, <2>2, <2>3, <2>4 DEF Uses
  <2>6. Who' = Who
    BY <1>e, <1>f, <2>1, <2>5
  <2>7. Who \notin {NoHolder, l}
    BY <1>e, <2>1, <2>2 DEF Uses
  <2> QED BY <2>1, <2>6, <2>7, <1>b, MysqlPromises
<1>8. ASSUME NEW l \in DatabaseLock, MysqlLocks!AskFails(l) PROVE Done
  <2> DEFINE s == opening[l]
  <2>1. /\ pc[l] = "ask" /\ SameUses /\ mysqlAnswer' = mysqlAnswer
        /\ \/ holder' = holder
           \/ holder' = s /\ holder \in {NoSession, s}
    BY <1>8 DEF MysqlLocks!AskFails, MysqlLocks!Grants, MysqlLocks!Go, SameUses
  <2>2. CASE holder' = holder
    BY <2>1, <2>2, <1>a, WhoKeeps
  <2>3. CASE holder = NoSession /\ holder' = s
    <3>1. s # NoSession
      BY <1>d, <2>1 DEF PcAgrees
    <3>2. Who = NoHolder
      BY <1>e, <2>3
    <3>3. Who' = l
      BY <1>f, <2>1, <2>3, <3>1 DEF Uses, SameUses
    <3> QED BY <2>1, <3>2, <3>3, <1>b, MysqlPromises
  <2> QED BY <2>1, <2>2, <2>3
<1>9. ASSUME NEW l \in DatabaseLock, MysqlLocks!Undo(l) PROVE Done
  <2>1. connection[l] = NoSession /\ opening[l] # NoSession
    BY <1>9, <1>d DEF MysqlLocks!Undo, PcAgrees
  <2>2. /\ GivesBack(opening[l]) /\ connection' = connection /\ Told(l, "error")
        /\ opening' = [opening EXCEPT ![l] = NoSession]
    BY <1>9 DEF MysqlLocks!Undo, MysqlLocks!Return, GivesBack, Told
  <2>3. LetsGo(l, opening[l])
    BY <2>1, <2>2, GivesBackLetsGo
  <2> QED BY <1>3, <2>2, <2>3
<1>10. ASSUME NEW l \in DatabaseLock, MysqlLocks!Release(l) PROVE Done
  <2> DEFINE s == connection[l]
  <2>1. opening[l] = NoSession
    BY <1>10, <1>d DEF MysqlLocks!Release, PcAgrees
  <2>2. /\ connection' = [connection EXCEPT ![l] = NoSession] /\ opening' = opening
        /\ \/ s = NoSession /\ holder' = holder /\ Told(l, "released")
           \/ s # NoSession /\ session[s] = "used" /\ MysqlLocks!ReleaseAndClose(s) /\ Told(l, "released")
           \/ s # NoSession /\ GivesBack(s) /\ Told(l, "error")
    BY <1>10 DEF MysqlLocks!Release, MysqlLocks!Unpin, MysqlLocks!Pinned, MysqlLocks!Return, GivesBack, Told
  <2>3. CASE s = NoSession /\ holder' = holder /\ Told(l, "released")
    <3>1. SameUses
      BY <1>d, <2>2, <2>3 DEF SameUses
    <3>2. Who' = Who
      BY <2>3, <3>1, WhoKeeps
    <3>3. Who # l
      BY <1>e, <2>1, <2>3 DEF Uses
    <3> QED BY <2>3, <3>2, <3>3, <1>b, MysqlPromises
  <2>4. CASE s # NoSession /\ session[s] = "used" /\ MysqlLocks!ReleaseAndClose(s) /\ Told(l, "released")
    <3>1. LetsGo(l, s)
      BY <2>1, <2>2, <2>4, GivesBackLetsGo DEF GivesBack
    <3>2. holder' = IF holder = s THEN NoSession ELSE holder
      BY <2>4 DEF MysqlLocks!ReleaseAndClose, MysqlLocks!Holds
    <3>3. /\ Who = l <=> holder = s
          /\ holder # s => Who' = Who
          /\ holder = s => Who' = IF holder' = NoSession THEN NoHolder ELSE Stray
      BY <3>1, LetsGoTells, Zenon
    <3>4. Who' = IF Who = l THEN NoHolder ELSE Who
      BY <3>2, <3>3
    <3> QED BY <2>4, <3>4, <1>b, MysqlPromises
  <2>5. CASE s # NoSession /\ GivesBack(s) /\ Told(l, "error")
    <3>1. LetsGo(l, s)
      BY <2>1, <2>2, <2>5, GivesBackLetsGo
    <3> QED BY <1>3, <2>5, <3>1
  <2> QED BY <2>2, <2>3, <2>4, <2>5
<1>11. ASSUME NEW l \in DatabaseLock, MysqlLocks!Refresh(l) PROVE Done
  <2> DEFINE s == connection[l]
  <2>1. opening[l] = NoSession /\ holder' = holder /\ opening' = opening
    BY <1>11, <1>d DEF MysqlLocks!Refresh, PcAgrees
  <2>2. \/ s = NoSession /\ connection' = connection /\ Told(l, "lost")
        \/ s # NoSession /\ holder = s /\ connection' = connection /\ Told(l, "refreshed")
        \/ /\ s # NoSession /\ holder # s /\ Told(l, "lost")
           /\ connection' = [connection EXCEPT ![l] = NoSession]
           /\ session' = [session EXCEPT ![s] = IF @ = "used" THEN "pooled" ELSE @]
        \/ connection' = connection /\ mysqlAnswer' = mysqlAnswer
    BY <1>11 DEF MysqlLocks!Refresh, MysqlLocks!Pinned, MysqlLocks!VerifiedHeld, MysqlLocks!Holds,
                 MysqlLocks!CloseLost, MysqlLocks!Unpin, MysqlLocks!Go, MysqlLocks!Return, Told
  <2>3. CASE s = NoSession /\ connection' = connection /\ Told(l, "lost")
    <3>1. Who' = Who
      BY <2>1, <2>3, WhoKeeps DEF SameUses
    <3>2. Who # l
      BY <1>e, <2>1, <2>3 DEF Uses
    <3> QED BY <2>3, <3>1, <3>2, <1>b, MysqlPromises
  <2>4. CASE s # NoSession /\ holder = s /\ connection' = connection /\ Told(l, "refreshed")
    <3>1. Who' = Who
      BY <2>1, <2>4, WhoKeeps DEF SameUses
    <3>2. Who = l
      BY <1>e, <2>4 DEF Uses
    <3> QED BY <2>4, <3>1, <3>2, <1>b, MysqlPromises
  <2>5. CASE /\ s # NoSession /\ holder # s /\ Told(l, "lost")
             /\ connection' = [connection EXCEPT ![l] = NoSession]
             /\ session' = [session EXCEPT ![s] = IF @ = "used" THEN "pooled" ELSE @]
    <3>1. LetsGo(l, s)
      BY <2>1, <2>5, GivesBackLetsGo DEF GivesBack
    <3>2. Who # l /\ Who' = Who
      BY <2>5, <3>1, LetsGoTells
    <3> QED BY <2>5, <3>2, <1>b, MysqlPromises
  <2>6. CASE connection' = connection /\ mysqlAnswer' = mysqlAnswer
    BY <2>1, <2>6, <1>a, WhoKeeps DEF SameUses
  <2> QED BY <2>2, <2>3, <2>4, <2>5, <2>6
<1>12. ASSUME NEW l \in DatabaseLock, MysqlLocks!GiveUp(l) PROVE Done
  <2>1. opening[l] = NoSession /\ connection[l] # NoSession
    BY <1>12, <1>d DEF MysqlLocks!GiveUp, PcAgrees
  <2>2. /\ GivesBack(connection[l]) /\ opening' = opening /\ Told(l, "error")
        /\ connection' = [connection EXCEPT ![l] = NoSession]
    BY <1>12 DEF MysqlLocks!GiveUp, MysqlLocks!Unpin, MysqlLocks!Return, GivesBack, Told
  <2>3. LetsGo(l, connection[l])
    BY <2>1, <2>2, GivesBackLetsGo
  <2> QED BY <1>3, <2>2, <2>3
<1>13. ASSUME holder' = NoSession, mysqlAnswer' = mysqlAnswer PROVE Done
  <2>1. Who' = NoHolder
    BY <1>13, <1>f
  <2>2. MysqlOwner' = [n \in {TheName} |-> IF n \in {TheName} THEN NoHolder ELSE MysqlOwner[n]]
    BY <2>1, MysqlOwnerIs
  <2>3. \E N \in SUBSET {TheName} : MysqlOwner' = [n \in {TheName} |-> IF n \in N THEN NoHolder ELSE MysqlOwner[n]]
    <3>1. {TheName} \in SUBSET {TheName}
      OBVIOUS
    <3> QED BY <2>2, <3>1, Zenon
  <2>4. MysqlLocks!Contract!Lose
    BY <1>13, <2>3, Zenon DEF MysqlLocks!Contract!Lose, MysqlOwner
  <2> QED BY <2>4, <1>c
<1>14. ASSUME SameUses, mysqlAnswer' = mysqlAnswer, holder' = holder PROVE Done
  BY <1>14, <1>a, WhoKeeps
<1>15. ASSUME NEW s \in Session, MysqlLocks!SessionDies(s) \/ MysqlLocks!NewSession(s) PROVE Done
  BY <1>15, <1>13, <1>14 DEF MysqlLocks!SessionDies, MysqlLocks!NewSession, SameUses
<1>16. CASE MysqlLocks!ForcedRelease
  BY <1>16, <1>13 DEF MysqlLocks!ForcedRelease
<1>17. CASE UNCHANGED MysqlLocks!vars
  BY <1>17, <1>14 DEF MysqlLocks!vars, SameUses
<1> QED BY <1>1, <1>2, <1>4, <1>5, <1>6, <1>7, <1>8, <1>9, <1>10, <1>11, <1>12, <1>15, <1>16, <1>17
        DEF MysqlLocks!Next, MysqlLocks!Call

(* The MySQL locker does what a Locker promises, whatever session breaks or  *)
(* dies between two of its statements: the name is held by the lock whose    *)
(* session the server gave it to, and a session that goes back to the pool   *)
(* holds nothing.                                                            *)
THEOREM MysqlLockKeepsContract == MysqlLocks!Spec => MysqlKeepsContract
<1> USE LockersAssumption
<1>1. MysqlLocks!Init => MysqlInv
  BY DEF MysqlLocks!MysqlAssumption, MysqlLocks!Init, MysqlLocks!TypeOK, MysqlInv, Apart, Uses,
         PcAgrees, PoolIsClean
<1>2. MysqlInv /\ [MysqlLocks!Next]_(MysqlLocks!vars) => MysqlInv'
  BY MysqlInvStep
<1>3. MysqlLocks!Init => MysqlLocks!Contract!Init
  BY DEF MysqlLocks!Init, MysqlLocks!Contract!Init, MysqlLocks!OwnerOf
<1>4. MysqlInv /\ MysqlInv' /\ [MysqlLocks!Next]_(MysqlLocks!vars) =>
        [MysqlLocks!Contract!Next]_<<MysqlOwner, mysqlAnswer>>
  BY MysqlStep
<1> QED BY <1>1, <1>2, <1>3, <1>4, PTL
        DEF MysqlLocks!Spec, MysqlKeepsContract, MysqlLocks!KeepsContract, MysqlLocks!Contract!Spec,
            MysqlOwner
-------------------------------------------------------------------------------
(* The Redis locker: one name, and the key of the name tells who owns it.    *)
KeyOwner == [n \in {TheName} |-> token]

LEMMA KeyOwnerIs ==
  /\ KeyOwner[TheName] = token
  /\ \A l : [KeyOwner EXCEPT ![TheName] = l] = [n \in {TheName} |-> l]
  /\ KeyOwner' = [n \in {TheName} |-> token']
BY DEF KeyOwner

LEMMA RedisStep ==
  ASSUME RedisLocks!RedisLockAssumption, [RedisLocks!Next]_(RedisLocks!vars)
  PROVE  [RedisLocks!Contract!Next]_<<KeyOwner, redisAnswer>>
<1>0. \A l \in Lock : [n \in Lock |-> TheName][l] = TheName
  OBVIOUS
<1>1. CASE RedisLocks!Expire
  <2>1. redisAnswer' = redisAnswer /\ token' = NoHolder
    BY <1>1 DEF RedisLocks!Expire, RedisLocks!Delete
  <2>2. KeyOwner' = [n \in {TheName} |-> IF n \in {TheName} THEN NoHolder ELSE KeyOwner[n]]
    BY <2>1, KeyOwnerIs
  <2>3. RedisLocks!Contract!Lose
    BY <2>1, <2>2 DEF RedisLocks!Contract!Lose, KeyOwner
  <2> QED BY <2>3 DEF RedisLocks!Contract!Next
<1>2. ASSUME NEW l \in Lock, RedisLocks!NotRun(l) PROVE RedisLocks!Contract!Fail(l)
  BY <1>2 DEF RedisLocks!NotRun, RedisLocks!Leave, RedisLocks!Tell,
              RedisLocks!Contract!Fail, RedisLocks!Contract!Keep, RedisLocks!Contract!Tell
<1>3. ASSUME NEW l \in Lock, RedisLocks!Acquire(l)
      PROVE  RedisLocks!Contract!Acquire(l) \/ RedisLocks!Contract!Fail(l)
  <2>1. CASE token \in {NoHolder, l} /\ token' = l
    <3>1. KeyOwner' = [KeyOwner EXCEPT ![TheName] = l] /\ KeyOwner[TheName] \in {NoHolder, l}
      BY <2>1, KeyOwnerIs
    <3>2. KeyOwner[TheName] = l => KeyOwner' = KeyOwner
      BY <2>1 DEF KeyOwner
    <3>3. redisAnswer' \in {[redisAnswer EXCEPT ![l] = "acquired"], [redisAnswer EXCEPT ![l] = "error"]}
      BY <1>3, <2>1 DEF RedisLocks!Acquire, RedisLocks!Reply, RedisLocks!Tell
    <3>4. CASE redisAnswer' = [redisAnswer EXCEPT ![l] = "acquired"]
      BY <1>0, <3>1, <3>4 DEF RedisLocks!Contract!Acquire, RedisLocks!Contract!Own,
                              RedisLocks!Contract!Tell, KeyOwner
    <3>5. CASE redisAnswer' = [redisAnswer EXCEPT ![l] = "error"]
      BY <1>0, <3>1, <3>2, <3>5 DEF RedisLocks!Contract!Fail, RedisLocks!Contract!Own,
                              RedisLocks!Contract!Keep, RedisLocks!Contract!Tell, KeyOwner
    <3> QED BY <3>3, <3>4, <3>5
  <2>2. CASE token \notin {NoHolder, l} /\ token' = token
    <3>1. KeyOwner' = KeyOwner /\ KeyOwner[TheName] \notin {NoHolder, l}
      BY <2>2 DEF KeyOwner
    <3>2. redisAnswer' \in {[redisAnswer EXCEPT ![l] = "refused"], [redisAnswer EXCEPT ![l] = "error"]}
      BY <1>3, <2>2 DEF RedisLocks!Acquire, RedisLocks!Reply, RedisLocks!Tell
    <3> QED BY <1>0, <3>1, <3>2
            DEF RedisLocks!Contract!Acquire, RedisLocks!Contract!Fail,
                RedisLocks!Contract!Keep, RedisLocks!Contract!Tell, KeyOwner
  <2> QED BY <1>3, <2>1, <2>2 DEF RedisLocks!Acquire, RedisLocks!Set, RedisLocks!Leave
<1>4. ASSUME NEW l \in Lock, RedisLocks!Release(l)
      PROVE  RedisLocks!Contract!Release(l) \/ RedisLocks!Contract!Fail(l)
  <2>1. redisAnswer' \in {[redisAnswer EXCEPT ![l] = "released"], [redisAnswer EXCEPT ![l] = "error"]}
    BY <1>4 DEF RedisLocks!Release, RedisLocks!Reply, RedisLocks!Tell
  <2>2. CASE token = l
    <3>1. KeyOwner' = [KeyOwner EXCEPT ![TheName] = NoHolder] /\ KeyOwner[TheName] = l
      BY <1>4, <2>2, KeyOwnerIs DEF RedisLocks!Release, RedisLocks!Delete
    <3> QED BY <1>0, <2>1, <3>1
            DEF RedisLocks!Contract!Release, RedisLocks!Contract!Fail,
                RedisLocks!Contract!Free, RedisLocks!Contract!Tell, KeyOwner
  <2>3. CASE token # l
    <3>1. KeyOwner' = KeyOwner /\ KeyOwner[TheName] # l
      BY <1>4, <2>3 DEF RedisLocks!Release, RedisLocks!Leave, KeyOwner
    <3> QED BY <1>0, <2>1, <3>1
            DEF RedisLocks!Contract!Release, RedisLocks!Contract!Fail,
                RedisLocks!Contract!Keep, RedisLocks!Contract!Tell, KeyOwner
  <2> QED BY <2>2, <2>3
<1>5. ASSUME NEW l \in Lock, NEW ttl \in RedisRefreshTtl, RedisLocks!RefreshRejected(l, ttl)
      PROVE  RedisLocks!Contract!Fail(l)
  BY <1>5 DEF RedisLocks!RefreshRejected, RedisLocks!Leave, RedisLocks!Tell,
              RedisLocks!Contract!Fail, RedisLocks!Contract!Keep, RedisLocks!Contract!Tell
<1>6. ASSUME NEW l \in Lock, NEW ttl \in RedisRefreshTtl, RedisLocks!Refresh(l, ttl)
      PROVE  RedisLocks!Contract!Refresh(l) \/ RedisLocks!Contract!Fail(l)
  <2>1. RedisLocks!FloorPositiveMilliseconds(ttl) > 0
    <3>1. ttl \in Int /\ ttl > 0 /\ Millisecond \in Nat \ {0}
      BY <1>6 DEF RedisLocks!RedisLockAssumption, RedisLocks!Refresh
    <3>2. ttl \div Millisecond \in Nat
      BY <3>1
    <3> QED BY <3>2 DEF RedisLocks!FloorPositiveMilliseconds
  <2>2. KeyOwner' = KeyOwner
    BY <1>6, <2>1 DEF RedisLocks!Refresh, RedisLocks!Pexpire, RedisLocks!Leave, KeyOwner
  <2>3. /\ KeyOwner[TheName] = l \/ KeyOwner[TheName] # l
        /\ \/ redisAnswer' = [redisAnswer EXCEPT ![l] = IF KeyOwner[TheName] = l THEN "refreshed" ELSE "lost"]
           \/ redisAnswer' = [redisAnswer EXCEPT ![l] = "error"]
    BY <1>6, KeyOwnerIs DEF RedisLocks!Refresh, RedisLocks!Reply, RedisLocks!Tell
  <2> QED BY <1>0, <2>2, <2>3
          DEF RedisLocks!Contract!Refresh, RedisLocks!Contract!Fail,
              RedisLocks!Contract!Keep, RedisLocks!Contract!Tell, KeyOwner
<1>7. CASE UNCHANGED RedisLocks!vars
  BY <1>7 DEF RedisLocks!vars, KeyOwner
<1> QED BY <1>1, <1>2, <1>3, <1>4, <1>5, <1>6, <1>7
        DEF RedisLocks!Next, RedisLocks!Contract!Next

(* The Redis locker does what a Locker promises, although its replies may be *)
(* lost after the script ran: the key is taken, kept and deleted by the lock *)
(* whose token it holds, and a refresh never deletes it.                     *)
THEOREM RedisLockKeepsContract == RedisLocks!Spec => RedisKeepsContract
<1> USE LockersAssumption
<1>1. RedisLocks!Init => RedisLocks!Contract!Init
  BY DEF RedisLocks!Init, RedisLocks!Contract!Init
<1>2. [RedisLocks!Next]_(RedisLocks!vars) => [RedisLocks!Contract!Next]_<<KeyOwner, redisAnswer>>
  BY RedisStep
<1> QED BY <1>1, <1>2, PTL
        DEF RedisLocks!Spec, RedisKeepsContract, RedisLocks!KeepsContract, RedisLocks!Contract!Spec,
            KeyOwner
-------------------------------------------------------------------------------
(* The token store in memory.  The index of a user names exactly the tokens  *)
(* that are stored for the user: so DeleteByUser takes no other's.           *)
MemoryIndex ==
  /\ clock \in Nat \ {0}
  /\ entriesByToken \in [StoredToken -> MemoryTokens!Entry \cup {NoEntry}]
  /\ tokensByUser \in [TokenUser -> SUBSET StoredToken]
  /\ \A t \in StoredToken, u \in TokenUser :
       t \in tokensByUser[u] <=> entriesByToken[t] # NoEntry /\ entriesByToken[t].user = u

MemoryOwner == [t \in StoredToken |-> MemoryTokens!Owner(t)]
MemoryEndless ==
  [t \in StoredToken |-> MemoryTokens!Stored(t) /\ entriesByToken[t].expiresAt = MemoryTokens!Never]

(* A token that has run out by a time, and whose it is at that time.         *)
Gone(entry, time) == entry.expiresAt # 0 /\ time > entry.expiresAt

OwnerAt(entry, time) ==
  IF entry # NoEntry /\ ~Gone(entry, time) THEN entry.user ELSE Nobody

LEMMA MemoryMeans ==
  /\ MemoryOwner = [t \in StoredToken |-> OwnerAt(entriesByToken[t], clock)]
  /\ MemoryOwner' = [t \in StoredToken |-> OwnerAt(entriesByToken'[t], clock')]
  /\ MemoryEndless = [t \in StoredToken |-> entriesByToken[t] # NoEntry /\ entriesByToken[t].expiresAt = 0]
  /\ MemoryEndless' = [t \in StoredToken |-> entriesByToken'[t] # NoEntry /\ entriesByToken'[t].expiresAt = 0]
BY DEF MemoryOwner, MemoryEndless, MemoryTokens!Owner, MemoryTokens!Stored,
       MemoryTokens!After, MemoryTokens!Never, OwnerAt, Gone

LEMMA MemoryEntry ==
  ASSUME MemoryTokens!InMemoryTokenStoreAssumption, MemoryIndex, NEW t \in StoredToken,
         entriesByToken[t] # NoEntry
  PROVE  entriesByToken[t].user \in TokenUser /\ entriesByToken[t].expiresAt \in Nat
<1>1. entriesByToken[t] \in MemoryTokens!Entry
  BY DEF MemoryIndex
<1> QED BY <1>1 DEF MemoryTokens!Entry

(* Tokens leave the map: for a caller those in T that had not run out.       *)
LEMMA MemoryRemoves ==
  ASSUME NEW T, NEW D, clock' = clock,
         \A t \in StoredToken : entriesByToken'[t] = IF t \in D THEN NoEntry ELSE entriesByToken[t],
         \A t \in StoredToken : t \in T => t \in D,
         \A t \in StoredToken : t \in D => t \in T \/ entriesByToken[t] = NoEntry \/ Gone(entriesByToken[t], clock)
  PROVE  /\ MemoryOwner' = [t \in StoredToken |-> IF t \in T THEN Nobody ELSE MemoryOwner[t]]
         /\ MemoryEndless' = [t \in StoredToken |-> t \notin T /\ MemoryEndless[t]]
<1>1. ASSUME NEW t \in StoredToken
      PROVE  /\ OwnerAt(entriesByToken'[t], clock') = IF t \in T THEN Nobody ELSE OwnerAt(entriesByToken[t], clock)
             /\ (entriesByToken'[t] # NoEntry /\ entriesByToken'[t].expiresAt = 0) =
                (t \notin T /\ entriesByToken[t] # NoEntry /\ entriesByToken[t].expiresAt = 0)
  <2>1. CASE t \in D
    <3>1. entriesByToken'[t] = NoEntry
      BY <2>1
    <3> QED BY <2>1, <3>1 DEF OwnerAt, Gone
  <2>2. CASE t \notin D
    <3>1. entriesByToken'[t] = entriesByToken[t] /\ t \notin T
      BY <2>2
    <3> QED BY <3>1
  <2> QED BY <2>1, <2>2
<1> QED BY <1>1, MemoryMeans

LEMMA MemoryTokensStep ==
  ASSUME MemoryTokens!InMemoryTokenStoreAssumption, MemoryIndex, [MemoryTokens!Next]_(MemoryTokens!vars)
  PROVE  MemoryIndex' /\ [MemoryTokens!Contract!Next]_<<MemoryOwner, MemoryEndless, memoryFound>>
<1>a. /\ clock \in Nat \ {0} /\ entriesByToken \in [StoredToken -> MemoryTokens!Entry \cup {NoEntry}]
      /\ tokensByUser \in [TokenUser -> SUBSET StoredToken] /\ Nobody \notin TokenUser
      /\ \A t \in StoredToken, u \in TokenUser :
           t \in tokensByUser[u] <=> entriesByToken[t] # NoEntry /\ entriesByToken[t].user = u
  BY DEF MemoryIndex, MemoryTokens!InMemoryTokenStoreAssumption
<1>b. ASSUME NEW T, memoryFound' = memoryFound,
             MemoryOwner' = [t \in StoredToken |-> IF t \in T THEN Nobody ELSE MemoryOwner[t]],
             MemoryEndless' = [t \in StoredToken |-> t \notin T /\ MemoryEndless[t]]
      PROVE  MemoryTokens!Contract!Remove(T)
  BY <1>b DEF MemoryTokens!Contract!Remove, MemoryOwner, MemoryEndless
<1>1. ASSUME MemoryTokens!Tick
      PROVE  MemoryIndex' /\ MemoryTokens!Contract!Expire
  <2>1. /\ clock' = clock + 1 /\ entriesByToken' = entriesByToken /\ tokensByUser' = tokensByUser
        /\ memoryFound' = memoryFound
    BY <1>1 DEF MemoryTokens!Tick
  <2>2. MemoryIndex'
    BY <1>a, <2>1 DEF MemoryIndex
  <2> DEFINE T == {t \in StoredToken : entriesByToken[t] # NoEntry /\ Gone(entriesByToken[t], clock + 1)}
  <2>3. ASSUME NEW t \in StoredToken
        PROVE  /\ OwnerAt(entriesByToken[t], clock + 1) =
                    IF t \in T THEN Nobody ELSE OwnerAt(entriesByToken[t], clock)
               /\ t \in T => ~MemoryEndless[t]
    <3>1. CASE entriesByToken[t] = NoEntry
      BY <3>1 DEF OwnerAt
    <3>2. CASE entriesByToken[t] # NoEntry
      <4>1. entriesByToken[t].expiresAt \in Nat
        BY <3>2, MemoryEntry
      <4>2. Gone(entriesByToken[t], clock) => Gone(entriesByToken[t], clock + 1)
        BY <1>a, <4>1 DEF Gone
      <4>3. t \in T => ~MemoryEndless[t]
        BY MemoryMeans DEF Gone
      <4> QED BY <3>2, <4>2, <4>3 DEF OwnerAt
    <3> QED BY <3>1, <3>2
  <2>4. MemoryOwner' = [t \in StoredToken |-> IF t \in T THEN Nobody ELSE MemoryOwner[t]]
    <3> HIDE DEF T
    <3> QED BY <2>1, <2>3, MemoryMeans
  <2>5. MemoryEndless' = [t \in StoredToken |-> t \notin T /\ MemoryEndless[t]]
    <3>1. MemoryEndless' = MemoryEndless
      BY <2>1, MemoryMeans
    <3>2. \A t \in StoredToken : MemoryEndless[t] = (t \notin T /\ MemoryEndless[t])
      <4>1. \A t \in StoredToken : MemoryEndless[t] \in BOOLEAN
        BY MemoryMeans
      <4> HIDE DEF T
      <4> QED BY <2>3, <4>1
    <3>3. MemoryEndless = [t \in StoredToken |-> MemoryEndless[t]]
      BY MemoryMeans
    <3> HIDE DEF T
    <3> QED BY <3>1, <3>2, <3>3
  <2>6. T \in SUBSET {t \in StoredToken : ~MemoryEndless[t]}
    BY <2>3
  <2> HIDE DEF T
  <2> QED BY <1>b, <2>1, <2>2, <2>4, <2>5, <2>6 DEF MemoryTokens!Contract!Expire, MemoryEndless
<1>2. ASSUME NEW t \in StoredToken, MemoryTokens!Delete(t)
      PROVE  MemoryIndex' /\ MemoryTokens!Contract!Delete(t)
  <2>1. /\ entriesByToken' = [entriesByToken EXCEPT ![t] = NoEntry] /\ clock' = clock
        /\ tokensByUser' = MemoryTokens!Unindexed(t) /\ memoryFound' = memoryFound
    BY <1>2 DEF MemoryTokens!Delete
  <2>2. MemoryIndex'
    BY <1>a, <2>1 DEF MemoryIndex, MemoryTokens!Unindexed, MemoryTokens!Stored
  <2>3. \A o \in StoredToken : entriesByToken'[o] = IF o \in {t} THEN NoEntry ELSE entriesByToken[o]
    BY <1>a, <2>1
  <2>4. /\ MemoryOwner' = [o \in StoredToken |-> IF o \in {t} THEN Nobody ELSE MemoryOwner[o]]
        /\ MemoryEndless' = [o \in StoredToken |-> o \notin {t} /\ MemoryEndless[o]]
    BY <2>1, <2>3, MemoryRemoves
  <2> QED BY <1>b, <2>1, <2>2, <2>4 DEF MemoryTokens!Contract!Delete
<1>3. ASSUME NEW u \in TokenUser, MemoryTokens!DeleteByUser(u)
      PROVE  MemoryIndex' /\ MemoryTokens!Contract!DeleteByUser(u)
  <2> DEFINE D == tokensByUser[u]
             T == {t \in StoredToken : MemoryOwner[t] = u}
  <2>1. /\ entriesByToken' = [t \in StoredToken |-> IF t \in D THEN NoEntry ELSE entriesByToken[t]]
        /\ clock' = clock /\ memoryFound' = memoryFound
        /\ tokensByUser' = [tokensByUser EXCEPT ![u] = {}]
    BY <1>3 DEF MemoryTokens!DeleteByUser
  <2>2. MemoryIndex'
    BY <1>a, <2>1 DEF MemoryIndex
  <2>3. /\ \A t \in StoredToken : t \in T => t \in D
        /\ \A t \in StoredToken : t \in D => t \in T \/ Gone(entriesByToken[t], clock)
    BY <1>a, MemoryMeans DEF OwnerAt
  <2> HIDE DEF D, T
  <2>4. /\ MemoryOwner' = [t \in StoredToken |-> IF t \in T THEN Nobody ELSE MemoryOwner[t]]
        /\ MemoryEndless' = [t \in StoredToken |-> t \notin T /\ MemoryEndless[t]]
    BY <2>1, <2>3, MemoryRemoves
  <2>5. MemoryTokens!Contract!Remove(T)
    BY <2>1, <2>4 DEF MemoryTokens!Contract!Remove, MemoryOwner, MemoryEndless
  <2> QED BY <2>2, <2>5 DEF MemoryTokens!Contract!DeleteByUser, T, MemoryOwner
<1>4. ASSUME MemoryTokens!PurgeExpired
      PROVE  MemoryIndex' /\ UNCHANGED <<MemoryOwner, MemoryEndless, memoryFound>>
  <2>1. PICK seen \in 1 .. clock :
          LET purged == {t \in StoredToken : MemoryTokens!Stored(t)
                                       /\ MemoryTokens!After(seen, entriesByToken[t])}
          IN  /\ entriesByToken' =
                   [t \in StoredToken |-> IF t \in purged THEN NoEntry ELSE entriesByToken[t]]
              /\ tokensByUser' =
                   [u \in TokenUser |-> tokensByUser[u] \ {t \in purged : entriesByToken[t].user = u}]
              /\ UNCHANGED <<clock, memoryFound>>
    BY <1>4, Zenon DEF MemoryTokens!PurgeExpired
  <2> DEFINE D == {t \in StoredToken : entriesByToken[t] # NoEntry /\ Gone(entriesByToken[t], seen)}
  <2>2. /\ entriesByToken' = [t \in StoredToken |-> IF t \in D THEN NoEntry ELSE entriesByToken[t]]
        /\ tokensByUser' = [u \in TokenUser |-> tokensByUser[u] \ {t \in D : entriesByToken[t].user = u}]
        /\ clock' = clock /\ memoryFound' = memoryFound
    BY <2>1 DEF MemoryTokens!Stored, MemoryTokens!After, MemoryTokens!Never, Gone
  <2>3. \A t \in StoredToken : t \in D => Gone(entriesByToken[t], clock)
    <3>1. ASSUME NEW t \in D PROVE Gone(entriesByToken[t], clock)
      <4>1. entriesByToken[t].expiresAt \in Nat
        BY MemoryEntry
      <4> QED BY <1>a, <4>1 DEF Gone
    <3> QED BY <3>1
  <2> HIDE DEF D
  <2>4. MemoryIndex'
    BY <1>a, <2>2 DEF MemoryIndex
  <2>5. /\ MemoryOwner' = [t \in StoredToken |-> IF t \in {} THEN Nobody ELSE MemoryOwner[t]]
        /\ MemoryEndless' = [t \in StoredToken |-> t \notin {} /\ MemoryEndless[t]]
    <3> DEFINE N == {}
    <3>1. /\ \A t \in StoredToken : entriesByToken'[t] = IF t \in D THEN NoEntry ELSE entriesByToken[t]
          /\ \A t \in StoredToken : t \in N => t \in D
          /\ \A t \in StoredToken : t \in D => t \in N \/ entriesByToken[t] = NoEntry
                                               \/ Gone(entriesByToken[t], clock)
      BY <2>2, <2>3
    <3> HIDE DEF N
    <3>2. /\ MemoryOwner' = [t \in StoredToken |-> IF t \in N THEN Nobody ELSE MemoryOwner[t]]
          /\ MemoryEndless' = [t \in StoredToken |-> t \notin N /\ MemoryEndless[t]]
      BY <2>2, <3>1, MemoryRemoves
    <3> QED BY <3>2 DEF N
  <2>6. /\ MemoryOwner = [t \in StoredToken |-> MemoryOwner[t]]
        /\ MemoryEndless = [t \in StoredToken |-> MemoryEndless[t]]
        /\ \A t \in StoredToken : MemoryEndless[t] \in BOOLEAN
    BY MemoryMeans
  <2> QED BY <2>2, <2>4, <2>5, <2>6
<1>5. ASSUME NEW t \in StoredToken, MemoryTokens!Lookup(t)
      PROVE  MemoryIndex' /\ MemoryTokens!Contract!Lookup(t)
  <2>1. /\ UNCHANGED <<clock, entriesByToken, tokensByUser>>
        /\ memoryFound' = [memoryFound EXCEPT ![t] = MemoryOwner[t]]
    BY <1>5 DEF MemoryTokens!Lookup, MemoryOwner
  <2>2. MemoryOwner' = MemoryOwner /\ MemoryEndless' = MemoryEndless
    BY <2>1, MemoryMeans
  <2> QED BY <2>1, <2>2 DEF MemoryIndex, MemoryTokens!Contract!Lookup, MemoryOwner, MemoryEndless
<1>6. ASSUME NEW t \in StoredToken, NEW u \in TokenUser, NEW ttl \in TokenTtl, MemoryTokens!Put(t, u, ttl)
      PROVE  MemoryIndex' /\ (MemoryTokens!Contract!Put(t, u) \/ MemoryTokens!Contract!Delete(t))
  <2>1. PICK seen \in 1 .. clock :
          entriesByToken' = [entriesByToken EXCEPT ![t] =
            [user |-> u, expiresAt |-> IF ttl > 0 THEN seen + ttl ELSE MemoryTokens!Never]]
    BY <1>6 DEF MemoryTokens!Put
  <2> DEFINE at == IF ttl > 0 THEN seen + ttl ELSE 0
             entry == [user |-> u, expiresAt |-> at]
  <2>2. /\ entriesByToken' = [entriesByToken EXCEPT ![t] = entry]
        /\ tokensByUser' = MemoryTokens!Indexed(MemoryTokens!Unindexed(t), u, t)
        /\ clock' = clock /\ memoryFound' = memoryFound
    BY <1>6, <2>1 DEF MemoryTokens!Put, MemoryTokens!Never
  <2>3. at \in Nat
    BY DEF MemoryTokens!InMemoryTokenStoreAssumption
  <2> HIDE DEF at
  <2>4. entry \in MemoryTokens!Entry /\ entry # NoEntry /\ entry.user = u /\ entry.expiresAt = at
    BY <2>3 DEF MemoryTokens!Entry, MemoryTokens!InMemoryTokenStoreAssumption
  <2> HIDE DEF entry
  <2>5. MemoryIndex'
    <3>1. \A v \in TokenUser, o \in StoredToken :
            o \in tokensByUser'[v] <=>
              \/ v = u /\ o = t
              \/ o \in tokensByUser[v] /\ ~(o = t /\ entriesByToken[t] # NoEntry /\ entriesByToken[t].user = v)
      BY <1>a, <2>2 DEF MemoryTokens!Indexed, MemoryTokens!Unindexed, MemoryTokens!Stored
    <3>2. tokensByUser' \in [TokenUser -> SUBSET StoredToken]
      BY <1>a, <2>2 DEF MemoryTokens!Indexed, MemoryTokens!Unindexed, MemoryTokens!Stored
    <3>3. \A o \in StoredToken : entriesByToken'[o] = IF o = t THEN entry ELSE entriesByToken[o]
      BY <1>a, <2>2
    <3>4. entriesByToken' \in [StoredToken -> MemoryTokens!Entry \cup {NoEntry}]
      BY <1>a, <2>2, <2>4
    <3>5. \A o \in StoredToken, v \in TokenUser :
            o \in tokensByUser'[v] <=> entriesByToken'[o] # NoEntry /\ entriesByToken'[o].user = v
      <4>1. ASSUME NEW o \in StoredToken, NEW v \in TokenUser, o = t
            PROVE  o \in tokensByUser'[v] <=> entriesByToken'[o] # NoEntry /\ entriesByToken'[o].user = v
        BY <1>a, <2>4, <3>1, <3>3, <4>1
      <4>2. ASSUME NEW o \in StoredToken, NEW v \in TokenUser, o # t
            PROVE  o \in tokensByUser'[v] <=> entriesByToken'[o] # NoEntry /\ entriesByToken'[o].user = v
        BY <1>a, <3>1, <3>3, <4>2
      <4> QED BY <4>1, <4>2
    <3> QED BY <1>a, <2>2, <3>2, <3>4, <3>5 DEF MemoryIndex
  <2>6. /\ \A o \in StoredToken \ {t} : OwnerAt(entriesByToken'[o], clock') = OwnerAt(entriesByToken[o], clock)
                                  /\ entriesByToken'[o] = entriesByToken[o]
        /\ entriesByToken'[t] = entry
    BY <1>a, <2>2
  <2>7. CASE Gone(entry, clock)
    <3>1. OwnerAt(entriesByToken'[t], clock') = Nobody /\ entriesByToken'[t].expiresAt # 0
      BY <2>2, <2>6, <2>7 DEF OwnerAt, Gone
    <3>2. /\ MemoryOwner' = [o \in StoredToken |-> IF o \in {t} THEN Nobody ELSE MemoryOwner[o]]
          /\ MemoryEndless' = [o \in StoredToken |-> o \notin {t} /\ MemoryEndless[o]]
      BY <2>6, <3>1, MemoryMeans
    <3> QED BY <1>b, <2>2, <2>5, <3>2 DEF MemoryTokens!Contract!Delete
  <2>8. CASE ~Gone(entry, clock)
    <3>1. OwnerAt(entriesByToken'[t], clock') = u
      BY <2>2, <2>4, <2>6, <2>8 DEF OwnerAt
    <3>2. MemoryOwner' = [MemoryOwner EXCEPT ![t] = u]
      BY <2>6, <3>1, MemoryMeans
    <3>3. MemoryEndless' = [MemoryEndless EXCEPT ![t] = (at = 0)]
      <4>1. MemoryEndless'[t] = (at = 0)
        BY <2>4, <2>6, MemoryMeans
      <4>2. \A o \in StoredToken \ {t} : MemoryEndless'[o] = MemoryEndless[o]
        BY <2>6, MemoryMeans
      <4>3. MemoryEndless' = [o \in StoredToken |-> MemoryEndless'[o]] /\ MemoryEndless = [o \in StoredToken |-> MemoryEndless[o]]
        BY MemoryMeans
      <4> QED BY <4>1, <4>2, <4>3
    <3>4. (at = 0) \in BOOLEAN
      OBVIOUS
    <3>5. MemoryTokens!Contract!Put(t, u)
      BY <2>2, <3>2, <3>3, <3>4 DEF MemoryTokens!Contract!Put, MemoryOwner, MemoryEndless
    <3> QED BY <2>5, <3>5
  <2> QED BY <2>7, <2>8
<1>7. CASE UNCHANGED MemoryTokens!vars
  <2>1. UNCHANGED <<clock, entriesByToken, tokensByUser, memoryFound>>
    BY <1>7 DEF MemoryTokens!vars
  <2> QED BY <2>1, MemoryMeans DEF MemoryIndex
<1> QED BY <1>1, <1>2, <1>3, <1>4, <1>5, <1>6, <1>7
        DEF MemoryTokens!Next, MemoryTokens!Contract!Next

(* The token store in memory does what a token store promises: time alone    *)
(* takes only tokens put with a time to live, and a call of one user's       *)
(* tokens none of another's.                                                 *)
THEOREM InMemoryTokenStoreKeepsContract == MemoryTokens!Spec => MemoryTokensKeepContract
<1> USE TokenStoresAssumption
<1>1. MemoryTokens!Init => MemoryIndex /\ MemoryTokens!Contract!Init
  <2> SUFFICES ASSUME MemoryTokens!Init PROVE MemoryIndex /\ MemoryTokens!Contract!Init
    OBVIOUS
  <2>1. /\ clock = 1 /\ entriesByToken = [t \in StoredToken |-> NoEntry]
        /\ tokensByUser = [u \in TokenUser |-> {}] /\ memoryFound = [t \in StoredToken |-> Nobody]
    BY DEF MemoryTokens!Init
  <2>2. MemoryIndex
    BY <2>1 DEF MemoryIndex
  <2>3. MemoryOwner = [t \in StoredToken |-> Nobody] /\ MemoryEndless = [t \in StoredToken |-> FALSE]
    BY <2>1, MemoryMeans DEF OwnerAt
  <2> QED BY <2>1, <2>2, <2>3 DEF MemoryTokens!Contract!Init, MemoryOwner, MemoryEndless
<1>2. MemoryIndex /\ [MemoryTokens!Next]_(MemoryTokens!vars) =>
        MemoryIndex' /\ [MemoryTokens!Contract!Next]_<<MemoryOwner, MemoryEndless, memoryFound>>
  BY MemoryTokensStep
<1> QED BY <1>1, <1>2, PTL
        DEF MemoryTokens!Spec, MemoryTokensKeepContract, MemoryTokens!KeepsContract,
            MemoryTokens!Contract!Spec, MemoryOwner, MemoryEndless
-------------------------------------------------------------------------------
(* The Redis token store.  The set of a user has every token of that user    *)
(* whose key exists, and may have others: so DeleteByUser misses none.       *)
RedisIndex ==
  /\ key \in [StoredToken -> RedisTokens!Entry \cup {NoEntry}]
  /\ members \in [TokenUser -> SUBSET StoredToken]
  /\ \A t \in StoredToken : key[t] # NoEntry => t \in members[key[t].user]

RedisOwner == [t \in StoredToken |-> RedisTokens!Owner(t)]
RedisEndless == [t \in StoredToken |-> RedisTokens!Exists(t) /\ key[t].endless]

LEMMA RedisEntry ==
  ASSUME RedisTokens!RedisTokenStoreAssumption, RedisIndex, NEW t \in StoredToken
  PROVE  /\ key[t] # NoEntry => key[t].user \in TokenUser /\ key[t].endless \in BOOLEAN
         /\ RedisOwner[t] = IF key[t] # NoEntry THEN key[t].user ELSE Nobody
         /\ RedisEndless[t] = (key[t] # NoEntry /\ key[t].endless)
<1>1. key[t] \in RedisTokens!Entry \cup {NoEntry}
  BY DEF RedisIndex
<1>2. key[t] # NoEntry => key[t].user \in TokenUser /\ key[t].endless \in BOOLEAN
  BY <1>1 DEF RedisTokens!Entry
<1> QED BY <1>2 DEF RedisOwner, RedisEndless, RedisTokens!Owner, RedisTokens!Exists

(* The tokens in T are deleted or expire.                                    *)
LEMMA RedisRemoves ==
  ASSUME NEW T, \A t \in StoredToken : key'[t] = IF t \in T THEN NoEntry ELSE key[t]
  PROVE  /\ RedisOwner' = [t \in StoredToken |-> IF t \in T THEN Nobody ELSE RedisOwner[t]]
         /\ RedisEndless' = [t \in StoredToken |-> t \notin T /\ RedisEndless[t]]
BY DEF RedisOwner, RedisEndless, RedisTokens!Owner, RedisTokens!Exists

LEMMA RedisTokensStep ==
  ASSUME RedisTokens!RedisTokenStoreAssumption, RedisIndex, [RedisTokens!Next]_(RedisTokens!vars)
  PROVE  RedisIndex' /\ [RedisTokens!Contract!Next]_<<RedisOwner, RedisEndless, redisFound>>
<1>a. /\ key \in [StoredToken -> RedisTokens!Entry \cup {NoEntry}] /\ members \in [TokenUser -> SUBSET StoredToken]
      /\ \A t \in StoredToken : key[t] # NoEntry => t \in members[key[t].user]
      /\ Nobody \notin TokenUser
  BY DEF RedisIndex, RedisTokens!RedisTokenStoreAssumption
<1>1. ASSUME NEW u \in TokenUser, RedisTokens!DeleteByUser(u)
      PROVE  RedisIndex' /\ RedisTokens!Contract!DeleteByUser(u)
  <2> DEFINE T == {t \in StoredToken : RedisOwner[t] = u}
  <2>1. RedisTokens!TokensOf(u) = T
    BY <1>a, RedisEntry DEF RedisTokens!TokensOf, RedisTokens!Exists
  <2>2. /\ key' = [t \in StoredToken |-> IF t \in T THEN NoEntry ELSE key[t]]
        /\ members' = [members EXCEPT ![u] = {}] /\ redisFound' = redisFound
    BY <1>1, <2>1 DEF RedisTokens!DeleteByUser
  <2>3. \A t \in StoredToken : t \in T <=> key[t] # NoEntry /\ key[t].user = u
    BY <1>a, RedisEntry
  <2> HIDE DEF T
  <2>4. RedisIndex'
    <3>1. ASSUME NEW t \in StoredToken, key'[t] # NoEntry PROVE t \in members'[key'[t].user]
      <4>1. key'[t] = key[t] /\ key[t] # NoEntry /\ key[t].user \in TokenUser /\ key[t].user # u
        BY <2>2, <2>3, <3>1, RedisEntry
      <4> QED BY <1>a, <2>2, <4>1
    <3> QED BY <1>a, <2>2, <3>1 DEF RedisIndex
  <2>5. /\ RedisOwner' = [t \in StoredToken |-> IF t \in T THEN Nobody ELSE RedisOwner[t]]
        /\ RedisEndless' = [t \in StoredToken |-> t \notin T /\ RedisEndless[t]]
    BY <2>2, RedisRemoves
  <2>6. RedisTokens!Contract!Remove(T)
    BY <2>2, <2>5 DEF RedisTokens!Contract!Remove, RedisOwner, RedisEndless
  <2> QED BY <2>4, <2>6 DEF RedisTokens!Contract!DeleteByUser, T, RedisOwner
<1>2. ASSUME NEW u \in TokenUser, RedisTokens!PurgeUser(u)
      PROVE  RedisIndex' /\ UNCHANGED <<RedisOwner, RedisEndless, redisFound>>
  <2>1. /\ key' = key /\ redisFound' = redisFound
        /\ members' = [members EXCEPT ![u] = {t \in @ : key[t] # NoEntry}]
    BY <1>2 DEF RedisTokens!PurgeUser, RedisTokens!Exists
  <2>2. RedisIndex'
    <3>1. members' \in [TokenUser -> SUBSET StoredToken]
      BY <1>a, <2>1
    <3>2. ASSUME NEW t \in StoredToken, key[t] # NoEntry PROVE t \in members'[key[t].user]
      <4>1. key[t].user \in TokenUser
        BY <3>2, RedisEntry
      <4> QED BY <1>a, <2>1, <3>2, <4>1
    <3> QED BY <1>a, <2>1, <3>1, <3>2 DEF RedisIndex
  <2> QED BY <2>1, <2>2 DEF RedisOwner, RedisEndless, RedisTokens!Owner, RedisTokens!Exists
<1>3. ASSUME NEW t \in StoredToken, RedisTokens!Delete(t)
      PROVE  RedisIndex' /\ RedisTokens!Contract!Delete(t)
  <2>1. /\ key[t] # NoEntry /\ key[t].user \in TokenUser
        /\ key' = [key EXCEPT ![t] = NoEntry] /\ redisFound' = redisFound
        /\ members' = [members EXCEPT ![key[t].user] = @ \ {t}]
    BY <1>3, RedisEntry DEF RedisTokens!Delete, RedisTokens!Exists
  <2>2. RedisIndex'
    <3>1. ASSUME NEW o \in StoredToken, key'[o] # NoEntry PROVE o \in members'[key'[o].user]
      <4>1. o # t /\ key'[o] = key[o] /\ key[o].user \in TokenUser
        BY <1>a, <2>1, <3>1, RedisEntry
      <4> QED BY <1>a, <2>1, <3>1, <4>1
    <3>2. members' \in [TokenUser -> SUBSET StoredToken] /\ key' \in [StoredToken -> RedisTokens!Entry \cup {NoEntry}]
      BY <1>a, <2>1
    <3> QED BY <3>1, <3>2 DEF RedisIndex
  <2>3. \A o \in StoredToken : key'[o] = IF o \in {t} THEN NoEntry ELSE key[o]
    BY <1>a, <2>1
  <2>4. RedisTokens!Contract!Remove({t})
    BY <2>1, <2>3, RedisRemoves DEF RedisTokens!Contract!Remove, RedisOwner, RedisEndless
  <2> QED BY <2>2, <2>4 DEF RedisTokens!Contract!Delete
<1>4. ASSUME NEW t \in StoredToken, RedisTokens!Lookup(t)
      PROVE  RedisIndex' /\ RedisTokens!Contract!Lookup(t)
  <2>1. /\ key' = key /\ members' = members
        /\ redisFound' = [redisFound EXCEPT ![t] = RedisOwner[t]]
    BY <1>4 DEF RedisTokens!Lookup, RedisOwner
  <2>2. RedisOwner' = RedisOwner /\ RedisEndless' = RedisEndless
    BY <2>1 DEF RedisOwner, RedisEndless, RedisTokens!Owner, RedisTokens!Exists
  <2> QED BY <2>1, <2>2 DEF RedisIndex, RedisTokens!Contract!Lookup, RedisOwner, RedisEndless
<1>5. ASSUME NEW t \in StoredToken, RedisTokens!Expire(t)
      PROVE  RedisIndex' /\ RedisTokens!Contract!Expire
  <2>1. /\ key[t] # NoEntry /\ ~key[t].endless /\ key' = [key EXCEPT ![t] = NoEntry]
        /\ redisFound' = redisFound /\ members' = members
    BY <1>5 DEF RedisTokens!Expire, RedisTokens!Exists
  <2>2. RedisIndex'
    BY <1>a, <2>1 DEF RedisIndex
  <2>3. \A o \in StoredToken : key'[o] = IF o \in {t} THEN NoEntry ELSE key[o]
    BY <1>a, <2>1
  <2>4. RedisTokens!Contract!Remove({t})
    BY <2>1, <2>3, RedisRemoves DEF RedisTokens!Contract!Remove, RedisOwner, RedisEndless
  <2>5. {t} \in SUBSET {o \in StoredToken : ~RedisEndless[o]}
    BY <2>1, RedisEntry
  <2> QED BY <2>2, <2>4, <2>5 DEF RedisTokens!Contract!Expire, RedisEndless
<1>6. ASSUME NEW t \in StoredToken, NEW u \in TokenUser, NEW ttl \in TokenTtl, RedisTokens!Put(t, u, ttl)
      PROVE  RedisIndex' /\ RedisTokens!Contract!Put(t, u)
  <2> DEFINE forever == RedisTokens!Pttl(ttl) = 0
             entry == [user |-> u, endless |-> forever]
             others == IF key[t] # NoEntry /\ key[t].user # u
                       THEN [members EXCEPT ![key[t].user] = @ \ {t}] ELSE members
  <2>1. /\ key' = [key EXCEPT ![t] = entry] /\ redisFound' = redisFound
        /\ members' = [others EXCEPT ![u] = @ \cup {t}]
    BY <1>6 DEF RedisTokens!Put, RedisTokens!Exists
  <2>2. /\ entry \in RedisTokens!Entry /\ entry # NoEntry /\ entry.user = u
        /\ entry.endless = forever /\ forever \in BOOLEAN
    <3>1. forever \in BOOLEAN
      OBVIOUS
    <3> HIDE DEF forever
    <3>2. entry \in RedisTokens!Entry
      BY <3>1 DEF RedisTokens!Entry
    <3> QED BY <3>1, <3>2 DEF RedisTokens!RedisTokenStoreAssumption
  <2>3. /\ others \in [TokenUser -> SUBSET StoredToken]
        /\ \A v \in TokenUser, o \in StoredToken : o # t => (o \in others[v] <=> o \in members[v])
    BY <1>a, RedisEntry
  <2> HIDE DEF entry, others, forever
  <2>4. RedisIndex'
    <3>1. members' \in [TokenUser -> SUBSET StoredToken] /\ key' \in [StoredToken -> RedisTokens!Entry \cup {NoEntry}]
      BY <1>a, <2>1, <2>2, <2>3
    <3>2. ASSUME NEW o \in StoredToken, key'[o] # NoEntry PROVE o \in members'[key'[o].user]
      <4>1. CASE o = t
        BY <1>a, <2>1, <2>2, <2>3, <4>1
      <4>2. CASE o # t
        <5>1. key'[o] = key[o] /\ key[o].user \in TokenUser /\ o \in members[key[o].user]
          BY <1>a, <2>1, <3>2, <4>2, RedisEntry
        <5> QED BY <2>1, <2>3, <4>2, <5>1
      <4> QED BY <4>1, <4>2
    <3> QED BY <3>1, <3>2 DEF RedisIndex
  <2>5. /\ RedisOwner' = [RedisOwner EXCEPT ![t] = u]
        /\ RedisEndless' = [RedisEndless EXCEPT ![t] = forever]
    <3>1. \A o \in StoredToken : key'[o] = IF o = t THEN entry ELSE key[o]
      BY <1>a, <2>1
    <3>2. /\ RedisOwner' = [o \in StoredToken |-> IF key'[o] # NoEntry THEN key'[o].user ELSE Nobody]
          /\ RedisEndless' = [o \in StoredToken |-> key'[o] # NoEntry /\ key'[o].endless]
      BY DEF RedisOwner, RedisEndless, RedisTokens!Owner, RedisTokens!Exists
    <3>3. /\ RedisOwner = [o \in StoredToken |-> IF key[o] # NoEntry THEN key[o].user ELSE Nobody]
          /\ RedisEndless = [o \in StoredToken |-> key[o] # NoEntry /\ key[o].endless]
      BY DEF RedisOwner, RedisEndless, RedisTokens!Owner, RedisTokens!Exists
    <3>4. \A o \in StoredToken : /\ o # t => key'[o] = key[o]
                           /\ key'[t] # NoEntry /\ key'[t].user = u /\ key'[t].endless = forever
      BY <2>2, <3>1
    <3>5. /\ \A o \in StoredToken : RedisOwner'[o] = IF o = t THEN u ELSE RedisOwner[o]
          /\ \A o \in StoredToken : RedisEndless'[o] = IF o = t THEN forever ELSE RedisEndless[o]
      BY <2>2, <3>2, <3>3, <3>4
    <3> QED BY <3>2, <3>3, <3>5
  <2>6. RedisTokens!Contract!Put(t, u)
    BY <2>1, <2>2, <2>5 DEF RedisTokens!Contract!Put, RedisOwner, RedisEndless
  <2> QED BY <2>4, <2>6
<1>7. CASE UNCHANGED RedisTokens!vars
  BY <1>7 DEF RedisTokens!vars, RedisIndex, RedisOwner, RedisEndless,
              RedisTokens!Owner, RedisTokens!Exists
<1> QED BY <1>1, <1>2, <1>3, <1>4, <1>5, <1>6, <1>7
        DEF RedisTokens!Next, RedisTokens!Contract!Next

(* The Redis token store does what a token store promises, although the      *)
(* server lets tokens expire without a word to the sets of their users.      *)
THEOREM RedisTokenStoreKeepsContract == RedisTokens!Spec => RedisTokensKeepContract
<1> USE TokenStoresAssumption
<1>1. RedisTokens!Init => RedisIndex /\ RedisTokens!Contract!Init
  BY DEF RedisTokens!Init, RedisIndex, RedisTokens!Contract!Init,
         RedisTokens!Owner, RedisTokens!Exists
<1>2. RedisIndex /\ [RedisTokens!Next]_(RedisTokens!vars) =>
        RedisIndex' /\ [RedisTokens!Contract!Next]_<<RedisOwner, RedisEndless, redisFound>>
  BY RedisTokensStep
<1> QED BY <1>1, <1>2, PTL
        DEF RedisTokens!Spec, RedisTokensKeepContract, RedisTokens!KeepsContract,
            RedisTokens!Contract!Spec, RedisOwner, RedisEndless
-------------------------------------------------------------------------------
(* Every set of numbers that is not empty has a first: induction for what  *)
(* follows.                                                                *)
LEMMA Least ==
  ASSUME NEW T \in SUBSET Nat, T # {}
  PROVE  \E n \in T : \A m \in T : n <= m
<1>1. IsWellFoundedOn(OpToRel(<, Nat), Nat)
  BY NatLessThanWellFounded
<1>2. PICK n \in T : \A m \in T : ~(<<m, n>> \in OpToRel(<, Nat))
  BY <1>1, WFMin
<1>3. \A m \in T : ~(m < n)
  BY <1>2 DEF OpToRel
<1> QED BY <1>3

LEMMA FirstIsLeast ==
  ASSUME NEW T \in SUBSET Nat, T # {}
  PROVE  First(T) \in T /\ \A n \in T : First(T) <= n
BY Least DEF First

LEMMA OneLong ==
  ASSUME NEW s \in Seq(Character), Len(s) = 1
  PROVE  s = <<s[1]>>
OBVIOUS

LEMMA RootIsPath == Root \in Seq(Character) /\ Root # << >> /\ Len(Root) = 1
<1>1. "/" \in Character
  BY PathsAssumption
<1> QED BY <1>1 DEF Root

(* The slashes at the end of a path are trimmed from either side.          *)
LEMMA TrimmedPath ==
  ASSUME NEW path \in Seq(Character)
  PROVE  /\ Normalized(path) = Trimmed(path)
         /\ Normalized(path) \in Seq(Character) /\ Normalized(path) # << >>
<1> DEFINE kept == {n \in 1 .. Len(path) : path[n] # "/"}
           ends == {n \in 1 .. Len(path) : \A k \in n + 1 .. Len(path) : path[k] = "/"}
<1>1. CASE path = << >>
  <2>1. kept = {}
    BY <1>1
  <2>2. Normalized(path) = Root
    BY <2>1 DEF Normalized
  <2> QED BY <1>1, <2>2, RootIsPath DEF Trimmed
<1> SUFFICES ASSUME path # << >> PROVE Normalized(path) = Trimmed(path)
      /\ Normalized(path) \in Seq(Character) /\ Normalized(path) # << >>
  BY <1>1
<1>2. Len(path) \in Nat \ {0} /\ Len(path) \in ends /\ ends \in SUBSET Nat
  OBVIOUS
<1>3. First(ends) \in ends /\ \A n \in ends : First(ends) <= n
  BY <1>2, FirstIsLeast
<1>4. Trimmed(path) = SubSeq(path, 1, First(ends))
  BY DEF Trimmed
<1>5. CASE kept = {}
  <2>1. 1 \in ends
    BY <1>2, <1>5
  <2>2. First(ends) = 1
    BY <1>3, <2>1
  <2>3. SubSeq(path, 1, 1) = Root
    <3> DEFINE s == SubSeq(path, 1, 1)
    <3>1. s \in Seq(Character) /\ Len(s) = 1 /\ s[1] = path[1]
      BY <1>2
    <3>2. path[1] = "/"
      BY <1>2, <1>5
    <3> HIDE DEF s
    <3>3. s = <<"/">>
      BY <3>1, <3>2, OneLong
    <3> QED BY <3>3 DEF s, Root
  <2>4. Normalized(path) = Root
    BY <1>5 DEF Normalized
  <2> QED BY <1>4, <2>2, <2>3, <2>4, RootIsPath
<1>6. CASE kept # {}
  <2> DEFINE m == First(ends)
  <2>1. m \in kept
    <3>1. PICK k \in kept : TRUE
      BY <1>6
    <3>2. k <= m
      BY <1>2, <1>3, <3>1
    <3>3. m \in 1 .. Len(path) /\ \A j \in m + 1 .. Len(path) : path[j] = "/"
      BY <1>3
    <3>4. m \in Nat /\ \A n \in ends : m <= n
      BY <1>2, <1>3
    <3> HIDE DEF m
    <3>5. CASE m = 1
      BY <1>2, <3>1, <3>2, <3>5
    <3>6. CASE m # 1
      <4>1. m - 1 \in 1 .. Len(path) /\ m - 1 < m
        BY <1>2, <3>3, <3>6
      <4>2. m - 1 \notin ends
        <5>1. ~ (m <= m - 1)
          BY <3>4
        <5> HIDE DEF ends
        <5> QED BY <3>4, <5>1
      <4>3. PICK j \in (m - 1) + 1 .. Len(path) : path[j] # "/"
        BY <4>1, <4>2
      <4>4. j \in 1 .. Len(path) /\ m <= j
        BY <1>2, <3>3, <4>3
      <4>5. ~(m < j)
        BY <1>2, <3>3, <4>3, <4>4
      <4> QED BY <3>3, <4>3, <4>4, <4>5
    <3> QED BY <3>5, <3>6
  <2>2. \A k \in kept : k <= m
    <3>1. m \in 1 .. Len(path) /\ \A j \in m + 1 .. Len(path) : path[j] = "/"
      BY <1>3
    <3> HIDE DEF m
    <3> QED BY <1>2, <3>1
  <2> DEFINE last == CHOOSE n \in kept : \A k \in kept : k <= n
  <2>3. m \in Nat /\ kept \in SUBSET Nat
    BY <1>3
  <2> HIDE DEF kept, m
  <2>4. last \in kept /\ \A k \in kept : k <= last
    BY <2>1, <2>2
  <2>5. last = m
    <3>1. last <= m /\ m <= last /\ last \in Nat
      BY <2>1, <2>2, <2>3, <2>4
    <3> HIDE DEF last
    <3> QED BY <2>3, <3>1
  <2>6. Normalized(path) = SubSeq(path, 1, last)
    BY <1>6 DEF Normalized, kept
  <2> HIDE DEF last
  <2>7. SubSeq(path, 1, m) \in Seq(Character) /\ SubSeq(path, 1, m) # << >>
    <3>1. m \in 1 .. Len(path)
      BY <1>3 DEF m
    <3> QED BY <1>2, <3>1
  <2> QED BY <1>4, <2>5, <2>6, <2>7 DEF m
<1> QED BY <1>5, <1>6
-------------------------------------------------------------------------------
(* A rule with a path that is not empty matches a path as far as the       *)
(* definition of the documentation says.                                   *)
LEMMA StartsWithIs ==
  ASSUME NEW path \in Seq(Character), NEW prefix \in Seq(Character)
  PROVE  StartsWith(path, prefix) <=> \E n \in 0 .. Len(path) : prefix = SubSeq(path, 1, n)
<1>1. \A n \in 0 .. Len(path) : Len(SubSeq(path, 1, n)) = n
  OBVIOUS
<1>2. Len(prefix) \in Nat
  OBVIOUS
<1> QED BY <1>1, <1>2 DEF StartsWith

LEMMA SegmentIs ==
  ASSUME NEW path \in Seq(Character), path # << >>,
         NEW p \in Seq(Character), p # << >>
  PROVE  (StartsWith(path, p) /\ (p = Root \/ Len(path) = Len(p) \/ path[Len(p) + 1] = "/"))
         <=> \/ p = path
             \/ p = Root /\ path[1] = "/"
             \/ \E n \in 1 .. Len(path) : path[n] = "/" /\ p = SubSeq(path, 1, n - 1)
<1>1. Len(p) \in Nat /\ Len(path) \in Nat \ {0} /\ SubSeq(path, 1, Len(path)) = path
  OBVIOUS
<1>2. \A n \in 0 .. Len(path) : Len(SubSeq(path, 1, n)) = n
  OBVIOUS
<1>3. ASSUME p = Root PROVE StartsWith(path, p) <=> path[1] = "/"
  <2>1. Len(Root) = 1 /\ Root[1] = "/"
    BY DEF Root
  <2> DEFINE s == SubSeq(path, 1, 1)
  <2>2. s \in Seq(Character) /\ Len(s) = 1 /\ s[1] = path[1]
    BY <1>1
  <2>3. s = Root <=> path[1] = "/"
    BY <2>1, <2>2, OneLong DEF Root
  <2> QED BY <1>1, <1>3, <2>1, <2>3 DEF StartsWith
<1>4. ASSUME StartsWith(path, p), Len(path) = Len(p) PROVE p = path
  BY <1>1, <1>4 DEF StartsWith
<1>5. ASSUME p = path PROVE StartsWith(path, p)
  BY <1>1, <1>5 DEF StartsWith
<1>6. ASSUME StartsWith(path, p), Len(path) # Len(p), path[Len(p) + 1] = "/"
      PROVE  \E n \in 1 .. Len(path) : path[n] = "/" /\ p = SubSeq(path, 1, n - 1)
  <2>1. Len(p) + 1 \in 1 .. Len(path) /\ (Len(p) + 1) - 1 = Len(p)
    <3>1. Len(p) <= Len(path)
      BY <1>6 DEF StartsWith
    <3> QED BY <1>1, <1>6, <3>1
  <2>2. p = SubSeq(path, 1, Len(p))
    BY <1>6 DEF StartsWith
  <2> QED BY <1>6, <2>1, <2>2
<1>7. ASSUME NEW n \in 1 .. Len(path), path[n] = "/", p = SubSeq(path, 1, n - 1)
      PROVE  StartsWith(path, p) /\ path[Len(p) + 1] = "/"
  <2>1. n - 1 \in 0 .. Len(path) /\ (n - 1) + 1 = n
    BY <1>1
  <2>2. Len(p) = n - 1
    BY <1>2, <1>7, <2>1
  <2> QED BY <1>1, <1>7, <2>1, <2>2 DEF StartsWith
<1> QED BY <1>3, <1>4, <1>5, <1>6, <1>7

LEMMA PrefixApplies ==
  ASSUME NEW rule \in AccessControlRule, rule.kind \in {"prefix", "segment"},
         rule.kind = "segment" => rule.path # << >>,
         NEW path \in Seq(Character), path # << >>
  PROVE  MatchesPrefix(rule, path) <=> Applies(rule, path)
<1>1. rule.path \in Seq(Character)
  BY DEF AccessControlRule
<1>2. CASE rule.kind = "prefix"
  BY <1>1, <1>2, StartsWithIs DEF MatchesPrefix, Applies
<1>3. CASE rule.kind = "segment"
  BY <1>1, <1>3, SegmentIs DEF MatchesPrefix, Applies
<1> QED BY <1>2, <1>3

(* One rule at most goes before all the others.                            *)
LEMMA InForceIs ==
  ASSUME NEW rules \in Seq(AccessControlRule), NEW path,
         NEW m \in DOMAIN rules, Applies(rules[m], path),
         \A j \in DOMAIN rules \ {m} : Applies(rules[j], path) => Before(rules, m, j)
  PROVE  InForce(rules, path) = {m}
<1>1. ASSUME NEW i \in DOMAIN rules, NEW j \in DOMAIN rules, Before(rules, i, j), Before(rules, j, i)
      PROVE  FALSE
  <2>1. i \in Nat /\ j \in Nat /\ rules[i] \in AccessControlRule /\ rules[j] \in AccessControlRule
    OBVIOUS
  <2>2. Len(rules[i].path) \in Nat /\ Len(rules[j].path) \in Nat
    BY <2>1 DEF AccessControlRule
  <2>3. \A k \in {i, j} : Tier(rules[k]) \in 1 .. 4
    BY <2>1 DEF AccessControlRule, Tier
  <2> DEFINE a == Len(rules[i].path)
             b == Len(rules[j].path)
             s == Tier(rules[i])
             t == Tier(rules[j])
  <2>4. s < t \/ (s = t /\ IF s = 2 /\ a - b # 0 THEN a - b > 0 ELSE i < j)
    BY <1>1, Zenon DEF Before
  <2>5. t < s \/ (t = s /\ IF t = 2 /\ b - a # 0 THEN b - a > 0 ELSE j < i)
    BY <1>1, Zenon DEF Before
  <2>6. a \in Nat /\ b \in Nat /\ s \in 1 .. 4 /\ t \in 1 .. 4
    BY <2>2, <2>3
  <2> HIDE DEF a, b, s, t
  <2> QED BY <2>1, <2>4, <2>5, <2>6
<1>2. m \in InForce(rules, path)
  BY DEF InForce
<1>3. ASSUME NEW i \in InForce(rules, path), i # m PROVE FALSE
  <2>1. i \in DOMAIN rules /\ Applies(rules[i], path) /\ Before(rules, i, m)
    BY <1>3 DEF InForce
  <2> QED BY <1>1, <1>3, <2>1
<1> QED BY <1>2, <1>3

LEMMA BeforeByTier ==
  ASSUME NEW rules, NEW i, NEW j, Tier(rules[i]) < Tier(rules[j])
  PROVE  Before(rules, i, j)
BY DEF Before

(* The rules of T apply, have one tier and one length, and go before the   *)
(* others.                                                                 *)
GoFirst(rules, path, T) ==
  /\ T \subseteq DOMAIN rules /\ T # {}
  /\ \A i \in T : Applies(rules[i], path)
  /\ \A i, j \in T : /\ Tier(rules[i]) = Tier(rules[j])
                     /\ Tier(rules[i]) = 2 => Len(rules[i].path) = Len(rules[j].path)
  /\ \A i \in T, j \in DOMAIN rules \ T : Applies(rules[j], path) => Before(rules, i, j)

(* The first of them is the one in force.                                  *)
LEMMA FirstIsInForce ==
  ASSUME NEW rules \in Seq(AccessControlRule), NEW path, NEW T, GoFirst(rules, path, T)
  PROVE  First(T) \in DOMAIN rules /\ InForce(rules, path) = {First(T)}
<1>1. DOMAIN rules \in SUBSET Nat
  OBVIOUS
<1>2. First(T) \in T /\ \A n \in T : First(T) <= n
  BY <1>1, FirstIsLeast DEF GoFirst
<1> DEFINE m == First(T)
<1>3. ASSUME NEW j \in T \ {m} PROVE Before(rules, m, j)
  <2>1. m \in T /\ j \in T /\ m <= j /\ m # j /\ m \in Nat /\ j \in Nat
    BY <1>1, <1>2 DEF GoFirst
  <2> HIDE DEF m
  <2>2. m < j
    BY <2>1
  <2>3. Len(rules[m].path) \in Nat /\ Len(rules[j].path) \in Nat
    <3>1. rules[m] \in AccessControlRule /\ rules[j] \in AccessControlRule
      BY <2>1 DEF GoFirst
    <3> QED BY <3>1 DEF AccessControlRule
  <2>4. Tier(rules[m]) = Tier(rules[j])
        /\ (Tier(rules[m]) = 2 => Len(rules[m].path) - Len(rules[j].path) = 0)
    BY <2>1, <2>3 DEF GoFirst
  <2> QED BY <2>2, <2>4, Zenon DEF Before
<1> HIDE DEF m
<1>4. m \in T
  BY <1>2 DEF m
<1>5. \A j \in DOMAIN rules \ {m} : Applies(rules[j], path) => Before(rules, m, j)
  BY <1>3, <1>4 DEF GoFirst
<1>6. m \in DOMAIN rules /\ Applies(rules[m], path)
  BY <1>4 DEF GoFirst
<1> QED BY <1>5, <1>6, InForceIs DEF m

(* The rule the lists of the code find is the one in force, and where they *)
(* find none there is none.                                                *)
LEMMA MatchIsInForce ==
  ASSUME NEW rules \in Seq(AccessControlRule), HasSegments(rules),
         NEW path \in Seq(Character), path # << >>
  PROVE  \/ MatchRuleIndex(rules, path) = 0 /\ InForce(rules, path) = {}
         \/ /\ MatchRuleIndex(rules, path) \in DOMAIN rules
            /\ InForce(rules, path) = {MatchRuleIndex(rules, path)}
<1> DEFINE exact == {i \in DOMAIN rules : rules[i].kind = "exact" /\ rules[i].path = path}
           prefixes == {i \in DOMAIN rules : rules[i].kind \in {"prefix", "segment"}
                          /\ rules[i].path # << >> /\ MatchesPrefix(rules[i], path)}
           longest == {i \in prefixes : \A j \in prefixes : Len(rules[j].path) <= Len(rules[i].path)}
           regexes == {i \in DOMAIN rules : rules[i].kind = "regex" /\ path \in rules[i].matches}
           fallbacks == {i \in DOMAIN rules : rules[i].kind = "prefix" /\ rules[i].path = << >>}
<1>1. MatchRuleIndex(rules, path) =
        IF exact # {} THEN First(exact)
        ELSE IF longest # {} THEN First(longest)
        ELSE IF regexes # {} THEN First(regexes)
        ELSE IF fallbacks # {} THEN First(fallbacks) ELSE 0
  BY Zenon DEF MatchRuleIndex
<1>2. /\ \A i \in exact : Applies(rules[i], path) /\ Tier(rules[i]) = 1
      /\ \A i \in regexes : Applies(rules[i], path) /\ Tier(rules[i]) = 3
  BY DEF Applies, Tier
<1>3. \A i \in fallbacks : Applies(rules[i], path) /\ Tier(rules[i]) = 4
  <2>1. 0 \in 0 .. Len(path) /\ SubSeq(path, 1, 0) = << >>
    OBVIOUS
  <2> QED BY <2>1 DEF Applies, Tier
<1>4. \A i \in prefixes : /\ Applies(rules[i], path) /\ Tier(rules[i]) = 2
                          /\ Len(rules[i].path) \in 0 .. Len(path)
  <2> TAKE i \in prefixes
  <2>1. rules[i] \in AccessControlRule
    OBVIOUS
  <2>2. Len(rules[i].path) \in Nat /\ Len(path) \in Nat
    BY <2>1 DEF AccessControlRule
  <2>3. Len(rules[i].path) <= Len(path)
    BY DEF MatchesPrefix, StartsWith
  <2> QED BY <2>1, <2>2, <2>3, PrefixApplies DEF Tier
<1>5. ASSUME NEW i \in DOMAIN rules, Applies(rules[i], path)
      PROVE  i \in exact \cup prefixes \cup regexes \cup fallbacks
  <2>1. rules[i] \in AccessControlRule
    OBVIOUS
  <2>2. rules[i].kind \in {"exact", "prefix", "segment", "regex"}
    BY <2>1 DEF AccessControlRule
  <2>3. CASE rules[i].kind = "exact"
    BY <1>5, <2>3 DEF Applies
  <2>4. CASE rules[i].kind = "regex"
    BY <1>5, <2>4 DEF Applies
  <2>5. CASE rules[i].kind \in {"prefix", "segment"}
    <3>1. rules[i].kind = "segment" => rules[i].path # << >>
      BY DEF HasSegments
    <3>2. MatchesPrefix(rules[i], path)
      BY <1>5, <2>1, <2>5, <3>1, PrefixApplies
    <3> QED BY <2>5, <3>1, <3>2
  <2> QED BY <2>2, <2>3, <2>4, <2>5
<1>6. prefixes # {} => longest # {}
  <2> SUFFICES ASSUME prefixes # {} PROVE longest # {}
    OBVIOUS
  <2> DEFINE short == {Len(path) - Len(rules[i].path) : i \in prefixes}
  <2>1. Len(path) \in Nat
    OBVIOUS
  <2>2. short \in SUBSET Nat /\ short # {}
    BY <1>4, <2>1
  <2>3. PICK n \in short : \A k \in short : n <= k
    BY <2>2, Least
  <2>4. PICK i \in prefixes : n = Len(path) - Len(rules[i].path)
    BY <2>3
  <2>5. ASSUME NEW j \in prefixes PROVE Len(rules[j].path) <= Len(rules[i].path)
    <3> DEFINE a == Len(rules[i].path)
               b == Len(rules[j].path)
    <3>1. Len(path) - b \in short /\ n = Len(path) - a
      BY <2>4
    <3>2. a \in Nat /\ b \in Nat
      BY <1>4, <2>1
    <3>3. n <= Len(path) - b
      BY <2>3, <3>1
    <3> HIDE DEF a, b
    <3>4. b <= a
      BY <2>1, <3>1, <3>2, <3>3
    <3> QED BY <3>4 DEF a, b
  <2> QED BY <2>4, <2>5
<1>7. exact \subseteq DOMAIN rules /\ longest \subseteq DOMAIN rules /\ longest \subseteq prefixes
      /\ regexes \subseteq DOMAIN rules /\ fallbacks \subseteq DOMAIN rules
      /\ prefixes \subseteq DOMAIN rules
  OBVIOUS
<1>8. \A i, j \in longest : Len(rules[i].path) = Len(rules[j].path)
  BY <1>4
<1>9. \A i \in longest, j \in prefixes \ longest : Before(rules, i, j)
  <2> TAKE i \in longest, j \in prefixes \ longest
  <2> DEFINE longer == Len(rules[i].path) - Len(rules[j].path)
  <2>1. PICK k \in prefixes : ~ (Len(rules[k].path) <= Len(rules[j].path))
    OBVIOUS
  <2>2. Len(rules[k].path) <= Len(rules[i].path)
    OBVIOUS
  <2>3. longer > 0 /\ longer # 0
    <3> DEFINE a == Len(rules[i].path)
               b == Len(rules[j].path)
               c == Len(rules[k].path)
    <3>1. a \in Nat /\ b \in Nat /\ c \in Nat /\ ~ (c <= b) /\ c <= a
      BY <1>4, <2>1, <2>2
    <3> HIDE DEF a, b, c
    <3>2. a - b > 0 /\ a - b # 0
      BY <3>1
    <3> QED BY <3>2 DEF a, b
  <2> HIDE DEF longer
  <2>4. Tier(rules[i]) = 2 /\ Tier(rules[j]) = 2
    BY <1>4
  <2> QED BY <2>3, <2>4 DEF Before, longer
<1> HIDE DEF exact, prefixes, longest, regexes, fallbacks
<1>10. CASE exact # {}
  <2>1. \A i \in exact, j \in DOMAIN rules \ exact : Applies(rules[j], path) => Before(rules, i, j)
    BY <1>2, <1>3, <1>4, <1>5, BeforeByTier
  <2>2. GoFirst(rules, path, exact)
    BY <1>2, <1>7, <1>10, <2>1 DEF GoFirst
  <2> QED BY <1>1, <1>10, <2>2, FirstIsInForce
<1>11. CASE exact = {} /\ longest # {}
  <2>1. \A i \in longest, j \in DOMAIN rules \ longest : Applies(rules[j], path) => Before(rules, i, j)
    BY <1>2, <1>3, <1>4, <1>5, <1>7, <1>9, <1>11, BeforeByTier
  <2>2. \A i \in longest : Applies(rules[i], path)
    BY <1>4, <1>7, <1>8, <1>11
  <2>3. \A i, j \in longest :
          /\ Tier(rules[i]) = Tier(rules[j])
          /\ Tier(rules[i]) = 2 => Len(rules[i].path) = Len(rules[j].path)
    BY <1>4, <1>7, <1>8, <1>11
  <2>4. First(longest) \in DOMAIN rules /\ InForce(rules, path) = {First(longest)}
    <3>1. GoFirst(rules, path, longest)
      BY <1>7, <1>11, <2>1, <2>2, <2>3 DEF GoFirst
    <3> QED BY <3>1, FirstIsInForce
  <2> QED BY <1>1, <1>11, <2>4
<1>12. CASE exact = {} /\ longest = {} /\ regexes # {}
  <2>1. \A i \in regexes, j \in DOMAIN rules \ regexes : Applies(rules[j], path) => Before(rules, i, j)
    BY <1>2, <1>3, <1>5, <1>6, <1>12, BeforeByTier
  <2>2. \A i \in regexes : Applies(rules[i], path)
    BY <1>2, <1>7, <1>12
  <2>3. \A i, j \in regexes :
          /\ Tier(rules[i]) = Tier(rules[j])
          /\ Tier(rules[i]) = 2 => Len(rules[i].path) = Len(rules[j].path)
    BY <1>2, <1>7, <1>12
  <2>4. First(regexes) \in DOMAIN rules /\ InForce(rules, path) = {First(regexes)}
    <3>1. GoFirst(rules, path, regexes)
      BY <1>7, <1>12, <2>1, <2>2, <2>3 DEF GoFirst
    <3> QED BY <3>1, FirstIsInForce
  <2> QED BY <1>1, <1>12, <2>4
<1>13. CASE exact = {} /\ longest = {} /\ regexes = {} /\ fallbacks # {}
  <2>1. \A i \in fallbacks, j \in DOMAIN rules \ fallbacks : ~ Applies(rules[j], path)
    BY <1>5, <1>6, <1>13
  <2>2. \A i \in fallbacks : Applies(rules[i], path)
    BY <1>3, <1>7, <1>13
  <2>3. \A i, j \in fallbacks :
          /\ Tier(rules[i]) = Tier(rules[j])
          /\ Tier(rules[i]) = 2 => Len(rules[i].path) = Len(rules[j].path)
    BY <1>3, <1>7, <1>13
  <2>4. First(fallbacks) \in DOMAIN rules /\ InForce(rules, path) = {First(fallbacks)}
    <3>1. GoFirst(rules, path, fallbacks)
      BY <1>7, <1>13, <2>1, <2>2, <2>3 DEF GoFirst
    <3> QED BY <3>1, FirstIsInForce
  <2> QED BY <1>1, <1>13, <2>4
<1>14. CASE exact = {} /\ longest = {} /\ regexes = {} /\ fallbacks = {}
  <2>1. InForce(rules, path) = {}
    BY <1>5, <1>6, <1>14 DEF InForce
  <2> QED BY <1>1, <1>14, <2>1
<1> QED BY <1>10, <1>11, <1>12, <1>13, <1>14
-------------------------------------------------------------------------------
Grown(S) == S \cup UNION {Inherited[r] : r \in S}

(* The sets of the expansion, one after the other.                         *)
Expansion(e, roles, last) == e = [n \in 0 .. last |-> IF n = 0 THEN roles ELSE Grown(e[n - 1])]

LEMMA ExpansionLonger ==
  ASSUME NEW roles, NEW last \in Nat, NEW e, Expansion(e, roles, last)
  PROVE  \E f : Expansion(f, roles, last + 1)
<1> DEFINE f == [n \in 0 .. last + 1 |-> IF n = last + 1 THEN Grown(e[last]) ELSE e[n]]
           g == [n \in 0 .. last + 1 |-> IF n = 0 THEN roles ELSE Grown(f[n - 1])]
<1>1. \A n \in 0 .. last : e[n] = IF n = 0 THEN roles ELSE Grown(e[n - 1])
  BY Zenon DEF Expansion
<1>2. \A n \in 0 .. last + 1 : f[n] = IF n = last + 1 THEN Grown(e[last]) ELSE e[n]
  OBVIOUS
<1>3. ASSUME NEW n \in 0 .. last + 1 PROVE f[n] = g[n]
  <2>1. g[n] = IF n = 0 THEN roles ELSE Grown(f[n - 1])
    OBVIOUS
  <2> HIDE DEF f, g
  <2>2. CASE n = last + 1
    <3>1. n - 1 = last /\ n # 0 /\ last \in 0 .. last + 1 /\ last # last + 1
      BY <2>2
    <3> QED BY <1>2, <2>1, <2>2, <3>1
  <2>3. CASE n # last + 1
    <3>1. n \in 0 .. last /\ (n # 0 => n - 1 \in 0 .. last + 1 /\ n - 1 # last + 1)
      BY <2>3
    <3> QED BY <1>1, <1>2, <2>1, <2>3, <3>1
  <2> QED BY <2>2, <2>3
<1>4. f = g
  BY <1>3
<1>5. Expansion(f, roles, last + 1)
  <2>1. f = [n \in 0 .. last + 1 |-> IF n = 0 THEN roles ELSE Grown(f[n - 1])]
    BY <1>4, Zenon
  <2> HIDE DEF f
  <2> QED BY <2>1, Zenon DEF Expansion
<1> QED BY <1>5, Zenon

LEMMA ExpansionExists ==
  ASSUME NEW roles, NEW last \in Nat
  PROVE  \E e : Expansion(e, roles, last)
<1> DEFINE missing == {n \in Nat : ~ \E e : Expansion(e, roles, n)}
<1> SUFFICES ASSUME missing # {} PROVE FALSE
  OBVIOUS
<1>1. PICK n \in missing : \A m \in missing : n <= m
  BY Least
<1>2. CASE n = 0
  <2> DEFINE e == [k \in 0 .. 0 |-> roles]
  <2>1. e = [k \in 0 .. 0 |-> IF k = 0 THEN roles ELSE Grown(e[k - 1])]
    OBVIOUS
  <2> HIDE DEF e
  <2>2. Expansion(e, roles, 0)
    BY <2>1, Zenon DEF Expansion
  <2> QED BY <1>1, <1>2, <2>2
<1>3. CASE n # 0
  <2>1. n - 1 \in Nat /\ (n - 1) + 1 = n
    BY <1>1, <1>3
  <2>2. n - 1 \notin missing
    BY <1>1, <2>1
  <2>3. PICK e : Expansion(e, roles, n - 1)
    BY <2>1, <2>2
  <2>4. \E f : Expansion(f, roles, (n - 1) + 1)
    BY <2>1, <2>3, ExpansionLonger
  <2> QED BY <1>1, <2>1, <2>4
<1> QED BY <1>2, <1>3

LEMMA ExpandRolesIs ==
  ASSUME NEW roles, Cardinality(Role) \in Nat
  PROVE  \E e : Expansion(e, roles, Cardinality(Role)) /\ ExpandRoles(roles) = e[Cardinality(Role)]
<1> DEFINE e == CHOOSE e : Expansion(e, roles, Cardinality(Role))
<1>1. Expansion(e, roles, Cardinality(Role))
  BY ExpansionExists
<1>2. ExpandRoles(roles) = e[Cardinality(Role)]
  BY Zenon DEF ExpandRoles, Expansion, Grown
<1> HIDE DEF e
<1> QED BY <1>1, <1>2

Closed(S) == \A r \in S : Inherited[r] \subseteq S

LEMMA GrownIs ==
  ASSUME NEW S
  PROVE  S \subseteq Grown(S) /\ (Closed(S) <=> Grown(S) = S)
BY DEF Grown, Closed

LEMMA GrownWithin ==
  ASSUME NEW S, NEW T, S \subseteq T, Closed(T)
  PROVE  Grown(S) \subseteq T
BY DEF Grown, Closed

(* What is expanded has the roles it starts from, stays within every set   *)
(* that has them and what its members inherit, and grows until it is such  *)
(* a set: each time by a role at least, and there are only so many.        *)
LEMMA ExpansionValues ==
  ASSUME NEW roles, NEW last \in Nat, NEW e, Expansion(e, roles, last)
  PROVE  /\ e[0] = roles
         /\ \A n \in 0 .. last : n # 0 => n - 1 \in 0 .. last /\ e[n] = Grown(e[n - 1])
<1>1. \A n \in 0 .. last : e[n] = IF n = 0 THEN roles ELSE Grown(e[n - 1])
  BY Zenon DEF Expansion
<1>2. 0 \in 0 .. last /\ \A n \in 0 .. last : n # 0 => n - 1 \in 0 .. last
  OBVIOUS
<1> QED BY <1>1, <1>2

LEMMA ExpansionBounds ==
  ASSUME NEW roles, NEW last \in Nat, NEW e, Expansion(e, roles, last),
         NEW S, roles \subseteq S, Closed(S), NEW n \in 0 .. last
  PROVE  roles \subseteq e[n] /\ e[n] \subseteq S
<1> DEFINE bad == {k \in 0 .. last : ~ (roles \subseteq e[k] /\ e[k] \subseteq S)}
<1> SUFFICES ASSUME bad # {} PROVE FALSE
  OBVIOUS
<1>1. PICK m \in bad : \A k \in bad : m <= k
  <2>1. bad \in SUBSET Nat
    OBVIOUS
  <2> QED BY <2>1, Least
<1>2. m # 0
  BY <1>1, ExpansionValues
<1>3. m - 1 \in 0 .. last /\ e[m] = Grown(e[m - 1])
  BY <1>1, <1>2, ExpansionValues
<1>4. m - 1 \notin bad
  <2>1. m \in Nat /\ ~ (m <= m - 1)
    BY <1>1
  <2> HIDE DEF bad
  <2> QED BY <1>1, <2>1
<1>5. roles \subseteq e[m - 1] /\ e[m - 1] \subseteq S
  BY <1>3, <1>4
<1>6. roles \subseteq e[m] /\ e[m] \subseteq S
  BY <1>3, <1>5, GrownIs, GrownWithin
<1> QED BY <1>1, <1>6

LEMMA RoleIsClosed == Closed(Role) /\ IsFiniteSet(Role) /\ Cardinality(Role) \in Nat
<1>1. IsFiniteSet(Role) /\ Inherited \in [Role -> SUBSET Role]
  BY RolesAssumption
<1> QED BY <1>1, FS_CardinalityType DEF Closed

LEMMA ExpansionGrows ==
  ASSUME NEW roles \in SUBSET Role, NEW last \in Nat, NEW e, Expansion(e, roles, last),
         NEW n \in 0 .. last
  PROVE  Closed(e[n]) \/ n <= Cardinality(e[n])
<1> DEFINE bad == {k \in 0 .. last : ~ (Closed(e[k]) \/ k <= Cardinality(e[k]))}
<1> SUFFICES ASSUME bad # {} PROVE FALSE
  OBVIOUS
<1>1. PICK m \in bad : \A k \in bad : m <= k
  <2>1. bad \in SUBSET Nat
    OBVIOUS
  <2> QED BY <2>1, Least
<1>2. \A k \in 0 .. last : IsFiniteSet(e[k]) /\ Cardinality(e[k]) \in Nat
  BY RoleIsClosed, ExpansionBounds, FS_Subset, FS_CardinalityType
<1>3. m # 0
  BY <1>1, <1>2
<1>4. m - 1 \in 0 .. last /\ m \in 0 .. last /\ e[m] = Grown(e[m - 1])
  BY <1>1, <1>3, ExpansionValues
<1>5. m - 1 \notin bad
  <2>1. m \in Nat /\ ~ (m <= m - 1)
    BY <1>1
  <2> HIDE DEF bad
  <2> QED BY <1>1, <2>1
<1>6. CASE Closed(e[m - 1])
  BY <1>1, <1>4, <1>6, GrownIs
<1>7. CASE ~ Closed(e[m - 1])
  <2>1. m - 1 <= Cardinality(e[m - 1])
    BY <1>4, <1>5, <1>7
  <2>2. e[m - 1] \subseteq e[m] /\ e[m - 1] # e[m]
    BY <1>4, <1>7, GrownIs
  <2>3. Cardinality(e[m - 1]) < Cardinality(e[m])
    BY <1>2, <1>4, <2>2, FS_Subset
  <2>4. m <= Cardinality(e[m])
    <3>1. Cardinality(e[m - 1]) \in Nat /\ Cardinality(e[m]) \in Nat /\ m \in Nat
      BY <1>2, <1>4
    <3> QED BY <2>1, <2>3, <3>1
  <2> QED BY <1>1, <2>4
<1> QED BY <1>6, <1>7

(* The roles of an expansion are the roles had by inheritance.             *)
LEMMA ExpandRolesInherits ==
  ASSUME NEW roles \in SUBSET Role, NEW role
  PROVE  role \in ExpandRoles(roles) <=> Inherits(roles, role)
<1> DEFINE last == Cardinality(Role)
<1>1. last \in Nat
  BY RoleIsClosed
<1>2. PICK e : Expansion(e, roles, last) /\ ExpandRoles(roles) = e[last]
  BY <1>1, ExpandRolesIs
<1>3. last \in 0 .. last
  BY <1>1
<1>4. roles \subseteq e[last] /\ e[last] \subseteq Role
  <2>1. roles \subseteq Role /\ Closed(Role)
    BY RoleIsClosed
  <2> HIDE DEF last
  <2> QED BY <1>1, <1>2, <1>3, <2>1, ExpansionBounds
<1>5. Closed(e[last])
  <2>1. SUFFICES ASSUME last <= Cardinality(e[last]) PROVE Closed(e[last])
    BY <1>1, <1>2, <1>3, ExpansionGrows
  <2>2. e[last] = Role
    <3>1. IsFiniteSet(e[last]) /\ Cardinality(e[last]) \in Nat /\ Cardinality(e[last]) <= last
      BY <1>4, RoleIsClosed, FS_Subset, FS_CardinalityType
    <3>2. Cardinality(e[last]) = last
      BY <1>1, <2>1, <3>1
    <3> QED BY <1>4, <3>2, RoleIsClosed, FS_Subset
  <2> QED BY <2>2, RoleIsClosed
<1>6. ASSUME Inherits(roles, role) PROVE role \in e[last]
  BY <1>4, <1>5, <1>6 DEF Inherits, Closed
<1>7. ASSUME role \in e[last], NEW S \in SUBSET Role, roles \subseteq S, Closed(S) PROVE role \in S
  <2> HIDE DEF last
  <2>1. e[last] \subseteq S
    BY <1>1, <1>2, <1>3, <1>7, ExpansionBounds
  <2> QED BY <1>7, <2>1
<1> QED BY <1>2, <1>6, <1>7 DEF Inherits, Closed
-------------------------------------------------------------------------------
(* The voters a firewall is compiled to vote as its voters and the roles a *)
(* user has, inherited or not, make them vote.                             *)
LEMMA VotersVote ==
  ASSUME NEW config \in Setup, NEW u \in User, NEW attribute
  PROVE  /\ DOMAIN EffectiveVoters(config) = DOMAIN config.voters
         /\ DOMAIN Votes(config, u, attribute) = DOMAIN config.voters
         /\ IsFiniteSet(DOMAIN config.voters)
         /\ \A i \in DOMAIN config.voters :
              Vote(EffectiveVoters(config)[i], RolesOf[u], attribute) = Votes(config, u, attribute)[i]
<1>1. config.voters \in Seq({"role", "granted", "denied", "abstain"}) /\ config.hierarchy \in BOOLEAN
  BY Zenon DEF Setup
<1>2. IsFiniteSet(DOMAIN config.voters)
  <2>1. DOMAIN config.voters = 1 .. Len(config.voters) /\ Len(config.voters) \in Nat
    BY <1>1
  <2> QED BY <2>1, FS_Interval
<1>3. RolesOf[u] \in SUBSET Role
  BY ListenersAssumption
<1>4. attribute \in ExpandRoles(RolesOf[u]) <=> Inherits(RolesOf[u], attribute)
  BY <1>3, ExpandRolesInherits
<1>5. ASSUME NEW i \in DOMAIN config.voters
      PROVE  Vote(EffectiveVoters(config)[i], RolesOf[u], attribute) = Votes(config, u, attribute)[i]
  <2>1. config.voters[i] \in {"role", "granted", "denied", "abstain"}
    BY <1>1
  <2>2. EffectiveVoters(config)[i] =
          IF config.hierarchy /\ config.voters[i] = "role" THEN "role hierarchy" ELSE config.voters[i]
    BY Zenon DEF EffectiveVoters
  <2>3. Votes(config, u, attribute)[i] =
          IF config.voters[i] # "role" THEN config.voters[i]
          ELSE IF Has(config, u, attribute) THEN "granted" ELSE "denied"
    BY DEF Votes
  <2>4. CASE config.voters[i] # "role"
    BY <2>1, <2>2, <2>3, <2>4, Zenon DEF Vote
  <2>5. CASE config.voters[i] = "role" /\ config.hierarchy
    BY <1>4, <2>2, <2>3, <2>5, Zenon DEF Vote, Has
  <2>6. CASE config.voters[i] = "role" /\ ~ config.hierarchy
    BY <2>2, <2>3, <2>6 DEF Vote, Has
  <2> QED BY <2>4, <2>5, <2>6
<1>6. DOMAIN EffectiveVoters(config) = DOMAIN config.voters
      /\ DOMAIN Votes(config, u, attribute) = DOMAIN config.voters
  BY DEF EffectiveVoters, Votes
<1> QED BY <1>2, <1>5, <1>6

LEMMA DecidesEnough ==
  ASSUME NEW config \in Setup, NEW u \in User, NEW attribute
  PROVE  DecideSingleAttribute(config.strategy, EffectiveVoters(config), RolesOf[u], attribute)
         <=> Enough(config.strategy, Votes(config, u, attribute))
<1> DEFINE voters == EffectiveVoters(config)
           votes == Votes(config, u, attribute)
           granted == {i \in DOMAIN voters : Vote(voters[i], RolesOf[u], attribute) = "granted"}
           denied == {i \in DOMAIN voters : Vote(voters[i], RolesOf[u], attribute) = "denied"}
           for == {i \in DOMAIN votes : votes[i] = "granted"}
           against == {i \in DOMAIN votes : votes[i] = "denied"}
<1>1. granted = for /\ denied = against
  BY VotersVote
<1>2. IsFiniteSet(for) /\ IsFiniteSet(against)
  <2>1. for \subseteq DOMAIN config.voters /\ against \subseteq DOMAIN config.voters
    BY VotersVote
  <2>2. IsFiniteSet(DOMAIN config.voters)
    BY VotersVote
  <2> HIDE DEF for, against
  <2> QED BY <2>1, <2>2, FS_Subset
<1>3. config.strategy \in {"affirmative", "consensus", "unanimous"}
  BY Zenon DEF Setup
<1>4. DecideSingleAttribute(config.strategy, voters, RolesOf[u], attribute) =
        CASE config.strategy = "affirmative" -> Cardinality(granted) > 0
          [] config.strategy = "consensus" -> Cardinality(granted) > Cardinality(denied)
          [] config.strategy = "unanimous" -> Cardinality(denied) = 0 /\ Cardinality(granted) > 0
  BY Zenon DEF DecideSingleAttribute
<1>5. Enough(config.strategy, votes) <=>
        /\ for # {}
        /\ config.strategy = "unanimous" => against = {}
        /\ config.strategy = "consensus" => Cardinality(for) > Cardinality(against)
  BY Zenon DEF Enough
<1> HIDE DEF granted, denied, for, against, voters, votes
<1>6. /\ Cardinality(for) \in Nat /\ Cardinality(against) \in Nat
      /\ Cardinality(for) = 0 <=> for = {}
      /\ Cardinality(against) = 0 <=> against = {}
  BY <1>2, FS_CardinalityType, FS_EmptySet
<1>7. Cardinality(for) > 0 <=> for # {}
  BY <1>6
<1>8. Cardinality(for) > Cardinality(against) => for # {}
  BY <1>6
<1>9. CASE config.strategy = "affirmative"
  BY <1>1, <1>4, <1>5, <1>7, <1>9 DEF voters, votes
<1>10. CASE config.strategy = "consensus"
  BY <1>1, <1>4, <1>5, <1>8, <1>10 DEF voters, votes
<1>11. CASE config.strategy = "unanimous"
  BY <1>1, <1>4, <1>5, <1>6, <1>7, <1>11 DEF voters, votes
<1> QED BY <1>3, <1>9, <1>10, <1>11

LEMMA DecidesMayPass ==
  ASSUME NEW config \in Setup, NEW u \in User, NEW rule
  PROVE  DecideAll(config.strategy, EffectiveVoters(config), RolesOf[u], rule.needs)
         <=> MayPass(config, u, rule)
BY DecidesEnough DEF DecideAll, MayPass
-------------------------------------------------------------------------------
(* Every list of rules a request can meet is one the lemmas are about.     *)
LEMMA RuleListsAre ==
  ASSUME NEW config \in Setups
  PROVE  /\ config \in Setup
         /\ config.global \in Seq(AccessControlRule) /\ HasSegments(config.global)
         /\ EffectiveRules(config) \in Seq(AccessControlRule)
         /\ HasSegments(EffectiveRules(config))
<1>1. config \in Setup /\ HasSegments(config.global) /\ HasSegments(config.local)
  BY ListenersAssumption
<1>2. config.global \in Seq(AccessControlRule) /\ config.local \in Seq(AccessControlRule)
  BY <1>1, Zenon DEF Setup
<1>3. ASSUME NEW a \in Seq(AccessControlRule), NEW b \in Seq(AccessControlRule),
             HasSegments(a), HasSegments(b)
      PROVE  a \o b \in Seq(AccessControlRule) /\ HasSegments(a \o b)
  <2>1. a \o b \in Seq(AccessControlRule) /\ Len(a \o b) = Len(a) + Len(b)
        /\ Len(a) \in Nat /\ Len(b) \in Nat
    OBVIOUS
  <2>2. ASSUME NEW i \in DOMAIN (a \o b)
        PROVE  \/ i \in DOMAIN a /\ (a \o b)[i] = a[i]
               \/ i - Len(a) \in DOMAIN b /\ (a \o b)[i] = b[i - Len(a)]
    BY <2>1
  <2> QED BY <1>3, <2>1, <2>2 DEF HasSegments
<1> QED BY <1>1, <1>2, <1>3, Zenon DEF EffectiveRules

RuleList == IF FirewallMatches THEN EffectiveRules(setup) ELSE setup.global

(* Where the request is, whose it is taken to be, and whose it was.        *)
ListenersInv ==
  /\ setup \in Setups
  /\ owner \in [Token -> User \cup {NoUser}]
  /\ request.bearer \in Token \cup {NoToken}
  /\ place \in {"arrived", "resolved"} => request.path \in Path
  /\ place = "arrived" => context = NoContext /\ OwnerOf(request.bearer) \in witnessed
  /\ place = "resolved" => (context = NoContext <=> ~FirewallMatches)
  /\ place = "resolved" /\ ~disturbed /\ FirewallMatches => RulesPass
  /\ context \in User => context \in witnessed

LEMMA RequestPath ==
  ASSUME ListenersInv, place = "resolved"
  PROVE  /\ Normalized(request.path) = Trimmed(request.path)
         /\ Normalized(request.path) \in Seq(Character) /\ Normalized(request.path) # << >>
<1>1. request.path \in Seq(Character)
  BY ListenersAssumption DEF ListenersInv
<1> QED BY <1>1, TrimmedPath

(* The access control listener finds what rules the request, if anything.  *)
LEMMA ListenerFindsRuling ==
  ASSUME ListenersInv, place = "resolved"
  PROVE  \/ MatchedIndex = 0 /\ Ruling = {}
         \/ MatchedIndex # 0 /\ \E rule : Ruling = {rule} /\ Attributes = rule.needs
<1>1. RulesInForce = RuleList
  BY DEF ListenersInv, RulesInForce, RuleList
<1>2. RuleList \in Seq(AccessControlRule) /\ HasSegments(RuleList)
  BY RuleListsAre DEF ListenersInv, RuleList
<1> DEFINE path == Normalized(request.path)
<1>3. path \in Seq(Character) /\ path # << >> /\ path = Trimmed(request.path)
  BY RequestPath
<1>4. MatchedIndex = MatchRuleIndex(RuleList, path)
  BY <1>1 DEF MatchedIndex
<1>5. Ruling = {RuleList[i] : i \in InForce(RuleList, path)}
  BY <1>3, Zenon DEF Ruling, RuleList
<1> HIDE DEF path
<1>6. \/ MatchedIndex = 0 /\ InForce(RuleList, path) = {}
      \/ MatchedIndex \in DOMAIN RuleList /\ InForce(RuleList, path) = {MatchedIndex}
  BY <1>2, <1>3, <1>4, MatchIsInForce
<1>7. 0 \notin DOMAIN RuleList
  BY <1>2
<1>8. Attributes = RuleList[MatchedIndex].needs
  BY <1>1 DEF Attributes
<1> QED BY <1>5, <1>6, <1>7, <1>8

(* Whoever is let through may pass, whoever is forbidden may not.          *)
LEMMA GrantedRightly ==
  ASSUME ListenersInv, place = "resolved", MatchedIndex # 0
  PROVE  /\ Granted /\ ~disturbed => ReachedRightly
         /\ ~ Granted /\ context \in User /\ setup.manager => ForbiddenRightly
<1>1. PICK rule : Ruling = {rule} /\ Attributes = rule.needs
  BY ListenerFindsRuling
<1>2. setup \in Setups /\ setup \in Setup
  BY RuleListsAre DEF ListenersInv
<1>3. ASSUME context \in User
      PROVE  /\ FirewallMatches /\ context \in witnessed \ {NoUser}
             /\ DecideAll(setup.strategy, EffectiveVoters(setup), RolesOf[context], Attributes)
                <=> MayPass(setup, context, rule)
  <2>1. context # NoContext /\ context # NoUser
    BY <1>3, ContextsAreNotUsers, ListenersAssumption
  <2>2. FirewallMatches /\ context \in witnessed
    BY <1>3, <2>1 DEF ListenersInv
  <2> QED BY <1>1, <1>2, <1>3, <2>1, <2>2, DecidesMayPass
<1>4. ~disturbed /\ FirewallMatches => RulesPass
  BY DEF ListenersInv
<1>5. Granted /\ ~disturbed => ReachedRightly
  BY <1>1, <1>3, <1>4, Zenon DEF Granted, ReachedRightly
<1>6. ~ Granted /\ context \in User /\ setup.manager => ForbiddenRightly
  BY <1>1, <1>3, Zenon DEF Granted, ForbiddenRightly
<1> QED BY <1>5, <1>6

(* What was right stays right while the store changes.                     *)
LEMMA WitnessesOnlyGrow ==
  ASSUME setup' = setup, request' = request, witnessed \subseteq witnessed'
  PROVE  (ReachedRightly => ReachedRightly') /\ (ForbiddenRightly => ForbiddenRightly')
<1>1. FirewallMatches' = FirewallMatches
  BY DEF FirewallMatches
<1>2. Ruling' = Ruling
  BY <1>1 DEF Ruling
<1>3. RulesPass' = RulesPass
  BY DEF RulesPass
<1>4. ReachedRightly => ReachedRightly'
  BY <1>1, <1>2, <1>3 DEF ReachedRightly
<1>5. ForbiddenRightly => ForbiddenRightly'
  BY <1>1, <1>2, <1>3 DEF ForbiddenRightly
<1> QED BY <1>4, <1>5

LEMMA StoreKeepsType ==
  ASSUME ListenersInv, StoreChanges
  PROVE  owner' \in [Token -> User \cup {NoUser}] /\ Witness
<1>1. owner \in [Token -> User \cup {NoUser}]
  BY DEF ListenersInv
<1>2. ASSUME NEW T, Store!Remove(T) PROVE owner' \in [Token -> User \cup {NoUser}]
  BY <1>1, <1>2 DEF Store!Remove
<1>3. CASE Store!Expire /\ Witness
  BY <1>2, <1>3 DEF Store!Expire
<1>4. CASE \E t \in Token : Store!Delete(t) /\ Witness
  BY <1>2, <1>4 DEF Store!Delete
<1>5. CASE \E u \in User : Store!DeleteByUser(u) /\ Witness
  BY <1>2, <1>5 DEF Store!DeleteByUser
<1>6. CASE \E t \in Token, u \in User : Store!Put(t, u) /\ Witness
  BY <1>1, <1>6 DEF Store!Put
<1> QED BY <1>3, <1>4, <1>5, <1>6 DEF StoreChanges

(* No step of a request, and no change of the store, makes a decision      *)
(* wrong.                                                                  *)
LEMMA ListenersStep ==
  ASSUME ListenersInv, DecisionsAreRight, [Next]_vars
  PROVE  ListenersInv' /\ DecisionsAreRight'
<1> DEFINE Reached == /\ place' = "controller" /\ ~disturbed' => ReachedRightly'
                      /\ place' = "forbidden" => ForbiddenRightly'
           Still == owner' = owner /\ setup' = setup /\ request' = request /\ witnessed' = witnessed
           Known == context' \in User => context' \in witnessed'
<1>1. ListenersInv' /\ Reached => DecisionsAreRight'
  BY DEF DecisionsAreRight, ListenersInv
<1>2. ASSUME Still, Known, place' \notin {"arrived", "resolved"}
      PROVE  ListenersInv'
  BY <1>2 DEF ListenersInv
<1>3. ASSUME Still
      PROVE  (ReachedRightly => ReachedRightly') /\ (ForbiddenRightly => ForbiddenRightly')
  BY <1>3, WitnessesOnlyGrow
<1>4. context' = context /\ witnessed' = witnessed => Known
  BY DEF ListenersInv
<1>5. context' = Anonymous => Known
  BY ContextsAreNotUsers
<1> SUFFICES ListenersInv' /\ Reached
  BY <1>1
<1>6. CASE \E path \in Path, bearer \in Token \cup {NoToken}, right \in BOOLEAN : Arrive(path, bearer, right)
  <2>1. PICK path \in Path, bearer \in Token \cup {NoToken}, right \in BOOLEAN : Arrive(path, bearer, right)
    BY <1>6
  <2>2. /\ request'.path = path /\ request'.bearer = bearer /\ place' = "arrived" /\ context' = NoContext
        /\ owner' = owner /\ setup' = setup /\ witnessed' = {OwnerOf(bearer)}
    BY <2>1 DEF Arrive, storeVars
  <2>3. OwnerOf(request.bearer)' = OwnerOf(bearer)
    BY <2>2 DEF OwnerOf
  <2> QED BY <2>2, <2>3, ContextsAreNotUsers DEF ListenersInv
<1>7. CASE AnsweredEarly
  BY <1>2, <1>4, <1>7 DEF AnsweredEarly, Go, storeVars
<1>8. CASE DispatchEnds
  BY <1>2, <1>4, <1>8 DEF DispatchEnds, Unanswered, storeVars
<1>9. CASE NoFirewall
  <2>1. place' = "resolved" /\ context' = NoContext /\ UNCHANGED <<owner, setup, request, witnessed>>
    BY <1>9 DEF NoFirewall, Go, storeVars, ListenersInv
  <2>2. ~ FirewallMatches'
    BY <1>9, <2>1 DEF NoFirewall, FirewallMatches
  <2> QED BY <1>9, <2>1, <2>2, ContextsAreNotUsers DEF ListenersInv, NoFirewall
(* Both leave an anonymous request, and may leave it to access control.    *)
<1>10. ASSUME place = "arrived", FirewallMatches, Still, context' = Anonymous, place' = "resolved" => disturbed',
              place' # "arrived"
       PROVE  ListenersInv'
  <2>1. FirewallMatches' /\ Anonymous # NoContext
    BY <1>10, ContextsAreNotUsers, Zenon DEF FirewallMatches, Anonymous, NoContext
  <2> QED BY <1>5, <1>10, <2>1 DEF ListenersInv
<1>11. CASE FirewallRefuses
  <2>1. /\ place = "arrived" /\ Still /\ FirewallMatches /\ context' = Anonymous
        /\ place' = "forbidden" \/ (place' \in {"controller", "resolved"} /\ disturbed')
    BY <1>11 DEF FirewallRefuses, Go, Unanswered, storeVars
  <2>2. ForbiddenRightly
    BY <1>11 DEF FirewallRefuses, ForbiddenRightly
  <2> QED BY <1>3, <1>10, <2>1, <2>2
<1>12. CASE TokenSourceFails
  <2>1. /\ place = "arrived" /\ Still /\ FirewallMatches /\ context' = Anonymous
        /\ place' = "failed" \/ (place' \in {"controller", "resolved"} /\ disturbed')
    BY <1>12 DEF TokenSourceFails, Go, Unanswered, storeVars
  <2> QED BY <1>10, <2>1
<1>13. CASE Resolve
  <2>1. /\ place = "arrived" /\ place' = "resolved" /\ UNCHANGED <<setup, request, witnessed>>
        /\ FirewallMatches /\ RulesPass
    BY <1>13 DEF Resolve, Go
  <2>2. /\ owner' = owner
        /\ context' = Anonymous \/ (context' = OwnerOf(request.bearer) /\ context' \in User)
    <3>1. CASE request.bearer = NoToken
      BY <1>13, <3>1 DEF Resolve, storeVars
    <3>2. CASE request.bearer # NoToken
      <4>1. Validate /\ request.bearer \in Token /\ owner \in [Token -> User \cup {NoUser}]
        BY <1>13, <3>2 DEF Resolve, ListenersInv
      <4>2. owner' = owner
        BY <4>1 DEF Validate, Store!Lookup, storeVars
      <4>3. \/ context' = Anonymous
            \/ context' = IF owner[request.bearer] = NoUser THEN Anonymous ELSE owner[request.bearer]
        BY <4>1 DEF Validate
      <4>4. owner[request.bearer] \in User \cup {NoUser}
        BY <4>1
      <4> QED BY <3>2, <4>2, <4>3, <4>4 DEF OwnerOf
    <3> QED BY <3>1, <3>2
  <2>3. FirewallMatches' /\ RulesPass'
    BY <2>1 DEF FirewallMatches, RulesPass
  <2>4. context' # NoContext
    BY <2>2, ContextsAreNotUsers, Zenon DEF Anonymous, NoContext
  <2>5. context' \in User => context' \in witnessed'
    BY <2>1, <2>2, ContextsAreNotUsers DEF ListenersInv
  <2> QED BY <2>1, <2>2, <2>3, <2>4, <2>5 DEF ListenersInv
<1>14. CASE Unmatched
  <2>1. /\ place = "resolved" /\ place' = "controller" /\ disturbed' = disturbed /\ Still
        /\ context' = context
    BY <1>14 DEF Unmatched, Go, storeVars
  <2>2. ~disturbed => ReachedRightly
    BY <1>14, <2>1, ListenerFindsRuling DEF Unmatched, ReachedRightly, ListenersInv
  <2> QED BY <1>2, <1>3, <1>4, <2>1, <2>2
<1>15. CASE AccessGranted
  <2>1. /\ place = "resolved" /\ MatchedIndex # 0 /\ Granted /\ context' = context
        /\ place' = "controller" /\ disturbed' = disturbed /\ Still
    BY <1>15 DEF AccessGranted, Go, storeVars
  <2>2. ~disturbed => ReachedRightly
    BY <2>1, GrantedRightly
  <2> QED BY <1>2, <1>3, <1>4, <2>1, <2>2
<1>16. CASE Unauthorized
  <2>1. /\ Still /\ context' = context
        /\ place' \in {"unauthorized", "failed"} \/ (place' = "controller" /\ disturbed')
    BY <1>16 DEF Unauthorized, Go, Unanswered, storeVars
  <2> QED BY <1>2, <1>4, <2>1
<1>17. CASE Forbidden
  <2>1. /\ place = "resolved" /\ MatchedIndex # 0 /\ ~ Granted /\ context \in User
        /\ Still /\ context' = context
        /\ \/ place' = "failed"
           \/ place' = "controller" /\ disturbed'
           \/ place' = "forbidden" /\ setup.manager
    BY <1>17 DEF Forbidden, Go, Unanswered, storeVars
  <2>2. place' = "forbidden" => ForbiddenRightly
    BY <2>1, GrantedRightly
  <2> QED BY <1>2, <1>3, <1>4, <2>1, <2>2
<1>18. CASE StoreChanges
  <2>1. /\ UNCHANGED <<setup, request, place, context, disturbed>> /\ witnessed \subseteq witnessed'
        /\ owner' \in [Token -> User \cup {NoUser}]
        /\ request.bearer # NoToken => owner'[request.bearer] \in witnessed'
    BY <1>18, StoreKeepsType DEF Witness
  <2>2. place = "arrived" => OwnerOf(request.bearer)' \in witnessed'
    BY <2>1 DEF OwnerOf, ListenersInv
  <2>3. (FirewallMatches' <=> FirewallMatches) /\ (RulesPass' <=> RulesPass)
    BY <2>1 DEF FirewallMatches, RulesPass
  <2>4. ListenersInv'
    BY <2>1, <2>2, <2>3 DEF ListenersInv
  <2>5. Reached
    BY <2>1, WitnessesOnlyGrow DEF DecisionsAreRight
  <2> QED BY <2>4, <2>5
<1>19. CASE UNCHANGED vars
  <2>1. UNCHANGED <<owner, setup, request, place, context, witnessed, disturbed>>
    BY <1>19 DEF vars, storeVars, requestVars
  <2>2. /\ FirewallMatches' <=> FirewallMatches
        /\ RulesPass' <=> RulesPass
        /\ OwnerOf(request.bearer)' = OwnerOf(request.bearer)
    BY <2>1 DEF FirewallMatches, RulesPass, OwnerOf
  <2>3. ListenersInv'
    BY <2>1, <2>2 DEF ListenersInv
  <2> QED BY <1>3, <2>1, <2>3 DEF DecisionsAreRight
<1> QED
  BY <1>6, <1>7, <1>8, <1>9, <1>11, <1>12, <1>13, <1>14, <1>15, <1>16, <1>17, <1>18, <1>19, Zenon
  DEF Next

THEOREM DecisionsAreRightHolds == Spec => []DecisionsAreRight
<1>1. Init => ListenersInv /\ DecisionsAreRight
  BY ContextsAreNotUsers DEF Init, Store!Init, ListenersInv, DecisionsAreRight
<1>2. ListenersInv /\ DecisionsAreRight /\ [Next]_vars => ListenersInv' /\ DecisionsAreRight'
  BY ListenersStep
<1> QED
  BY <1>1, <1>2, PTL DEF Spec
===============================================================================
