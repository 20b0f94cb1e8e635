---------------------------- MODULE InMemoryLocker ----------------------------
(***************************************************************************)
(* InMemoryLocker (v3/lock/in_memory.go): leases with an expiry on a clock *)
(* that moves on between calls, kept in one map under one mutex.  A lock   *)
(* is named by its token, which CreateLock never gives out twice.          *)
(***************************************************************************)
EXTENDS Integers, FiniteSets

CONSTANTS
  Lock,           \* locks created: their tokens
  Name,           \* lock names
  NameOf, Ttl,    \* what CreateLock was called with
  RefreshTtl,     \* lease durations Refresh is called with
  PurgeInterval,  \* inMemoryPurgeInterval
  MaxTime,        \* bound of the clock
  NoHolder

LockerAssumption ==
  /\ NameOf \in [Lock -> Name] /\ Ttl \in [Lock -> Int]
  /\ RefreshTtl \subseteq Int
  /\ PurgeInterval \in Nat \ {0} /\ MaxTime \in Nat
  /\ NoHolder \notin [token : Lock, expiresAt : Nat] \cup Lock

VARIABLES
  now,         \* the clock
  holders,     \* name to inMemoryHolder
  purgeTicks,
  answer,      \* what the last call on a lock returned
  until        \* history: until when the caller of a lock may rely on it

vars == <<now, holders, purgeTicks, answer, until>>

(* The zero time of an expiry: a lease that does not expire.               *)
Never == 0

Holder == [token : Lock, expiresAt : Nat]
Answers == {"none", "acquired", "refused", "refreshed", "lost", "released", "error"}

Init ==
  /\ now = 1 /\ holders = [n \in Name |-> NoHolder] /\ purgeTicks = 0
  /\ answer = [l \in Lock |-> "none"] /\ until = [l \in Lock |-> now]

IsActive(holder) == holder.expiresAt = Never \/ now < holder.expiresAt

Expiry(ttl) == IF ttl <= 0 THEN Never ELSE now + ttl

Lease(l, ttl) == [token |-> l, expiresAt |-> Expiry(ttl)]

Owns(l) == holders[NameOf[l]] # NoHolder /\ holders[NameOf[l]].token = l

Held(n) == holders[n] # NoHolder /\ IsActive(holders[n])

Tell(l, a, deadline) ==
  /\ answer' = [answer EXCEPT ![l] = a]
  /\ until' = [until EXCEPT ![l] = deadline]
-------------------------------------------------------------------------------
Tick ==
  /\ now < MaxTime
  /\ now' = now + 1
  /\ UNCHANGED <<holders, purgeTicks, answer, until>>

Purged(table) ==
  [n \in Name |-> IF table[n] # NoHolder /\ IsActive(table[n]) THEN table[n] ELSE NoHolder]

PurgeExpired ==
  /\ holders' = Purged(holders)
  /\ UNCHANGED <<now, purgeTicks, answer, until>>

PurgeDue == purgeTicks + 1 >= PurgeInterval

(* mutant: whoever asks for a name that is leased gets it.                 *)
TakenByNobody(l) == FALSE

TakenByAnother(l) == Held(NameOf[l]) /\ holders[NameOf[l]].token # l

(* Every PurgeInterval-th acquire purges before it looks.                  *)
Acquire(l) ==
  LET table == IF PurgeDue THEN Purged(holders) ELSE holders
  IN  /\ purgeTicks' = IF PurgeDue THEN 0 ELSE purgeTicks + 1
      /\ IF TakenByAnother(l)
         THEN holders' = table /\ Tell(l, "refused", now)
         ELSE /\ holders' = [table EXCEPT ![NameOf[l]] = Lease(l, Ttl[l])]
              /\ Tell(l, "acquired", Expiry(Ttl[l]))
      /\ UNCHANGED now

Release(l) ==
  /\ holders' = IF Owns(l) THEN [holders EXCEPT ![NameOf[l]] = NoHolder] ELSE holders
  /\ Tell(l, "released", now)
  /\ UNCHANGED <<now, purgeTicks>>

(* mutant: a lease that ran out is extended.                               *)
RefreshesExpired(l) == Owns(l)

StillHolds(l) == Owns(l) /\ IsActive(holders[NameOf[l]])

RefreshRejected(l, ttl) ==
  /\ ttl <= 0
  /\ answer' = [answer EXCEPT ![l] = "error"]
  /\ UNCHANGED <<now, holders, purgeTicks, until>>

Refresh(l, ttl) ==
  /\ ttl > 0
  /\ IF StillHolds(l)
     THEN /\ holders' = [holders EXCEPT ![NameOf[l]] = Lease(l, ttl)]
          /\ Tell(l, "refreshed", Expiry(ttl))
     ELSE holders' = holders /\ Tell(l, "lost", now)
  /\ UNCHANGED <<now, purgeTicks>>
-------------------------------------------------------------------------------
Next ==
  \/ Tick
  \/ PurgeExpired
  \/ \E l \in Lock :
       \/ Acquire(l)
       \/ Release(l)
       \/ \E ttl \in RefreshTtl : RefreshRejected(l, ttl) \/ Refresh(l, ttl)

Spec == Init /\ [][Next]_vars
-------------------------------------------------------------------------------
TypeOK ==
  /\ now \in Nat \ {0}
  /\ holders \in [Name -> Holder \cup {NoHolder}]
  /\ purgeTicks \in 0 .. PurgeInterval - 1
  /\ answer \in [Lock -> Answers]
  /\ until \in [Lock -> Nat]

(* The caller of l may rely on it: it was acquired or refreshed, the time  *)
(* it was granted for has not passed, and it was not released.             *)
Relies(l) == until[l] = Never \/ now < until[l]

(* Who relies on a lock has the lease, for as long as he was told: nobody  *)
(* else's call, no purge and no passing of time takes it away early.       *)
LeaseKept ==
  \A l \in Lock : Relies(l) => Owns(l) /\ holders[NameOf[l]].expiresAt = until[l]

(* No two callers rely on locks of one name at the same time.              *)
MutualExclusion ==
  \A k, l \in Lock : Relies(k) /\ Relies(l) /\ NameOf[k] = NameOf[l] => k = l

(* The lease that counts, as the contract sees it.                         *)
OwnerOf == [n \in Name |-> IF Held(n) THEN holders[n].token ELSE NoHolder]

Contract == INSTANCE LockContract WITH
  NoLock <- NoHolder, Stray <- "stray", owner <- OwnerOf

(* The locker keeps the promise of LockContract for every name.            *)
KeepsContract == Contract!Spec
===============================================================================
