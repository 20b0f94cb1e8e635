-------------------------------- MODULE MCLocks --------------------------------
(***************************************************************************)
(* Small instances of the three lockers, each against LockContract.  The   *)
(* initial state chooses the locker that runs; the others stay as they are.*)
(***************************************************************************)
EXTENDS Lockers, TLC

CONSTANTS k1, k2, k3, m, n

Names == (k1 :> m) @@ (k2 :> m) @@ (k3 :> n)
Ttls == (k1 :> 2) @@ (k2 :> 0) @@ (k3 :> 1)

(* Half a millisecond, no expiry, and several milliseconds.                *)
RedisTtls == (k1 :> 1) @@ (k2 :> 0) @@ (k3 :> 5)

VARIABLE running  \* the locker that runs

memoryVars == <<now, holders, purgeTicks, answer, until>>
mysqlVars == <<holder, session, connection, opening, pc, mysqlAnswer>>
redisVars == <<token, expires, redisAnswer>>
allVars == <<running, memoryVars, mysqlVars, redisVars>>

LocksInit ==
  /\ running \in {"in memory", "mysql", "redis"}
  /\ Memory!Init /\ MysqlLocks!Init /\ RedisLocks!Init

InMemoryRuns == running = "in memory" /\ UNCHANGED <<running, mysqlVars, redisVars>>
MysqlRuns == running = "mysql" /\ UNCHANGED <<running, memoryVars, redisVars>>
RedisRuns == running = "redis" /\ UNCHANGED <<running, memoryVars, mysqlVars>>

MysqlCall(l) ==
  \/ MysqlLocks!AcquireStart(l) /\ MysqlRuns
  \/ MysqlLocks!Verify(l) /\ MysqlRuns
  \/ MysqlLocks!Drop(l) /\ MysqlRuns
  \/ MysqlLocks!Connect(l) /\ MysqlRuns
  \/ MysqlLocks!AskGranted(l) /\ MysqlRuns
  \/ MysqlLocks!AskRefused(l) /\ MysqlRuns
  \/ MysqlLocks!AskFails(l) /\ MysqlRuns
  \/ MysqlLocks!Undo(l) /\ MysqlRuns
  \/ MysqlLocks!Release(l) /\ MysqlRuns
  \/ MysqlLocks!Refresh(l) /\ MysqlRuns
  \/ MysqlLocks!GiveUp(l) /\ MysqlRuns

RedisCall(l) ==
  \/ RedisLocks!NotRun(l) /\ RedisRuns
  \/ RedisLocks!Acquire(l) /\ RedisRuns
  \/ RedisLocks!Release(l) /\ RedisRuns
  \/ \E ttl \in RedisRefreshTtl :
       \/ RedisLocks!RefreshRejected(l, ttl) /\ RedisRuns
       \/ RedisLocks!Refresh(l, ttl) /\ RedisRuns

InMemoryCall(l) ==
  \/ Memory!Acquire(l) /\ InMemoryRuns
  \/ Memory!Release(l) /\ InMemoryRuns
  \/ \E ttl \in RefreshTtl :
       \/ Memory!RefreshRejected(l, ttl) /\ InMemoryRuns
       \/ Memory!Refresh(l, ttl) /\ InMemoryRuns

LocksNext ==
  \/ Memory!Tick /\ InMemoryRuns
  \/ Memory!PurgeExpired /\ InMemoryRuns
  \/ \E l \in Lock : InMemoryCall(l) \/ RedisCall(l)
  \/ RedisLocks!Expire /\ RedisRuns
  \/ \E l \in DatabaseLock : MysqlCall(l)
  \/ \E s \in Session :
       \/ MysqlLocks!SessionDies(s) /\ MysqlRuns
       \/ MysqlLocks!NewSession(s) /\ MysqlRuns
  \/ MysqlLocks!ForcedRelease /\ MysqlRuns

(* The fairness of MysqlLock, for its steps in this specification.         *)
LocksSpec ==
  /\ LocksInit /\ [][LocksNext]_allVars
  /\ \A s \in Session : WF_allVars(session[s] = "broken" /\ MysqlLocks!SessionDies(s) /\ MysqlRuns)
  /\ \A l \in DatabaseLock :
       /\ WF_allVars(MysqlLocks!Drop(l) /\ MysqlRuns)
       /\ WF_allVars(MysqlLocks!Undo(l) /\ MysqlRuns)
       /\ WF_allVars(MysqlLocks!GiveUp(l) /\ MysqlRuns)
================================================================================
