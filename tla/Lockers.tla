-------------------------------- MODULE Lockers --------------------------------
(***************************************************************************)
(* The three lockers side by side: the one in memory, the one of a MySQL   *)
(* server and the one of a Redis server, the last two each for one name.   *)
(* They do not meet; they make the same promise.                           *)
(***************************************************************************)
CONSTANTS
  Lock, Name, NameOf, Ttl, RefreshTtl,         \* locks in memory and their leases
  PurgeInterval, MaxTime,
  NoHolder,
  TheName,                                     \* the name of the locks on a server
  DatabaseLock, Session, NoSession, Stray,     \* locks and sessions of MySQL
  RedisTtl, RedisRefreshTtl, Millisecond       \* leases of the locks on Redis

VARIABLES
  now, holders, purgeTicks, answer, until,
  holder, session, connection, opening, pc, mysqlAnswer,
  token, expires, redisAnswer

Memory == INSTANCE InMemoryLocker

MysqlLocks == INSTANCE MysqlLock WITH
  Lock <- DatabaseLock, NoLock <- NoHolder, answer <- mysqlAnswer

RedisLocks == INSTANCE RedisLock WITH
  Ttl <- RedisTtl, RefreshTtl <- RedisRefreshTtl, NoToken <- NoHolder, answer <- redisAnswer

ASSUME LockersAssumption ==
  /\ Memory!LockerAssumption
  /\ MysqlLocks!MysqlAssumption /\ RedisLocks!RedisLockAssumption
--------------------------------------------------------------------------------
(* No two callers rely on locks of one name in memory at the same time.    *)
MutualExclusion == Memory!MutualExclusion

(* The locker in memory (v3/lock/in_memory.go) implements LockContract for *)
(* every name.                                                             *)
MemoryLocksKeepContract == Memory!KeepsContract

(* The MySQL locker (bunorm/mysql/v3/lock.go) implements LockContract.     *)
MysqlKeepsContract == MysqlLocks!KeepsContract

(* A name the MySQL server still holds for no lock becomes free again: a   *)
(* call that failed leaves nothing locked for good.                        *)
StrayIsFreed == MysqlLocks!StrayIsFreed

(* The Redis locker (rueidis/v3/lock.go) implements LockContract, whether  *)
(* its replies arrive or not.                                              *)
RedisKeepsContract == RedisLocks!KeepsContract
================================================================================
