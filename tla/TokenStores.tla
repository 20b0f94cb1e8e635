------------------------------ MODULE TokenStores ------------------------------
(***************************************************************************)
(* The two token stores side by side: the one in memory and the one in     *)
(* Redis.  They do not meet; they make the same promise.                   *)
(***************************************************************************)
CONSTANTS
  StoredToken, TokenUser, Nobody,  \* tokens, the users they stand for, and no user
  TokenTtl, NoEntry,
  LastTime,                        \* bound of the clock, in memory
  TokenMillisecond                 \* of the Redis server

VARIABLES
  clock, entriesByToken, tokensByUser, memoryFound,
  key, members, redisFound

MemoryTokens == INSTANCE InMemoryTokenStore WITH
  Token <- StoredToken, User <- TokenUser, NoUser <- Nobody, Ttl <- TokenTtl,
  MaxTime <- LastTime, now <- clock, found <- memoryFound

RedisTokens == INSTANCE RedisTokenStore WITH
  Token <- StoredToken, User <- TokenUser, NoUser <- Nobody, Ttl <- TokenTtl,
  Millisecond <- TokenMillisecond, NoKey <- NoEntry, found <- redisFound

ASSUME TokenStoresAssumption ==
  MemoryTokens!InMemoryTokenStoreAssumption /\ RedisTokens!RedisTokenStoreAssumption
--------------------------------------------------------------------------------
(* The token store in memory implements TokenContract.                     *)
MemoryTokensKeepContract == MemoryTokens!KeepsContract

(* The Redis token store implements TokenContract.                         *)
RedisTokensKeepContract == RedisTokens!KeepsContract
================================================================================
