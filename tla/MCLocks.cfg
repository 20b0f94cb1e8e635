SPECIFICATION LocksSpec
CONSTANTS
  Lock = {k1, k2, k3}
  Name = {m, n}
  NameOf <- Names
  Ttl <- Ttls
  RefreshTtl = {0, 2}
  PurgeInterval = 2
  MaxTime = 4
  NoHolder = NoHolder
  k1 = k1
  k2 = k2
  k3 = k3
  m = m
  n = n
  TheName = m
  DatabaseLock = {k1, k2}
  RedisTtl <- RedisTtls
  RedisRefreshTtl = {0, 1, 5}
  Millisecond = 2
  Session = {p1, p2}
  NoSession = NoSession
  Stray = Stray
INVARIANTS
  MutualExclusion
PROPERTIES
  MemoryLocksKeepContract
  MysqlKeepsContract
  StrayIsFreed
  RedisKeepsContract
