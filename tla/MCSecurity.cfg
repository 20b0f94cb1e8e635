SPECIFICATION MCSpec
CONSTANTS
  t1 = t1
  t2 = t2
  u1 = u1
  u2 = u2
  clerk = clerk
  editor = editor
  chief = chief
  Role = {clerk, editor, chief}
  Inherited <- Inheritance
  Public = Public
  Character = {"/", "a", "b", "c"}
  Setups <- Variety
  Path <- Paths
  FirewallPrefix <- A
  Token = {t1}
  User = {u1, u2}
  NoUser = NoUser
  NoToken = NoToken
  RolesOf <- UserRoles
  StoredToken = {t1, t2}
  TokenUser = {u1, u2}
  Nobody = NoUser
  TokenTtl = {0, 1, 2}
  LastTime = 4
  TokenMillisecond = 2
  NoEntry = NoEntry
INVARIANTS
  DecisionsAreRight
PROPERTIES
  MemoryTokensKeepContract
  RedisTokensKeepContract
