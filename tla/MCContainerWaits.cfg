SPECIFICATION FairSpec
CONSTANTS
  a = a
  b = b
  d = d
  t = t
  u = u
  c1 = c1
  c2 = c2
  c3 = c3
  s1 = s1
  s2 = s2
  Name = {a, b, d}
  Type = {t, u}
  TypeServices <- Ambiguities
  KeyRank <- Rank
  Ctx = {c1, c2, c3}
  Closer = {}
  Scope = {}
  ScopeOf <- NoScopes
  Requests = {a, b, t, u}
  Deps <- Cyclic
  Flaky = {b}
  FlakyClose = {d}
  Overridable = {}
  ScopeOverridable = {}
  NoValue = NoValue
  NoCtx = NoCtx
  NoScope = NoScope
  NoKey = NoKey
  Override = Override
INVARIANTS
  NoCircularWait
PROPERTIES
  EveryGetReturns
  ImplementsRegistry
