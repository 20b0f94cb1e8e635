SPECIFICATION Spec
CONSTANTS
  a = a
  b = b
  d = d
  t = t
  u = u
  c1 = c1
  c2 = c2
  c3 = c3
  s1 = s1
  s2 = s2
  Name = {a, b, d}
  Type = {t, u}
  TypeServices <- Registrations
  KeyRank <- Rank
  Ctx = {c1, c2}
  Closer = {}
  Scope = {}
  ScopeOf <- NoScopes
  Requests = {a, d}
  Deps <- ByName
  Flaky = {}
  FlakyClose = {d}
  Overridable = {}
  ScopeOverridable = {}
  NoValue = NoValue
  NoCtx = NoCtx
  NoScope = NoScope
  NoKey = NoKey
  Override = Override
INVARIANTS
  CircularErrorsAreReal
