SPECIFICATION Spec
CONSTANTS
  a = a
  b = b
  d = d
  t = t
  u = u
  c1 = c1
  c2 = c2
  c3 = c3
  s1 = s1
  s2 = s2
  Name = {a, b, d}
  Type = {t, u}
  TypeServices <- Registrations
  KeyRank <- Rank
  Ctx = {c1, c2}
  Closer = {x1, x2}
  Scope = {s1}
  ScopeOf <- OneScope
  Requests = {a, t}
  Deps <- ByName
  Flaky = {}
  FlakyClose = {d}
  Overridable = {d}
  ScopeOverridable = {d}
  NoValue = NoValue
  NoCtx = NoCtx
  NoScope = NoScope
  NoKey = NoKey
  Override = Override
INVARIANTS
  ClosedExactlyOnce
  DependentsClosedFirst
  ScopedInstancesStayInScope
