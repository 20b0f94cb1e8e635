SPECIFICATION BothSpec
CONSTANTS
  a = a
  b = b
  d = d
  shape = shape
  Name = {a, b, d}
  Type = {shape}
  TypeServices <- ShapeServices
  KeyRank <- Rank
  Instance = {p, q, w}
  HasIdentity = {p, q}
  Absent = Absent
  MaxEdges = 3
  pa = pa
  pb = pb
  log = log
  alias = alias
  run = run
  dir = dir
  Unknown = Unknown
  Percent = Percent
  Escaped = Escaped
  Other = Other
  NotString = NotString
  Undefined = Undefined
  MaxLength = 12
INVARIANTS
  CloseOrderHolds
PROPERTIES
  BootResolves
CHECK_DEADLOCK FALSE
