SPECIFICATION Spec
CONSTANTS
  i1 = i1
  i2 = i2
  i3 = i3
  r1 = r1
  r2 = r2
  Id = {i1, i2, i3}
  Data <- Values
  Json <- Decoded
  Unencodable = {"func"}
  Settable = {"int", "func"}
  Ttl = 1
  NoEntry = NoEntry
  Torn = Torn
  NoCookie = NoCookie
  Request = {r1, r2}
  Drawn <- Draws
  Setups <- Variety
  Kept = i1
INVARIANTS
  BodiesClosedOnce
  OneAnswer
  CookieTellsTheStore
PROPERTIES
  ImplementsStore
CHECK_DEADLOCK FALSE
