SPECIFICATION Spec
CONSTANTS
  k1 = k1
  k2 = k2
  k3 = k3
  c1 = c1
  c2 = c2
  Key = {k1, k2, k3}
  Caller = {c1, c2}
  Cleaner = Cleaner
  Lowest <- Smallest
  Highest = 1
  Word = Word
  Menu <- Calls
  MaxItems = 2
  MaxTime = 2
  NoItem = NoItem
  NoCall = NoCall
  Miss = Miss
  NoOne = NoOne
  Done = Done
  Refused = Refused
INVARIANTS
  ListMatchesEntries
PROPERTIES
  ImplementsCache
