SPECIFICATION FairSpec
CONSTANTS
  m1 = m1
  m2 = m2
  m3 = m3
  p1 = p1
  p2 = p2
  w1 = w1
  w2 = w2
  Message = {m1, m2, m3}
  Poison = {m3}
  Setups <- Variety
  Producer = {p1, p2}
  Worker = {w1, w2}
  Loop = Loop
  MessageOf <- Sends
  None = None
INVARIANTS
  NothingLost
  NoLeak
PROPERTIES
  SendsReturn
  EveryMessageSettles
CHECK_DEADLOCK FALSE
