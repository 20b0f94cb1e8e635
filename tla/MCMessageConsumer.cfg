SPECIFICATION FairSpec
CONSTANTS
  m1 = m1
  m2 = m2
  Message = {m1, m2}
  Worker = {w1, w2}
  MaxRejections = 1
  NoEnvelope = NoEnvelope
  Policies <- Variety
INVARIANTS
  OnePlace
  GivenUpAsConfigured
  CleanEndIsEarned
PROPERTIES
  ShutdownEnds
  EveryMessageSettles
CHECK_DEADLOCK FALSE
