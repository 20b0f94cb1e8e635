SPECIFICATION FairSpec
CONSTANTS
  Caller = {r1, r2, r3}
  CallbackFails = TRUE
  CacheFails = TRUE
  NoCall = NoCall
  NoValue = NoValue
  r1 = r1
  r2 = r2
  r3 = r3
  Options <- Mixtures
INVARIANTS
  OneComputation
  AbandonedIsCanceled
  ComputedOncePerEviction
PROPERTIES
  EveryRememberReturns
