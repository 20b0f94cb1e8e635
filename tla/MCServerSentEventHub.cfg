SPECIFICATION Spec
CONSTANTS
  p1 = p1
  s1 = s1
  f1 = f1
  Publisher = {p1}
  Foreign = {f1}
  Subscriber = {s1}
  Listener = Listener
  MaxFaults = 2
INVARIANTS
  OpenWhileListed
  HeardOnce
  NothingLeftOpen
CHECK_DEADLOCK FALSE
PROPERTIES
  CloseReturns
  ListensAgain
