\* Every command of the menu, sizes accepted and refused and Ctrl+C at any moment, with fairness.
SPECIFICATION FairSpec
CONSTANTS
  p1 = p1
  p2 = p2
  c1 = c1
  c2 = c2
  Producers = {p1}
  Consumers = {c1}
  InitialSize = 1
  NewSizes = {1, 2}
  MaxMessages = 2
  Commands = {"p", "d", "c", "r", "u", "^C"}
INVARIANTS
  TokenInvariant
PROPERTIES
  FifoUntilResize
  SentIsReceived
  RemoveReturns
  
CHECK_DEADLOCK FALSE
