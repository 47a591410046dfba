\* Every command of the menu, a failing fork and Ctrl+C at any moment, with fairness.
SPECIFICATION FairSpec
CONSTANTS
  p1 = p1
  p2 = p2
  c1 = c1
  c2 = c2
  Producers = {p1, p2}
  Consumers = {c1}
  BUFFER_SIZE = 1
  MaxMessages = 2
  Commands = {"p", "d", "c", "r", "^C"}
INVARIANTS
  QueueInvariant
  ParentInvariant
PROPERTIES
  ImplementsFifo
  RemoveReturns
  SentIsReceived
  CtrlCLeavesOnlyWaiters
CHECK_DEADLOCK FALSE
