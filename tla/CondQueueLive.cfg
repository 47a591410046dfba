\* Launches and removals of a producer and two consumers, which may sleep on the same
\* condition variable, and a spurious wake-up, without a resize, with fairness.
SPECIFICATION FairSpec
CONSTANTS
  p1 = p1
  p2 = p2
  c1 = c1
  c2 = c2
  Producers = {p1}
  Consumers = {c1, c2}
  InitialSize = 2
  NewSizes = {}
  MaxMessages = 3
  MaxCtrlC = 0
  MaxSpurious = 1
  Commands = {"p", "d", "c", "r"}
PROPERTIES
  ImplementsFifo
  NoLostWakeup
  SentIsReceived
  RemoveReturnsOutsideGap
CHECK_DEADLOCK FALSE
