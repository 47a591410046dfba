\* Launches, removals, new sizes and a Ctrl+C at any moment.
SPECIFICATION Spec
CONSTANTS
  p1 = p1
  p2 = p2
  c1 = c1
  c2 = c2
  Producers = {p1, p2}
  Consumers = {c1}
  InitialSize = 2
  NewSizes = {1}
  MaxMessages = 2
  MaxCtrlC = 1
  MaxSpurious = 0
  Commands = {"p", "d", "c", "r", "u", "^C"}
SYMMETRY Symmetry
INVARIANTS
  MutexInvariant
  
CHECK_DEADLOCK FALSE
