\* Three children, the last of them beyond the limit, four commands of all kinds.
SPECIFICATION FairSpec
CONSTANTS
  MaxLaunches = 3
  MaxCommands = 4
  Limit = 2
  Keys = {"+", "-", "k", "s", "g", "p", "q"}
INVARIANTS
  ControlInvariant
  ObeysTheUser
PROPERTIES
  WaitReturns
CHECK_DEADLOCK FALSE
