\* Files of no line to three, reads of one or two messages, and everything that may go wrong.
SPECIFICATION FairSpec
CONSTANTS
  MaxMerged = 2
  MaxCommands = 4
  BatchSizes = {0, 1, 2, 3}
  Failures = {"prompt", "name", "list", "info", "server", "client"}
INVARIANTS
  ConnectionInvariant
  ReplyIsToCommand
PROPERTIES
  ClientGoesOn
CHECK_DEADLOCK FALSE
