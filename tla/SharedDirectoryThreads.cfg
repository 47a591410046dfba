\* Three clients with one command each, started with ".".
SPECIFICATION DirectorySpec
CONSTANTS
  Clients = {c1, c2, c3}
  BaseArg = "."
  Directories <- Tree
  Root = "srv"
  Inside <- BelowSrv
  Beneath <- PathsBeginLike
  Nameless = {"deep"}
  Paths <- Arguments
  Leads <- LeadsInTree
  MaxRequests = 1
SYMMETRY ClientSymmetry
INVARIANTS
  DirectoryInvariant
  InsideIsPrompted
PROPERTIES
  UpStopsAtRoot
CHECK_DEADLOCK FALSE
