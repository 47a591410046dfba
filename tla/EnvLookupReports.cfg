\* Seven environments, five contents of the file or none, one edit of it.
SPECIFICATION LookupFairSpec
CONSTANTS
  Names <- MCNames
  Environments <- MCEnvironments
  Files <- MCFiles
  PathName = "CHILD_PATH"
  Absent = Absent
  ChildLimit = 2
  MaxEdits = 1
INVARIANTS
  LookupInvariant
  ReportIsRight
PROPERTIES
  CommandReturns
CHECK_DEADLOCK FALSE
