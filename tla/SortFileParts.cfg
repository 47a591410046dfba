\* Two threads, eight blocks of two records: three rounds, two pairs for each thread in the
\* first.
SPECIFICATION FairSpec
CONSTANTS
  T = 2
  B = 8
  R = 2
  PageRecords = 32
  Files <- ThreeFiles
INVARIANTS
  SortInvariant
  SortedFileInvariant
PROPERTIES
  Terminates
CHECK_DEADLOCK FALSE
