\* Two users create and change, processes are killed and started again.
SPECIFICATION Spec
CONSTANTS
  p1 = p1
  p2 = p2
  p3 = p3
  a = a
  b = b
  Procs = {p1, p2}
  NumRecords = 2
  Values = {a, b}
  Initial = a
  MaxKills = 1
  Options = {"create", "change", "exit"}
SYMMETRY Symmetry
INVARIANTS
  FileInvariant
  OnlyLateChangesAreLost
