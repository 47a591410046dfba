\* Reports after two ticks, four ticks in all.
SPECIFICATION StatFairSpec
CONSTANTS
  MaxIterations = 1
  MaxTicks = 4
INVARIANTS
  StatInvariant
PROPERTIES
  AllowedReports
