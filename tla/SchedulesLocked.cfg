SPECIFICATION Spec
CONSTANTS
  s1 = s1
  s2 = s2
  Schedules = {s1, s2}
  Dispatchers = {d1, d2}
  Period <- PeriodOf
  Locking = TRUE
  Horizon = 2
  MaxAborts = 1
INVARIANTS
  RunsHaveOccurrences
PROPERTIES
  PausedNeverTriggered
SYMMETRY DispatcherSymmetry
