SPECIFICATION FairSpec
CONSTANTS
  s1 = s1
  s2 = s2
  Schedules = {s1}
  Dispatchers = {d1, d2}
  Period <- PeriodOf
  Locking = FALSE
  Horizon = 3
  MaxAborts = 1
INVARIANTS
  EveryOccurrenceOnce
PROPERTIES
  ImplementsRecurrence
  DueIsExecuted
