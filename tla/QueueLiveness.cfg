SPECIFICATION FairSpec
CONSTANTS
  MaxRuns = 2
  MaxAttempts = 1
  NumBatches = 1
  Retriers = {t1}
  Markers = {}
  MaxOutages = 1
  Faults = {"stop"}
  Audited = {}
INVARIANTS
  RunningIsHeld
  CancelledNeverCompletes
PROPERTIES
  CancelSettles
  QueueDrains
