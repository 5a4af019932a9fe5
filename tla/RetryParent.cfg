SPECIFICATION Spec
CONSTANTS
  MaxRuns = 2
  MaxAttempts = 2
  NumBatches = 1
  Retriers = {t1}
  Markers = {}
  MaxOutages = 0
  Faults = {}
  Audited = {}
INVARIANTS
  RetryParentSettled
