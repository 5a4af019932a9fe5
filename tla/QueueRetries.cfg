SPECIFICATION Spec
CONSTANTS
  MaxRuns = 2
  MaxAttempts = 2
  NumBatches = 1
  Retriers = {t1}
  Markers = {}
  MaxOutages = 0
  Faults = {}
  Audited = {"run.cancelled", "run.failed", "run.retry_scheduled", "run.retry_exhausted"}
INVARIANTS
  CancelledNotQueued
  AuditTruthful
