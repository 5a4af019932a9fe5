SPECIFICATION Spec
CONSTANTS
  MaxRuns = 1
  MaxAttempts = 3
  NumBatches = 2
  Retriers = {}
  Markers = {m1}
  MaxOutages = 1
  Faults = {"bookkeeping", "db", "stop", "crash"}
  Audited = {"run.cancellation_requested"}
INVARIANTS
  AttemptsNeverMix
  CompletedHasAllBatches
