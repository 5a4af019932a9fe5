SPECIFICATION Spec
CONSTANTS
  MaxRuns = 2
  MaxAttempts = 2
  NumBatches = 1
  Retriers = {}
  Markers = {}
  MaxOutages = 1
  Faults = {"bookkeeping", "db", "stop", "crash"}
  Audited = {}
INVARIANTS
  TypeOK
  AttemptBudget
  ClaimNeverRefused
  ArchivePerRestart
PROPERTIES
  EvidenceKept
  ImplementsLifecycle
