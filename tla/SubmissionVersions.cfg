SPECIFICATION Spec
CONSTANTS
  Datasets = {d1, d2}
  Versions = {v1, v2, v3}
  Uploaders = {u1, u2}
  NoDataset = NoDataset
  NoVersion = NoVersion
  Runs = {r1, r2}
  Submitters = {s1}
  Kinds = {"evaluation", "pairwise"}
  Holds = {}
  MaxRevisions = 0
  Limits = {2}
  Cases = 1
  CaseLimit = 2
  MaxVersions = 2
  MaxBusy = 3
INVARIANTS
  ActiveBounded
  PinnedVersionStays
CONSTRAINT Explored
SYMMETRY Symmetry
CHECK_DEADLOCK FALSE
