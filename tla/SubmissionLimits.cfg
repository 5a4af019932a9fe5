SPECIFICATION Spec
CONSTANTS
  Datasets = {d1}
  Versions = {v1}
  Uploaders = {}
  NoDataset = NoDataset
  NoVersion = NoVersion
  Runs = {r1, r2, r3}
  Submitters = {s1, s2}
  Kinds = {"evaluation"}
  Holds = {TRUE, FALSE}
  MaxRevisions = 2
  Limits = {1}
  Cases = 1
  CaseLimit = 3
  MaxVersions = 1
  MaxBusy = 4
INVARIANTS
  PolicyInForce
  OvershootBounded
PROPERTIES
  HoldStopsRetention
SYMMETRY Symmetry
CHECK_DEADLOCK FALSE
