SPECIFICATION Spec
CONSTANTS
  c1 = c1
  c2 = c2
  c3 = c3
  stray = stray
  exact = exact
  similar = similar
  backend1 = backend1
  backend2 = backend2
  Cases = {c1, c2}
  Strays = {stray}
  Evaluators = {exact, similar}
  Similarity = {similar}
  Backends = {backend1, backend2}
  Scale = 2
  PassThreshold = 1
  Policies <- MCPolicies
  BaselineRows <- MCBaselineRows
  CaseOrder <- MCCaseOrder
  LegacyRows <- MCLegacyRows
  ExpectedScore <- MCExpectedScore
  search = search
  pay = pay
  source1 = source1
  refund = refund
  email = email
  Contracts <- MCContracts
  Calls <- MCCalls
  Documents <- MCDocuments
  SideEffects <- MCSideEffects
  MaxCalls = 2
  ScenarioCount = 3
  Suites = {s1, s2}
  EvidenceRuns = {e1, e2}
  Shares = {x1}
  Clients = {u1, u2}
  SuiteCases = 2
  RunMetricsSet <- MCRunMetricsSet
  ScenarioRules <- MCScenarioRules
  NoSuite = NoSuite
  NoEvidenceRun = NoEvidenceRun
INVARIANTS
  PassedHasEvidence
  BetterNeverFails
  ErrorsNeverPass
  OneDecisiveAnswer
  FairPresentation
  LabelsAreNeutral
  UnbeatenLeads
  PassedKeepsContract
  ManifestFollowsLines
  PassedHasLines
  NumberNamesContent
  ServedIsRetained
  PassedMeetsRules
PROPERTIES
  VerdictsStand
CHECK_DEADLOCK FALSE
