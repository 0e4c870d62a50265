SPECIFICATION DecisionsSpec
CONSTANTS
  None = None
  r1 = r1
  r2 = r2
  k1 = k1
  k2 = k2
  m1 = m1
  m2 = m2
  i1 = i1
  i2 = i2
  i3 = i3
  n1 = n1
  n2 = n2
  Ids = {r1, r2}
  Bodies <- AllRules
  Items = {"author", "plain"}
  Decisions = {"decision"}
  MaxProfileChanges = 1
  Drafts <- ExactRules
  Plain = {"plain"}
  MaxElsewhere = 1
  MaxOperations = 2
  Calls = {k1, k2}
  Models = {m1, m2}
  Order <- StageRoutes
  Execution <- Executed
  Cost <- Price
  AllowCloudFallback = TRUE
  AllowHigherCost = FALSE
  Budgets = {"small", "large"}
  Limit <- Limits
  MaxGlobal = 2
  MaxByProvider = 2
  PerMinute = 3
  PerDay = 3
  Failures = 1
  FailureWindow = 1
  OpenFor = 1
  DayLength = 1
  MaxMinute = 1
  MaxEvents = 1
  Elements = {e1, e2}
  Contents = {"a", "b", "q"}
  Item <- ItemOf
  Enabled = {"a", "b"}
  Locations = {"here", "there"}
  Supported = {"here"}
  MaxChoices = 1
  MaxChanges = 3
  SimilarItems = {i1, i2, i3}
  Exact <- Duplicates
  Near <- Neighbours
  Stable = {i1}
  Jobs = {k1, k2}
  MaxVectors = 1
  MaxBytes = 1
  MaxObserved = 2
  MaxSwitches = 1
  Nodes = {v1, v2, v3}
  EdgeIds = {g1, g2, g3}
  RebuildItems = 3
  BatchSize = 2
  MaxNodes = 3
  MaxEdges = 3
  MaxEdits = 4
  MaxRuns = 3
  HelpCalls = {k1, k2}
  Requests = {"intent"}
  HelpRoutes <- TaskRoutes
  Browser = {m2}
  MaxConcurrent = 1
  MaxRevision = 1
  MaxFaults = 1
  Attempts = {n1, n2}
  Threshold = 2
  Window = 0
  PendingRetention = 0
  TerminalRetention = 0
  MaxKept = 1
  MaxClock = 1
  MaxSubmits = 2
  MaxStops = 1
SYMMETRY Symmetry
INVARIANT PageTypeOK
INVARIANT DocumentedOrder
INVARIANT NoReservationLost
INVARIANT OverspendBounded
INVARIANT HiddenAsObserved
INVARIANT NoVectorWhileDisabled
INVARIANT ProvenanceAcyclic
INVARIANT AnswersItsRequest
INVARIANT ClickedOnce
PROPERTY PreviewHolds
PROPERTY ChoiceStands
CHECK_DEADLOCK FALSE
