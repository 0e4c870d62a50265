SPECIFICATION ProvidersSpec
CONSTANTS
  c1 = c1
  c2 = c2
  Configs = {c1, c2}
  Cloud = {c1}
  Brought <- BroughtRoutes
  Origins = {o1, o2}
  Refs = {x1, x2}
  Calls = {n1, n2}
  Keyless = {}
  Listed = {c1}
  MaxPages = 2
  MaxMutations = 3
  MaxImports = 1
  ProviderIds = {c1, c2}
  MaxElsewhere = 1
  MaxStops = 1
  None = None
  MaxEdits = 3
  MaxOperations = 2
SYMMETRY Symmetry
INVARIANT ManagementTypeOK
PROPERTY UndoneByOvertakenOnly
PROPERTY SavedRoutesWereConsented
 
CHECK_DEADLOCK FALSE
