CONSTANTS
  a = a b = b x = x y = y v0 = v0 v1 = v1 v2 = v2
  None = None
  Devices = {a, b}
  Ids = {x, y}
  Bodies = {v0, v1}
  Profiles = {"profile"}
  Generations = {0}
  Stamps = {0}
  References <- YRefersToX
  Initial <- OneToCreate
  Minted = {y}
  MaxAttempts = 2
  Files <- OlderFiles
  Bounds <- SafetyBudgets
SPECIFICATION Spec
SYMMETRY DeviceSymmetry
INVARIANTS TypeOK ConfirmedBase
PROPERTIES NoLostUpdate NoResurrection
CHECK_DEADLOCK FALSE

