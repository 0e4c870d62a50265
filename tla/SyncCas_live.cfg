CONSTANTS
  a = a b = b x = x y = y v0 = v0 v1 = v1 v2 = v2
  None = None
  Devices = {a, b}
  Ids = {x}
  Bodies = {v0, v1}
  Profiles = {"profile"}
  Generations = {0}
  Stamps = {0}
  References <- NoReferences
  Initial <- ToCreate
  Minted = {x}
  MaxAttempts = 2
  Files = {}
  Bounds <- LiveBudgets
SPECIFICATION ScheduledSpec
PROPERTIES Converges
CHECK_DEADLOCK FALSE
