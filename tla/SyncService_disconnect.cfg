SPECIFICATION ServiceSpec
CONSTANTS
  c1 = c1
  c2 = c2
  Calls = {c1, c2}
  Kinds <- Leaving
  Schedules = {hourly}
  RunAttempts = 2
  MaxCrashes = 0
  None = None
INVARIANT DisconnectHolds
CHECK_DEADLOCK FALSE
