SPECIFICATION WorkerSpec
CONSTANTS
  intent = intent
  rules = rules
  visible = visible
  offscreen = offscreen
  Works = {rules, visible, offscreen}
  Optional = {visible, offscreen}
  Rank <- Priorities
  Capacity = 1
  Concurrency = 1
  MaxAttempts = 2
  Replays = {0, 2}
  FailureThreshold = 2
  MaxRecords = 3
  None = None
  c1 = c1
  c2 = c2
  c3 = c3
  Calls = {c1, c2, c3}
  Kinds <- Mixed
  Schedules = {hourly}
  RunAttempts = 1
  MaxCrashes = 1
INVARIANT WorkConserving
INVARIANT OneLiveRecord
INVARIANT HalfOpenHasProbe
INVARIANT QuietAfterDisconnect
PROPERTY SettlesOnce
PROPERTY AbortedNeverPushes
PROPERTY EveryCallSettles
PROPERTY InterruptedRunResumes
CHECK_DEADLOCK FALSE
