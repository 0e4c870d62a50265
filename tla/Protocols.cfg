SPECIFICATION ProtocolsSpec
CONSTANTS
  None = None
  m1 = m1
  j1 = j1
  j2 = j2
  j3 = j3
  i1 = i1
  i2 = i2
  t1 = t1
  Ops = {j1, j2, j3}
  Items = {i1, i2}
  Commands <- Given
  MaxAsked = 4
  MaxContinuations = 2
  MaxPushes = 3
  MaxFailures = 2
  Migrations = {m1}
  Retention = 0
  MaxTime = 1
  MaxBody = 2
  MaxCrashes = 2
  Tabs = {t1}
  MaxChanges = 2
  MaxHalts = 1
  MaxFaults = 1
INVARIANT TagIsVerified
PROPERTY MigratesItsSource
PROPERTY ExecutesOnce
 
PROPERTY NoStaleLanguage
PROPERTY TabsFollow
CHECK_DEADLOCK FALSE
