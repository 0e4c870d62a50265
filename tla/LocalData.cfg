SPECIFICATION LocalSpec
CONSTANTS
  w1 = w1
  w2 = w2
  r = r
  f1 = f1
  f2 = f2
  p1 = p1
  s1 = s1
  s2 = s2
  Windows = {w1, w2}
  Rules = {r}
  MaxRecords = 1
  MaxImports = 1
  None = None
  Panels = {p1}
  Slots = {s1, s2}
  MaxRevision = 2
  MaxOperations = 4
  MaxResets = 1
  MaxFaults = 1
  MaxAsked = 1
  MaxFeedFaults = 1
  Feeds = {f1, f2}
SYMMETRY Symmetry
INVARIANT AppliedOnce
INVARIANT NothingUnrecoverable
PROPERTY EditsWhatWasSeen
PROPERTY TombstoneStays
CHECK_DEADLOCK FALSE
