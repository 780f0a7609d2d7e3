SPECIFICATION Spec
CONSTANTS
  r1 = r1
  r2 = r2
  i1 = i1
  i2 = i2
  i3 = i3
  d1 = d1
  Requests = {r1, r2}
  SessionIds = {i1, i2, i3}
  Devices = {d1}
  MaxSessions = 1
  BackupCodes = 1
  MaxVersion = 1
  MaxHandled = 4
  MaxUsed = 1
  Gone = Gone
SYMMETRY Symmetry
CHECK_DEADLOCK FALSE
INVARIANT TypeOK
INVARIANT UsageKept
INVARIANT RecordCoherent
INVARIANT NewestCookieGood
INVARIANT SessionsBounded
PROPERTY DeletedForGood
