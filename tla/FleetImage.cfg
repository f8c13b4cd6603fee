SPECIFICATION Spec
CONSTANTS
  d = d
  f = f
  w = w
  Key = {1, 2}
  Etag <- MCEtag
  Size <- MCSize
  TTL = 3
  Writer = {d, f, w}
  Second = 2
  MaxWriters = 3
  MaxRows = 2
  Donor = d
  Follower = f
  MaxEvents = 2
  Settings <- FleetSettings
INVARIANT TypeOK
INVARIANT JournalIsCurrent
INVARIANT StageIsDonors
INVARIANT BothAccurate
PROPERTY InstallLosesNothing
CHECK_DEADLOCK FALSE
