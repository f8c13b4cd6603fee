SPECIFICATION Spec
CONSTANTS
  Key = {1}
  Etag <- MCEtag
  Size <- MCSize
  TTL = 100
  Reader = {r1, r2}
  Second = 2
  Settings <- ReadSettings
SYMMETRY Readers
INVARIANT TypeOK
INVARIANT FreshReads
CHECK_DEADLOCK FALSE
