SPECIFICATION FairSpec
CONSTANTS
  Key = {1}
  Etag <- MCEtag
  Size <- MCSize
  TTL = 100
  Reader = {r1}
  Second = 2
  Settings <- LiveSettings
PROPERTY BodiesConverge
 
PROPERTY Reopens
CHECK_DEADLOCK FALSE
