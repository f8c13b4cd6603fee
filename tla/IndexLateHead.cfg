SPECIFICATION Spec
CONSTANTS
  w1 = w1
  w2 = w2
  s1 = s1
  s2 = s2
  r1 = r1
  r2 = r2
  Key = {1, 2}
  Etag <- MCEtag
  Size <- MCSize
  TTL = 2
  Writer = {w1, w2}
  Local = {w1}
  Scanner = {s1, s2}
  Reader = {r1, r2}
  PageSize = 1
  Second = 2
  Oversize = {2}
  Settings <- LateHead
INVARIANT SettledIsAccurate
CHECK_DEADLOCK FALSE
