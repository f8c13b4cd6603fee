SPECIFICATION FairSpec
CONSTANTS
  p1 = p1
  p2 = p2
  w1 = w1
  w2 = w2
  Write = {w1, w2}
  Peer = {p1, p2}
  MaxLife = 3
  Settings <- StopSettings
INVARIANT TypeOK
INVARIANT SealIsFinal
INVARIANT ServesWholeLives
INVARIANT EvidenceIsCurrent
INVARIANT ObservedCrosses
PROPERTY StopSeals
CHECK_DEADLOCK FALSE
