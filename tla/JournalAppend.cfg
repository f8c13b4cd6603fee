SPECIFICATION FairSpec
CONSTANTS
  c1 = c1
  c2 = c2
  c3 = c3
  c4 = c4
  c5 = c5
  Caller = {c1, c2, c3, c4, c5}
  Admits = {c3}
  OpOf <- MCOpOf
  KeyOf <- MCKeyOf
  MaxSlots = 4
  MaxProbes = 2
  MaxScan = 2
  Settings <- AppendSettings
INVARIANT TypeOK
PROPERTY ImplementsLog
INVARIANT AckedIsStored
INVARIANT StoredOnce
INVARIANT ProjectionExact
PROPERTY AppendsEnd
PROPERTY OutcomesReach
CHECK_DEADLOCK FALSE
