SPECIFICATION Spec
CONSTANTS
  Key = {1, 2, 3}
  TTL = 1
  Step = 2
  PruneLen = 1
  MaxTime = 4
INVARIANT TypeOK
INVARIANT FloorBoundsAll
PROPERTY SweepsOnlyExpired
PROPERTY NoneStranded
