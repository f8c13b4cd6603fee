SPECIFICATION Spec
CONSTANTS
  Key <- Keys
  Block <- InBlock
  Common <- Rolled
  MaxKeys = {1, 2}
  Mutation = {"put", "delete"}
  MaxChange = 1
INVARIANT PagesMatchOrigin
INVARIANT WalkIsComplete
INVARIANT NothingTwice
CHECK_DEADLOCK FALSE
