SPECIFICATION FairSpec
CONSTANTS
  s1 = s1
  s2 = s2
  Pod <- Pods2
  MaxLife = 2
  Trouble <- Troubles
INVARIANT IndexSurvives
PROPERTY ColdFleetReady
PROPERTY RolloutEnds
CHECK_DEADLOCK FALSE
