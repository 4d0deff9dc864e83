SPECIFICATION Spec
CONSTANTS
  Files = {f1}
  MaxCheckpoints = 2
  MaxVersion = 2
  MaxId = 5
  MaxClips = 4
  MaxClock = 1
  None = None
INVARIANTS
  TypeOK
  NewestFirst
  CurrentIsNewest
PROPERTIES
  NewestSurvives
CHECK_DEADLOCK FALSE
