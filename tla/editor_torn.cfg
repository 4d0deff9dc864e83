CONSTANTS
  Lines = {1, 2}
  Texts = {"", "a"}
  MaxEdits = 0
  MaxRequests = 0
  Foreign <- AnyText
  MaxForeign = 2
SPECIFICATION FairSpec
INVARIANTS ReadIsLatest
CHECK_DEADLOCK FALSE
