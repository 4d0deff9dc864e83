CONSTANTS
  Lines = {1, 2}
  Texts = {"", "a"}
  MaxEdits = 2
  MaxRequests = 1
  Foreign <- SameSize
  MaxForeign = 0
SPECIFICATION FairSpec
PROPERTIES SavedIsWritten
CHECK_DEADLOCK FALSE
