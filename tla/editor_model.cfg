CONSTANTS
  Lines = {1, 2}
  Texts = {"", "a"}
  MaxEdits = 2
  MaxRequests = 2
  Foreign <- SameSize
  MaxForeign = 1
SPECIFICATION FairSpec
INVARIANTS TypeOK ChangesLead CleanIsKnown
PROPERTIES NoEditLost FollowsFile
CHECK_DEADLOCK FALSE
