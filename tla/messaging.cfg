CONSTANTS
  MaxDrops = 2
  Timeouts = {"zero", "positive"}
  Capacity = 2
  MaxCalls = 2
  MaxCancels = 1
SPECIFICATION FairSpec
INVARIANTS TypeOK Agreement TimersAreCurrent CancelsMatch NothingStray
PROPERTIES AnswersMatch CallsSettle ImplementsRemoteCall
CHECK_DEADLOCK FALSE
