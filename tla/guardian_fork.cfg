SPECIFICATION Spec
CONSTANTS
  Undefined = Undefined
  Genesis = Genesis
  Configs <- Alone
  Invocations = {i1, i2}
  Requests <- ServiceRequests
  ConsistentReads = TRUE
  MaxClock = 3
  MaxEntries = 2
  MaxFaults = 0
INVARIANT ChainLinks
CHECK_DEADLOCK FALSE
