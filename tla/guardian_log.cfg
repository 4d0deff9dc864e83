SPECIFICATION Spec
CONSTANTS
  Undefined = Undefined
  Genesis = Genesis
  Configs <- Both
  Invocations = {i1, i2}
  Requests <- ServiceRequests
  ConsistentReads = FALSE
  MaxClock = 3
  MaxEntries = 2
  MaxFaults = 1
SYMMETRY Symmetry
INVARIANT TypeOK
INVARIANT OrderlyChainVerifies
INVARIANT NonceUsedOnce
INVARIANT AllowPreservesAgency
PROPERTY ImplementsWriteAheadLog
CHECK_DEADLOCK FALSE
