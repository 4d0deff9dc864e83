CONSTANT MaxAcquires = 5
SPECIFICATION FairSpec
INVARIANTS TypeOK CountedOnItsObject OneObject NoLeak
PROPERTIES PendingSpared AcquireSettles
CHECK_DEADLOCK FALSE
