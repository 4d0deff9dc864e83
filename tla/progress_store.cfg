SPECIFICATION Spec
CONSTANTS
  Callers = {c1, c2}
  Lessons = {l1}
  MasteryCap = 1
  MaxCalls = 3
  MaxFaults = 1
  NoOne = NoOne
  Orphan = Orphan
  Absent = Absent
  Partial = Partial
  NoRecord = NoRecord
INVARIANTS
  TypeOK
  Exclusion
  NoLostUpdate
  HistoryFollows
PROPERTIES
  RecordSurvives
  EveryCallReturns
CHECK_DEADLOCK FALSE
