SPECIFICATION Spec
CONSTANTS
  Interval = 2
  MaxPersisted = 3
  Thresholds = {2, 3}
  MaxActions = 4
  MaxCheckpoints = 4
  MaxFaults = 1
  Absent = Absent
INVARIANTS
  TypeOK
  CheckpointsDescribeHistory
  ReloadRestores
  AutoCapForces
CHECK_DEADLOCK FALSE
