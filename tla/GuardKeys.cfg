SPECIFICATION Spec
CONSTANTS
  MaxKeys = 4
  MaxFaults = 1
  MaxDrops = 1
  Histories = {"fresh", "upgraded"}
INVARIANTS
  TypeOK
  NothingForgotten
PROPERTIES
  LiveKeySpared
  KillSwitchIsComplete
  OrphansAreRevoked
CHECK_DEADLOCK FALSE
