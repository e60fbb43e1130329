SPECIFICATION Spec
CONSTANTS
  Connections = {r1, r2}
  Caps = {1, 2, 3}
  MaxAttempts = 2
  MaxCodes = 2
  MaxFaults = 1
INVARIANTS
  TypeOK
  CapPairHolds
  FileNamesTheGrant
PROPERTIES
  KeepsItsCeremony
CHECK_DEADLOCK FALSE
