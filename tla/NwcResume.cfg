SPECIFICATION Spec
CONSTANTS
  Events = {e1, e2}
  Relays = {r1, r2}
  Workers = {w1}
  NoEvent = NoEvent
  Window = 1
  Sibling = 1
  Retention = 2
  Burst = 2
  MaxPanics = 1
  Kinds = {"plain"}
  Skews = {0}
  Horizon = 1
  MaxResets = 0
  MaxDrops = 1
  MaxFaults = 0
INVARIANTS
  StillDeliverable
CHECK_DEADLOCK FALSE
