SPECIFICATION Spec
CONSTANTS
  Events = {e1, e2}
  Relays = {r1, r2}
  Workers = {w1, w2}
  NoEvent = NoEvent
  Window = 1
  Sibling = 1
  Retention = 2
  Burst = 1
  MaxPanics = 2
  Kinds = {"plain", "crashing"}
  Skews = {0}
  Horizon = 1
  MaxResets = 0
  MaxDrops = 0
  MaxFaults = 0
PROPERTIES
  EveryRequestIsAnswered
CHECK_DEADLOCK FALSE
