SPECIFICATION Spec
CONSTANTS
  Events = {e1}
  Relays = {r1, r2, r3}
  Workers = {w1, w2}
  NoEvent = NoEvent
  Window = 1
  Sibling = 1
  Retention = 2
  Burst = 1
  MaxPanics = 2
  Kinds = {"plain", "garbled", "crashing"}
  Skews = {0, 1}
  Horizon = 3
  MaxResets = 1
  MaxDrops = 1
  MaxFaults = 1
SYMMETRY NwcSymmetry
INVARIANTS
  ExecutedAtMostOnce
  NeverAhead
PROPERTIES
  AnswerOutlivesRequest
CHECK_DEADLOCK FALSE
