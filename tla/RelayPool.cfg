SPECIFICATION Spec
CONSTANTS
  Relays = {home, x, y}
  Strange = {x, y}
  Paired = {home}
  Pairings = {p1, p2}
  Ids = {1, 2}
  MaxTransient = 1
  NoSocket = NoSocket
SYMMETRY PoolSymmetry
INVARIANTS
  TypeOK
  NothingLeaks
  StrangersGone
  CountsAreExact
  SubscriptionsSpared
CHECK_DEADLOCK TRUE
