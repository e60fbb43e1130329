SPECIFICATION SpendSpec
CONSTANTS
  Payments = {p1, p2, p3}
  Requests <- MCRequests
  Limits = {3, 5}
  SatMsat = 3
  MaxInt = 15
  Window = 1
  MaxWindowAttempts = 2
  MaxMishaps = 1
INVARIANTS
  SpendTypeOK
PROPERTIES
  SpendCapHolds
SYMMETRY Symmetry
CHECK_DEADLOCK FALSE
