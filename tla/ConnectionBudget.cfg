SPECIFICATION Spec
CONSTANTS
  Payments = {p1, p2}
  Amount = 2
  MaxFee = 1
  Fees = {0, 1}
  Budgets = {3, 5}
  Default = 5
  NoLimit = NoLimit
  Period = 1
  MaxClock = 1
  SlowSends = FALSE
  MaxEdits = 1
  MaxFaults = 1
SYMMETRY PaymentSymmetry
INVARIANTS
  TypeOK
  CorrectedAtMostOnce
  NoCorrectionIsLost
  NoChangeIsLost
PROPERTIES
  ChargesFitTheBudget
  NoEarlyWindow
CHECK_DEADLOCK FALSE
