SPECIFICATION Spec
CONSTANTS
  Rows = {1, 2}
  Hashes = {h1, h2}
  Amount = 3
  MaxFee = 2
  Fees = {1, 3}
  Allocations = {10}
  MaxAttempts = 1
  MaxRestarts = 1
  MaxOutages = 0
PROPERTIES
  RefinesEscrow
SYMMETRY HashSymmetry
INVARIANTS
  TypeOK
  NeverReversesAPayment
  MarkerNeverLies
  LedgerMatchesOutcome
  BalanceCoversSpend
CHECK_DEADLOCK FALSE
