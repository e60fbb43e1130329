SPECIFICATION Spec
CONSTANTS
  Rows = {1, 2}
  Hashes = {h1}
  Amount = 3
  MaxFee = 1
  Fees = {0}
  Allocations = {8}
  MaxAttempts = 1
  MaxRestarts = 0
  MaxOutages = 0
INVARIANTS
  DebitedOncePerInvoice
CHECK_DEADLOCK FALSE
