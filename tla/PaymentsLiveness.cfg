SPECIFICATION FairSpec
CONSTANTS
  Rows = {1}
  Hashes = {h1}
  Amount = 3
  MaxFee = 1
  Fees = {0, 2}
  Allocations = {4, 5}
  MaxAttempts = 2
  MaxRestarts = 1
  MaxOutages = 2
PROPERTIES
  EveryPaymentIsDecided
CHECK_DEADLOCK FALSE
