SPECIFICATION ZSpec
CONSTANTS
  Hashes = {a, f}
  Foreign = {f}
  NoHash = NoHash
  NoDebt = NoDebt
  Kinds = {"plain", "zap", "broken"}
  FirstIndex = 1
  MaxCrashes = 1
  MaxBreaks = 1
  MaxFaults = 1
  RetryWindow = 2
  MaxBackoff = 2
INVARIANTS
  ZTypeOK
  CreditedOnce
  NothingSkipped
PROPERTIES
  EveryPaymentIsCredited
  DebtKept
  NotGivenUpEarly
  EveryDebtEnds
CHECK_DEADLOCK FALSE
