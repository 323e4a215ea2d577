CONSTANTS
  NumWallets = 2
  NumOps = 2
  SampleSize = 5
  InitialBalances <- MCInitialBalances
  ReadModes = {FALSE}
SPECIFICATION Spec
INVARIANTS
  AmountWithinCeiling
CHECK_DEADLOCK FALSE
