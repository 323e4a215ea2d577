CONSTANTS
  NumWallets = 1
  NumOps = 1
  SampleSize = 5
  InitialBalances <- MCInitialBalances
  ReadModes = {FALSE}
SPECIFICATION Spec
INVARIANTS
  WholeAmounts
CHECK_DEADLOCK FALSE
