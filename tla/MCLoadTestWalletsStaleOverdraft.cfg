CONSTANTS
  NumWallets = 1
  NumOps = 3
  SampleSize = 5
  InitialBalances <- MCInitialBalances
  ReadModes = {TRUE}
SPECIFICATION Spec
INVARIANTS
  NoOverdraft
CHECK_DEADLOCK FALSE
