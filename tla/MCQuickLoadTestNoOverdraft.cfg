CONSTANTS
  NumWallets = 2
  NumOps = 2
  FastFlags = {FALSE}
  Workers = 2
  SampleSize = 5
  InitialBalances <- MCInitialBalances
  MissingIds = FALSE
SPECIFICATION Spec
INVARIANTS
  NoOverdraft
CHECK_DEADLOCK FALSE
