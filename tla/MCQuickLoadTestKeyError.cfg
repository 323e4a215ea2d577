CONSTANTS
  NumWallets = 2
  NumOps = 3
  FastFlags = {FALSE}
  Workers = 2
  SampleSize = 5
  InitialBalances <- MCInitialBalances
  MissingIds = TRUE
SPECIFICATION Spec
INVARIANTS
  ItemErrorsContained
CHECK_DEADLOCK FALSE
