CONSTANTS
  NumWallets = 2
  NumOps = 2
  FastFlags = {FALSE}
  Workers = 2
  SampleSize = 5
  InitialBalances <- MCInitialBalances
  MissingIds = FALSE
SPECIFICATION Spec
INVARIANTS
  EmptyPopulationIsFatal
CHECK_DEADLOCK FALSE
