CONSTANTS
  NumWallets = 3
  NumOps = 2
  FastFlags = {FALSE, TRUE}
  Workers = 2
  SampleSize = 5
  InitialBalances <- MCOneBalance
  MissingIds = TRUE
SPECIFICATION Spec
INVARIANTS
  TypeOK
  SuccessImpliesApplied
PROPERTIES
  Termination
  Refinement
CHECK_DEADLOCK FALSE
