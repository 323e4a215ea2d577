CONSTANTS
  NumWallets = 1
  NumOps = 5
  SampleSize = 5
  InitialBalances <- MCInitialBalances
  ReadModes = {FALSE, TRUE}
SPECIFICATION Spec
INVARIANTS
  FreshReadsNoOverdraft
  StatsAccountForEveryIteration
CHECK_DEADLOCK FALSE
