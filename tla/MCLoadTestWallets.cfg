CONSTANTS
  NumWallets = 2
  NumOps = 3
  SampleSize = 5
  InitialBalances <- MCInitialBalances
  ReadModes = {FALSE}
SPECIFICATION Spec
INVARIANTS
  TypeOK
  StatsAccountForEveryIteration
  SuccessImpliesApplied
  NoOverdraft
PROPERTIES
  Termination
  Refinement
CHECK_DEADLOCK FALSE
