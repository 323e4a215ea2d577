---------------------------- MODULE MCQuickLoadTest ----------------------------
(* Bounds for checking QuickLoadTest with TLC.                             *)
EXTENDS QuickLoadTest

\* The two ends of randint(100, 5000).
MCInitialBalances == {100, 5000}

\* One initial balance, for runs whose properties do not depend on balances.
MCOneBalance == {100}

=============================================================================
