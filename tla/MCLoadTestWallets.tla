--------------------------- MODULE MCLoadTestWallets ---------------------------
(* Bounds for checking LoadTestWallets with TLC.                           *)
EXTENDS LoadTestWallets

\* 100.00 and 10000.00 are the ends of round(uniform(100, 10000), 2); 100.02
\* is a balance whose 30% (30.006) is not a whole number of cents.
MCInitialBalances == {100000, 100020, 10000000}

=============================================================================
