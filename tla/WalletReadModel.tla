---------------------------- MODULE WalletReadModel ----------------------------
(***************************************************************************)
(* The read side of the external wallet service: GET /wallets/{id} may be  *)
(* answered from an asynchronously updated projection (spec.md section 4.2 *)
(* "this read is intentionally racy", glossary "Ledger projection").  The  *)
(* projection of a wallet lags the committed balance of WalletServiceMock  *)
(* until the projector catches up with the wallet's committed writes.  A   *)
(* wallet the projector has not seen yet is unknown to the read side, so   *)
(* GET /wallets/{id} and GET /ledger/wallet/{id} answer 404 for it.  The   *)
(* projector has no fairness: the service may take any time to catch up.  *)
(* A committed write leaves the wallet behind until the projector applies  *)
(* it.                                                                     *)
(***************************************************************************)
EXTENDS Integers

CONSTANT WalletIds

VARIABLES
  onServer, bal,            \* the write side (WalletServiceMock)
  known,                    \* the wallets the projection has seen created
  proj,                     \* proj[w]: the balance the projection holds for w
  behind                    \* wallets with committed writes not yet projected

readVars == <<known, proj, behind>>

ReadModelInit ==
  /\ known = {}
  /\ proj = [w \in WalletIds |-> 0]
  /\ behind = {}

\* The service committed (or not) a write touching the wallets ws: a debit
\* or credit writes one ledger entry, a transfer one on each side.
Wrote(ws, committed) ==
  behind' = IF committed THEN behind \cup ws ELSE behind

\* The projector catches up with every write committed so far for wallet w.
Project(w) ==
  /\ w \in onServer
  /\ w \notin known \/ w \in behind
  /\ known' = known \cup {w}
  /\ proj' = [proj EXCEPT ![w] = bal[w]]
  /\ behind' = behind \ {w}

ReadModelTypeOK ==
  /\ known \subseteq onServer
  /\ proj \in [WalletIds -> Int]
  /\ behind \subseteq onServer

=============================================================================
