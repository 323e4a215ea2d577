--------------------------- MODULE WalletServiceMock ---------------------------
(***************************************************************************)
(* The external wallet service as the load-test scripts see it over HTTP   *)
(* (spec.md section 6).  It is not part of this repository: it is the      *)
(* environment of the harness, modelled like the mock of spec.md section 8 *)
(* ("the final simulated balance tracked by the mock"): it keeps every     *)
(* wallet's balance and applies every request that it commits, without a   *)
(* funds check of its own, so that a balance below zero shows a request    *)
(* the harness should never have sent.                                     *)
(*                                                                         *)
(* A mutating request has one of three outcomes:                           *)
(*   "ok"    the service commits it and the client gets a 2xx response;    *)
(*   "error" the service does not commit it and the client sees an         *)
(*           exception (connection refused, 4xx/5xx, timeout before the    *)
(*           service acted);                                               *)
(*   "lost"  the service commits it but the client sees an exception       *)
(*           (the 10 s client timeout fires after the commit, or the       *)
(*           response body cannot be decoded).                             *)
(***************************************************************************)
EXTENDS Integers

CONSTANT WalletIds          \* the identifiers a created wallet may have

VARIABLES
  onServer,                 \* the wallets the service has created
  bal,                      \* bal[w]: the service's balance of wallet w
  applied                   \* applied[k]: mutating requests of kind k committed

serverVars == <<onServer, bal, applied>>

Kinds == {"credit", "debit", "transfer"}

Outcomes == {"ok", "error", "lost"}

\* The service committed the request, whatever the client then saw.
Commits(out) == out \in {"ok", "lost"}

ServerInit ==
  /\ onServer = {}
  /\ bal = [w \in WalletIds |-> 0]
  /\ applied = [k \in Kinds |-> 0]

Committed(k) == applied' = [applied EXCEPT ![k] = @ + 1]

\* POST /wallets {walletId, ownerId, initialBalance}
Create(w, b, out) ==
  /\ \/ /\ Commits(out)
        /\ onServer' = onServer \cup {w}
        /\ bal' = [bal EXCEPT ![w] = b]
     \/ /\ ~Commits(out)
        /\ UNCHANGED <<onServer, bal>>
  /\ UNCHANGED applied

\* POST /wallets/{w}/credit {amount}
Credit(w, a, out) ==
  /\ \/ Commits(out) /\ bal' = [bal EXCEPT ![w] = @ + a] /\ Committed("credit")
     \/ ~Commits(out) /\ UNCHANGED <<bal, applied>>
  /\ UNCHANGED onServer

\* POST /wallets/{w}/debit {amount}
Debit(w, a, out) ==
  /\ \/ Commits(out) /\ bal' = [bal EXCEPT ![w] = @ - a] /\ Committed("debit")
     \/ ~Commits(out) /\ UNCHANGED <<bal, applied>>
  /\ UNCHANGED onServer

\* POST /wallets/{from}/transfer {toWalletId, amount}, applied atomically
Transfer(from, to, a, out) ==
  /\ \/ /\ Commits(out)
        /\ bal' = [bal EXCEPT ![from] = @ - a, ![to] = @ + a]
        /\ Committed("transfer")
     \/ ~Commits(out) /\ UNCHANGED <<bal, applied>>
  /\ UNCHANGED onServer

ServerTypeOK ==
  /\ onServer \subseteq WalletIds
  /\ bal \in [WalletIds -> Int]
  /\ applied \in [Kinds -> Nat]

=============================================================================
