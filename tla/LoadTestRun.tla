------------------------------ MODULE LoadTestRun ------------------------------
(***************************************************************************)
(* What a load-test run promises (spec.md sections 4 and 5), whichever     *)
(* script and dispatch mode runs it.  The phases follow each other:        *)
(* creation, operations, verification, end.  Each creation attempt ends   *)
(* with one result, and a success adds a new wallet to the population,     *)
(* which no later phase changes.  An empty population ends the run after  *)
(* creation.  Otherwise exactly NumOps operations are counted, each once,  *)
(* under its kind and its result, before the verification starts.  The    *)
(* run ends, possibly early: an unexpected exception at the top level      *)
(* aborts it (section 7).  Requests, threads, the service and the ledger   *)
(* queries are not visible at this level.                                  *)
(***************************************************************************)
EXTENDS Naturals, FiniteSets

CONSTANTS NumWallets, NumOps, WalletIds

VARIABLES
  phase,            \* "create", "ops", "verify" or "end"
  population,       \* the wallets the run will operate on
  creations,        \* creations.success / creations.failed
  ops               \* ops[k].success / ops[k].failed for each kind k

vars == <<phase, population, creations, ops>>

Kinds == {"credit", "debit", "transfer"}
Results == {"success", "failed"}

Counted == ops["credit"].success + ops["credit"].failed
           + ops["debit"].success + ops["debit"].failed
           + ops["transfer"].success + ops["transfer"].failed

Init ==
  /\ phase = "create"
  /\ population = {}
  /\ creations = [success |-> 0, failed |-> 0]
  /\ ops = [k \in Kinds |-> [success |-> 0, failed |-> 0]]

CreationResult ==
  /\ phase = "create"
  /\ creations.success + creations.failed < NumWallets
  /\ \/ \E w \in WalletIds \ population :
          /\ population' = population \cup {w}
          /\ creations' = [creations EXCEPT !.success = @ + 1]
     \/ /\ creations' = [creations EXCEPT !.failed = @ + 1]
        /\ UNCHANGED population
  /\ UNCHANGED <<phase, ops>>

EndCreation ==
  /\ phase = "create"
  /\ creations.success + creations.failed = NumWallets
  /\ phase' = IF population = {} THEN "end" ELSE "ops"
  /\ UNCHANGED <<population, creations, ops>>

OperationResult ==
  /\ phase = "ops"
  /\ Counted < NumOps
  /\ \E k \in Kinds, r \in Results : ops' = [ops EXCEPT ![k][r] = @ + 1]
  /\ UNCHANGED <<phase, population, creations>>

StartVerification ==
  /\ phase = "ops"
  /\ Counted = NumOps
  /\ phase' = "verify"
  /\ UNCHANGED <<population, creations, ops>>

End ==
  /\ phase = "verify"
  /\ phase' = "end"
  /\ UNCHANGED <<population, creations, ops>>

Abort ==
  /\ phase # "end"
  /\ phase' = "end"
  /\ UNCHANGED <<population, creations, ops>>

Next ==
  \/ CreationResult \/ EndCreation
  \/ OperationResult \/ StartVerification \/ End \/ Abort

\* The run does not stop before its end.
Spec == Init /\ [][Next]_vars /\ WF_vars(Next)

=============================================================================
