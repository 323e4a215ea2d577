---------------------------- MODULE LoadTestWallets ----------------------------
(***************************************************************************)
(* src/scripts/load_test_wallets.py: the sequential load test.  main()     *)
(* creates NUM_WALLETS wallets one after another, exits with status 1 when *)
(* none was created, performs NUM_OPERATIONS random credit, debit or       *)
(* transfer operations, reading the balance before a debit or transfer to  *)
(* bound its amount, then queries the ledger of a sample of the wallets.   *)
(*                                                                         *)
(* The script is one thread and the service is synchronous, so one loop   *)
(* iteration, with every HTTP call it makes, is one action.  Money is in   *)
(* mills (1/1000 of the currency unit): balances and amounts are rounded   *)
(* to cents by the script, while the ceilings balance*0.5 and balance*0.3  *)
(* have a finer grain, and the rounding is what a property looks at.       *)
(***************************************************************************)
EXTENDS Integers, Sequences, FiniteSets, SequencesExt

CONSTANTS
  NumWallets,       \* NUM_WALLETS
  NumOps,           \* NUM_OPERATIONS
  SampleSize,       \* the 5 of min(5, len(created_wallets))
  InitialBalances,  \* initial balances drawn by round(uniform(100, 10000), 2)
  ReadModes         \* whether the service's reads may lag its writes

ASSUME NumWallets \in Nat /\ NumOps \in Nat /\ SampleSize \in Nat \ {0}
ASSUME ReadModes \subseteq BOOLEAN /\ ReadModes # {}
ASSUME InitialBalances \subseteq {b \in 100000..10000000 : b % 10 = 0}

VARIABLES
  pc,               \* "create", "ops", "verify", "done" or "exited" (sys.exit(1))
  ci,               \* iterations of the creation loop done
  oi,               \* iterations of the operation loop done
  created_wallets,  \* the wallet ids appended to created_wallets, in order
  stats,            \* the stats dict
  sample,           \* sample_wallets
  pending,          \* sampled wallets whose ledger is not yet queried
  attempted,        \* history: operation-loop iterations that chose kind k
  lastReq,          \* history: the last debit or transfer request sent
  onServer, bal, applied,
  stale,            \* the service answers reads from a projection that may lag
  known, proj, behind  \* the service's read model (WalletReadModel)

Svc == INSTANCE WalletServiceMock WITH WalletIds <- 1..NumWallets
Rm == INSTANCE WalletReadModel WITH WalletIds <- 1..NumWallets

harnessVars == <<pc, ci, oi, created_wallets, stats, sample, pending>>
historyVars == <<attempted, lastReq>>
serverVars == <<onServer, bal, applied>>
readVars == <<known, proj, behind>>
\* what a request to the service may change
svcVars == <<serverVars, behind>>
vars == <<harnessVars, historyVars, serverVars, readVars, stale>>

Kinds == Svc!Kinds
StatKeys == {"wallets_created", "wallets_failed",
             "credits_success", "credits_failed", "debits_success",
             "debits_failed", "transfers_success", "transfers_failed"}
SuccessKey == [credit |-> "credits_success", debit |-> "debits_success",
               transfer |-> "transfers_success"]

\* Mutant of FailKey: the except block's transfer branch copied from debit.
FailKeyCopied == [credit |-> "credits_failed", debit |-> "debits_failed",
                  transfer |-> "debits_failed"]

FailKey == [credit |-> "credits_failed", debit |-> "debits_failed",
            transfer |-> "transfers_failed"]

NoReq == [kind |-> "none", observed |-> 0, amount |-> 0]

MinAmount == 10000  \* the 10 in uniform(10, ...) and in "max_debit > 10"

-----------------------------------------------------------------------------
(* Arithmetic of the amounts.                                              *)

AbsDiff(x, y) == IF x >= y THEN x - y ELSE y - x

\* round(x, 2): the nearest cent; at exactly half a cent the binary value of
\* the float decides, so both neighbours are possible.
RoundCent(x) ==
  LET down == x - (x % 10) IN {c \in {down, down + 10} : AbsDiff(c, x) <= 5}

\* round(random.uniform(lo, hi), 2), reduced to the two ends of its range;
\* uniform(a, b) with a > b draws from [b, a].
Uniform(lo, hi) == RoundCent(Min({lo, hi})) \cup RoundCent(Max({lo, hi}))

\* Mutant of MaxDebit: min and max swapped.
MaxDebitSwapped(b) == Max({b \div 2, 500000})

\* max_debit = min(current_balance * 0.5, 500)
MaxDebit(b) == Min({b \div 2, 500000})

\* max_transfer = min(current_balance * 0.3, 300)
MaxTransfer(b) == Min({(b * 3) \div 10, 300000})

\* Mutant of Allowed: the low-balance skip tests for a positive ceiling.
AllowedPositive(m) == m > 0

\* "if max_debit > 10" / "if max_transfer > 10"; otherwise the operation is
\* skipped and counted failed.
Allowed(m) == m > MinAmount

\* The stats key a finished request is counted under: only a 2xx response
\* reaches the "_success" increment, every exception the except block.
ResultKey(k, out) == IF out = "ok" THEN SuccessKey[k] ELSE FailKey[k]

\* Mutant of Enroll: the requested wallet id is appended whatever happened.
EnrollAlways(cw, w, out) == Append(cw, w)

\* created_wallets after create_wallet returned with outcome out.
Enroll(cw, w, out) == IF out = "ok" THEN Append(cw, w) ELSE cw

Bump(s, key) == [s EXCEPT ![key] = @ + 1]

\* A write the service committed leaves the ledger projection behind on the
\* wallets ws when reads are answered from the projection.
Wrote(ws, out) == Rm!Wrote(ws, stale /\ Svc!Commits(out))

\* float(get_wallet(w).get("balance", 0)): the committed balance, or the
\* projection's when reads are stale.
Observed(w) == IF stale THEN proj[w] ELSE bal[w]

\* get_wallet(w) or get_ledger_entries(w) returns 200; the read model
\* answers 404 for a wallet its projection has not seen, and the call raises.
Readable(w) == ~stale \/ w \in known

-----------------------------------------------------------------------------
Init ==
  /\ pc = "create"
  /\ ci = 0
  /\ oi = 0
  /\ created_wallets = <<>>
  /\ stats = [k \in StatKeys |-> 0]
  /\ sample = {}
  /\ pending = {}
  /\ attempted = [k \in Kinds |-> 0]
  /\ lastReq = NoReq
  /\ Svc!ServerInit
  /\ Rm!ReadModelInit
  /\ stale \in ReadModes

\* One iteration of the creation loop: the wallet id is fresh (ci + 1), the
\* service creates it or not, and the script counts what it saw.
CreateWallet ==
  /\ pc = "create"
  /\ ci < NumWallets
  /\ \E b \in InitialBalances, out \in Svc!Outcomes :
       /\ Svc!Create(ci + 1, b, out)
       /\ created_wallets' = Enroll(created_wallets, ci + 1, out)
       /\ stats' = Bump(stats, IF out = "ok" THEN "wallets_created"
                                             ELSE "wallets_failed")
  /\ ci' = ci + 1
  /\ UNCHANGED <<pc, oi, sample, pending, historyVars, behind>>

\* After the loop: sys.exit(1) when no wallet was created, else sleep(10)
\* and start the operations.
EndCreation ==
  /\ pc = "create"
  /\ ci = NumWallets
  /\ \/ stats["wallets_created"] = 0 /\ pc' = "exited"
     \/ stats["wallets_created"] # 0 /\ pc' = "ops"
  /\ UNCHANGED <<ci, oi, created_wallets, stats, sample, pending,
                 historyVars, svcVars>>

\* Mutant of StartOp: the loop runs one iteration too many.
StartOpOneMore(k) ==
  /\ pc = "ops"
  /\ oi <= NumOps
  /\ oi' = oi + 1
  /\ attempted' = [attempted EXCEPT ![k] = @ + 1]
  /\ UNCHANGED <<pc, ci, created_wallets, sample, pending>>

\* The common part of an operation-loop iteration that chose kind k.
StartOp(k) ==
  /\ pc = "ops"
  /\ oi < NumOps
  /\ oi' = oi + 1
  /\ attempted' = [attempted EXCEPT ![k] = @ + 1]
  /\ UNCHANGED <<pc, ci, created_wallets, sample, pending>>

\* Mutant of NoRequest: the low-balance skip or failed read is not counted.
NoRequestUncounted(key) ==
  /\ UNCHANGED stats
  /\ UNCHANGED <<lastReq, svcVars>>

\* An iteration that sent no mutating request and counted key as failed.
NoRequest(key) ==
  /\ stats' = Bump(stats, key)
  /\ UNCHANGED <<lastReq, svcVars>>

Credit ==
  /\ StartOp("credit")
  /\ \E w \in ToSet(created_wallets), a \in Uniform(MinAmount, 1000000),
        out \in Svc!Outcomes :
       /\ Svc!Credit(w, a, out) /\ Wrote({w}, out)
       /\ stats' = Bump(stats, ResultKey("credit", out))
  /\ UNCHANGED lastReq

\* get_wallet, then debit_wallet only when the ceiling is above 10.
Debit ==
  /\ StartOp("debit")
  /\ \E w \in ToSet(created_wallets) :
       LET m == MaxDebit(Observed(w)) IN
       \/ NoRequest("debits_failed")                  \* get_wallet raised
       \/ Readable(w) /\ ~Allowed(m) /\ NoRequest("debits_failed") \* SKIP
       \/ /\ Readable(w) /\ Allowed(m)
          /\ \E a \in Uniform(MinAmount, m), out \in Svc!Outcomes :
               /\ Svc!Debit(w, a, out) /\ Wrote({w}, out)
               /\ stats' = Bump(stats, ResultKey("debit", out))
               /\ lastReq' = [kind |-> "debit", observed |-> Observed(w), amount |-> a]

Transfer ==
  /\ StartOp("transfer")
  /\ \/ Len(created_wallets) < 2 /\ NoRequest("transfers_failed")
     \/ /\ Len(created_wallets) >= 2
        /\ \E from \in ToSet(created_wallets) :
           \E to \in ToSet(created_wallets) \ {from} :
             LET m == MaxTransfer(Observed(from)) IN
             \/ NoRequest("transfers_failed")                  \* get_wallet raised
             \/ Readable(from) /\ ~Allowed(m)
                /\ NoRequest("transfers_failed")                \* SKIP
             \/ /\ Readable(from) /\ Allowed(m)
                /\ \E a \in Uniform(MinAmount, m), out \in Svc!Outcomes :
                     /\ Svc!Transfer(from, to, a, out) /\ Wrote({from, to}, out)
                     /\ stats' = Bump(stats, ResultKey("transfer", out))
                     /\ lastReq' = [kind |-> "transfer",
                                    observed |-> Observed(from), amount |-> a]

\* Mutant of SampleCount: random.sample(created_wallets, 5) without the min.
SampleCountFixed(n) == SampleSize

\* The size of the ledger sample: min(5, len(created_wallets)).
SampleCount(n) == Min({SampleSize, n})

\* After sleep(10): random.sample(created_wallets, min(5, len(...))).
StartVerify ==
  /\ pc = "ops"
  /\ oi = NumOps
  /\ \E S \in kSubset(SampleCount(Len(created_wallets)), ToSet(created_wallets)) :
       sample' = S /\ pending' = S
  /\ pc' = "verify"
  /\ UNCHANGED <<ci, oi, created_wallets, stats, historyVars, svcVars>>

\* The sampled wallets still to query after one query that ended with out;
\* a failed query is printed and the loop goes on to the next wallet.
LedgerQueried(p, w, out) == p \ {w}

\* get_ledger_entries(w) raises and the error is printed, or it answers and
\* the count is printed (a wallet the projection has not seen answers 404);
\* the loop goes on either way.
QueryLedger ==
  /\ pc = "verify"
  /\ \E w \in pending, out \in {"ok", "error"} :
       /\ pending' = LedgerQueried(pending, w, out)
       /\ out = "ok" => Readable(w)
  /\ UNCHANGED <<pc, ci, oi, created_wallets, stats, sample,
                 historyVars, svcVars>>

Finish ==
  /\ pc = "verify"
  /\ pending = {}
  /\ pc' = "done"
  /\ UNCHANGED <<ci, oi, created_wallets, stats, sample, pending,
                 historyVars, svcVars>>

\* The service's projector catches up with a wallet, between two steps of
\* the script.
ProjectStep ==
  /\ stale
  /\ \E w \in 1..NumWallets : Rm!Project(w)
  /\ UNCHANGED <<harnessVars, historyVars, serverVars, stale>>

ScriptStep ==
  \/ CreateWallet \/ EndCreation
  \/ Credit \/ Debit \/ Transfer
  \/ StartVerify \/ QueryLedger \/ Finish

Next ==
  \/ ScriptStep /\ UNCHANGED <<known, proj, stale>>
  \/ ProjectStep

\* One thread: every HTTP call returns or times out after 10 s, and no step
\* waits on anything else, so the script keeps taking steps until it ends.
Spec == Init /\ [][Next]_vars /\ WF_vars(Next)

-----------------------------------------------------------------------------
(* Properties.                                                             *)

TypeOK ==
  /\ pc \in {"create", "ops", "verify", "done", "exited"}
  /\ ci \in 0..NumWallets
  /\ oi \in 0..NumOps
  /\ created_wallets \in Seq(1..NumWallets)
  /\ stats \in [StatKeys -> Nat]
  /\ sample \subseteq 1..NumWallets
  /\ pending \subseteq sample
  /\ attempted \in [Kinds -> Nat]
  /\ lastReq \in [kind : {"none", "debit", "transfer"},
                  observed : Int, amount : Int]
  /\ Svc!ServerTypeOK
  /\ Rm!ReadModelTypeOK
  /\ stale \in BOOLEAN

\* Every iteration of the operation loop lands in exactly one counter of
\* the kind it chose, through whichever path it left by: a 2xx response,
\* the except block, the low-balance skip or the "< 2 wallets" continue.
StatsAccountForEveryIteration ==
  /\ \A k \in Kinds :
       stats[SuccessKey[k]] + stats[FailKey[k]] = attempted[k]
  /\ stats["wallets_created"] + stats["wallets_failed"] = ci

\* The script's books and the service agree as far as a client can know:
\* every wallet in created_wallets exists on the service, once, and is
\* counted as created; every operation counted a success was committed, and
\* the service committed no more operations of a kind than were tried
\* (a timeout after the commit is counted failed, so the service may hold
\* more wallets and operations than the successes).
SuccessImpliesApplied ==
  /\ ToSet(created_wallets) \subseteq onServer
  /\ Cardinality(ToSet(created_wallets)) = Len(created_wallets)
  /\ Len(created_wallets) = stats["wallets_created"]
  /\ \A k \in Kinds :
       stats[SuccessKey[k]] <= applied[k] /\ applied[k] <= attempted[k]

\* The balance-bounded amounts never ask a wallet for more than it holds:
\* a service that applies every debit and transfer (the mock of spec.md
\* section 8) keeps every balance at or above zero.
NoOverdraft == \A w \in onServer : bal[w] >= 0

\* The same for a service whose reads see the client's own writes; with a
\* lagging projection the bound rests on a stale balance (spec.md 4.2).
FreshReadsNoOverdraft == ~stale => NoOverdraft

\* spec.md section 3: a debit or transfer amount never exceeds the ceiling
\* computed from the balance the script observed just before.
AmountWithinCeiling ==
  /\ lastReq.kind = "debit" => lastReq.amount <= MaxDebit(lastReq.observed)
  /\ lastReq.kind = "transfer" => lastReq.amount <= MaxTransfer(lastReq.observed)

\* spec.md sections 3 and 4.2: a debit or transfer amount is a positive
\* integer, "uniform-random integer in [minimum, ceiling]", as the service's
\* integer arithmetic expects (quick_load_test.py draws integers "to align
\* with server-side integer arithmetic").
WholeAmounts == lastReq.kind # "none" => lastReq.amount % 1000 = 0

\* The refinement mapping to the abstract run: sys.exit(1) and the end of
\* main are both its end; the population is created_wallets and the
\* counts are the stats dict.
RunPhase == IF pc \in {"exited", "done"} THEN "end" ELSE pc

Run == INSTANCE LoadTestRun WITH
         WalletIds <- 1..NumWallets,
         phase <- RunPhase,
         population <- ToSet(created_wallets),
         creations <- [success |-> stats["wallets_created"],
                       failed |-> stats["wallets_failed"]],
         ops <- [k \in Kinds |-> [success |-> stats[SuccessKey[k]],
                                  failed |-> stats[FailKey[k]]]]

\* load_test_wallets.py implements the abstract run: its phases come in
\* order, each creation attempt and each loop iteration is counted once and
\* atomically with its effect on created_wallets, exactly NUM_OPERATIONS
\* operations are counted before the ledger sample, and the run ends.
Refinement == Run!Spec

\* The run ends: with exit status 1 when no wallet was created, otherwise
\* after every sampled wallet's ledger was queried, failed queries included.
Termination ==
  <>(\/ pc = "exited"
     \/ pc = "done" /\ pending = {}
        /\ Cardinality(sample) = Min({SampleSize, Len(created_wallets)}))

=============================================================================
