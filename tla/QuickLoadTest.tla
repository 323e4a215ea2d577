----------------------------- MODULE QuickLoadTest -----------------------------
(***************************************************************************)
(* src/scripts/quick_load_test.py.  main() creates --wallets wallets and   *)
(* performs --operations random operations, both either one at a time     *)
(* (fast = FALSE) or, with --fast, on a ThreadPoolExecutor of --workers    *)
(* threads whose results the main thread collects with as_completed.  The *)
(* script never reads a balance: the amounts are randint draws.  Then it  *)
(* queries the ledger of a sample of min(5, len(created_wallets)) wallets. *)
(*                                                                         *)
(* A task is a submitted call of create_wallet or perform_operation; the  *)
(* creation tasks are <<"create", i>>, creating wallet i, and the          *)
(* operation tasks <<"ops", i>>.  In --fast mode a task is queued by the   *)
(* list comprehension, started by a worker in FIFO order, runs its one     *)
(* HTTP request, completes, and is counted by the main thread; without     *)
(* --fast one loop iteration does all of that at once.  Money is in whole *)
(* currency units, as randint draws it.                                    *)
(***************************************************************************)
EXTENDS Integers, Sequences, FiniteSets, SequencesExt

CONSTANTS
  NumWallets,       \* --wallets
  NumOps,           \* --operations
  FastFlags,        \* the values of args.fast the run may be started with
  Workers,          \* --workers, the max_workers of both pools
  SampleSize,       \* the 5 of min(5, len(created_wallets))
  InitialBalances,  \* initial balances drawn by randint(100, 5000)
  MissingIds        \* a 2xx create response may lack the "id" field

ASSUME NumWallets \in Nat /\ NumOps \in Nat /\ FastFlags \subseteq BOOLEAN
ASSUME Workers \in Nat \ {0} /\ SampleSize \in Nat \ {0}
ASSUME InitialBalances \subseteq 100..5000 /\ MissingIds \in BOOLEAN

VARIABLES
  fast,             \* args.fast, parsed once at the start
  pc,               \* "create", "ops", "verify" or "done" (main returned)
  submitted,        \* the futures of the current phase are submitted
  tstate,           \* tstate[t]: "idle", "queued", "running", "done", "collected"
  tkind,            \* tkind[t]: "wallets" or the op_type chosen for task t
  tok,              \* tok[t]: result["success"] of a finished task
  doneQ,            \* finished tasks in completion order, not yet collected
  created_wallets,  \* the wallet ids appended to created_wallets, in order
  stats,            \* the stats dict: stats[k]["success"], stats[k]["failed"]
  sample,           \* sample_wallets
  pending,          \* sampled wallets whose ledger is not yet queried
  crashed,          \* an exception escaped main (the process exits 1)
  onServer, bal, applied

Svc == INSTANCE WalletServiceMock WITH WalletIds <- 1..NumWallets

serverVars == <<onServer, bal, applied>>
taskVars == <<submitted, tstate, tkind, tok, doneQ>>
vars == <<fast, pc, taskVars, created_wallets, stats, sample, pending, crashed,
         serverVars>>

Kinds == Svc!Kinds
StatKinds == {"wallets"} \cup Kinds
Tasks == ({"create"} \X (1..NumWallets)) \cup ({"ops"} \X (1..NumOps))
PhaseTasks(p) == {t \in Tasks : t[1] = p}

\* randint(lo, hi), reduced to the two ends of its range.
RandInt(lo, hi) == {lo, hi}

\* main() has no sys.exit: every end of the run, the early return included,
\* exits with status 0.
ExitStatus == 0

-----------------------------------------------------------------------------
(* What one task does, with ok its result["success"].                      *)

\* create_wallet(idx): POST /wallets; success only with a 2xx response.
CreateWallet(w, ok) ==
  \E b \in InitialBalances, out \in Svc!Outcomes :
    Svc!Create(w, b, out) /\ ok = (out = "ok")

\* perform_operation(op_type, created_wallets)
PerformOperation(k, ok) ==
  \/ /\ k = "credit"
     /\ \E w \in ToSet(created_wallets), a \in RandInt(10, 500),
           out \in Svc!Outcomes :
          Svc!Credit(w, a, out) /\ ok = (out = "ok")
  \/ /\ k = "debit"
     /\ \E w \in ToSet(created_wallets), a \in RandInt(10, 200),
           out \in Svc!Outcomes :
          Svc!Debit(w, a, out) /\ ok = (out = "ok")
  \/ /\ k = "transfer"
     /\ Len(created_wallets) < 2     \* "Not enough wallets"
     /\ ~ok
     /\ UNCHANGED serverVars
  \/ /\ k = "transfer"
     /\ Len(created_wallets) >= 2
     /\ \E from \in ToSet(created_wallets) :
        \E to \in ToSet(created_wallets) \ {from} :
        \E a \in RandInt(10, 300), out \in Svc!Outcomes :
          Svc!Transfer(from, to, a, out) /\ ok = (out = "ok")

\* The request of task t, of the current phase.
TaskRequest(t, ok) ==
  \/ pc = "create" /\ CreateWallet(t[2], ok)
  \/ pc = "ops" /\ PerformOperation(tkind'[t], ok)

\* Mutant of Enroll: the wallet_id of a failed result is appended too.
EnrollAlways(cw, w, ok) == Append(cw, w)

\* created_wallets after the result of the task creating wallet w.
Enroll(cw, w, ok) == IF ok THEN Append(cw, w) ELSE cw

\* The main thread counts a result: created_wallets.append(
\* result["data"]["id"]) for a created wallet, then stats[type].  When the
\* 2xx body has no "id" the subscript raises KeyError outside any try: the
\* exception leaves main before the increment.
Record(t, ok) ==
  \/ /\ stats' = [stats EXCEPT ![tkind'[t]][IF ok THEN "success" ELSE "failed"] = @ + 1]
     /\ created_wallets' = IF tkind'[t] = "wallets"
                           THEN Enroll(created_wallets, t[2], ok)
                           ELSE created_wallets
     /\ UNCHANGED crashed
  \/ /\ MissingIds /\ ok /\ tkind'[t] = "wallets"
     /\ crashed' = TRUE
     /\ UNCHANGED <<stats, created_wallets>>

\* Mutants of Finished: a failed request is retried by the worker; a failed
\* task is left in a state of its own that as_completed never yields.
FinishedRetry(ok) == IF ok THEN "done" ELSE "running"
FinishedApart(ok) == IF ok THEN "done" ELSE "failed"

\* The state a worker leaves a task in once its request returned: no retry,
\* a failed request is a finished task.
Finished(ok) == "done"

\* The executor's work queue is FIFO: a thread takes the oldest queued task,
\* and there are at most max_workers threads.
PoolHasRoom == Cardinality({t \in Tasks : tstate[t] = "running"}) < Workers
OldestQueued(t) ==
  \A u \in PhaseTasks(t[1]) : tstate[u] = "queued" => t[2] <= u[2]

-----------------------------------------------------------------------------
Init ==
  /\ fast \in FastFlags
  /\ pc = "create"
  /\ submitted = FALSE
  /\ tstate = [t \in Tasks |-> "idle"]
  /\ tkind = [t \in Tasks |-> IF t[1] = "create" THEN "wallets" ELSE "none"]
  /\ tok = [t \in Tasks |-> FALSE]
  /\ doneQ = <<>>
  /\ created_wallets = <<>>
  /\ stats = [k \in StatKinds |-> [success |-> 0, failed |-> 0]]
  /\ sample = {}
  /\ pending = {}
  /\ crashed = FALSE
  /\ Svc!ServerInit

\* Sequential mode: one iteration of the loop, choosing op_type first.
SeqStep ==
  /\ ~fast
  /\ pc \in {"create", "ops"}
  /\ \E t \in PhaseTasks(pc) :
       /\ tstate[t] = "idle"
       /\ \A u \in PhaseTasks(pc) : u[2] < t[2] => tstate[u] = "collected"
       /\ \/ pc = "create" /\ UNCHANGED tkind
          \/ pc = "ops" /\ \E k \in Kinds : tkind' = [tkind EXCEPT ![t] = k]
       /\ tstate' = [tstate EXCEPT ![t] = "collected"]
       /\ \E ok \in BOOLEAN :
            /\ TaskRequest(t, ok)
            /\ tok' = [tok EXCEPT ![t] = ok]
            /\ Record(t, ok)
  /\ UNCHANGED <<pc, submitted, doneQ, sample, pending>>

\* --fast: the list comprehension submits every task of the phase, drawing
\* op_type for each as it goes.
Submit ==
  /\ fast
  /\ pc \in {"create", "ops"}
  /\ ~submitted
  /\ submitted' = TRUE
  /\ tstate' = [t \in Tasks |-> IF t[1] = pc THEN "queued" ELSE tstate[t]]
  /\ \/ pc = "create" /\ UNCHANGED tkind
     \/ /\ pc = "ops"
        /\ \E ks \in [1..NumOps -> Kinds] :
             tkind' = [t \in Tasks |-> IF t[1] = "ops" THEN ks[t[2]] ELSE tkind[t]]
  /\ UNCHANGED <<pc, tok, doneQ, created_wallets, stats, sample, pending,
                 crashed, serverVars>>

\* A pool thread takes the next task off the work queue.
StartTask(t) ==
  /\ tstate[t] = "queued"
  /\ OldestQueued(t)
  /\ PoolHasRoom
  /\ tstate' = [tstate EXCEPT ![t] = "running"]
  /\ UNCHANGED <<fast, pc, submitted, tkind, tok, doneQ, created_wallets,
                 stats, sample, pending, crashed, serverVars>>

\* The task's request returns (or raises, or times out) and its future is
\* done; create_wallet and perform_operation catch every exception.
RunTask(t) ==
  /\ tstate[t] = "running"
  /\ UNCHANGED tkind
  /\ \E ok \in BOOLEAN :
       /\ TaskRequest(t, ok)
       /\ tok' = [tok EXCEPT ![t] = ok]
       /\ tstate' = [tstate EXCEPT ![t] = Finished(ok)]
       /\ doneQ' = IF Finished(ok) = "done" THEN Append(doneQ, t) ELSE doneQ
  /\ UNCHANGED <<fast, pc, submitted, created_wallets, stats, sample, pending,
                 crashed>>

\* The future as_completed yields next: the earliest finished one.
NextCompleted(q) == Head(q)

\* as_completed yields the next finished future and the loop body counts it.
Collect ==
  /\ fast
  /\ submitted
  /\ doneQ # <<>>
  /\ LET t == NextCompleted(doneQ) IN
       /\ tstate' = [tstate EXCEPT ![t] = "collected"]
       /\ UNCHANGED tkind
       /\ Record(t, tok[t])
  /\ doneQ' = Tail(doneQ)
  /\ UNCHANGED <<pc, submitted, tok, sample, pending, serverVars>>

PhaseOver == \A t \in PhaseTasks(pc) : tstate[t] = "collected"

\* After the creation phase: "No wallets created. Exiting..." and return,
\* else the operations (after sleep(5)).
EndCreation ==
  /\ pc = "create"
  /\ PhaseOver
  /\ \/ created_wallets = <<>> /\ pc' = "done"
     \/ created_wallets # <<>> /\ pc' = "ops"
  /\ submitted' = FALSE
  /\ UNCHANGED <<tstate, tkind, tok, doneQ, created_wallets, stats, sample,
                 pending, crashed, serverVars>>

\* Mutant of SampleCount: random.sample(created_wallets, 5) without the min.
SampleCountFixed(n) == SampleSize

\* The size of the ledger sample: min(5, len(created_wallets)).
SampleCount(n) == Min({SampleSize, n})

\* After the operations and sleep(5): random.sample(created_wallets, min(5, ...)).
StartVerify ==
  /\ pc = "ops"
  /\ PhaseOver
  /\ \E S \in kSubset(SampleCount(Len(created_wallets)), ToSet(created_wallets)) :
       sample' = S /\ pending' = S
  /\ pc' = "verify"
  /\ UNCHANGED <<taskVars, created_wallets, stats, crashed, serverVars>>

\* The sampled wallets still to query after one query that ended with out;
\* a failure prints "Error" and the loop goes on to the next wallet.
LedgerQueried(p, w, out) == p \ {w}

QueryLedger ==
  /\ pc = "verify"
  /\ \E w \in pending, out \in {"ok", "error"} :
       pending' = LedgerQueried(pending, w, out)
  /\ UNCHANGED <<pc, taskVars, created_wallets, stats, sample, crashed,
                 serverVars>>

Finish ==
  /\ pc = "verify"
  /\ pending = {}
  /\ pc' = "done"
  /\ UNCHANGED <<taskVars, created_wallets, stats, sample, pending, crashed,
                 serverVars>>

\* The main thread stops at an exception.  In --fast mode the exception
\* leaves the with block, whose shutdown(wait=True) lets the pool's threads
\* finish every submitted task before the process exits.
MainStep ==
  /\ ~crashed
  /\ UNCHANGED fast
  /\ \/ SeqStep \/ Submit \/ Collect
     \/ EndCreation \/ StartVerify \/ QueryLedger \/ Finish

Next ==
  \/ MainStep
  \/ \E t \in Tasks : StartTask(t) \/ RunTask(t)

\* The main thread and every pool thread keep running while they have work:
\* each HTTP call returns or times out (10 s), and an idle pool thread blocks
\* on the work queue only while it is empty.
Fairness ==
  /\ WF_vars(MainStep)
  /\ \A t \in Tasks : WF_vars(StartTask(t)) /\ WF_vars(RunTask(t))

Spec == Init /\ [][Next]_vars /\ Fairness

-----------------------------------------------------------------------------
(* Properties.                                                             *)

TypeOK ==
  /\ fast \in BOOLEAN
  /\ pc \in {"create", "ops", "verify", "done"}
  /\ submitted \in BOOLEAN
  /\ tstate \in [Tasks -> {"idle", "queued", "running", "done", "collected"}]
  /\ tkind \in [Tasks -> StatKinds \cup {"none"}]
  /\ tok \in [Tasks -> BOOLEAN]
  /\ doneQ \in Seq(Tasks)
  /\ created_wallets \in Seq(1..NumWallets)
  /\ stats \in [StatKinds -> [success : Nat, failed : Nat]]
  /\ sample \subseteq 1..NumWallets
  /\ pending \subseteq sample
  /\ crashed \in BOOLEAN
  /\ Svc!ServerTypeOK

\* The script's books and the service agree as far as a client can know:
\* every wallet in created_wallets exists on the service, once, and is
\* counted; every success was committed, and no operation was committed that
\* was not the request of a finished task.
SuccessImpliesApplied ==
  /\ ToSet(created_wallets) \subseteq onServer
  /\ Cardinality(ToSet(created_wallets)) = Len(created_wallets)
  /\ Len(created_wallets) = stats["wallets"].success
  /\ \A k \in Kinds :
       /\ stats[k].success <= applied[k]
       /\ applied[k] <= Cardinality({t \in Tasks : tkind[t] = k
                                      /\ tstate[t] \in {"done", "collected"}})

\* spec.md section 8: a service that applies every request (the mock) keeps
\* every balance at or above zero.
NoOverdraft == \A w \in onServer : bal[w] >= 0

\* spec.md sections 3 and 7: a run in which no wallet was created is fatal
\* and ends with a non-zero exit status.
EmptyPopulationIsFatal ==
  (pc = "done" /\ created_wallets = <<>>) => ExitStatus # 0

\* The refinement mapping to the abstract run: the return from main and an
\* exception leaving it are its end; the population is created_wallets and
\* the counts are stats.
RunPhase == IF pc = "done" \/ crashed THEN "end" ELSE pc

Run == INSTANCE LoadTestRun WITH
         WalletIds <- 1..NumWallets,
         phase <- RunPhase,
         population <- ToSet(created_wallets),
         creations <- stats["wallets"],
         ops <- [k \in Kinds |-> stats[k]]

\* quick_load_test.py implements the abstract run in either mode: the
\* phases come in order, every result the main thread takes is counted
\* once, atomically with its effect on created_wallets, exactly
\* --operations results are counted before the ledger sample, and the run
\* ends, however the pool's threads interleave.
Refinement == Run!Spec

\* spec.md section 7: an error of one item is caught at the task boundary
\* and counted; it never propagates upward, and only an empty population
\* halts the run.
ItemErrorsContained == ~crashed

\* The run ends: every submitted task is counted and main returns, or an
\* exception left main and the pool's threads still finished every task
\* submitted before it.
Termination ==
  <>(\/ pc = "done" /\ doneQ = <<>>
     \/ crashed /\ \A t \in Tasks : tstate[t] \notin {"queued", "running"})

=============================================================================
