# TLA+ models of the wallet load-test harness

The repository is a load-generation harness for an external ledger-backed
wallet service (spec.md). It has two scripts that implement the same design
twice:

- `src/scripts/load_test_wallets.py` runs sequentially. It creates wallets.
  It exits with status 1 if none was created. It then runs random credits,
  debits and transfers. A debit or transfer first reads the wallet's balance
  and bounds the amount by it. Last, it queries the ledger of a sample of
  wallets.
- `src/scripts/quick_load_test.py` does the same phases, one at a time or,
  with `--fast`, on a `ThreadPoolExecutor`. It never reads a balance: its
  amounts are plain `randint` draws.

## Inventory

| Component (spec.md §2) | Where in the code | State it keeps | Operations |
|---|---|---|---|
| WalletPopulationBuilder | `main` creation loop of both scripts, `create_wallet` | `created_wallets`, `stats["wallets…"]` | create one wallet; end of phase (exit/return if empty) |
| OperationPolicy | `main` loop (ltw), `perform_operation` (quick) | none of its own | choose kind and wallets; read balance; compute ceiling; skip or draw amount; send request |
| ConcurrencyDispatcher | the two loops; `ThreadPoolExecutor` + `as_completed` (quick `--fast`) | work queue, running tasks, finished futures | submit all; a thread starts the oldest queued task; a task finishes; main collects the next finished future |
| StatsAggregator | the global `stats` dict | per-kind success/failed counters | increment, only from the main thread |
| ConsistencyVerifier | end of `main` | the sample | `random.sample(min(5, n))`; one ledger query per sampled wallet; a failure is printed and the loop goes on |
| IdentifierGenerator | `gen_id`, `generate_*_id` | none (clock + random) | make an id or idempotency key |
| WalletService (external) | HTTP calls | balances, committed requests | create, credit, debit, transfer, get wallet, get ledger |
| ErrorCapture sink | `cap_path`, `write_cap` (quick) | a dated JSONL file | append a record; every exception swallowed |
| CLI and printing | `argparse`, `print_progress_bar`, summaries | none | formatting only |

How they interact. The builder fills `created_wallets`. The dispatcher then
runs operation tasks that read it, and each task's result is counted into
`stats` by the main thread. The verifier samples `created_wallets`. All
mutation goes through the HTTP service. In `--fast` mode the pool's threads
only run `create_wallet`/`perform_operation`. Those functions return a result
dict and never touch shared state. The main thread does all appends and
increments, in completion order.

Hard behaviours:
- concurrency: up to `--workers` requests in flight against the same wallets,
  with results collected in completion order (quick `--fast`);
- failure: every request can fail, and a 10 s client timeout can fire after
  the service committed, so the client counts as failed what was applied;
  nothing is retried;
- numeric edges: cent rounding of amounts drawn up to a sub-cent ceiling,
  the low-balance skip threshold, and a balance that is drained over many
  steps;
- stale reads: the balance that bounds a debit is read before the debit is
  sent, maybe from an asynchronous projection;
- settling: the verifier reads each sampled ledger once, after a fixed wait
  for a projection that may still be behind;
- termination: the pool's `with` block waits for every future, and the
  sampling loop must not stop or spin on a failed query.

What makes each component correct:
- builder: `created_wallets` holds exactly the wallets reported created. Each
  one exists on the service. An empty population is fatal.
- policy: a debit/transfer never exceeds its ceiling (§3). Its amounts never
  overdraw a wallet of a service that applies them all (§8).
- dispatcher and stats: every task is counted exactly once, under its kind and
  its outcome (§4.4). A success was committed by the service.
- verifier: it samples `min(5, n)` wallets and queries all of them, failures
  included, then the run ends. The counts it prints reflect every committed
  operation (§1). The code does not check this.

## Modules

- `WalletServiceMock.tla`: the environment. It stands for the external service
  as the mock of spec.md §8: balances, wallets created, and committed requests
  per kind. It applies what it commits and has no funds check, so a negative
  balance means the harness sent a request it should not have. Every mutating
  request ends `ok` (committed, 2xx), `error` (not committed, exception) or
  `lost` (committed, but the client saw an exception: a timeout after the
  commit). Its `Create/Credit/Debit/Transfer` operators are the effect of the
  client functions `create_wallet`, `credit_wallet`, … and are used by both
  harness modules through `INSTANCE … WITH WalletIds <- 1..NumWallets`.
- `LoadTestWallets.tla`: `load_test_wallets.py`. The script is one thread and
  the service is synchronous, so each loop iteration is one action. Every HTTP
  call it makes, and every exit path, is a disjunct of that action.
  - `CreateWallet` / `EndCreation`: the creation loop, and `sys.exit(1)` when
    nothing was created (`pc = "exited"`).
  - `Credit`, `Debit`, `Transfer`: one operation-loop iteration each. Their
    disjuncts are: `get_wallet` raised; low-balance skip; request sent with
    outcome ok/error/lost; fewer than 2 wallets (`continue`).
  - `StartVerify`, `QueryLedger`, `Finish`: sampling and the ledger queries.
  - Money is in mills (1/1000), so that `balance*0.5` and `balance*0.3` are
    exact. `RoundCent` is `round(x, 2)`. At exactly half a cent it may go
    either way, because the float's binary value decides. `Uniform(lo, hi)` is
    `round(uniform(lo, hi), 2)` reduced to the two ends of its range (the draw
    can reach either end).
  - `attempted` and `lastReq` are history variables for the properties.
- `QuickLoadTest.tla`: `quick_load_test.py`. The variable `fast` is `args.fast`.
  `Init` takes it from `FastFlags`, and it never changes, so one run can
  check both modes.
  Tasks are `<<"create", i>>` and `<<"ops", i>>`.
  - Without `--fast`, `SeqStep` is one loop iteration.
  - With `--fast`, `Submit` is the list comprehension: it queues every task and
    draws each `op_type`. `StartTask(t)` is a pool thread taking the oldest
    queued task, with at most `Workers` running. `RunTask(t)` is the task's one
    request finishing. `Collect` is `as_completed` yielding the earliest finished
    future, counted by the main thread.
  - `EndCreation` returns from `main` when nothing was created. The exit
    status is 0.
  - `randint` draws are reduced to their two ends (`RandInt`).
  - `MissingIds` lets a 2xx create response lack its `id` field. The main
    thread's `result["data"]["id"]` (lines 175/185) then raises `KeyError`
    outside any `try` (`crashed`). In `--fast` mode the pool's threads still
    finish their tasks, because the `with` block's `shutdown(wait=True)`
    waits for them.
- `WalletReadModel.tla`: the service's read side. It keeps a projection
  (`known`, `proj`) that `Project(w)` brings up to the committed balance and
  ledger of one wallet. `behind` holds the wallets with committed writes not
  yet projected (`Wrote`). In `LoadTestWallets` the variable `stale` is
  chosen at `Init` from `ReadModes`. When it is TRUE, `get_wallet` and
  `get_ledger_entries` answer from the projection (`Observed`, `Readable`).
  A wallet the projection has not seen yet answers 404. `ProjectStep` lets
  the projector run between any two steps of the script, so the fixed 10 s
  waits (lines 225 and 325) are any number of projector steps, zero
  included. The projector has no fairness.
- `LoadTestRun.tla`: the abstract run, which is what either script promises.
  Its phases are create → ops → verify → end, plus an abort at any time
  (spec.md §7). Each creation result is counted once, and a success adds a
  new wallet. The population is fixed after creation. An empty population
  ends the run. Exactly `NumOps` results, each under one kind and result,
  come before verification. Both scripts refine it: `Run == INSTANCE
  LoadTestRun WITH phase <- RunPhase, population <- ToSet(created_wallets),
  creations/ops <- the stats dict`, checked as the PROPERTY `Refinement`.
- `MCLoadTestWallets.tla`, `MCQuickLoadTest.tla`: give the initial-balance sets.

Mutant operators (`…Swapped`, `…Retry`, …) sit just before the definition
they mutate. They are not used by the specifications.

## Runs

| Run | Config | Bounds | Checks | Result |
|---|---|---|---|---|
| ltw_main | MCLoadTestWallets.cfg | 2 wallets, 3 ops, balances {100.00, 100.02, 10000.00} | TypeOK, StatsAccountForEveryIteration, SuccessImpliesApplied, NoOverdraft, Termination, Refinement | pass, 725k states, about 2 min |
| ltw_drain | MCLoadTestWalletsDrain.cfg | 1 wallet, 5 ops, both read modes | FreshReadsNoOverdraft, StatsAccountForEveryIteration | pass, 1.6M states, about 1.5 min |
| ltw_ceiling | MCLoadTestWalletsCeiling.cfg | 2 wallets, 2 ops | AmountWithinCeiling | violation (finding) |
| quick_main | MCQuickLoadTestMain.cfg | both modes, 3 wallets, 2 ops, 2 workers, `MissingIds`, balance {100} | TypeOK, SuccessImpliesApplied, Termination, Refinement | pass, 264k states, about 1 min |
| quick_overdraft | MCQuickLoadTestNoOverdraft.cfg | 2 wallets, 2 ops | NoOverdraft | violation (finding) |
| quick_empty_exit | MCQuickLoadTestEmptyPopulationIsFatal.cfg | 2 wallets | EmptyPopulationIsFatal | violation (finding) |
| ltw_whole_amounts | MCLoadTestWalletsWholeAmounts.cfg | 1 wallet, 1 op | WholeAmounts | violation (finding) |
| ltw_stale_overdraft | MCLoadTestWalletsStaleOverdraft.cfg | 1 wallet, 3 ops, lagging reads | NoOverdraft | violation (finding) |
| quick_keyerror | MCQuickLoadTestKeyError.cfg | sequential, `MissingIds` | ItemErrorsContained | violation (finding) |

What the properties say:
- `StatsAccountForEveryIteration` (ltw): each operation-loop iteration lands
  in exactly one counter of its kind, whichever exit it took.
- `SuccessImpliesApplied` (both): this links the script's books to the
  service. `created_wallets` ⊆ the service's wallets, with no duplicates, and
  its length is the created count. For each kind, successes ≤ committed ≤
  attempted.
- `NoOverdraft`: the balance-bounded amounts never drive a balance below zero.
  `FreshReadsNoOverdraft` says the same for a service whose reads see the
  script's own writes. It is checked in the run that also has lagging reads.
- `Termination`: the run always ends, with every sampled ledger queried.
  A failed query is not retried.
- `AmountWithinCeiling`: spec.md §3's bound on debit/transfer amounts.
- `EmptyPopulationIsFatal`: spec.md §3/§7's fatal, non-zero exit.
- `WholeAmounts` (ltw): spec.md §3/§4.2 integer amounts.
- `Refinement` (both): the script implements `LoadTestRun`.
- `ItemErrorsContained` (quick): spec.md §7. No per-item error escapes main.

Findings (the violation runs):
1. `load_test_wallets.py:288`: a transfer of 30.01 from a balance of 100.02,
   whose ceiling is 30.006. Cent rounding of a draw near the ceiling goes past
   it.
2. `quick_load_test.py:102`: a debit of 200 from a wallet created with 100.
   The script reads no balance.
3. `quick_load_test.py:199`: all creations fail and the script exits with
   status 0.
4. `load_test_wallets.py:250` (spec gap): the script has one thread, but its
   reads come from an asynchronous projection, which the script itself waits
   for. Three debits of 50.00 from one stale read of 100.00 leave -50.00.
   The spec only names concurrent operations as a source of staleness.
5. `quick_load_test.py:185`: a 2xx create response without `id` raises
   `KeyError` in main, which ends the run. §7 says per-item errors never
   propagate.
6. `load_test_wallets.py:256`: amounts, and initial balances, carry cents.
   A debit of 50.01 from 100.02 is one example. The spec draws integers, and
   `quick_load_test.py:55` draws integers "to align with server-side integer
   arithmetic".

Bounds. The properties are about a few steps of a few actors. Two wallets are
enough for transfers and for the `< 2 wallets` path, which is reached when one
creation fails. In ltw_main, three operations allow every combination of
kinds and outcomes before the verification phase. The drain run takes one wallet
through five operations. That is the shortest way to bring 100.00 down to the
debit skip (100 → 50 → 25 → 12.50 → skip). It starts from either read mode,
so the same run also counts the 404 of a wallet the projection has not seen
yet. ltw_main cannot reach the debit skip; this run does. Lagging reads with 2 wallets and 3 operations take more than 10 minutes,
so the lagging mode is checked at the drain bound. The balance 100.02 is the smallest
legal initial balance whose 30% has a sub-cent part. 10000.00 makes the 500
and 300 caps bind. quick_main checks both modes with 3 wallets, 2
operations and 2 workers. The creation phase is then the smallest in which
two requests are in flight while a third waits in the queue, and completion
order can differ from submission order. No property of quick_main depends on
balances, so it uses the single initial balance `MCOneBalance`. The stale-read
overdraft needs one wallet and three debits.

Fairness. `LoadTestWallets` has `WF_vars(Next)`. It is one thread, every HTTP
call returns or times out after 10 s, and no step waits on anything else.
`QuickLoadTest` has weak fairness on the main thread's steps and on each
task's start and finish. A pool thread blocks only on an empty queue, and each
request is bounded by its timeout. Fairness in `LoadTestWallets` does not
make the projector run: `ProjectStep` is one of the disjuncts of `Next`, so
the script may finish before the projection catches up. Deadlock checking is
off in every cfg because the scripts really stop (`pc = "done"` or
`"exited"`, or after a crash). `Termination` checks that they stop only
there.

## Not modelled, and why

- Wallet and owner id collisions. The service's handling of a duplicate
  `walletId` is undefined (§9), so the harness models give each wallet a
  fresh id. Idempotency keys are not modelled either. A key collides only
  when two keys share a millisecond and a random suffix. spec.md §4.1
  accepts that probability, and §8 tests it statistically, which TLC does
  not measure. An earlier model of the keys checked properties that held by
  construction, and it was removed.
- The projector jumps straight to a wallet's latest committed balance. It
  never stops at an intermediate one, which would only add more stale
  values of the same kind.
- The ledger counts that the verifier prints. The scripts compare them with
  nothing, and whether they are complete depends only on how fast the
  service's projector is. The projector has no fairness the code can rely
  on, so a property on the counts would fail for any verifier. The hazard
  is listed without a property.
- The order of the stats increments. Only the main thread does them, one
  per collected result, so the counts do not depend on completion order.
  `Collect` takes the earliest finished future, which is narrower than
  `as_completed`.
- The summary's `Operations/sec` division by a wall-clock duration, which
  can be 0.0 with `--operations 0` on a coarse clock. It is listed as a
  hazard without a property.
- `--workers 0`: `ThreadPoolExecutor` raises before any request. The models
  assume `Workers > 0`.
- ErrorCapture, argparse, progress bars and summaries: I/O and formatting.
- Timing: the sleeps and `Operations/sec` (a division by the measured
  duration).
- The rest of the response schema. A missing `balance` is read as 0 by
  `.get("balance", 0)`, so it is a low-balance skip, which the model already
  has. A missing `id` is modelled (`MissingIds`).

## Plan

Done:
1. First sitting: `WalletServiceMock`, `LoadTestWallets` (the core operation policy), and
   `QuickLoadTest` (the thread-pool dispatcher), with the runs above.

2. Second sitting: the stale-read projection (`WalletReadModel`), the
   abstract `LoadTestRun` with both refinements, and the `KeyError` crash
   path of `quick_load_test.py`.

3. Third sitting: both modes of `quick_load_test.py` in one run (`fast` is
   chosen at `Init`), with a pool in which a task waits for a free worker.
   Also the whole-amount finding for `load_test_wallets.py`.

4. Fourth sitting: the projection also tracks unapplied writes (`behind`).
   The read mode is chosen at `Init`, so `ltw_drain` checks both modes.
   After review, properties that held by construction were removed:
   `StatsMatchCollected`, the ledger-count property, and the
   `IdempotencyKeys` module.

Next sittings:
5. Larger `--fast` operation phases (3 operations on 2 workers), if a
   smaller abstraction of the service's state keeps the run under 5 minutes.
