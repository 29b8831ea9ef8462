# A TLA+ model of the lp-terminal strategy executor

`lp-terminal` manages concentrated-liquidity positions: a web front end
(`src/src`), an indexer of pools and prices (`src/indexer`) and an unattended
executor (`src/executor`) that holds keys, watches positions and rebalances them.
The executor is where a wrong interleaving costs money, so it is modelled first.
This directory holds the modules, the TLC configurations, the proofs and this
document. Paths below are relative to `src/`.

## 1. Inventory

| Component | Source | State | Operations | What is hard |
| --- | --- | --- | --- | --- |
| Strategy and job tables | `executor/store.ts` | SQLite: `strategies`, `jobs`, `job_steps`, `job_transactions`, `daily_turnover_reservations`, `allocations`, ledger | `createPlannedJob`, `setJobState`, `setStrategyState`, `upsertStrategy`, three commits, `abandonRecoveryJob`, `archiveStrategy`, retry schedule, `quarantineInterruptedJobs` | states are written unconditionally by four actors; some pairs of writes are two commits |
| Wallet lock | `executor/wallet-lock.ts` | one promise chain per wallet, in memory | `withWalletLock`, `walletBusy` | what was checked before chaining is stale when the task runs; lost in a crash |
| Monitor | `executor/monitor.ts`, `retry-state.ts` | one pass flag, backoff per strategy | `monitorOnce` | works on rows read before many awaits, takes no lock |
| Runner | `executor/runner.ts` | none of its own | `runOnce`, `runJob` | eleven on-chain steps, each may fail; decides whether a failed job may be dropped |
| Signer | `executor/signer.ts` | rows of `job_transactions` | `sendTracked` | hash made durable before the broadcast, ambiguous broadcasts, nonces |
| Supervisor, recovery | `executor/supervisor.ts`, `recovery.ts`, `recovery-runner.ts`, `recovery-nonce.ts`, `recovery-policy.ts` | pass flag; strikes and quarantine in `jobs` | `superviseOnce`, `inspectRecovery`, `executeRecovery`, `stopAndArchiveStrategy` | decides from chain facts whether to restart, resume, wait or commit |
| HTTP API | `executor/api.ts`, `simple.ts` | suspended handlers | PUT, quick start, execute, resume-monitoring, resume/recover job, DELETE, pause-all, withdraw-profit | check, await, write |
| Startup | `executor/main.ts` | - | quarantine, then polling with `setInterval` | repairs what a crash left |
| Turnover and accounting | `executor/store.ts`, `accounting.ts`, `cost-basis.ts`, `gas-accounting.ts` | reservations per UTC day | reserve, confirm, release | midnight, crash, double counting |
| Profit withdrawal | `executor/profit-withdrawal.ts` | allocation components | withdraw, recover | chain step and bookkeeping are separate |
| Rebalance steps, allowances, staking | `executor/steps.ts`, `allowance.ts`, `staking.ts`, `rebalance.ts` | ERC-20 allowances, receipts | approve, swap, mint, revoke | half-done sequences resumed from receipts |
| Fables | `executor/fables*.ts` | its own job table | same life cycle | shares wallets and the wallet lock with strategies |
| Strategy rules | `shared/strategy/*.ts` | none | ranges, triggers, plans, guards | arithmetic |
| Indexer | `indexer/*.ts` | SQLite catalog, generations, caches | scans, repricing, paging | readers under a generation that is being replaced |
| Front end | `src/lib/*.ts` | browser storage | `swapExec`, `pendingSwaps` | reload between sending and recording |
| Scripts, deployment | `scripts/`, `deploy/` | - | - | - |

How they interact inside the executor: one Node process polls. The monitor turns
a strategy that needs work into a job `planned`; the runner claims planned jobs
of idle wallets and chains them on the wallet; the runner, the supervisor's
recovery attempts, the operator's `resume` and the operator's DELETE are the
tasks of that chain. Everything they exchange is in SQLite; there are no
messages. An operation is atomic up to its next `await`, and only that far.

What must hold, by component: a job that is `running` has a task behind it and
is alone on its wallet; a strategy has one open job; a job is given up only when
none of its transactions took or can take effect; completed and cancelled jobs
are final; an old plan is refused before it signs; a stopped strategy stays
stopped; a plan is run, a recovery ends, a supervisor pass ends.

By component, for the parts below the job life cycle: a step of a job takes
effect at most once, in order, and nothing that can still be mined is unknown to
recovery (signer, transaction facts); the tables of allocations say what
receipts prove, retained profit is neither lost nor paid twice, and interrupted
jobs of one wallet do not block each other for ever (allocations, profit
withdrawal); automation stops burning gas, stays within the turnover of a day,
and asks for the operator exactly when a job keeps failing (retry policy,
reservations).

The full list of hazards, at their lines, is `PROJECT.json` `hazards`; one that
no property covers says why.

## 2. Modules

| Module | What it is |
| --- | --- |
| `ExecutorJobs` | The detailed model: tables, wallet chains, monitor pass, runner, signer as a job sees it, supervisor, recovery, stop, API handlers, crash and restart. Properties and the mutants used to test them. |
| `JobLifecycle` | The abstract specification of a single job: what its row and its transactions may do, whoever acts. `ExecutorJobs` implements it (`FollowsLifecycle`), with `state <- jState`, `txs <- jTxs`. |
| `ExecutorJobsMC` | Values for the constants: who owns which job, one wallet, symmetry. |
| `ExecutorJobsProofs`, `ExecutorLifecycleProofs`, `TxRecoveryProofs`, `WalletFundsProofs`, `WalletProgressProofs`, `AttemptLimitsProofs` | Theorems about these modules and their proofs. |
| `SumLemmas` | What the sums of the community modules return, for the proofs about amounts and turnover. |
| `TxRecovery` | Below a job: the rows of `job_transactions`, the sender, the chain and mempool, and the inspection that decides what became of each transaction. |
| `WalletFunds` | Beside a job: what its transactions and commits do to the allocations of the strategies that share a wallet, profit withdrawal included. |
| `AttemptLimits` | Around a job: attempts, strikes, quarantine, swap slippage and turnover of a strategy over days. |
| `TxRecoveryMC`, `WalletFundsMC`, `AttemptLimitsMC` | Model values and symmetry for these. |

The four detailed modules describe the same jobs from four sides and meet in
the state of a job: what `ExecutorJobs` takes as a set of transaction states and
a free verdict of the inspection, `TxRecovery` derives from rows and nonces; the
commit that `ExecutorJobs` sees as one step is what `WalletFunds` writes; the
strike that may quarantine a job there is counted in `AttemptLimits`. They are
checked separately, since their product is far beyond TLC.

### ExecutorJobs and the code

State. `sState`, `sConfig`, `sRev` are `strategies.state` and two facts of
`config_json`: enabled, disabled or exited (disabled with no position, after
`commitHoldQuote`), and the revision. `jState`, `jRev` are `jobs.state` and
`plan_json.strategyRevision`; `jTxs` is the set of states found in the job's
`job_transactions` (`open` stands for `sending` and `sent`); `jFails`, `jQuar`
are the fail streak and the quarantine mark. These survive a crash. `lock` is the
promise chain of each wallet, its head being the task that runs; `phase` and
`view` say where the head task is and what it read before its last await; `pass`
holds the revision of each strategy still in the monitor's snapshot; `sup` the
jobs the supervisor pass waits for; `requests` the API handlers suspended in an
await. These are lost in a crash.

Granularity. One action is one synchronous section between awaits. So `PutBegin`
and `PutFinish` are two actions, `PutDisabled`, which awaits nothing, is one; the
supervisor's selection is one action and each attempt several. Crashes fall
between actions, and also between two commits of one section where the
second is missed by the restart: `CrashAfterInsert` (after `createPlannedJob`,
before `setStrategyState`) and `CrashAfterJobState` (end of a dry run, the catch
of the runner and of recovery).

Tasks on a wallet:

* `run`: `RunnerClaim` (asks the wallet queries and reads the row), `RunStart`
  (running/executing), `RunCheckPass` (position and revision), `RunDryRun`, then
  `TxBegin`, `TxSend`, `TxConfirmed` repeated, and a commit, or `RunThrow`,
  `RunReverted`, whose common end is `RunCatch`.
* `supervise`, `resume`: `RecoverAlreadyDone`, or `RecoverInspect` followed by one
  of `RecoverRestart` (restart_safe), `RecoverResume` (anything to build on; may
  repair the config first), `RecoverInconclusive` (waits, ambiguous, or failed),
  then the same sending actions and commits, or `RecoverCatch`. `Strike` counts a
  failure and may quarantine.
* `stop`: `StopRefused`, or `StopRead`, `StopInspected` / `StopInconclusive`,
  `StopArchive` / `StopRolledBack`.

Left to chance, because the properties do not depend on it: which market verdict
a monitor branch reaches, when backoff has elapsed, whether a read fails, whether
an error counts as a strike, how many transactions a job needs, and what a chain
inspection finds about an open transaction.

Simplifications a reader should know:

* the wallet of a strategy is fixed; PUT does not create a strategy or re-create
  an archived id; fables and profit-withdrawal jobs are absent;
* quarantine uses the fail streak only; the streak of equal errors and the deferral for
  swaps that can still escalate are in `AttemptLimits`;
* a settled row is not contradicted by a later RPC answer, and `inspectRecovery`
  does not misjudge a pending transaction: `TxRecovery` models what it looks at
  and shows in what environment this is so (`GivenUpIsDead`);
* DELETE always yields between reading the open job and archiving. The code does
  so on all paths but the one where a swap or later step is confirmed; there the
  model allows interleavings the code does not have;
* a job takes an unused id of `Jobs`, so the number of jobs is finite;
  `archiveStrategy` and the commits are disabled at `MaxRevision`.

### TxRecovery and the code

State. `rows` is `job_transactions` by step (a slot of the table, `step_index`
and `tx_index`), with state, nonce, calldata and hash; `jobs` is `jobs.state`;
`task` is the holder of the wallet lock, `send` the locals of its `sendTracked`
between two awaits, `facts` what `transactionFact` has answered so far. `mined`
and `pool` are the chain and the mempool as the one RPC node shows them. A crash
loses `task`, `send` and `facts`.

`sendTracked` (`signer.ts`) is `ReadNonce`, `Mark` (row `sending`), `Sign` (hash
written before the broadcast), then `Broadcast`, `RefuseFee` (same nonce, higher
bid), `RefuseSend`, `Unanswered` (admitted, but every answer lost), `MarkSent`
and the three ends of waiting for the receipt. An upsert keeps the hash of an
earlier use of the slot, as `markTransaction` does with COALESCE. A throw lands
in `AfterThrow`, the catch of the runner or of recovery.

An inspection reads the facts row by row: `LookUp` by hash (a receipt, which must
match what the row says, or the transaction), `CountNonces` for what was not
found (`NonceFact` is `classifyMissingTransactionNonce`, `LocalReplacement`
`hasConfirmedLocalReplacement`). `Defer`, `GiveUp`, `Resume` and `Archive` are the
dispositions; each writes the reconciled rows first.

Assumed of the environment: a lookup by hash is truthful, mined blocks are final.
Granted to it: the count of mined nonces may lag by one (`"lag"`), the owner may
send and replace transactions from another program (`"replaced"`), the node may
drop a transaction at any time, and any call of the sender may fail. A job is a ladder of
steps with one transaction each; which steps are optional is left out. The
error `E_STOP_REQUIRES_RECOVERY` (DELETE of a fee collection or hold that stands between
its exit and its swaps) is left out: in the model such a stop archives, which is the
more permissive outcome.

### WalletFunds and the code

State. `pos` and `owed` are the position of a strategy and the fees it accrued;
`own` and `free` split the wallet's balance the way receipts prove it belongs,
which the code does not know: it reads `Balance`, and `alloc`, `comp`
(`allocations`, `allocation_components`). `job` is the open job with the values of
its `job_context` (`precheck`: balance and prior components). `paid` is the ledger
of withdrawals.

Actions. `Start` is the precheck of `runJob` (coverage of everybody's
allocation), `Exit`, `Collect`, `ConvertFees`, `SwapForRange`, `SellAll`, `Mint`
are landed transactions, `CommitRecenter`, `CommitCollect`, `CommitHold` the three
commits with their arithmetic: a recenter adds up receipts, the other two take
the present balance less that of the precheck. A profit withdrawal
(`profit-withdrawal.ts`) is `StartProfit`, `SaveContext`, `ProfitSwap`, `RecordSwap`,
`SaveRelease`, `Unwrap`, `Release`, `CompleteProfit`, and after an interruption
`AbandonProfit` or the record and release again. `Compound` is the PUT that turns
reinvestment on. `Throw` and `Crash` interrupt a job anywhere; `Resume` continues
it after jobs of the other strategy have run, if the checks of `finishFromWallet`
let it.

Abstractions: two tokens, swaps at rate one, no gas, fee tax, staking or allowance;
the outcome of a transaction is definite (uncertain ones are the subject of
`TxRecovery`); one action is one landed transaction or one commit.

What the properties do not say, and why:

* `AllocationIsOwn` excludes a strategy after a fee collection or hold committed
  while others had moved the wallet: both take the balance's change as their own
  (`recovery-runner.ts:885`, `:659`), so the deposit or the other job's tokens are
  attributed to them;
* `ProfitAccounted` excludes a strategy in `paused_hold_quote`: `commitHoldQuote`
  rewrites totals only, the stored classes no longer add up, and all counts as
  held fees from then on;
* `SpendsItsOwn` and `FirstAttemptPasses` have the first exception too, the latter for
  the whole wallet: a wrong booking takes coverage from everybody;
* `CanFinish` is about the checks of allocations and classes a job meets next, not about
  the pool, gas or the outcome of a transaction;
* `SomeoneCanFinish` and `FirstAttemptPasses` say nothing of a fee collection or hold whose
  wallet moved in the meantime (`Misled`): its comparison of balances may come out negative,
  or for a hold not zero in the risk token, for ever;
* `SomeoneCanFinish` excludes a recovered recenter that has minted while profit
  was retained before: `recovery-runner.ts:1098-1102` leaves `prior.profit` out of
  its proof, `:1005-1013` and `runner.ts:395-398` count it. Without this exception
  TLC finds two jobs that make each other's coverage check fail,
  `E_ALLOCATION_MISMATCH`, for ever;
* `SomeoneCanFinish` holds for two strategies on a wallet, not for three (below);
* a withdrawal whose process dies after the job row and before its context
  (`profit-withdrawal.ts:200`, `:208`; stage `bare`) cannot be resumed; it has moved
  nothing, but it keeps its strategy occupied.

### AttemptLimits and the code

State. The latest job of one strategy: `phase`, which of its transactions `landed`,
swaps `done` and still in the `plan`; `reverts` is `swap_revert_streak` of its
context; `strikes` the columns `recovery_error_streak`, `_fail_streak`,
`_last_error`, with `quarantined`; `rows` the table `daily_turnover_reservations`,
`limit` the strategy's daily limit. `traded`, `burnt`, `tries`, `astray` are history.

The operators `EscalatedSlippage`, `AtSlippageCap`, `EscalationUncapped`,
`NextStrikes`, `Deferred`, `Quarantines` are the functions of `swap-escalation.ts` and
of the retry schedule in `store.ts`; `Fits`, `Reserved`, `Settled` the four functions on
reservations. Every failed attempt goes through `Fails`. An operator's resume
(`OperatorResumes`) clears the counters at once and then waits behind an attempt
of the supervisor that is still under way; that attempt's failure is
counted after the reset. `Midnight` may fall anywhere.

Abstractions: a swap trades one unit, so a limit counts swaps; the delay of a retry
is any time; counters stop at 3 (compared with 3) and 8 (under `min(.., 8)`); hold
and collection jobs are not told apart (they have no mint, otherwise the same
calls); the raise of an automatic limit may happen whenever a job is given up;
a swap sent after midnight counts for the day of its reservation, as in the code.
Three strategies. The proof of `SomeoneCanFinish` needs at most two, and TLC shows why: in an
instance with three, four jobs and four interruptions two jobs block each other with
none of the exceptions above. `s` has idle principal of 1 quote in its rows, `q` of 1 risk. All
three are interrupted after leaving their positions: `s` after its exit; `q` after it
swapped 2 risk for 2 quote; `r` after its exit, with 1 risk in the wallet that no row
mentions. `s` resumes: the 1 risk of `r` makes its proof pass (1 for itself and 1 for the old row of
`q`); it mints the quote, keeps 1 risk and is interrupted again. `r` resumes, mints its 1 risk
and commits. Now the wallet has 1 risk and 2 quote; `s` wants 1 risk beside the 1 of the
row of `q`, `q` wants 2 quote beside the 1 of the row of `s`, and both are answered
`E_ALLOCATION_MISMATCH` until somebody deposits. The coverage proof counts the
tokens of a job in progress, which has no row for them, as available to whoever asks.
No doc or comment promises otherwise, so this is described here and is not a run.

The releases in `replaceRecoveryStrategyConfig` and `archiveStrategy` are left out.

## 3. Runs

`None`, wallets, strategies and jobs are model values. Common bounds:
`MaxQueue = 2` (one task waits behind another; the third in line meets the same
checks as the second; `every_request` uses 2 as well), `MaxRevision = 2` (a plan of revision
1 can meet a config of revision 2; `edit_race` needs 3), `MaxInFlight = 1` (one
suspended handler against all other actors), `MaxCrashes` 0 or 1,
`QuarantineAt` 2 instead of the code's 3 (1 in `every_request`): one strike that does not quarantine and
one that does. `CHECK_DEADLOCK FALSE` everywhere: once all job ids are used,
every strategy is archived and the bounds are reached, the model stops; the
program would go on polling.

| Run | Instance | Checks | Shows |
| --- | --- | --- | --- |
| `every_request` | one strategy, two jobs, all eight API operations, a crash; job symmetry | `TypeOK`, `RunningHoldsLock`, `OneOpenJob`, `ExecutingHasJob`, `GivenUpHasNoEffect` | a plan, its failure and a second plan under every request, pauses and lock-free reconciliation included (2.4 million states) |
| `shared_wallet` | two strategies on one wallet, `s2` simulates, stop and resume, a crash; fair | `OneRunningPerWallet`, `FreshRunAlone`, `ExecutingHasJob`, `JobsStayFinal`, `FollowsLifecycle`, `SupervisorPassEnds` | tasks of different strategies queue behind each other; the executor implements `JobLifecycle`; dry runs end their strategy; the supervisor's flag is always cleared |
| `progress` | one strategy, two jobs, no API, a crash, fair and settling | `PlannedRuns`, `RecoveryEnds` | every plan is run, every recovery ends or is quarantined |
| `tx_recovery` | two jobs of two steps on one wallet, three nonces, a fee retry, a transaction of the owner, a crash | `TypeOK`, `EffectOnce`, `NoOrphan`, `GivenUpIsDead`, `LandInOrder`, `CompletedIsAccountedFor` | whatever is lost, dropped, replaced or interrupted, a step lands once and in order, recovery can find all that is on the way, and a job given up is dead (3.0 million states) |
| `wallet` | two strategies, two jobs of any kind, one that converts its fees, a deposit or fee, two interruptions | `TypeOK`, `AllocationIsOwn`, `ProfitAccounted`, `SpendsItsOwn`, `FirstAttemptPasses`, `SomeoneCanFinish` | the books of two strategies on one wallet survive interruptions with the other's jobs in between, each job spends its own tokens only, and the coverage checks refuse neither a first attempt halfway nor both of two interrupted jobs (1.5 million states) |
| `limits` | two swaps with the ladder 250, 500, 1000 bps, two jobs, a midnight, a resume, a crash; fair | `TypeOK`, `RevertsBounded`, `TurnoverWithinLimit`, `QuarantineEarned`, `SpentLadderQuarantines`, `FailingIsNoticed` | gas and turnover are bounded, quarantine comes when it is earned and only then (1.0 million states) |
| `stale_hash` | violation | `AmbiguousOnlyWhileOpen` | see below |
| `short_ladder` | violation | `SpentLadderQuarantines` | the same property with a base of 3 bps, see below |
| `archive_race` | violation | `ArchivedHasNoOpenJob` | |
| `archive_overwritten` | violation | `ArchivedStaysArchived` | |
| `edit_race` | violation | `NoEditUnderOpenJob` | |
| `stuck_plan` | violation | `PlannedRuns` | |

Two strategies and not three, one wallet and not two: the actors share only the
wallet chain and the tables, so a second wallet adds independent behaviour, and
every query relates at most two jobs (but for the coverage checks of `WalletFunds`, which
add up all rows: section 2 says what a third strategy changes there). `SYMMETRY` permutes jobs of one strategy,
in an invariants-only run.

`tx_recovery`: two steps, so that a later one can be confirmed under an earlier
attempt; two jobs, so that nonces are shared; three nonces for at most four
transactions of the jobs and one of the owner, so that they collide; two bids,
for one fee retry. `wallet`: each kind of job against each other kind, from an idle wallet,
from idle principal and from retained profit; a third job would find the tables in
a state that two leave. `limits`: with Base 250 the ladder has two rungs before the cap,
so that a deferral, its end and the quarantine all occur; limits 2 and 3 against
two jobs of two swaps make a reservation fit and not fit.

Every property of a passing run has a mutant, an `X_...` operator placed before
the definition `X` it replaces: a plausible slip in that piece of code, which
TLC must find to break the property.

### Fairness

`FairSpec`: `main.ts` calls the three pollers from `setInterval` for ever, hence
weak fairness of beginning a pass, of every strategy leaving it, of claiming a
job, and of the supervisor. A task takes steps (`TaskStep`): it awaits only RPC calls with
timeouts, and database writes. It also ends (`TaskEnd`): a job has a fixed
number of steps, so it cannot send for ever. No API request is fair. `SettlingSpec`
adds what only the outside can grant: an inspection that is repeated is
conclusive some day, and a job that is resumed again and again commits some day;
without it a job that fails without strikes (transient errors) retries for ever,
which is what the code intends.

`progress` has no API operations: with a bounded wallet queue, requests that keep
it full would starve the supervisor, which is an artefact of `MaxQueue`; and with
requests the plan can get stuck, which is the finding below.

`AttemptLimits` assumes weak fairness of `Supervise` (the interval timer selects a
job that is due and not quarantined) and of `Attempting` (an attempt that reads or sends
gets an answer or an error from each call, and so goes on to an end). Nothing is
fair about the operator, midnight, crashes or the success of a call.
`FailingIsNoticed` is then about a job whose attempts keep failing.

### Disagreements found

1. `archive_race`. DELETE finds no open job, awaits the last valuation
   (`recovery-runner.ts:1420`), and archives without naming a job; the monitor
   inserted one meanwhile. The archived strategy keeps an open job, while
   `store.ts:601` promises to archive the "open local job" too.
2. `archive_overwritten`. A monitor pass that read the strategy before DELETE
   ends with an unconditional `setStrategyState`, and the row leaves `archived`.
3. `edit_race`. PUT checks for an open job, awaits reads, and overwrites config and
   state under the job planned meanwhile, which 409 'strategy has an open
   execution job' (`api.ts:628`) is there to prevent. `runnableJobs` skips the old
   plan as long as the state is not `planned` again, but the job stays open.
4. `stuck_plan`. resume-monitoring does the same to `planned`; the job is never
   selected again (`runnableJobs` wants both states) and the unique index refuses
   every later plan, so the automation is paused for good.

5. `stale_hash`. After a revert the next attempt uses the slot again
   (`signer.ts:98-111`), and `markTransaction` keeps the old hash beside the new
   calldata (`store.ts:816-817`). If that attempt throws or dies before it has a hash,
   the inspection finds the reverted transaction, compares it with the calldata of the
   one never sent, and answers `ambiguous` (`recovery.ts:82-83`), for ever: the job can
   neither be recovered nor stopped, although nothing is undecided.
   `recovery-runner.ts:1431-1432` says a stop is refused only while an outcome is unknown.

6. `short_ladder`. The tolerance of a reverted swap doubles at most eight times
   (`swap-escalation.ts:15`), and `atSlippageCap` compares it with 1000 bps. From a
   `maxSlippageBps` of 1, 2 or 3 (the schema allows 0 to 1000) the ladder ends at 256,
   512 or 768: nothing is widened any more, the cap is never reached, and every
   further revert of the swap still puts the quarantine off. The comment at
   `swap-escalation.ts:19-21` describes the function as true "once further reverts can
   no longer widen the tolerance". The proofs found this: `RevertsStayBounded` does
   not hold without `Base >= 4`.

The revision check of the runner (`runner.ts:95`, `E_PLAN_STALE`) is not the subject of a
property. An earlier version of this project checked "a fresh run signs only for
the config it was planned from" with two revisions; with three and a PUT, TLC refutes it.
Revision numbers do not identify a config: PUT compares with the stored one
(`api.ts:629`), awaits, and upserts whatever is stored by then, while a commit and
`replaceRecoveryStrategyConfig` write the revision they read plus one, so that two
configs may bear the same number. The shortest trace uses a config repair wider
than the code's (a parameter of the model), so no run claims it as a fault.

Met on the way in `ExecutorJobs`, with the same consequences, and not given runs of their own: a
crash between the two commits that end a dry run (`runner.ts:136-137`) leaves
`executing` without a job, which DELETE and PUT refuse for ever; a crash between
`createPlannedJob` and `setStrategyState` leaves a stuck plan; an operator's
resume queued behind the supervisor's attempt may give the same `failed` job up
again (`recovery-runner.ts:1321`, `store.ts:1680`) and overwrite the `planned` of
its successor. `PlannedRuns` therefore speaks of jobs whose strategy was moved to
`planned` with them, and `ExecutingHasJob` excepts a simulating strategy after a crash.

Met on the way in `AttemptLimits`: a revert of an approval, the mint or a staking call
is put off like a swap revert while an old swap revert below the cap is on
record, because `store.ts:1637` compares the error code only, although
`store.ts:1608-1610` says such reverts must count (hence `astray`); and after three deferred
reverts the fail streak stands at 3, so that the next provider error
quarantines a job whose swap could still be widened (`store.ts:1600`).

## 4. Proofs

### ExecutorJobs

`ExecutorJobsProofs` proves, for all values of the constants that satisfy
`ExecutorAssumption` (WalletOf and StrategyOf are functions of the right type,
bounds are naturals, `None` is no job and no number):

* `TypeCorrect == Spec => []TypeOK`;
* `RunningIsHeld == Spec => []RunningHoldsLock`;
* `OneRunning == Spec => []OneRunningPerWallet`.

`RunningHoldsLock` is not inductive alone: when the head task of a wallet marks
its job running, that job must belong to this wallet, or another wallet would have
a running job without a task. `IInv` therefore adds `QueueOwn`: a wallet's chain
carries only jobs of that wallet and stops of its strategies. The argument:

1. `QueueOwnKept`: outside steps append a task of their own wallet
   (`ChainsOwnTasks`), tasks release the front (`TaskStepMoves`), a crash empties.
2. `HeldAfter`: the invariant survives any step that makes no job running and
   leaves each wallet without a running job (`Quiet`) or with the same working
   head (`WorkGoesOn`). From it follow the lemmas for the ways the code ends or
   continues a task: `EndHeld`, `IdleReleaseHeld`, `AdvanceHeld`.
3. `MarkHeld` is the only place where a job becomes running: its wallet was
   quiet because its head had not started (`QuietUnlessWorking`).
4. One lemma per actor (`RunnerHeld`, `RecoveryHeld`, `SignerHeld`, `StopHeld`,
   `OutsideHeld`, `CrashHeld`), combined in `NextHeld`.
5. `OneRunning` is immediate: two running jobs of a wallet are both its head.

`QueueOwn` was checked with TLC on the instance of `shared_wallet` before it was
proved.

`ExecutorLifecycleProofs` builds on it and proves the refinement, and with it the
other properties of a job's row:

* `ImplementsLifecycle == Spec => FollowsLifecycle`;
* `OneOpen == Spec => []OneOpenJob`;
* `GivenUpIsHarmless == Spec => []GivenUpHasNoEffect`;
* `FreshRunIsAlone == Spec => []FreshRunAlone`;
* `FinalJobsStay == Spec => JobsStayFinal`;
* `ExecutingIsOpen == Spec => []ExecutingHasJob`.

The code writes job states without looking at what it replaces (`setJobState`), so
a step is one of `JobLifecycle` only because of what the task that holds the wallet
found out earlier and nobody could change since. The invariant `LInv` adds to
`IInv`:

1. `HeadFacts`, per wallet: a run that has not started has a planned job, an attempt
   under inspection a job in recovery or given up, a task past its mark a running
   one; a dry run has sent nothing, a send has nothing uncertain before it; a stop
   archives a settled job of its own strategy; next to a run nothing is uncertain.
   `RunsFirst` (a run is never queued behind a task) makes the first of these true
   when a task is released.
2. `Fresh`, `GivenUpHasNoEffect`, `OneOpenJob`. They follow from the life of a job
   alone (`FreshKept`, `GivenUpKept`, `OneOpenKept`), plus `CreatedAlone`: jobs are created one
   at a time, after asking for an open one.

`GivenUpHasNoEffect` is why a queued attempt that finds its job given up can never
resume it (`RecoveryLife`, step `RecoverResume`): there is no confirmed step to
resume from. Handlers and passes act without the lock, but only ever create a job or
reconcile one nobody works on (`OutsideTouches`), which `HeadFacts` outlives
(`UndisturbedFacts`). One lemma per actor (`RunnerLife`, `RecoveryLife`, `SignerLife`, `StopLife`,
`OutsideLife`, `CrashLife`) shows that it moves its jobs by `Lifecycle!Step`; `Exclusive'` is
`OneOpenJob'` with `RunningHoldsLock'`.

`ExecutingIsOpen` adds one fact to `LInv`: the state a suspended quick start would put back
is not `executing` (`RestoresNone`). Only the task at the head of a wallet writes
`executing`, and only to the strategy of its running job (`Confined`, `HeadCovers`); everyone
else leaves a strategy `executing` only if it was, and closes none of its jobs
(`Untouched`). The restart repairs each running job with its strategy (`CrashCovers`). The
exception for dry runs is the crash between two commits described above. `LInv` was checked with TLC on the
instances of `shared_wallet` and `every_request` first.

### TxRecovery

`TxRecoveryProofs` proves, for all values of the constants that satisfy
`TxAssumption` (steps are positive numbers, finitely many; bounds are naturals;
`None` is no job and no transaction; any faults):

* `TypeCorrect == Spec => []TypeOK`;
* `NothingIsOrphaned == Spec => []NoOrphan`;
* `OneEffect == Spec => []EffectOnce`;
* `GivenUpStaysDead == Spec => []GivenUpIsDead`;
* `StepsInOrder == Spec => []LandInOrder`;
* `CompletedStaysAccounted == Spec => []CompletedIsAccountedFor`.

None of them is inductive. The invariant `IInv` says what each actor relies on:

1. `ChainOrder`: the chain mines nonces in turn, a nonce is held once. `OneAtATime`:
   a job has one transaction on the way, later than all it has landed.
2. `WayKnown`, `EffectKnown`: what is on the way, or took effect, is the transaction
   whose hash its row holds, in a state the inspection looks at. These are the
   strengthening of `NoOrphan`, and give `EffectOnce`: two effects of a step
   would be the same transaction, hence the same nonce (`OneNonce`).
3. `JobFacts`: nothing of a planned, failed, completed or cancelled job is on
   the way; planned and failed ones have had no effect.
4. `ExecuteFacts`: while a job executes, what it did before is confirmed and nothing but
   the transaction of `sendTracked` is on the way; before the broadcast not even that.
   This is why writing over the row loses nothing (`RowWritten`).
5. `InspectFacts`: a fact once read stays true. What the hash lookup does not find,
   or finds reverted, is not on the way and had no effect (`HashFactMeans`); nothing is sent
   while the wallet is inspected, and a transaction once out of the pool does not
   come back. So reconciliation closes no row it should not (`ReconciledKnown`).

There is one lemma per action (`MineKeeps` ... `ReceiptSuccessKeeps`), combined in
`NextKeeps`; actions that leave the chain alone share `ChainStill` and `RowsStill`, those of
the sender `SenderSteps` and `ThrowKeeps`. The proof does not use the nonce counts: in this
environment, where a lookup by hash is truthful, the pending count only decides
between `absent` and `ambiguous`, both safe. `IInv` was checked with TLC on the instance
of `tx_recovery` first.

For the last theorem `Reckoned` is added. A step is `Explained` when it took effect,
or when the owner of the wallet took a nonce (`signer.ts:143` may then be handed the
receipt of that transaction). The invariant says that every confirmed row is
explained, and every step before one that has a row (`RowsExplained`); that whatever
takes the nonce the sender waits for is its own transaction or the owner's
(`SenderExplained`); and that a fact `confirmed` read by the inspection is an effect of
that very step, since the hash in a row is one of its own step (`FactsExplained`).
`IInv` is what rules out that another job of ours takes the nonce. `Reckoned`
was checked on `tx_recovery` as well.

### WalletFunds

`WalletFundsProofs` proves, for any strategies on the wallet and any bounds (there are
always two tokens, exchanged at rate one):

* `TypesHold == Spec => []TypeOK`, which says that no row, position or balance is negative;
* `AllocationStaysOwn == Spec => []AllocationIsOwn`;
* `ProfitStaysAccounted == Spec => []ProfitAccounted`.

While a job is under way the rows are old and the receipts are ahead of them. The
invariant says by how much at every stage (`BooksOf`): between exit and commit
of a recenter the strategy has what the exit yielded, what it held, and the fees and profit of
the precheck; in a withdrawal the difference is what was sold, then what was
released. `Books` adds what a job relies on that compares balances: as long as
nobody else moved the wallet, its balance differs from the precheck's by what the
strategy itself did. `Shapes` ties a job's record to its kind and stage, and to the
classes in the table: this is what makes a commit valid (`Valid`).

A step belongs to one strategy (`Concerns`): it keeps that strategy's books, leaves the
rows of the others alone, and notes in `moved` every other strategy with an
open job if it changed the balance. One lemma per transaction shows what it does to
tokens, record and balance (`ExitMoves` ... `UnwrapMoves`, through `MovingForms`), one per
commit that the new rows are right (`RecenterConcerns`, `CollectConcerns`, `HoldConcerns`,
`ClassifyConcerns`, `RecordSwapConcerns`, `ReleaseConcerns`, `CompoundConcerns`);
`NextConcerns` combines them and `BooksKept` carries the strategies that did not act. The balance is a sum over the
strategies, so this rests on `SumLemmas`. The statements keep the exceptions of the
properties: `tainted` strategies (a commit by balances after others moved the
wallet) and, for profit, those in `paused_hold_quote`. `IInv` was checked with TLC on `wallet`.

`WalletProgressProofs` rests on these and proves

* `OnlyItsOwnIsSpent == Spec => []SpendsItsOwn`;
* `FirstAttemptsPass == Spec => []FirstAttemptPasses`;
* `TwoNeverBlock`: if `Cardinality(Strategies) <= 2`, then `Spec => []SomeoneCanFinish`, for
  any number of jobs, deposits and interruptions.

The argument is about `Room(s)`: what the wallet holds beyond the tokens of `s` and the rows of
the others. By `CoversMeans` the coverage proof of `s` passes exactly when what it wants
written exceeds its own tokens by no more than that; since the books say that a job wants
no more than it has, a job with room passes every check it meets (`Finishes`, with one
lemma per kind of job). The invariant `PInv` adds three parts to `IInv`:

* `Receipts`: what the receipts add up to at the stages where `BooksOf` is silent, and what a
  withdrawal still has retained. With it `own` is natural at every stage
  (`OwnIsNatural`), which is `SpendsItsOwn`;
* `LockCovers`: the proof made when the lock was taken, by a first attempt or by
  `finishFromWallet`, still holds while the lock is held. A step of the holder cannot lessen its
  own room, because room leaves its own tokens and rows out; meanwhile there
  are only fees, deposits and `Compound`, and none of them lessens it. This gives `FirstAttemptPasses`;
* `OneHasRoom`: of two jobs whose tokens may fall short of their rows (`Exposed`), the one
  that took the lock last has room. With two strategies the room of one is what the owner has
  and what the other has beyond its row (`RoomOfTwo`), so that a step of one job can take
  room from the other only while it has room itself. Here a third strategy would
  do the harm described in section 2. `Spare` is the retained profit that
  `finishFromWallet` leaves out of its proof: the exception of the property.

Each part was checked with TLC on `wallet` before it was proved.

### SumLemmas

`SumFunctionOnSet` is a fold over subsets, defined by `CHOOSE` of a recursive function. The
module derives its equation once, without induction theorems (which take an operator
the provers cannot instantiate): `NaturalSteps` is induction over a set of naturals,
`SubsetSteps` over the subsets of a finite set, both stated for a set instead of a
predicate; `SumsExist` builds the function, `SumsAgree` makes sums of a part
and of the whole the same. From `SumEquation` follow what the models need: a sum is an integer or a natural,
grows with its terms, and changes by what one term changes.

### AttemptLimits

`AttemptLimitsProofs` proves, for any swaps, limits and bounds:

* `QuarantineIsEarned == Spec => []QuarantineEarned`;
* `TypesHold == Spec => []TypeOK`;
* `TurnoverStaysWithinLimit == Spec => []TurnoverWithinLimit`;
* `RevertsStayBounded == Base >= 4 => (Spec => []RevertsBounded)`;
* `SpentLadderIsSeen == Base >= 4 => (Spec => []SpentLadderQuarantines)`.

Quarantine: neither streak counts more failures than there were since the operator last
decided (`StrikesCounted`), because a resume clears both before the failure of the
attempt under way is counted.

Turnover: the code never adds up trades, it adds up reservations. `RowFacts` says that no job
has traded more than its row holds, that an open plan is reserved with what is already
done, and that the rows of every day add up to no more than the limit. Only a
reservation can break the last one; it asks for the other rows of the present day first
(`ReservationFits`). Limits are only ever raised.

Reverts: `Climbed` adds up, over the swaps, how far up its ladder each one is; a
confirmed swap counts as having climbed all of it, which absorbs the reset of its counter. A
revert below the cap is one step of the sum (`ClimbOne`); a revert at the cap is not put
off, so there are at most three. `LadderFacts` carries both. `PhaseFacts` says what a job
may have done in each phase. The hypothesis `Base >= 4` is needed: 4 doubled
eight times is the first to reach the cap (`LadderRises`), and the run
`short_ladder` shows what happens below. The default is 100, `limits` has 250.
`LadderWidens` gives `SpentLadderIsSeen`: below the cap another revert does widen.

### Only model-checked

The liveness properties `SupervisorPassEnds`, `PlannedRuns`, `RecoveryEnds` and
`FailingIsNoticed`: fairness and ENABLED are beyond the prover. The violation runs
state what does not hold. Every other property of the passing runs is a theorem;
`SomeoneCanFinish` for at most two strategies, since for three it is false. That a job
which can finish does finish is a matter of fairness and not claimed of `WalletFunds`.

## 5. Not modelled, and the plan

Next, in this order:

1. `FablesJobs`: the second job table (`fablesJobs.ts`, `fablesRunner.ts`) composed
   with `ExecutorJobs` on shared wallets; mutual exclusion by queries before awaits, and a
   cycle that deploys the whole balance of its tokens, other strategies'
   allocations included (`fablesRunner.ts:226`).
2. `WalletLock`: the promise chain as an implementation of a FIFO mutex.
3. Allowances (approve, use, revoke on every path) and staking as steps of the ladder
   of `TxRecovery`.
4. Indexer: generations of catalog snapshots under paging readers, the coalescing
   scheduler, the response cache. Front end: `swapExec` and `pendingSwaps`
   across reloads. No funds of the executor depend on either.

Theorems still wanted: those of the new modules above, and a bound under which more than two
strategies cannot block each other.

Never modelled: prices, gas valuation, performance figures, rankings and charts
(data, no control), ABI encoding, wallet encryption, user interface, scripts.
