----------------------------- MODULE ExecutorJobs -----------------------------
(***************************************************************************)
(* The unattended strategy executor (executor/): strategies, their jobs,   *)
(* and the actors of one Node process that read and write them through     *)
(* SQLite -- the monitor pass, the runner, the recovery supervisor, the    *)
(* HTTP API -- serialised only by the per-wallet promise chain and by      *)
(* their own synchronous sections.                                         *)
(*                                                                         *)
(* One action is one synchronous section between two awaits: everything    *)
(* the code does without yielding the event loop is one step, what it      *)
(* read before an await is kept in a variable and may be stale afterwards. *)
(* A crash may fall between two such steps and, where a section makes two  *)
(* separate commits that matter, between the two commits.                  *)
(*                                                                         *)
(* Abstracted: the plan and the position (only the config revision a plan  *)
(* was made from is kept), the transactions of a job (the set of states    *)
(* its job_transactions rows are in), wall-clock backoff (a deferred       *)
(* attempt may happen at any later time), and the wallet of a strategy,    *)
(* which never changes here.  A new job takes an unused member of Jobs.    *)
(***************************************************************************)
EXTENDS Naturals, Sequences, FiniteSets

CONSTANTS
  Strategies,      \* rows of table strategies
  Jobs,            \* ids createPlannedJob may hand out
  Wallets,         \* signing wallets
  WalletOf,        \* strategies.wallet_id
  StrategyOf,      \* jobs.strategy_id
  DryRun,          \* strategies whose config has execution.dryRun
  Verdicts,        \* states a monitor pass may write without planning
  ApiOps,          \* API requests that clients make
  QuarantineAt,    \* failStreak that quarantines a recovery (3 in the code)
  MaxRevision,     \* bound: config revisions
  MaxInFlight,     \* bound: API requests past their first await
  MaxQueue,        \* bound: tasks queued on one wallet
  MaxCrashes,      \* bound: process crashes
  None             \* no job / not in the pass

OpenStates == {"planned", "executing", "recovery", "recovery_quarantined"}

StrategyStates ==
  OpenStates \cup {"disabled", "monitoring", "guard_wait", "paused_guard",
                   "awaiting_manual", "dry_run_ready", "paused_hold_quote",
                   "archived"}

Monitored == {"monitoring", "guard_wait", "paused_guard", "awaiting_manual"}

JobStates == {"unused", "planned", "running", "recovery", "completed",
              "failed", "cancelled"}

\* enabled; disabled; disabled by an exit that left no position (commitHoldQuote)
Configs == {"on", "off", "exited"}

TxStates == {"open", "confirmed", "failed"}   \* "open": sending or sent

AllOps == {"put", "start", "execute", "resume_monitoring", "stop",
           "resume_job", "inspect_job", "pause"}

ASSUME ExecutorAssumption ==
  /\ WalletOf \in [Strategies -> Wallets]
  /\ StrategyOf \in [Jobs -> Strategies]
  /\ DryRun \subseteq Strategies
  /\ Verdicts \subseteq Monitored
  /\ ApiOps \subseteq AllOps
  /\ QuarantineAt \in Nat \ {0}
  /\ MaxRevision \in Nat /\ MaxInFlight \in Nat
  /\ MaxQueue \in Nat /\ MaxCrashes \in Nat
  /\ None \notin Jobs /\ None \notin Nat

Wallet(j) == WalletOf[StrategyOf[j]]

VARIABLES
  \* durable: SQLite
  sState,    \* strategies.state
  sConfig,   \* config_json: enabled, disabled, or disabled and without position
  sRev,      \* config_json.revision
  jState,    \* jobs.state ("unused": no row yet)
  jRev,      \* plan_json.strategyRevision
  jTxs,      \* states found among the job's job_transactions rows
  jFails,    \* jobs.recovery_fail_streak
  jQuar,     \* jobs.recovery_quarantined_at is set
  paused,    \* executor_flags.paused
  \* volatile: the Node process
  lock,      \* wallet -> tasks chained on its promise tail, head holds it
  phase,     \* wallet -> where the head task is
  view,      \* wallet -> what the head task read before its last await
  pass,      \* strategy -> revision the monitor pass read, or None
  sup,       \* jobs the current supervisor pass still waits for
  requests,  \* API handlers suspended in an await
  crashes

durable  == <<sState, sConfig, sRev, jState, jRev, jTxs, jFails, jQuar, paused>>
volatile == <<lock, phase, view, pass, sup, requests>>
vars     == <<durable, volatile, crashes>>

Task == [kind : {"run", "supervise", "resume"}, id : Jobs]
          \cup [kind : {"stop"}, id : Strategies]

Phases == {"start", "precheck", "inspect", "live", "sending", "archive"}

View   == [rev : Nat, config : Configs, job : Jobs \cup {None}]
\* a task that has read no config, and only this open job
OnlyJob(j) == [rev |-> 0, config |-> "off", job |-> j]
NoView     == OnlyJob(None)

Request == [op : {"put", "start", "execute", "resume_monitoring"},
            s : Strategies, rev : Nat, state : StrategyStates]

TypeOK ==
  /\ sState \in [Strategies -> StrategyStates]
  /\ sConfig \in [Strategies -> Configs]
  /\ sRev \in [Strategies -> Nat]
  /\ jState \in [Jobs -> JobStates]
  /\ jRev \in [Jobs -> Nat]
  /\ jTxs \in [Jobs -> SUBSET TxStates]
  /\ jFails \in [Jobs -> Nat]
  /\ jQuar \in [Jobs -> BOOLEAN]
  /\ paused \in BOOLEAN
  /\ lock \in [Wallets -> Seq(Task)]
  /\ phase \in [Wallets -> Phases]
  /\ view \in [Wallets -> View]
  /\ pass \in [Strategies -> Nat \cup {None}]
  /\ sup \subseteq Jobs
  /\ requests \subseteq Request
  /\ crashes \in Nat

Init ==
  /\ sState = [s \in Strategies |-> "monitoring"]
  /\ sConfig = [s \in Strategies |-> "on"]
  /\ sRev = [s \in Strategies |-> 1]
  /\ jState = [j \in Jobs |-> "unused"]
  /\ jRev = [j \in Jobs |-> 0]
  /\ jTxs = [j \in Jobs |-> {}]
  /\ jFails = [j \in Jobs |-> 0]
  /\ jQuar = [j \in Jobs |-> FALSE]
  /\ paused = FALSE
  /\ lock = [w \in Wallets |-> <<>>]
  /\ phase = [w \in Wallets |-> "start"]
  /\ view = [w \in Wallets |-> NoView]
  /\ pass = [s \in Strategies |-> None]
  /\ sup = {}
  /\ requests = {}
  /\ crashes = 0

-----------------------------------------------------------------------------
(* Queries of store.ts *)

IsOpen(st) == st \in {"planned", "running", "recovery"}

OpenJobs(s) == {j \in Jobs : StrategyOf[j] = s /\ IsOpen(jState[j])}

\* walletHasUnfinishedMutation: an uncertain transaction of a recovery job
WalletUncertain(w) ==
  \E j \in Jobs : Wallet(j) = w /\ jState[j] = "recovery" /\ "open" \in jTxs[j]

\* Mutant: the runner queues jobs behind a busy wallet.
WalletBusy_Ignored(w) == FALSE

WalletBusy(w) == lock[w] # <<>>

Unused(s) == {j \in Jobs : StrategyOf[j] = s /\ jState[j] = "unused"}

\* Mutant: the unique index on open jobs is missing.
CanCreate_NoIndex(s) == ~WalletUncertain(WalletOf[s])

\* the refusals of createPlannedJob: unfinished mutation, one open job
CanCreate(s) == OpenJobs(s) = {} /\ ~WalletUncertain(WalletOf[s])

\* Mutant: only the first attempt is ever ready.
RecoveryReady_Once(j) == jState[j] = "recovery" /\ jFails[j] = 0

RecoveryReady(j) == jState[j] = "recovery" /\ ~jQuar[j]

\* Mutant: a transaction of unknown outcome counts as harmless.
RestartSafe_IgnoresOpen(txs) == "confirmed" \notin txs

\* classifyRecovery over reconciled facts: nothing confirmed to build on
RestartSafe(txs) == txs \cap {"open", "confirmed"} = {}

\* reconcileRecoveryTransactions: what an open row may turn out to be
Reconciled(txs) ==
  IF "open" \notin txs THEN {txs}
  ELSE {txs} \cup {(txs \ {"open"}) \cup {r} : r \in {"confirmed", "failed"}}

-----------------------------------------------------------------------------
(* wallet-lock.ts *)

Enqueue(w, t) ==
  /\ Len(lock[w]) < MaxQueue
  /\ lock' = [lock EXCEPT ![w] = Append(@, t)]

Holds(w, kinds, p) ==
  /\ lock[w] # <<>>
  /\ Head(lock[w]).kind \in kinds
  /\ phase[w] = p

\* the finally block: the next task of the chain runs from its start
Release(w) ==
  /\ lock' = [lock EXCEPT ![w] = Tail(@)]
  /\ phase' = [phase EXCEPT ![w] = "start"]
  /\ view' = [view EXCEPT ![w] = NoView]
  /\ sup' = IF Head(lock[w]).kind = "supervise"
              THEN sup \ {Head(lock[w]).id} ELSE sup

Advance(w, p) ==
  /\ phase' = [phase EXCEPT ![w] = p]
  /\ UNCHANGED <<lock, view, sup>>

-----------------------------------------------------------------------------
(* monitor.ts: one non-overlapping pass over a snapshot of the strategies *)

\* Mutant: a strategy with a planned job is monitored again.
Enabled_AnyState(s) == sConfig[s] = "on"

Enabled(s) == sConfig[s] = "on" /\ sState[s] \in Monitored

PassIdle == \A s \in Strategies : pass[s] = None

MonitorBegin ==
  /\ ~paused /\ PassIdle
  /\ \E s \in Strategies : Enabled(s)
  /\ pass' = [s \in Strategies |-> IF Enabled(s) THEN sRev[s] ELSE None]
  /\ UNCHANGED <<durable, lock, phase, view, sup, requests, crashes>>

LeavePass(s) ==
  /\ pass[s] # None
  /\ pass' = [pass EXCEPT ![s] = None]
  /\ UNCHANGED <<lock, phase, view, sup, requests, crashes>>

\* not due yet, or its retry delay has not elapsed
MonitorSkip(s) ==
  LeavePass(s) /\ UNCHANGED durable

\* every branch that ends in setStrategyState without a plan
MonitorVerdict(s) ==
  /\ LeavePass(s)
  /\ \E v \in Verdicts : sState' = [sState EXCEPT ![s] = v]
  /\ UNCHANGED <<sConfig, sRev, jState, jRev, jTxs, jFails, jQuar, paused>>

Insert(j, rev) ==
  /\ jState' = [jState EXCEPT ![j] = "planned"]
  /\ jRev' = [jRev EXCEPT ![j] = rev]
  /\ UNCHANGED <<jTxs, jFails, jQuar>>

\* Mutant: the revision is read when the strategy has left the pass.
MonitorPlan_LateRevision(s) ==
  /\ LeavePass(s)
  /\ CanCreate(s)
  /\ \E j \in Unused(s) : Insert(j, pass'[s])
  /\ sState' = [sState EXCEPT ![s] = "planned"]
  /\ UNCHANGED <<sConfig, sRev, paused>>

\* createPlannedJob succeeds, setStrategyState 'planned' follows
MonitorPlan(s) ==
  /\ LeavePass(s)
  /\ CanCreate(s)
  /\ \E j \in Unused(s) : Insert(j, pass[s])
  /\ sState' = [sState EXCEPT ![s] = "planned"]
  /\ UNCHANGED <<sConfig, sRev, paused>>

\* createPlannedJob returns false
MonitorRefused(s) ==
  /\ LeavePass(s)
  /\ ~CanCreate(s)
  /\ sState' = [sState EXCEPT ![s] = "monitoring"]
  /\ UNCHANGED <<sConfig, sRev, jState, jRev, jTxs, jFails, jQuar, paused>>

-----------------------------------------------------------------------------
(* runner.ts *)

\* runOnce: the promise chain of the wallet is empty, so the job starts next
RunnerClaim(j) ==
  LET s == StrategyOf[j]  w == Wallet(j) IN
  /\ ~paused
  /\ jState[j] = "planned" /\ sState[s] = "planned"
  /\ ~WalletUncertain(w)
  /\ ~WalletBusy(w)
  /\ Enqueue(w, [kind |-> "run", id |-> j])
  /\ view' = [view EXCEPT ![w] = [rev |-> sRev[s], config |-> sConfig[s], job |-> j]]
  /\ UNCHANGED <<durable, phase, pass, sup, requests, crashes>>

HeadJob(w) == Head(lock[w]).id
HeadStrategy(w) ==
  IF Head(lock[w]).kind = "stop" THEN Head(lock[w]).id ELSE StrategyOf[HeadJob(w)]

\* setJobState 'running', setStrategyState 'executing' -- neither looks at
\* the state it replaces
MarkRunning(w) ==
  /\ jState' = [jState EXCEPT ![HeadJob(w)] = "running"]
  /\ sState' = [sState EXCEPT ![HeadStrategy(w)] = "executing"]

RunStart(w) ==
  /\ Holds(w, {"run"}, "start")
  /\ MarkRunning(w)
  /\ Advance(w, "precheck")
  /\ UNCHANGED <<sConfig, sRev, jRev, jTxs, jFails, jQuar, paused, pass, requests, crashes>>

\* the prechecks pass: there is a position to read, and the plan comes from
\* the revision the runner read
CheckPasses(w) ==
  view[w].config # "exited" /\ jRev[HeadJob(w)] = view[w].rev

RunCheckPass(w) ==
  /\ Holds(w, {"run"}, "precheck")
  /\ HeadStrategy(w) \notin DryRun
  /\ CheckPasses(w)
  /\ Advance(w, "live")
  /\ UNCHANGED <<durable, pass, requests, crashes>>

\* Mutant: the strategy is left 'executing' after a dry run.
RunDryRun_NoState(w) ==
  /\ Holds(w, {"run"}, "precheck")
  /\ HeadStrategy(w) \in DryRun
  /\ CheckPasses(w)
  /\ jState' = [jState EXCEPT ![HeadJob(w)] = "completed"]
  /\ Release(w)
  /\ UNCHANGED <<sState, sConfig, sRev, jRev, jTxs, jFails, jQuar, paused, pass, requests, crashes>>

RunDryRun(w) ==
  /\ Holds(w, {"run"}, "precheck")
  /\ HeadStrategy(w) \in DryRun
  /\ CheckPasses(w)
  /\ jState' = [jState EXCEPT ![HeadJob(w)] = "completed"]
  /\ sState' = [sState EXCEPT ![HeadStrategy(w)] = "dry_run_ready"]
  /\ Release(w)
  /\ UNCHANGED <<sConfig, sRev, jRev, jTxs, jFails, jQuar, paused, pass, requests, crashes>>

\* Mutant: a transaction still in flight does not keep the job.
CatchAbandons_IgnoresOpen(txs, retryable) == "confirmed" \notin txs

\* catch of runJob: nothing confirmed, and either every attempt reverted or
\* none was made and the error is one a fresh plan cures -> the job is
\* abandoned; anything else is left to recovery
CatchAbandons(txs, retryable) ==
  \/ txs = {"failed"}
  \/ txs = {} /\ retryable

\* Mutant: abandoning the job forgets the strategy.
RunCatch_KeepsExecuting(w, txs) ==
  /\ jTxs' = [jTxs EXCEPT ![HeadJob(w)] = txs]
  /\ \E retryable \in BOOLEAN :
       IF CatchAbandons(txs, retryable)
         THEN /\ jState' = [jState EXCEPT ![HeadJob(w)] = "failed"]
              /\ UNCHANGED sState
         ELSE /\ jState' = [jState EXCEPT ![HeadJob(w)] = "recovery"]
              /\ sState' = [sState EXCEPT ![HeadStrategy(w)] = "recovery"]
  /\ Release(w)
  /\ UNCHANGED <<sConfig, sRev, jRev, jFails, jQuar, paused, pass, requests, crashes>>

RunCatch(w, txs) ==
  /\ jTxs' = [jTxs EXCEPT ![HeadJob(w)] = txs]
  /\ \E retryable \in BOOLEAN :
       IF CatchAbandons(txs, retryable)
         THEN /\ jState' = [jState EXCEPT ![HeadJob(w)] = "failed"]
              /\ \E v \in {"monitoring", "guard_wait"} :
                   sState' = [sState EXCEPT ![HeadStrategy(w)] = v]
         ELSE /\ jState' = [jState EXCEPT ![HeadJob(w)] = "recovery"]
              /\ sState' = [sState EXCEPT ![HeadStrategy(w)] = "recovery"]
  /\ Release(w)
  /\ UNCHANGED <<sConfig, sRev, jRev, jFails, jQuar, paused, pass, requests, crashes>>

RunThrow(w) ==
  /\ \E p \in {"precheck", "live", "sending"} : Holds(w, {"run"}, p)
  /\ RunCatch(w, jTxs[HeadJob(w)])

\* the receipt says reverted: the row fails and sendTracked throws
RunReverted(w) ==
  /\ Holds(w, {"run"}, "live")
  /\ "open" \in jTxs[HeadJob(w)]
  /\ RunCatch(w, (jTxs[HeadJob(w)] \ {"open"}) \cup {"failed"})

-----------------------------------------------------------------------------
(* signer.ts, as far as the job can tell *)

Signers == {"run", "supervise", "resume"}

\* sendTracked refuses while paused, then reads chain id, nonce and gas
TxBegin(w) ==
  /\ Holds(w, Signers, "live")
  /\ ~paused
  /\ "open" \notin jTxs[HeadJob(w)]
  /\ Advance(w, "sending")
  /\ UNCHANGED <<durable, pass, requests, crashes>>

\* the row is recorded before the transaction is broadcast
TxSend(w) ==
  /\ Holds(w, Signers, "sending")
  /\ jTxs' = [jTxs EXCEPT ![HeadJob(w)] = @ \cup {"open"}]
  /\ Advance(w, "live")
  /\ UNCHANGED <<sState, sConfig, sRev, jState, jRev, jFails, jQuar, paused,
                 pass, requests, crashes>>

TxConfirmed(w) ==
  /\ Holds(w, Signers, "live")
  /\ "open" \in jTxs[HeadJob(w)]
  /\ jTxs' = [jTxs EXCEPT ![HeadJob(w)] = (@ \ {"open"}) \cup {"confirmed"}]
  /\ UNCHANGED <<sState, sConfig, sRev, jState, jRev, jFails, jQuar, paused,
                 volatile, crashes>>

-----------------------------------------------------------------------------
(* The three commits: each ends job and strategy in one SQLite transaction *)

Finish(w) ==
  /\ Holds(w, Signers, "live")
  /\ "open" \notin jTxs[HeadJob(w)]
  /\ "confirmed" \in jTxs[HeadJob(w)]
  /\ jState' = [jState EXCEPT ![HeadJob(w)] = "completed"]
  /\ Release(w)
  \* clearRecoverySchedule by the supervisor or the resume handler
  /\ IF Head(lock[w]).kind = "run" THEN UNCHANGED <<jFails, jQuar>>
     ELSE /\ jFails' = [jFails EXCEPT ![HeadJob(w)] = 0]
          /\ jQuar' = [jQuar EXCEPT ![HeadJob(w)] = FALSE]
  /\ UNCHANGED <<jRev, jTxs, paused, pass, requests, crashes>>

\* commitRebalance writes the config the task started from, revision + 1
CommitRebalance(w) ==
  LET s == HeadStrategy(w) IN
  /\ Finish(w)
  /\ view[w].rev < MaxRevision
  /\ sRev' = [sRev EXCEPT ![s] = view[w].rev + 1]
  /\ sConfig' = [sConfig EXCEPT ![s] = view[w].config]
  /\ sState' = [sState EXCEPT ![s] = "monitoring"]

CommitHoldQuote(w) ==
  LET s == HeadStrategy(w) IN
  /\ Finish(w)
  /\ view[w].rev < MaxRevision
  /\ sRev' = [sRev EXCEPT ![s] = view[w].rev + 1]
  /\ sConfig' = [sConfig EXCEPT ![s] = "exited"]
  /\ sState' = [sState EXCEPT ![s] = "paused_hold_quote"]

CommitFeeCollection(w) ==
  /\ Finish(w)
  /\ sState' = [sState EXCEPT ![HeadStrategy(w)] = "monitoring"]
  /\ UNCHANGED <<sRev, sConfig>>

-----------------------------------------------------------------------------
(* supervisor.ts and executeRecovery *)

\* one ready job per wallet; each attempt is chained on its wallet
SupervisorBegin ==
  /\ ~paused /\ sup = {}
  /\ \E picked \in SUBSET {j \in Jobs : RecoveryReady(j)} :
       /\ picked # {}
       /\ \A w \in {Wallet(j) : j \in {k \in Jobs : RecoveryReady(k)}} :
            Cardinality({j \in picked : Wallet(j) = w}) = 1
       /\ \A j \in picked : Len(lock[Wallet(j)]) < MaxQueue
       /\ sup' = picked
       /\ lock' = [w \in Wallets |->
            IF \E j \in picked : Wallet(j) = w
              THEN Append(lock[w], [kind |-> "supervise",
                                    id |-> CHOOSE j \in picked : Wallet(j) = w])
              ELSE lock[w]]
  /\ UNCHANGED <<durable, phase, view, pass, requests, crashes>>

Recoverers == {"supervise", "resume"}

ClearSchedule(j) ==
  /\ jFails' = [jFails EXCEPT ![j] = 0]
  /\ jQuar' = [jQuar EXCEPT ![j] = FALSE]

\* Mutant: a job committed while the attempt queued is not noticed.
RecoverAlreadyDone_MissesCommit(w) ==
  /\ Holds(w, Recoverers, "start")
  /\ jState[HeadJob(w)] \notin {"recovery", "failed", "completed"}
  /\ ClearSchedule(HeadJob(w))
  /\ Release(w)
  /\ UNCHANGED <<sState, sConfig, sRev, jState, jRev, jTxs, paused, pass, requests, crashes>>

\* executeRecoveryLocked: the job left recovery while this attempt queued
RecoverAlreadyDone(w) ==
  /\ Holds(w, Recoverers, "start")
  /\ jState[HeadJob(w)] \notin {"recovery", "failed"}
  /\ ClearSchedule(HeadJob(w))
  /\ Release(w)
  /\ UNCHANGED <<sState, sConfig, sRev, jState, jRev, jTxs, paused, pass, requests, crashes>>

\* Mutant: the job's state is not read again under the lock.
RecoverInspect_AnyState(w) ==
  LET s == HeadStrategy(w) IN
  /\ Holds(w, Recoverers, "start")
  /\ view' = [view EXCEPT ![w] =
        [rev |-> sRev[s], config |-> sConfig[s], job |-> HeadJob(w)]]
  /\ phase' = [phase EXCEPT ![w] = "inspect"]
  /\ UNCHANGED <<durable, lock, sup, pass, requests, crashes>>

RecoverInspect(w) ==
  LET s == HeadStrategy(w) IN
  /\ Holds(w, Recoverers, "start")
  /\ jState[HeadJob(w)] \in {"recovery", "failed"}
  /\ view' = [view EXCEPT ![w] =
        [rev |-> sRev[s], config |-> sConfig[s], job |-> HeadJob(w)]]
  /\ phase' = [phase EXCEPT ![w] = "inspect"]
  /\ UNCHANGED <<durable, lock, sup, pass, requests, crashes>>

\* replaceRecoveryStrategyConfig: the config the attempt read, repaired, is
\* stored under the next revision
RepairConfig(w) ==
  /\ jState[HeadJob(w)] = "recovery" /\ view[w].rev < MaxRevision
  /\ sRev' = [sRev EXCEPT ![HeadStrategy(w)] = view[w].rev + 1]
  /\ sConfig' = [sConfig EXCEPT ![HeadStrategy(w)] = view[w].config]

\* disposition restart_safe: drop the job, let the monitor plan afresh.
\* refreshAutomaticDailyLimit may first store a config with a raised limit.
RecoverRestart(w) ==
  LET j == HeadJob(w)  s == HeadStrategy(w) IN
  /\ Holds(w, Recoverers, "inspect")
  /\ \E txs \in Reconciled(jTxs[j]) :
       RestartSafe(txs) /\ jTxs' = [jTxs EXCEPT ![j] = txs]
  /\ UNCHANGED <<sRev, sConfig>> \/ RepairConfig(w)
  /\ jState' = [jState EXCEPT ![j] = "failed"]
  /\ sState' = [sState EXCEPT ![s] = "monitoring"]
  /\ ClearSchedule(j)
  /\ Release(w)
  /\ UNCHANGED <<jRev, paused, pass, requests, crashes>>

\* a confirmed step to resume from; the unique index rejects a second open job.
\* normalizeWethQuoteBeforeRecovery may first repair the config.
RecoverResume(w) ==
  LET j == HeadJob(w) IN
  /\ Holds(w, Recoverers, "inspect")
  /\ OpenJobs(HeadStrategy(w)) \subseteq {j}
  /\ \E txs \in Reconciled(jTxs[j]) :
       /\ "open" \notin txs /\ "confirmed" \in txs
       /\ jTxs' = [jTxs EXCEPT ![j] = txs]
  /\ MarkRunning(w)
  /\ \/ UNCHANGED <<sRev, sConfig, view>>
     \/ /\ RepairConfig(w)
        /\ view' = [view EXCEPT ![w] =
              [rev |-> @.rev + 1, config |-> @.config, job |-> j]]
  /\ phase' = [phase EXCEPT ![w] = "live"]
  /\ UNCHANGED <<jRev, jFails, jQuar, paused, lock, sup, pass, requests, crashes>>

\* scheduleRecoveryRetry after a failed attempt of job j
Strike(j, eligible, ss) ==
  LET fails == jFails[j] + (IF eligible THEN 1 ELSE 0) IN
  /\ jFails' = [jFails EXCEPT ![j] = fails]
  /\ jQuar' = [jQuar EXCEPT ![j] = fails >= QuarantineAt]
  /\ sState' = IF fails >= QuarantineAt
                 THEN [ss EXCEPT ![StrategyOf[j]] = "recovery_quarantined"] ELSE ss

\* inspectRecovery threw, a transaction is still pending or ambiguous, or the
\* attempt failed after reconciling but before it marked the job running
RecoverInconclusive(w) ==
  LET j == HeadJob(w) IN
  /\ Holds(w, Recoverers, "inspect")
  /\ \E txs \in Reconciled(jTxs[j]) : jTxs' = [jTxs EXCEPT ![j] = txs]
  /\ IF jState[j] = "recovery"
       THEN \E eligible \in BOOLEAN : Strike(j, eligible, sState)
       ELSE UNCHANGED <<jFails, jQuar, sState>>
  /\ Release(w)
  /\ UNCHANGED <<sConfig, sRev, jState, jRev, paused, pass, requests, crashes>>

\* Mutant: a failed attempt leaves the job 'running'.
RecoverCatch_KeepsRunning(w, txs) ==
  LET j == HeadJob(w) IN
  /\ jTxs' = [jTxs EXCEPT ![j] = txs]
  /\ \E eligible \in BOOLEAN :
       Strike(j, eligible, [sState EXCEPT ![StrategyOf[j]] = "recovery"])
  /\ Release(w)
  /\ UNCHANGED <<sConfig, sRev, jState, jRev, paused, pass, requests, crashes>>

\* catch of executeRecoveryLocked, then the caller's scheduleRecoveryRetry
RecoverCatch(w, txs) ==
  LET j == HeadJob(w) IN
  /\ jTxs' = [jTxs EXCEPT ![j] = txs]
  /\ jState' = [jState EXCEPT ![j] = "recovery"]
  /\ \E eligible \in BOOLEAN :
       Strike(j, eligible, [sState EXCEPT ![StrategyOf[j]] = "recovery"])
  /\ Release(w)
  /\ UNCHANGED <<sConfig, sRev, jRev, paused, pass, requests, crashes>>

RecoverThrow(w) ==
  /\ Holds(w, Recoverers, "live") \/ Holds(w, Recoverers, "sending")
  /\ RecoverCatch(w, jTxs[HeadJob(w)])

RecoverReverted(w) ==
  /\ Holds(w, Recoverers, "live")
  /\ "open" \in jTxs[HeadJob(w)]
  /\ RecoverCatch(w, (jTxs[HeadJob(w)] \ {"open"}) \cup {"failed"})
-----------------------------------------------------------------------------
(* stopAndArchiveStrategy: DELETE /v1/strategies/:id *)

ApiStop(s) ==
  /\ "stop" \in ApiOps
  /\ sState[s] # "archived"
  /\ Enqueue(WalletOf[s], [kind |-> "stop", id |-> s])
  /\ UNCHANGED <<durable, phase, view, pass, sup, requests, crashes>>

\* already archived, or E_STRATEGY_BUSY
StopRefused(w) ==
  LET s == HeadStrategy(w) IN
  /\ Holds(w, {"stop"}, "start")
  /\ \/ sState[s] \in {"archived", "executing"}
     \/ \E j \in OpenJobs(s) : jState[j] = "running"
  /\ Release(w)
  /\ UNCHANGED <<durable, pass, requests, crashes>>

\* activeJobForStrategy is read here, the archive follows after an await
StopRead(w) ==
  LET s == HeadStrategy(w) IN
  /\ Holds(w, {"stop"}, "start")
  /\ sState[s] \notin {"archived", "executing"}
  /\ \/ /\ OpenJobs(s) = {}
        /\ view' = [view EXCEPT ![w] = NoView]
        /\ phase' = [phase EXCEPT ![w] = "archive"]
     \/ \E j \in OpenJobs(s) :
        /\ jState[j] \in {"planned", "recovery"}
        /\ view' = [view EXCEPT ![w] = OnlyJob(j)]
        /\ phase' = [phase EXCEPT ![w] =
                       IF jState[j] = "planned" THEN "archive" ELSE "inspect"]
  /\ UNCHANGED <<durable, lock, sup, pass, requests, crashes>>

\* every submitted transaction has a definite outcome
StopInspected(w) ==
  LET j == view[w].job IN
  /\ Holds(w, {"stop"}, "inspect")
  /\ \E txs \in Reconciled(jTxs[j]) :
       "open" \notin txs /\ jTxs' = [jTxs EXCEPT ![j] = txs]
  /\ Advance(w, "archive")
  /\ UNCHANGED <<sState, sConfig, sRev, jState, jRev, jFails, jQuar, paused,
                 pass, requests, crashes>>

\* still pending or ambiguous, or the allocations cannot be reconstructed
StopInconclusive(w) ==
  /\ Holds(w, {"stop"}, "inspect")
  /\ \E txs \in Reconciled(jTxs[view[w].job]) :
       jTxs' = [jTxs EXCEPT ![view[w].job] = txs]
  /\ Release(w)
  /\ UNCHANGED <<sState, sConfig, sRev, jState, jRev, jFails, jQuar, paused,
                 pass, requests, crashes>>

\* archiveStrategy: one transaction over the current config row
StopArchive(w) ==
  LET s == HeadStrategy(w)  j == view[w].job IN
  /\ Holds(w, {"stop"}, "archive")
  /\ sRev[s] < MaxRevision
  /\ IF j = None THEN UNCHANGED jState
     ELSE /\ jState[j] \in {"planned", "recovery"}
          /\ jState' = [jState EXCEPT ![j] = "cancelled"]
  /\ sState' = [sState EXCEPT ![s] = "archived"]
  /\ sConfig' = [sConfig EXCEPT ![s] = IF @ = "on" THEN "off" ELSE @]
  /\ sRev' = [sRev EXCEPT ![s] = @ + 1]
  /\ Release(w)
  /\ UNCHANGED <<jRev, jTxs, jFails, jQuar, paused, pass, requests, crashes>>

\* archiveStrategy rolls back: E_STRATEGY_BUSY, or the revision bound
StopRolledBack(w) ==
  LET s == HeadStrategy(w)  j == view[w].job IN
  /\ Holds(w, {"stop"}, "archive")
  /\ \/ j # None /\ jState[j] \notin {"planned", "recovery"}
     \/ sRev[s] >= MaxRevision
  /\ Release(w)
  /\ UNCHANGED <<durable, pass, requests, crashes>>

-----------------------------------------------------------------------------
(* api.ts: handlers that check, await RPC reads, then write *)

Suspend(req) ==
  /\ req.op \in ApiOps
  /\ Cardinality(requests) < MaxInFlight
  /\ requests' = requests \cup {req}
  /\ UNCHANGED <<durable, lock, phase, view, pass, sup, crashes>>

Resumed(req) ==
  /\ req \in requests
  /\ requests' = requests \ {req}
  /\ UNCHANGED <<lock, phase, view, pass, sup, crashes>>

\* a read failed: the handler answers an error and writes nothing
RequestFails(req) ==
  Resumed(req) /\ UNCHANGED durable

\* PUT of an enabled config: revision and open states are checked up front
PutBegin(s) ==
  /\ sState[s] \notin OpenStates \cup {"archived"}
  /\ sRev[s] < MaxRevision
  /\ Suspend([op |-> "put", s |-> s, rev |-> sRev[s] + 1, state |-> sState[s]])

\* upsertStrategy overwrites config and state
Upsert(s, rev, config) ==
  /\ sRev' = [sRev EXCEPT ![s] = rev]
  /\ sConfig' = [sConfig EXCEPT ![s] = config]

PutFinish(req) ==
  /\ req.op = "put"
  /\ Resumed(req)
  /\ Upsert(req.s, req.rev, "on")
  /\ sState' = [sState EXCEPT ![req.s] = "monitoring"]
  /\ UNCHANGED <<jState, jRev, jTxs, jFails, jQuar, paused>>

\* PUT of a disabled config needs no read: check and write are one section
PutDisabled(s) ==
  /\ "put" \in ApiOps
  /\ sState[s] \notin OpenStates \cup {"archived"}
  /\ sRev[s] < MaxRevision
  /\ Upsert(s, sRev[s] + 1, "off")
  /\ sState' = [sState EXCEPT ![s] = "disabled"]
  /\ UNCHANGED <<jState, jRev, jTxs, jFails, jQuar, paused, volatile, crashes>>

\* simple.ts: a quick start of an existing strategy
StartBegin(s) ==
  /\ ~paused
  /\ sState[s] \notin OpenStates \cup {"archived"}
  /\ sRev[s] < MaxRevision
  /\ Suspend([op |-> "start", s |-> s, rev |-> sRev[s] + 1, state |-> sState[s]])

StartFinish(req) ==
  LET s == req.s IN
  /\ req.op = "start"
  /\ Resumed(req)
  /\ Upsert(s, req.rev, "on")
  /\ \/ /\ sState' = [sState EXCEPT ![s] = "monitoring"]      \* in range
        /\ UNCHANGED <<jState, jRev, jTxs, jFails, jQuar>>
     \/ /\ CanCreate(s)
        /\ \E j \in Unused(s) : Insert(j, req.rev)
        /\ sState' = [sState EXCEPT ![s] = "planned"]
     \/ /\ ~CanCreate(s)
        /\ sState' = [sState EXCEPT ![s] = req.state]
        /\ UNCHANGED <<jState, jRev, jTxs, jFails, jQuar>>
  /\ UNCHANGED paused

\* POST /execute
ExecuteBegin(s) ==
  /\ sConfig[s] = "on"
  /\ sState[s] \in {"monitoring", "dry_run_ready", "awaiting_manual"}
  /\ Suspend([op |-> "execute", s |-> s, rev |-> sRev[s], state |-> sState[s]])

ExecuteFinish(req) ==
  /\ req.op = "execute"
  /\ CanCreate(req.s)
  /\ Resumed(req)
  /\ \E j \in Unused(req.s) : Insert(j, req.rev)
  /\ sState' = [sState EXCEPT ![req.s] = "planned"]
  /\ UNCHANGED <<sConfig, sRev, paused>>

\* POST /resume-monitoring
ResumeMonitoringBegin(s) ==
  /\ sState[s] = "paused_guard" /\ sConfig[s] = "on" /\ s \notin DryRun
  /\ Suspend([op |-> "resume_monitoring", s |-> s, rev |-> sRev[s], state |-> sState[s]])

ResumeMonitoringFinish(req) ==
  /\ req.op = "resume_monitoring"
  /\ Resumed(req)
  /\ sState' = [sState EXCEPT ![req.s] = "monitoring"]
  /\ UNCHANGED <<sConfig, sRev, jState, jRev, jTxs, jFails, jQuar, paused>>

\* POST /jobs/:id/resume: reactivateRecoveryJob, then executeRecovery
ApiResumeJob(j) ==
  /\ "resume_job" \in ApiOps
  /\ jState[j] = "recovery"
  /\ ClearSchedule(j)
  /\ sState' = [sState EXCEPT ![StrategyOf[j]] = "recovery"]
  /\ Enqueue(Wallet(j), [kind |-> "resume", id |-> j])
  /\ UNCHANGED <<sConfig, sRev, jState, jRev, jTxs, paused, phase, view, pass,
                 sup, requests, crashes>>

\* POST /jobs/:id/recover: reconciles without the wallet lock
ApiInspectJob(j) ==
  /\ "inspect_job" \in ApiOps
  /\ jState[j] \in {"recovery", "failed"}
  /\ \E txs \in Reconciled(jTxs[j]) \ {jTxs[j]} : jTxs' = [jTxs EXCEPT ![j] = txs]
  /\ UNCHANGED <<sState, sConfig, sRev, jState, jRev, jFails, jQuar, paused,
                 volatile, crashes>>

ApiPause ==
  /\ "pause" \in ApiOps
  /\ paused' = ~paused
  /\ UNCHANGED <<sState, sConfig, sRev, jState, jRev, jTxs, jFails, jQuar,
                 volatile, crashes>>

-----------------------------------------------------------------------------
(* Crash and restart: main.ts runs quarantineInterruptedJobs first *)

\* Mutant: interrupted jobs are not quarantined at startup.
Restart_NoQuarantine(ss, js) ==
  /\ crashes < MaxCrashes
  /\ crashes' = crashes + 1
  /\ jState' = js
  /\ sState' = ss
  /\ lock' = [w \in Wallets |-> <<>>]
  /\ phase' = [w \in Wallets |-> "start"]
  /\ view' = [w \in Wallets |-> NoView]
  /\ pass' = [s \in Strategies |-> None]
  /\ sup' = {}
  /\ requests' = {}
  /\ UNCHANGED <<sConfig, sRev, jTxs, jFails, jQuar, paused>>

Restart(ss, js) ==
  LET interrupted == {j \in Jobs : js[j] = "running"} IN
  /\ crashes < MaxCrashes
  /\ crashes' = crashes + 1
  /\ jState' = [j \in Jobs |-> IF j \in interrupted THEN "recovery" ELSE js[j]]
  /\ sState' = [s \in Strategies |->
       IF \E j \in interrupted : StrategyOf[j] = s THEN "recovery" ELSE ss[s]]
  /\ lock' = [w \in Wallets |-> <<>>]
  /\ phase' = [w \in Wallets |-> "start"]
  /\ view' = [w \in Wallets |-> NoView]
  /\ pass' = [s \in Strategies |-> None]
  /\ sup' = {}
  /\ requests' = {}
  /\ UNCHANGED <<sConfig, sRev, jTxs, jFails, jQuar, paused>>

Crash == Restart(sState, jState) /\ UNCHANGED jRev

\* between the commit of createPlannedJob and setStrategyState 'planned'
CrashAfterInsert(s) ==
  /\ CanCreate(s)
  /\ \E rev \in {pass[s]} \cup {r.rev : r \in {q \in requests : q.s = s /\ q.op = "execute"}},
        j \in Unused(s) :
       /\ rev # None
       /\ jRev' = [jRev EXCEPT ![j] = rev]
       /\ Restart(sState, [jState EXCEPT ![j] = "planned"])

\* between setJobState and setStrategyState: at the end of a dry run, and in
\* the catch of the runner or of the recovery
CrashAfterJobState(w) ==
  /\ \/ /\ Holds(w, {"run"}, "precheck")
        /\ HeadStrategy(w) \in DryRun /\ CheckPasses(w)
        /\ Restart(sState, [jState EXCEPT ![HeadJob(w)] = "completed"])
     \/ /\ \/ \E p \in {"live", "sending"} : Holds(w, Signers, p)
           \/ Holds(w, {"run"}, "precheck")
        /\ Restart(sState, [jState EXCEPT ![HeadJob(w)] = "recovery"])
  /\ UNCHANGED jRev

-----------------------------------------------------------------------------

MonitorStep ==
  \/ MonitorBegin
  \/ \E s \in Strategies :
       MonitorSkip(s) \/ MonitorVerdict(s) \/ MonitorPlan(s) \/ MonitorRefused(s)

RunnerStep(w) ==
  \/ RunStart(w) \/ RunCheckPass(w) \/ RunDryRun(w)
  \/ RunThrow(w) \/ RunReverted(w)

RecoveryStep(w) ==
  \/ RecoverAlreadyDone(w) \/ RecoverInspect(w) \/ RecoverRestart(w)
  \/ RecoverResume(w) \/ RecoverInconclusive(w)
  \/ RecoverThrow(w) \/ RecoverReverted(w)

SignerStep(w) ==
  \/ TxBegin(w) \/ TxSend(w) \/ TxConfirmed(w)
  \/ CommitRebalance(w) \/ CommitHoldQuote(w) \/ CommitFeeCollection(w)

StopStep(w) ==
  \/ StopRefused(w) \/ StopRead(w) \/ StopInspected(w) \/ StopInconclusive(w)
  \/ StopArchive(w) \/ StopRolledBack(w)

ApiRequest ==
  \/ \E s \in Strategies :
       \/ ApiStop(s) \/ PutBegin(s) \/ PutDisabled(s) \/ StartBegin(s)
       \/ ExecuteBegin(s) \/ ResumeMonitoringBegin(s)
  \/ \E j \in Jobs : ApiResumeJob(j) \/ ApiInspectJob(j)
  \/ ApiPause

ApiAnswer ==
  \E req \in requests :
    \/ RequestFails(req) \/ PutFinish(req) \/ StartFinish(req)
    \/ ExecuteFinish(req) \/ ResumeMonitoringFinish(req)

CrashStep ==
  \/ Crash
  \/ \E s \in Strategies : CrashAfterInsert(s)
  \/ \E w \in Wallets : CrashAfterJobState(w)

Next ==
  \/ MonitorStep
  \/ \E j \in Jobs : RunnerClaim(j)
  \/ \E w \in Wallets :
       RunnerStep(w) \/ RecoveryStep(w) \/ SignerStep(w) \/ StopStep(w)
  \/ SupervisorBegin
  \/ ApiRequest \/ ApiAnswer
  \/ CrashStep

Spec == Init /\ [][Next]_vars

-----------------------------------------------------------------------------
(* Fairness.  main.ts calls monitor, runner and supervisor from setInterval *)
(* for ever, every RPC read has a timeout, and a job has finitely many      *)
(* transactions: a task on the wallet neither hangs nor sends for ever.     *)

MonitorTurn(s) ==
  MonitorSkip(s) \/ MonitorVerdict(s) \/ MonitorPlan(s) \/ MonitorRefused(s)

TaskStep(w) == RunnerStep(w) \/ RecoveryStep(w) \/ SignerStep(w) \/ StopStep(w)

Commits(w) == CommitRebalance(w) \/ CommitHoldQuote(w) \/ CommitFeeCollection(w)

TaskEnd(w) ==
  \/ RunThrow(w) \/ RunDryRun(w) \/ RecoverThrow(w) \/ RecoverInconclusive(w)
  \/ RecoverRestart(w) \/ Commits(w)

Polling ==
  /\ WF_vars(MonitorBegin)
  /\ \A s \in Strategies : WF_vars(MonitorTurn(s))
  /\ \A j \in Jobs : WF_vars(RunnerClaim(j))
  /\ WF_vars(SupervisorBegin)
  /\ \A w \in Wallets : WF_vars(TaskStep(w)) /\ WF_vars(TaskEnd(w))

FairSpec == Spec /\ Polling

\* and an environment that in the end answers: an inspection that is retried is
\* conclusive some day, a job that keeps being resumed commits some day
ChainAnswers ==
  \A w \in Wallets :
    /\ SF_vars(RecoverRestart(w) \/ RecoverResume(w))
    /\ SF_vars(Commits(w))

SettlingSpec == FairSpec /\ ChainAnswers

-----------------------------------------------------------------------------
(* Safety *)

\* A job that is 'running' in the database is being worked on right now: it is
\* the task at the head of its wallet's promise chain, past the point where
\* that task marked it.  No handler, retry, or restart leaves a job 'running'
\* with nobody behind it, so a wallet never has two of them.
RunningHoldsLock ==
  \A j \in Jobs : jState[j] = "running" =>
    /\ lock[Wallet(j)] # <<>>
    /\ Head(lock[Wallet(j)]).kind \in Signers
    /\ HeadJob(Wallet(j)) = j
    /\ phase[Wallet(j)] \in {"precheck", "live", "sending"}

\* At most one job of a wallet runs: two would take the same pending nonce.
OneRunningPerWallet ==
  \A j, k \in Jobs :
    jState[j] = "running" /\ jState[k] = "running" /\ Wallet(j) = Wallet(k) => j = k

\* The unique index one_open_job_per_strategy, which resuming a job that was
\* already given up (executeRecovery accepts state 'failed') could violate.
OneOpenJob ==
  \A j, k \in Jobs :
    StrategyOf[j] = StrategyOf[k] /\ IsOpen(jState[j]) /\ IsOpen(jState[k]) => j = k

\* A job is only given up ('failed': its reservation is released and a fresh
\* plan replaces it) when none of its transactions took or can take effect.
GivenUpHasNoEffect ==
  \A j \in Jobs : jState[j] = "failed" => RestartSafe(jTxs[j])

\* A fresh run never shares its wallet with a recovery job that still has a
\* transaction of unknown outcome (walletHasUnfinishedMutation is only asked
\* before the run is chained on the wallet).
FreshRunAlone ==
  \A w \in Wallets :
    lock[w] # <<>> /\ Head(lock[w]).kind = "run" => ~WalletUncertain(w)

\* 'executing' always has an open job behind it, otherwise PUT and DELETE
\* refuse the strategy for ever (E_STRATEGY_BUSY); only a dry run that dies
\* between its last two commits leaves it so.
ExecutingHasJob ==
  \A s \in Strategies : sState[s] = "executing" =>
    OpenJobs(s) # {} \/ (s \in DryRun /\ crashes > 0)

\* completed and cancelled are final, although setJobState asks no question.
JobsStayFinal ==
  [][\A j \in Jobs : jState[j] \in {"completed", "cancelled"} => jState'[j] = jState[j]]_vars

\* Archiving a strategy closes its open job, so nothing of it is left open.
ArchivedHasNoOpenJob ==
  \A s \in Strategies : sState[s] = "archived" => OpenJobs(s) = {}

\* An archived strategy stays archived.
ArchivedStaysArchived ==
  [][\A s \in Strategies : sState[s] = "archived" => sState'[s] = "archived"]_vars

\* A supervisor pass ends: the flag 'running' of superviseOnce is never left set
\* by a job whose task is lost in a wallet queue, which would stop all recovery.
SupervisorPassEnds == sup # {} ~> sup = {}

\* A planned job whose strategy was moved to 'planned' with it is picked up by
\* runOnce: nothing rewrites the strategy's state and leaves the plan behind,
\* where it would also block every later plan.
PlannedRuns ==
  \A j \in Jobs :
    jState[j] = "planned" /\ sState[StrategyOf[j]] = "planned"
      ~> jState[j] # "planned"

\* "Recovery is an executor responsibility, not an operator workflow": a job in
\* recovery is finished, given up or stopped, or it is quarantined.
RecoveryEnds ==
  \A j \in Jobs : jState[j] = "recovery" ~>
    (jState[j] \in {"completed", "failed", "cancelled"} \/ jQuar[j])

\* The executor implements the life of a job that JobLifecycle describes.
SameStrategyJobs(j, k) == StrategyOf[j] = StrategyOf[k]
SameWalletJobs(j, k) == Wallet(j) = Wallet(k)

Lifecycle == INSTANCE JobLifecycle
  WITH state <- jState, txs <- jTxs, SameStrategy <- SameStrategyJobs,
       SameWallet <- SameWalletJobs

\* Refinement: whatever the interleaving, a job is resumed, given up, cancelled
\* or committed only in the situations JobLifecycle allows.
FollowsLifecycle == Lifecycle!Spec

\* The configuration of a strategy is not edited under an open job
\* (PUT answers 409 'strategy has an open execution job').
NoEditUnderOpenJob ==
  [][\A s \in Strategies :
       /\ sRev'[s] # sRev[s]
       /\ \E j \in OpenJobs(s) : jState'[j] = jState[j]
       => FALSE]_vars

=============================================================================
