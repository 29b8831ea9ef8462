-------------------------- MODULE ExecutorJobsProofs --------------------------
(***************************************************************************)
(* Theorems about ExecutorJobs, for any strategies, jobs, wallets and      *)
(* bounds: the type invariant, and that a job the database calls running   *)
(* is the task its wallet is executing, so that a wallet never has two.    *)
(***************************************************************************)
EXTENDS ExecutorJobs, TLAPS, SequenceTheorems

-----------------------------------------------------------------------------
(* What a task at the head of a wallet's chain is about *)

\* The head task of a wallet that runs a job names a job, and its strategy.
LEMMA HeadOfSigner ==
  ASSUME TypeOK, NEW w \in Wallets, lock[w] # <<>>, Head(lock[w]).kind # "stop"
  PROVE  /\ Head(lock[w]) \in Task
         /\ HeadJob(w) \in Jobs
         /\ HeadStrategy(w) = StrategyOf[HeadJob(w)]
         /\ HeadStrategy(w) \in Strategies
<1>1. lock[w] \in Seq(Task)
  BY DEF TypeOK
<1>2. Head(lock[w]) \in Task
  BY <1>1, HeadTailProperties
<1>3. HeadJob(w) \in Jobs
  BY <1>2 DEF Task, HeadJob
<1>4. HeadStrategy(w) = StrategyOf[HeadJob(w)]
  BY DEF HeadStrategy
<1> QED
  BY <1>2, <1>3, <1>4, ExecutorAssumption

\* The head task of a wallet that stops a strategy names that strategy.
LEMMA HeadOfStop ==
  ASSUME TypeOK, NEW w \in Wallets, lock[w] # <<>>, Head(lock[w]).kind = "stop"
  PROVE  HeadStrategy(w) = Head(lock[w]).id /\ HeadStrategy(w) \in Strategies
<1>1. Head(lock[w]) \in Task
  BY HeadTailProperties DEF TypeOK
<1> QED
  BY <1>1 DEF Task, HeadStrategy

\* The view of a task that has not read anything yet.
LEMMA NoViewTyped == NoView \in View
  BY DEF NoView, OnlyJob, View, Configs

\* What Release leaves behind is well typed.
LEMMA ReleaseTyped ==
  ASSUME TypeOK, NEW w \in Wallets, lock[w] # <<>>, Release(w)
  PROVE  /\ lock' \in [Wallets -> Seq(Task)]
         /\ phase' \in [Wallets -> Phases]
         /\ view' \in [Wallets -> View]
         /\ sup' \subseteq Jobs
<1>1. Tail(lock[w]) \in Seq(Task)
  BY HeadTailProperties DEF TypeOK
<1>2. lock' \in [Wallets -> Seq(Task)]
  BY <1>1 DEF TypeOK, Release
<1>3. phase' \in [Wallets -> Phases]
  BY DEF TypeOK, Release, Phases
<1>4. view' \in [Wallets -> View]
  BY NoViewTyped DEF TypeOK, Release
<1>5. sup' \subseteq Jobs
  BY DEF TypeOK, Release
<1> QED
  BY <1>2, <1>3, <1>4, <1>5

\* Chaining a task on a wallet keeps its queue well typed.
LEMMA EnqueueTyped ==
  ASSUME TypeOK, NEW w \in Wallets, NEW t \in Task, Enqueue(w, t)
  PROVE  lock' \in [Wallets -> Seq(Task)]
<1>1. Append(lock[w], t) \in Seq(Task)
  BY AppendProperties DEF TypeOK
<1> QED
  BY <1>1 DEF TypeOK, Enqueue

\* Setting one flag of a table of flags.
LEMMA UpdatedFlag ==
  ASSUME NEW S, NEW f \in [S -> BOOLEAN], NEW x, NEW b \in BOOLEAN
  PROVE  [f EXCEPT ![x] = b] \in [S -> BOOLEAN]
  OBVIOUS

-----------------------------------------------------------------------------
(* Type correctness, actor by actor *)

\* monitorOnce writes only known states and only plans from revisions it read.
LEMMA MonitorTyped ==
  ASSUME TypeOK, MonitorStep
  PROVE  TypeOK'
<1> USE DEF durable, StrategyStates, OpenStates, Monitored, JobStates
<1>1. CASE MonitorBegin
  BY <1>1 DEF TypeOK, MonitorBegin
<1>2. ASSUME NEW s \in Strategies, MonitorSkip(s)
      PROVE  TypeOK'
  BY <1>2 DEF TypeOK, MonitorSkip, LeavePass
<1>3. ASSUME NEW s \in Strategies, MonitorVerdict(s)
      PROVE  TypeOK'
  <2>1. sState' \in [Strategies -> StrategyStates]
    BY <1>3, ExecutorAssumption DEF TypeOK, MonitorVerdict
  <2> QED
    BY <1>3, <2>1 DEF TypeOK, MonitorVerdict, LeavePass
<1>4. ASSUME NEW s \in Strategies, MonitorPlan(s)
      PROVE  TypeOK'
  <2>1. pass[s] \in Nat
    BY <1>4 DEF TypeOK, MonitorPlan, LeavePass
  <2> QED
    BY <1>4, <2>1 DEF TypeOK, MonitorPlan, LeavePass, Insert, Unused
<1>5. ASSUME NEW s \in Strategies, MonitorRefused(s)
      PROVE  TypeOK'
  BY <1>5 DEF TypeOK, MonitorRefused, LeavePass
<1> QED
  BY <1>1, <1>2, <1>3, <1>4, <1>5 DEF MonitorStep

\* runOnce chains a well-typed task on an idle wallet.
LEMMA ClaimTyped ==
  ASSUME TypeOK, NEW j \in Jobs, RunnerClaim(j)
  PROVE  TypeOK'
<1> DEFINE s == StrategyOf[j]
           w == Wallet(j)
           t == [kind |-> "run", id |-> j]
<1>1. s \in Strategies /\ w \in Wallets
  BY ExecutorAssumption DEF Wallet
<1>2. t \in Task
  BY DEF Task
<1>3. lock' \in [Wallets -> Seq(Task)]
  BY <1>1, <1>2, EnqueueTyped DEF RunnerClaim
<1>4. [rev |-> sRev[s], config |-> sConfig[s], job |-> j] \in View
  BY <1>1 DEF TypeOK, View
<1>5. view' \in [Wallets -> View]
  BY <1>1, <1>4 DEF TypeOK, RunnerClaim
<1> QED
  BY <1>3, <1>5 DEF TypeOK, RunnerClaim, durable

\* The catch of runJob keeps the types, whatever it makes of the transactions.
LEMMA RunCatchTyped ==
  ASSUME TypeOK, NEW w \in Wallets, lock[w] # <<>>, Head(lock[w]).kind = "run",
         NEW txs \in SUBSET TxStates, RunCatch(w, txs)
  PROVE  TypeOK'
<1>1. HeadJob(w) \in Jobs /\ HeadStrategy(w) \in Strategies
  BY HeadOfSigner
<1>2. /\ lock' \in [Wallets -> Seq(Task)]
      /\ phase' \in [Wallets -> Phases]
      /\ view' \in [Wallets -> View]
      /\ sup' \subseteq Jobs
  BY ReleaseTyped DEF RunCatch
<1>3. jTxs' \in [Jobs -> SUBSET TxStates]
  BY <1>1 DEF TypeOK, RunCatch
<1>4. jState' \in [Jobs -> JobStates]
  BY <1>1 DEF TypeOK, RunCatch, JobStates
<1>5. sState' \in [Strategies -> StrategyStates]
  BY <1>1 DEF TypeOK, RunCatch, StrategyStates, OpenStates
<1> QED
  BY <1>2, <1>3, <1>4, <1>5 DEF TypeOK, RunCatch

\* runJob keeps the types up to the point where it signs.
LEMMA RunnerTyped ==
  ASSUME TypeOK, NEW w \in Wallets, RunnerStep(w)
  PROVE  TypeOK'
<1> USE DEF durable
<1>1. CASE RunStart(w)
  <2>1. HeadJob(w) \in Jobs /\ HeadStrategy(w) \in Strategies
    BY <1>1, HeadOfSigner DEF RunStart, Holds
  <2>2. jState' \in [Jobs -> JobStates] /\ sState' \in [Strategies -> StrategyStates]
    BY <1>1, <2>1
    DEF TypeOK, RunStart, MarkRunning, JobStates, StrategyStates, OpenStates
  <2>3. phase' \in [Wallets -> Phases]
    BY <1>1 DEF TypeOK, RunStart, Advance, Phases
  <2> QED
    BY <1>1, <2>2, <2>3 DEF TypeOK, RunStart, Advance
<1>2. CASE RunCheckPass(w)
  BY <1>2 DEF TypeOK, RunCheckPass, Advance, Phases
<1>3. CASE RunDryRun(w)
  <2>1. HeadJob(w) \in Jobs /\ HeadStrategy(w) \in Strategies
    BY <1>3, HeadOfSigner DEF RunDryRun, Holds
  <2>2. /\ lock' \in [Wallets -> Seq(Task)]
        /\ phase' \in [Wallets -> Phases]
        /\ view' \in [Wallets -> View]
        /\ sup' \subseteq Jobs
    BY <1>3, ReleaseTyped DEF RunDryRun, Holds
  <2>3. jState' \in [Jobs -> JobStates] /\ sState' \in [Strategies -> StrategyStates]
    BY <1>3, <2>1 DEF TypeOK, RunDryRun, JobStates, StrategyStates
  <2> QED
    BY <1>3, <2>2, <2>3 DEF TypeOK, RunDryRun
<1>4. CASE RunThrow(w)
  <2>1. lock[w] # <<>> /\ Head(lock[w]).kind = "run"
    BY <1>4 DEF RunThrow, Holds
  <2>2. jTxs[HeadJob(w)] \in SUBSET TxStates
    BY <2>1, HeadOfSigner DEF TypeOK
  <2> QED
    BY <1>4, <2>1, <2>2, RunCatchTyped DEF RunThrow
<1>5. CASE RunReverted(w)
  <2>1. lock[w] # <<>> /\ Head(lock[w]).kind = "run"
    BY <1>5 DEF RunReverted, Holds
  <2>2. (jTxs[HeadJob(w)] \ {"open"}) \cup {"failed"} \in SUBSET TxStates
    BY <2>1, HeadOfSigner DEF TypeOK, TxStates
  <2> QED
    BY <1>5, <2>1, <2>2, RunCatchTyped DEF RunReverted
<1> QED
  BY <1>1, <1>2, <1>3, <1>4, <1>5 DEF RunnerStep

\* A task that signs: its job and strategy, and what a commit releases.
LEMMA FinishTyped ==
  ASSUME TypeOK, NEW w \in Wallets, Finish(w)
  PROVE  /\ HeadJob(w) \in Jobs /\ HeadStrategy(w) \in Strategies
         /\ jState' \in [Jobs -> JobStates]
         /\ jFails' \in [Jobs -> Nat] /\ jQuar' \in [Jobs -> BOOLEAN]
         /\ lock' \in [Wallets -> Seq(Task)]
         /\ phase' \in [Wallets -> Phases]
         /\ view' \in [Wallets -> View]
         /\ sup' \subseteq Jobs
<1>1. lock[w] # <<>> /\ Head(lock[w]).kind # "stop"
  BY DEF Finish, Holds, Signers
<1>2. HeadJob(w) \in Jobs /\ HeadStrategy(w) \in Strategies
  BY <1>1, HeadOfSigner
<1>3. jState' \in [Jobs -> JobStates]
  BY <1>2 DEF TypeOK, Finish, JobStates
<1>4. [jFails EXCEPT ![HeadJob(w)] = 0] \in [Jobs -> Nat]
  BY <1>2 DEF TypeOK
<1>5. [jQuar EXCEPT ![HeadJob(w)] = FALSE] \in [Jobs -> BOOLEAN]
  BY UpdatedFlag DEF TypeOK
<1>6. jFails' \in [Jobs -> Nat]
  BY <1>4 DEF TypeOK, Finish
<1>7. jQuar' \in [Jobs -> BOOLEAN]
  BY <1>5, Zenon DEF TypeOK, Finish
<1> QED
  BY <1>1, <1>2, <1>3, <1>6, <1>7, ReleaseTyped DEF Finish

\* sendTracked and the three commits keep the types.
LEMMA SignerTyped ==
  ASSUME TypeOK, NEW w \in Wallets, SignerStep(w)
  PROVE  TypeOK'
<1> USE DEF durable, volatile
<1>1. CASE TxBegin(w)
  BY <1>1 DEF TypeOK, TxBegin, Advance, Phases
<1>2. CASE TxSend(w)
  <2>1. HeadJob(w) \in Jobs
    BY <1>2, HeadOfSigner DEF TxSend, Holds, Signers
  <2>2. jTxs' \in [Jobs -> SUBSET TxStates]
    BY <1>2, <2>1 DEF TypeOK, TxSend, TxStates
  <2>3. phase' \in [Wallets -> Phases]
    BY <1>2 DEF TypeOK, TxSend, Advance, Phases
  <2> QED
    BY <1>2, <2>2, <2>3 DEF TypeOK, TxSend, Advance
<1>3. CASE TxConfirmed(w)
  <2>1. HeadJob(w) \in Jobs
    BY <1>3, HeadOfSigner DEF TxConfirmed, Holds, Signers
  <2>2. jTxs' \in [Jobs -> SUBSET TxStates]
    BY <1>3, <2>1 DEF TypeOK, TxConfirmed, TxStates
  <2> QED
    BY <1>3, <2>2 DEF TypeOK, TxConfirmed
<1>4. CASE CommitRebalance(w) \/ CommitHoldQuote(w) \/ CommitFeeCollection(w)
  <2>1. Finish(w)
    BY <1>4 DEF CommitRebalance, CommitHoldQuote, CommitFeeCollection
  <2>2. view[w].rev \in Nat /\ view[w].config \in Configs
    BY DEF TypeOK, View
  <2>3. HeadStrategy(w) \in Strategies /\ view[w].rev + 1 \in Nat
    BY <2>1, <2>2, FinishTyped
  <2>4. \A st \in {"monitoring", "paused_hold_quote"} :
          [sState EXCEPT ![HeadStrategy(w)] = st] \in [Strategies -> StrategyStates]
    BY <2>3 DEF TypeOK, StrategyStates
  <2>5. \A c \in Configs : [sConfig EXCEPT ![HeadStrategy(w)] = c] \in [Strategies -> Configs]
    BY <2>3 DEF TypeOK
  <2>6. [sRev EXCEPT ![HeadStrategy(w)] = view[w].rev + 1] \in [Strategies -> Nat]
    BY <2>3 DEF TypeOK
  <2>7. /\ sState' \in [Strategies -> StrategyStates]
        /\ sConfig' \in [Strategies -> Configs]
        /\ sRev' \in [Strategies -> Nat]
    <3>1. CASE CommitRebalance(w)
      BY <3>1, <2>2, <2>4, <2>5, <2>6 DEF CommitRebalance
    <3>2. CASE CommitHoldQuote(w)
      BY <3>2, <2>4, <2>5, <2>6 DEF CommitHoldQuote, Configs
    <3>3. CASE CommitFeeCollection(w)
      BY <3>3, <2>4 DEF TypeOK, CommitFeeCollection
    <3> QED
      BY <1>4, <3>1, <3>2, <3>3
  <2>8. UNCHANGED <<jRev, jTxs, paused, pass, requests, crashes>>
    BY <2>1 DEF Finish
  <2> QED
    BY <2>1, <2>7, <2>8, FinishTyped DEF TypeOK
<1> QED
  BY <1>1, <1>2, <1>3, <1>4 DEF SignerStep

\* superviseOnce chains well-typed recovery attempts.
LEMMA SupervisorTyped ==
  ASSUME TypeOK, SupervisorBegin
  PROVE  TypeOK'
<1>1. PICK picked \in SUBSET {j \in Jobs : RecoveryReady(j)} :
        /\ sup' = picked
        /\ lock' = [w \in Wallets |->
             IF \E j \in picked : Wallet(j) = w
               THEN Append(lock[w], [kind |-> "supervise",
                                     id |-> CHOOSE j \in picked : Wallet(j) = w])
               ELSE lock[w]]
  BY DEF SupervisorBegin
<1>2. ASSUME NEW w \in Wallets, \E j \in picked : Wallet(j) = w
      PROVE  Append(lock[w], [kind |-> "supervise",
                              id |-> CHOOSE j \in picked : Wallet(j) = w]) \in Seq(Task)
  <2> DEFINE chosen == CHOOSE j \in picked : Wallet(j) = w
  <2>1. chosen \in picked
    BY <1>2
  <2>2. [kind |-> "supervise", id |-> chosen] \in Task
    BY <2>1 DEF Task
  <2> HIDE DEF chosen
  <2>3. lock[w] \in Seq(Task)
    BY DEF TypeOK
  <2>4. Append(lock[w], [kind |-> "supervise", id |-> chosen]) \in Seq(Task)
    BY <2>2, <2>3, AppendProperties
  <2> QED
    BY <2>4 DEF chosen
<1>3. lock' \in [Wallets -> Seq(Task)]
  BY <1>1, <1>2 DEF TypeOK
<1> QED
  BY <1>1, <1>3 DEF TypeOK, SupervisorBegin, durable

\* A failed attempt is counted on its job and may quarantine the strategy.
LEMMA StrikeTyped ==
  ASSUME TypeOK, NEW j \in Jobs, NEW eligible \in BOOLEAN,
         NEW ss \in [Strategies -> StrategyStates], Strike(j, eligible, ss)
  PROVE  /\ jFails' \in [Jobs -> Nat]
         /\ jQuar' \in [Jobs -> BOOLEAN]
         /\ sState' \in [Strategies -> StrategyStates]
<1> DEFINE fails == jFails[j] + (IF eligible THEN 1 ELSE 0)
<1>1. fails \in Nat
  BY DEF TypeOK
<1>2. jFails' = [jFails EXCEPT ![j] = fails]
  BY DEF Strike
<1>3. jQuar' = [jQuar EXCEPT ![j] = fails >= QuarantineAt]
  BY DEF Strike
<1>4. sState' = ss \/ sState' = [ss EXCEPT ![StrategyOf[j]] = "recovery_quarantined"]
  BY DEF Strike
<1>5. (fails >= QuarantineAt) \in BOOLEAN
  OBVIOUS
<1> HIDE DEF fails
<1>6. jQuar' \in [Jobs -> BOOLEAN]
  BY <1>3, <1>5, UpdatedFlag, Zenon DEF TypeOK
<1>7. sState' \in [Strategies -> StrategyStates]
  BY <1>4 DEF StrategyStates, OpenStates
<1> QED
  BY <1>1, <1>2, <1>6, <1>7 DEF TypeOK

\* clearRecoverySchedule resets streak and quarantine flag to values of their type.
LEMMA ScheduleTyped ==
  ASSUME TypeOK, NEW j \in Jobs, ClearSchedule(j)
  PROVE  jFails' \in [Jobs -> Nat] /\ jQuar' \in [Jobs -> BOOLEAN]
<1>1. jQuar' \in [Jobs -> BOOLEAN]
  BY UpdatedFlag, Zenon DEF TypeOK, ClearSchedule
<1> QED
  BY <1>1 DEF TypeOK, ClearSchedule

\* Reconciling rows with the chain yields transaction states.
LEMMA ReconciledTyped ==
  ASSUME NEW txs \in SUBSET TxStates, NEW r \in Reconciled(txs)
  PROVE  r \in SUBSET TxStates
  BY DEF Reconciled, TxStates

\* The job and strategy of a recovery attempt, and what its end releases.
LEMMA AttemptTyped ==
  ASSUME TypeOK, NEW w \in Wallets, NEW p, Holds(w, Recoverers, p)
  PROVE  /\ lock[w] # <<>>
         /\ HeadJob(w) \in Jobs /\ HeadStrategy(w) \in Strategies
         /\ HeadStrategy(w) = StrategyOf[HeadJob(w)]
         /\ jTxs[HeadJob(w)] \in SUBSET TxStates
<1>1. lock[w] # <<>> /\ Head(lock[w]).kind # "stop"
  BY DEF Holds, Recoverers
<1>2. HeadJob(w) \in Jobs /\ HeadStrategy(w) = StrategyOf[HeadJob(w)]
      /\ HeadStrategy(w) \in Strategies
  BY <1>1, HeadOfSigner
<1> QED
  BY <1>1, <1>2 DEF TypeOK

\* The catch of executeRecoveryLocked keeps the types.
LEMMA RecoverCatchTyped ==
  ASSUME TypeOK, NEW w \in Wallets, NEW p, Holds(w, Recoverers, p),
         NEW txs \in SUBSET TxStates, RecoverCatch(w, txs)
  PROVE  TypeOK'
<1> DEFINE j == HeadJob(w)
<1>1. j \in Jobs /\ lock[w] # <<>>
  BY AttemptTyped
<1>2. [sState EXCEPT ![StrategyOf[j]] = "recovery"] \in [Strategies -> StrategyStates]
  BY DEF TypeOK, StrategyStates, OpenStates
<1>3. PICK eligible \in BOOLEAN :
        Strike(j, eligible, [sState EXCEPT ![StrategyOf[j]] = "recovery"])
  BY DEF RecoverCatch
<1>4. /\ jFails' \in [Jobs -> Nat]
      /\ jQuar' \in [Jobs -> BOOLEAN]
      /\ sState' \in [Strategies -> StrategyStates]
  BY <1>1, <1>2, <1>3, StrikeTyped
<1>5. /\ lock' \in [Wallets -> Seq(Task)]
      /\ phase' \in [Wallets -> Phases]
      /\ view' \in [Wallets -> View]
      /\ sup' \subseteq Jobs
  BY <1>1, ReleaseTyped DEF RecoverCatch
<1>6. jTxs' \in [Jobs -> SUBSET TxStates] /\ jState' \in [Jobs -> JobStates]
  BY <1>1 DEF TypeOK, RecoverCatch, JobStates
<1> QED
  BY <1>4, <1>5, <1>6 DEF TypeOK, RecoverCatch

\* A repaired config is one the attempt read, under a revision of its type.
LEMMA RepairTyped ==
  ASSUME TypeOK, NEW w \in Wallets, HeadStrategy(w) \in Strategies, RepairConfig(w)
  PROVE  sRev' \in [Strategies -> Nat] /\ sConfig' \in [Strategies -> Configs]
<1>1. view[w].rev + 1 \in Nat /\ view[w].config \in Configs
  BY DEF TypeOK, View
<1> QED
  BY <1>1 DEF TypeOK, RepairConfig

\* executeRecoveryLocked keeps the types, wherever the attempt ends.
LEMMA RecoveryTyped ==
  ASSUME TypeOK, NEW w \in Wallets, RecoveryStep(w)
  PROVE  TypeOK'
<1> USE DEF durable
<1> DEFINE j == HeadJob(w)
           s == HeadStrategy(w)
<1>1. CASE RecoverAlreadyDone(w)
  <2>1. j \in Jobs /\ lock[w] # <<>>
    BY <1>1, AttemptTyped DEF RecoverAlreadyDone
  <2>2. jFails' \in [Jobs -> Nat] /\ jQuar' \in [Jobs -> BOOLEAN]
    BY <1>1, <2>1, ScheduleTyped DEF RecoverAlreadyDone
  <2>3. /\ lock' \in [Wallets -> Seq(Task)]
        /\ phase' \in [Wallets -> Phases]
        /\ view' \in [Wallets -> View]
        /\ sup' \subseteq Jobs
    BY <1>1, <2>1, ReleaseTyped DEF RecoverAlreadyDone
  <2> QED
    BY <1>1, <2>2, <2>3 DEF TypeOK, RecoverAlreadyDone
<1>2. CASE RecoverInspect(w)
  <2>1. j \in Jobs /\ s \in Strategies
    BY <1>2, AttemptTyped DEF RecoverInspect
  <2>2. [rev |-> sRev[s], config |-> sConfig[s], job |-> j] \in View
    BY <2>1 DEF TypeOK, View
  <2>3. view' \in [Wallets -> View] /\ phase' \in [Wallets -> Phases]
    BY <1>2, <2>2 DEF TypeOK, RecoverInspect, Phases
  <2> QED
    BY <1>2, <2>3 DEF TypeOK, RecoverInspect
<1>3. CASE RecoverRestart(w)
  <2>1. j \in Jobs /\ s \in Strategies /\ lock[w] # <<>> /\ jTxs[j] \in SUBSET TxStates
    BY <1>3, AttemptTyped DEF RecoverRestart
  <2>2. jTxs' \in [Jobs -> SUBSET TxStates]
    <3>1. PICK txs \in Reconciled(jTxs[j]) : jTxs' = [jTxs EXCEPT ![j] = txs]
      BY <1>3 DEF RecoverRestart
    <3>2. txs \in SUBSET TxStates
      BY <2>1, ReconciledTyped
    <3> QED
      BY <3>1, <3>2 DEF TypeOK
  <2>4. sRev' \in [Strategies -> Nat] /\ sConfig' \in [Strategies -> Configs]
    <3>1. CASE UNCHANGED <<sRev, sConfig>>
      BY <3>1 DEF TypeOK
    <3>2. CASE RepairConfig(w)
      BY <2>1, <3>2, RepairTyped
    <3> QED
      BY <1>3, <3>1, <3>2 DEF RecoverRestart
  <2>5. jState' \in [Jobs -> JobStates] /\ sState' \in [Strategies -> StrategyStates]
    BY <1>3, <2>1 DEF TypeOK, RecoverRestart, JobStates, StrategyStates
  <2>6. jFails' \in [Jobs -> Nat] /\ jQuar' \in [Jobs -> BOOLEAN]
    BY <1>3, <2>1, ScheduleTyped DEF RecoverRestart
  <2>7. /\ lock' \in [Wallets -> Seq(Task)]
        /\ phase' \in [Wallets -> Phases]
        /\ view' \in [Wallets -> View]
        /\ sup' \subseteq Jobs
    BY <1>3, <2>1, ReleaseTyped DEF RecoverRestart
  <2>8. UNCHANGED <<jRev, paused, pass, requests, crashes>>
    BY <1>3 DEF RecoverRestart
  <2> QED
    BY <2>2, <2>4, <2>5, <2>6, <2>7, <2>8 DEF TypeOK
<1>4. CASE RecoverResume(w)
  <2>1. j \in Jobs /\ s \in Strategies /\ lock[w] # <<>> /\ jTxs[j] \in SUBSET TxStates
    BY <1>4, AttemptTyped DEF RecoverResume
  <2>2. jTxs' \in [Jobs -> SUBSET TxStates]
    <3>1. PICK txs \in Reconciled(jTxs[j]) : jTxs' = [jTxs EXCEPT ![j] = txs]
      BY <1>4 DEF RecoverResume
    <3>2. txs \in SUBSET TxStates
      BY <2>1, ReconciledTyped
    <3> QED
      BY <3>1, <3>2 DEF TypeOK
  <2>3. jState' \in [Jobs -> JobStates] /\ sState' \in [Strategies -> StrategyStates]
    BY <1>4, <2>1
    DEF TypeOK, RecoverResume, MarkRunning, JobStates, StrategyStates, OpenStates
  <2>4. phase' \in [Wallets -> Phases]
    BY <1>4 DEF TypeOK, RecoverResume, Phases
  <2>5. /\ sRev' \in [Strategies -> Nat] /\ sConfig' \in [Strategies -> Configs]
        /\ view' \in [Wallets -> View]
    <3>1. CASE UNCHANGED <<sRev, sConfig, view>>
      BY <3>1 DEF TypeOK
    <3>2. CASE /\ RepairConfig(w)
               /\ view' = [view EXCEPT ![w] =
                     [rev |-> @.rev + 1, config |-> @.config, job |-> j]]
      <4>1. [rev |-> view[w].rev + 1, config |-> view[w].config, job |-> j] \in View
        BY <2>1 DEF TypeOK, View
      <4>2. view' \in [Wallets -> View]
        BY <3>2, <4>1 DEF TypeOK
      <4> QED
        BY <2>1, <3>2, <4>2, RepairTyped
    <3> QED
      BY <1>4, <3>1, <3>2 DEF RecoverResume
  <2>6. UNCHANGED <<jRev, jFails, jQuar, paused, lock, sup, pass, requests, crashes>>
    BY <1>4 DEF RecoverResume
  <2> QED
    BY <2>2, <2>3, <2>4, <2>5, <2>6 DEF TypeOK
<1>5. CASE RecoverInconclusive(w)
  <2>1. j \in Jobs /\ lock[w] # <<>> /\ jTxs[j] \in SUBSET TxStates
    BY <1>5, AttemptTyped DEF RecoverInconclusive
  <2>2. jTxs' \in [Jobs -> SUBSET TxStates]
    <3>1. PICK txs \in Reconciled(jTxs[j]) : jTxs' = [jTxs EXCEPT ![j] = txs]
      BY <1>5 DEF RecoverInconclusive
    <3>2. txs \in SUBSET TxStates
      BY <2>1, ReconciledTyped
    <3> QED
      BY <3>1, <3>2 DEF TypeOK
  <2>3. /\ jFails' \in [Jobs -> Nat]
        /\ jQuar' \in [Jobs -> BOOLEAN]
        /\ sState' \in [Strategies -> StrategyStates]
    <3>1. CASE jState[j] = "recovery"
      <4>1. PICK eligible \in BOOLEAN : Strike(j, eligible, sState)
        BY <1>5, <3>1 DEF RecoverInconclusive
      <4>2. sState \in [Strategies -> StrategyStates]
        BY DEF TypeOK
      <4> QED
        BY <2>1, <4>1, <4>2, StrikeTyped
    <3>2. CASE jState[j] # "recovery"
      <4>1. UNCHANGED <<jFails, jQuar, sState>>
        BY <1>5, <3>2 DEF RecoverInconclusive
      <4> QED
        BY <4>1, Zenon DEF TypeOK
    <3> QED
      BY <3>1, <3>2
  <2>4. /\ lock' \in [Wallets -> Seq(Task)]
        /\ phase' \in [Wallets -> Phases]
        /\ view' \in [Wallets -> View]
        /\ sup' \subseteq Jobs
    BY <1>5, <2>1, ReleaseTyped DEF RecoverInconclusive
  <2> QED
    BY <1>5, <2>2, <2>3, <2>4 DEF TypeOK, RecoverInconclusive
<1>6. CASE RecoverThrow(w)
  <2>1. PICK p \in {"live", "sending"} : Holds(w, Recoverers, p)
    BY <1>6 DEF RecoverThrow
  <2>2. jTxs[j] \in SUBSET TxStates
    BY <2>1, AttemptTyped
  <2> QED
    BY <1>6, <2>1, <2>2, RecoverCatchTyped DEF RecoverThrow
<1>7. CASE RecoverReverted(w)
  <2>1. Holds(w, Recoverers, "live")
    BY <1>7 DEF RecoverReverted
  <2>2. (jTxs[j] \ {"open"}) \cup {"failed"} \in SUBSET TxStates
    BY <2>1, AttemptTyped DEF TxStates
  <2> QED
    BY <1>7, <2>1, <2>2, RecoverCatchTyped DEF RecoverReverted
<1> QED
  BY <1>1, <1>2, <1>3, <1>4, <1>5, <1>6, <1>7 DEF RecoveryStep

\* Reconciling the job a stop has read keeps the rows well typed; where it has
\* read no job there is no row to change.
LEMMA StoppedRowsTyped ==
  ASSUME TypeOK, NEW j \in Jobs \cup {None}, NEW txs \in Reconciled(jTxs[j]),
         jTxs' = [jTxs EXCEPT ![j] = txs]
  PROVE  jTxs' \in [Jobs -> SUBSET TxStates]
<1>1. CASE j \in Jobs
  <2>1. jTxs[j] \in SUBSET TxStates
    BY <1>1 DEF TypeOK
  <2>2. txs \in SUBSET TxStates
    BY <2>1, ReconciledTyped
  <2> QED
    BY <2>2 DEF TypeOK
<1>2. CASE j = None
  <2>1. \A k \in Jobs : jTxs'[k] = jTxs[k]
    BY <1>2, ExecutorAssumption DEF TypeOK
  <2> QED
    BY <2>1 DEF TypeOK
<1> QED
  BY <1>1, <1>2

\* stopAndArchiveStrategy and archiveStrategy keep the types.
LEMMA StopTyped ==
  ASSUME TypeOK, NEW w \in Wallets, StopStep(w)
  PROVE  TypeOK'
<1> USE DEF durable
<1> DEFINE s == HeadStrategy(w)
<1>1. CASE StopRefused(w) \/ StopRolledBack(w)
  <2>1. lock[w] # <<>> /\ Release(w)
    BY <1>1 DEF StopRefused, StopRolledBack, Holds
  <2>2. UNCHANGED <<durable, pass, requests, crashes>>
    BY <1>1 DEF StopRefused, StopRolledBack
  <2> QED
    BY <2>1, <2>2, ReleaseTyped DEF TypeOK
<1>2. CASE StopRead(w)
  <2>1. \A k \in Jobs \cup {None} : OnlyJob(k) \in View
    BY DEF OnlyJob, View, Configs
  <2>2. \E k \in Jobs \cup {None} : view' = [view EXCEPT ![w] = OnlyJob(k)]
    BY <1>2 DEF StopRead, OpenJobs, NoView
  <2>3. view' \in [Wallets -> View]
    BY <2>1, <2>2 DEF TypeOK
  <2>4. phase' \in [Wallets -> Phases]
    BY <1>2 DEF TypeOK, StopRead, Phases
  <2>5. UNCHANGED <<durable, lock, sup, pass, requests, crashes>>
    BY <1>2 DEF StopRead
  <2> QED
    BY <2>3, <2>4, <2>5 DEF TypeOK
<1>3. CASE StopInspected(w)
  <2>1. view[w].job \in Jobs \cup {None}
    BY DEF TypeOK, View
  <2>2. jTxs' \in [Jobs -> SUBSET TxStates]
    BY <1>3, <2>1, StoppedRowsTyped DEF StopInspected
  <2>3. phase' \in [Wallets -> Phases]
    BY <1>3 DEF TypeOK, StopInspected, Advance, Phases
  <2> QED
    BY <1>3, <2>2, <2>3 DEF TypeOK, StopInspected, Advance
<1>4. CASE StopInconclusive(w)
  <2>1. view[w].job \in Jobs \cup {None}
    BY DEF TypeOK, View
  <2>2. jTxs' \in [Jobs -> SUBSET TxStates]
    BY <1>4, <2>1, StoppedRowsTyped DEF StopInconclusive
  <2>3. lock[w] # <<>> /\ Release(w)
    BY <1>4 DEF StopInconclusive, Holds
  <2> QED
    BY <1>4, <2>2, <2>3, ReleaseTyped DEF TypeOK, StopInconclusive
<1>5. CASE StopArchive(w)
  <2>1. lock[w] # <<>> /\ Head(lock[w]).kind = "stop" /\ Release(w)
    BY <1>5 DEF StopArchive, Holds
  <2>2. s \in Strategies
    BY <2>1, HeadOfStop
  <2>3. jState' \in [Jobs -> JobStates]
    BY <1>5 DEF TypeOK, StopArchive, JobStates
  <2>4. /\ sState' \in [Strategies -> StrategyStates]
        /\ sConfig' \in [Strategies -> Configs]
    BY <1>5, <2>2 DEF TypeOK, StopArchive, StrategyStates, Configs
  <2>5. sRev' \in [Strategies -> Nat]
    BY <1>5, <2>2 DEF TypeOK, StopArchive
  <2> QED
    BY <1>5, <2>1, <2>3, <2>4, <2>5, ReleaseTyped DEF TypeOK, StopArchive
<1> QED
  BY <1>1, <1>2, <1>3, <1>4, <1>5 DEF StopStep

\* A handler suspended in an await remembers a well-typed request.
LEMMA SuspendTyped ==
  ASSUME TypeOK, NEW req \in Request, Suspend(req)
  PROVE  TypeOK'
  BY DEF TypeOK, Suspend, durable

\* A new config of a strategy, under a revision somebody read earlier.
LEMMA UpsertTyped ==
  ASSUME TypeOK, NEW s \in Strategies, NEW rev \in Nat, NEW config \in Configs,
         Upsert(s, rev, config)
  PROVE  sRev' \in [Strategies -> Nat] /\ sConfig' \in [Strategies -> Configs]
  BY DEF TypeOK, Upsert

\* Every API request that starts leaves the state well typed.
LEMMA ApiRequestTyped ==
  ASSUME TypeOK, ApiRequest
  PROVE  TypeOK'
<1> USE DEF durable, volatile
<1>1. ASSUME NEW s \in Strategies, ApiStop(s)
      PROVE  TypeOK'
  <2> DEFINE t == [kind |-> "stop", id |-> s]
  <2>1. t \in Task /\ WalletOf[s] \in Wallets
    BY ExecutorAssumption DEF Task
  <2>2. Enqueue(WalletOf[s], t)
    BY <1>1 DEF ApiStop
  <2> HIDE DEF t
  <2>3. lock' \in [Wallets -> Seq(Task)]
    BY <2>1, <2>2, EnqueueTyped
  <2> QED
    BY <1>1, <2>3 DEF TypeOK, ApiStop
<1>2. ASSUME NEW s \in Strategies,
             PutBegin(s) \/ StartBegin(s) \/ ExecuteBegin(s) \/ ResumeMonitoringBegin(s)
      PROVE  TypeOK'
  <2>1. sRev[s] \in Nat /\ sRev[s] + 1 \in Nat /\ sState[s] \in StrategyStates
    BY DEF TypeOK
  <2>2. \A op \in {"put", "start", "execute", "resume_monitoring"}, rev \in Nat :
          [op |-> op, s |-> s, rev |-> rev, state |-> sState[s]] \in Request
    BY <2>1 DEF Request
  <2>3. \E req \in Request : Suspend(req)
    BY <1>2, <2>1, <2>2
    DEF PutBegin, StartBegin, ExecuteBegin, ResumeMonitoringBegin
  <2> QED
    BY <2>3, SuspendTyped
<1>3. ASSUME NEW s \in Strategies, PutDisabled(s)
      PROVE  TypeOK'
  <2>1. sRev[s] + 1 \in Nat /\ "off" \in Configs
    BY DEF TypeOK, Configs
  <2>2. sRev' \in [Strategies -> Nat] /\ sConfig' \in [Strategies -> Configs]
    BY <1>3, <2>1, UpsertTyped DEF PutDisabled
  <2>3. sState' \in [Strategies -> StrategyStates]
    BY <1>3 DEF TypeOK, PutDisabled, StrategyStates
  <2> QED
    BY <1>3, <2>2, <2>3 DEF TypeOK, PutDisabled
<1>4. ASSUME NEW j \in Jobs, ApiResumeJob(j)
      PROVE  TypeOK'
  <2> DEFINE t == [kind |-> "resume", id |-> j]
  <2>1. t \in Task /\ Wallet(j) \in Wallets
    BY ExecutorAssumption DEF Task, Wallet
  <2>2. Enqueue(Wallet(j), t)
    BY <1>4 DEF ApiResumeJob
  <2> HIDE DEF t
  <2>3. lock' \in [Wallets -> Seq(Task)]
    BY <2>1, <2>2, EnqueueTyped
  <2>4. jFails' \in [Jobs -> Nat] /\ jQuar' \in [Jobs -> BOOLEAN]
    BY <1>4, ScheduleTyped DEF ApiResumeJob
  <2>5. sState' \in [Strategies -> StrategyStates]
    BY <1>4 DEF TypeOK, ApiResumeJob, StrategyStates, OpenStates
  <2> QED
    BY <1>4, <2>3, <2>4, <2>5 DEF TypeOK, ApiResumeJob
<1>5. ASSUME NEW j \in Jobs, ApiInspectJob(j)
      PROVE  TypeOK'
  <2>1. jTxs[j] \in SUBSET TxStates
    BY DEF TypeOK
  <2>2. PICK txs \in Reconciled(jTxs[j]) : jTxs' = [jTxs EXCEPT ![j] = txs]
    BY <1>5 DEF ApiInspectJob
  <2>3. txs \in SUBSET TxStates
    BY <2>1, ReconciledTyped
  <2> QED
    BY <1>5, <2>2, <2>3 DEF TypeOK, ApiInspectJob
<1>6. CASE ApiPause
  BY <1>6 DEF TypeOK, ApiPause
<1> QED
  BY <1>1, <1>2, <1>3, <1>4, <1>5, <1>6 DEF ApiRequest

\* The row createPlannedJob inserts is well typed.
LEMMA InsertTyped ==
  ASSUME TypeOK, NEW j \in Jobs, NEW rev \in Nat, Insert(j, rev)
  PROVE  jState' \in [Jobs -> JobStates] /\ jRev' \in [Jobs -> Nat]
  BY DEF TypeOK, Insert, JobStates

\* Every handler that comes back from its await leaves the state well typed.
LEMMA ApiAnswerTyped ==
  ASSUME TypeOK, ApiAnswer
  PROVE  TypeOK'
<1> USE DEF durable
<1> SUFFICES ASSUME NEW req \in requests,
                    \/ RequestFails(req) \/ PutFinish(req) \/ StartFinish(req)
                    \/ ExecuteFinish(req) \/ ResumeMonitoringFinish(req)
             PROVE  TypeOK'
  BY DEF ApiAnswer
<1>1. /\ req.s \in Strategies /\ req.rev \in Nat
      /\ req.state \in StrategyStates
  BY DEF TypeOK, Request
<1>2. /\ requests' \subseteq Request
      /\ UNCHANGED <<lock, phase, view, pass, sup, crashes>>
  BY DEF TypeOK, RequestFails, PutFinish, StartFinish, ExecuteFinish,
         ResumeMonitoringFinish, Resumed
<1>3. \A st \in StrategyStates :
        [sState EXCEPT ![req.s] = st] \in [Strategies -> StrategyStates]
  BY DEF TypeOK
<1>4. {"monitoring", "planned"} \subseteq StrategyStates /\ "on" \in Configs
  BY DEF StrategyStates, OpenStates, Configs
<1>5. CASE RequestFails(req)
  BY <1>2, <1>5 DEF TypeOK, RequestFails
<1>6. CASE PutFinish(req)
  <2>1. sRev' \in [Strategies -> Nat] /\ sConfig' \in [Strategies -> Configs]
    BY <1>1, <1>4, <1>6, UpsertTyped DEF PutFinish
  <2>2. sState' \in [Strategies -> StrategyStates]
    BY <1>3, <1>4, <1>6 DEF PutFinish
  <2> QED
    BY <1>2, <1>6, <2>1, <2>2 DEF TypeOK, PutFinish
<1>7. CASE StartFinish(req)
  <2>1. sRev' \in [Strategies -> Nat] /\ sConfig' \in [Strategies -> Configs]
    BY <1>1, <1>4, <1>7, UpsertTyped DEF StartFinish
  <2>2. sState' \in [Strategies -> StrategyStates]
    BY <1>1, <1>3, <1>4, <1>7 DEF StartFinish
  <2>3. UNCHANGED <<jTxs, jFails, jQuar, paused>>
    BY <1>7 DEF StartFinish, Insert
  <2>4. jState' \in [Jobs -> JobStates] /\ jRev' \in [Jobs -> Nat]
    <3>1. CASE UNCHANGED <<jState, jRev>>
      BY <3>1 DEF TypeOK
    <3>2. CASE \E j \in Unused(req.s) : Insert(j, req.rev)
      BY <1>1, <3>2, InsertTyped DEF Unused
    <3> QED
      BY <1>7, <3>1, <3>2 DEF StartFinish
  <2> QED
    BY <1>2, <2>1, <2>2, <2>3, <2>4 DEF TypeOK
<1>8. CASE ExecuteFinish(req)
  <2>1. jState' \in [Jobs -> JobStates] /\ jRev' \in [Jobs -> Nat]
    BY <1>1, <1>8, InsertTyped DEF ExecuteFinish, Unused
  <2>2. sState' \in [Strategies -> StrategyStates]
    BY <1>3, <1>4, <1>8 DEF ExecuteFinish
  <2>3. UNCHANGED <<sConfig, sRev, jTxs, jFails, jQuar, paused>>
    BY <1>8 DEF ExecuteFinish, Insert
  <2> QED
    BY <1>2, <2>1, <2>2, <2>3 DEF TypeOK
<1>9. CASE ResumeMonitoringFinish(req)
  <2>1. sState' \in [Strategies -> StrategyStates]
    BY <1>3, <1>4, <1>9 DEF ResumeMonitoringFinish
  <2> QED
    BY <1>2, <1>9, <2>1 DEF TypeOK, ResumeMonitoringFinish
<1> QED
  BY <1>5, <1>6, <1>7, <1>8, <1>9

\* quarantineInterruptedJobs and the empty process it starts from are well
\* typed, whatever the database held when the process died.
LEMMA RestartTyped ==
  ASSUME TypeOK, NEW ss \in [Strategies -> StrategyStates],
         NEW js \in [Jobs -> JobStates], Restart(ss, js),
         jRev' \in [Jobs -> Nat]
  PROVE  TypeOK'
<1>1. \A j \in Jobs : (IF js[j] = "running" THEN "recovery" ELSE js[j]) \in JobStates
  BY DEF JobStates
<1>2. jState' \in [Jobs -> JobStates]
  BY <1>1 DEF Restart
<1>3. "recovery" \in StrategyStates
  BY DEF StrategyStates, OpenStates
<1>4. sState' \in [Strategies -> StrategyStates]
  BY <1>3 DEF Restart
<1>5. /\ lock' = [w \in Wallets |-> <<>>]
      /\ phase' = [w \in Wallets |-> "start"]
      /\ view' = [w \in Wallets |-> NoView]
      /\ pass' = [s \in Strategies |-> None]
      /\ sup' = {} /\ requests' = {} /\ crashes' = crashes + 1
      /\ UNCHANGED <<sConfig, sRev, jTxs, jFails, jQuar, paused>>
  BY DEF Restart
<1>6. lock' \in [Wallets -> Seq(Task)] /\ phase' \in [Wallets -> Phases]
  BY <1>5 DEF Phases
<1>7. view' \in [Wallets -> View]
  BY <1>5, NoViewTyped
<1> QED
  BY <1>2, <1>4, <1>5, <1>6, <1>7 DEF TypeOK

\* A crash at any point leaves the state well typed.
LEMMA CrashTyped ==
  ASSUME TypeOK, CrashStep
  PROVE  TypeOK'
<1>1. CASE Crash
  BY <1>1, RestartTyped DEF TypeOK, Crash
<1>2. ASSUME NEW s \in Strategies, CrashAfterInsert(s)
      PROVE  TypeOK'
  <2>1. PICK rev \in {pass[s]} \cup {r.rev : r \in {q \in requests : q.s = s /\ q.op = "execute"}},
             j \in Unused(s) :
          /\ rev # None
          /\ jRev' = [jRev EXCEPT ![j] = rev]
          /\ Restart(sState, [jState EXCEPT ![j] = "planned"])
    BY <1>2 DEF CrashAfterInsert
  <2>2. rev \in Nat
    BY <2>1 DEF TypeOK, Request
  <2>3. jRev' \in [Jobs -> Nat]
    BY <2>1, <2>2 DEF TypeOK
  <2>4. [jState EXCEPT ![j] = "planned"] \in [Jobs -> JobStates]
    BY DEF TypeOK, JobStates
  <2> QED
    BY <2>1, <2>3, <2>4, RestartTyped DEF TypeOK
<1>3. ASSUME NEW w \in Wallets, CrashAfterJobState(w)
      PROVE  TypeOK'
  <2>1. PICK st \in {"completed", "recovery"} :
          Restart(sState, [jState EXCEPT ![HeadJob(w)] = st])
    BY <1>3 DEF CrashAfterJobState
  <2>2. [jState EXCEPT ![HeadJob(w)] = st] \in [Jobs -> JobStates]
    BY DEF TypeOK, JobStates
  <2> QED
    BY <1>3, <2>1, <2>2, RestartTyped DEF TypeOK, CrashAfterJobState
<1> QED
  BY <1>1, <1>2, <1>3 DEF CrashStep

\* The database of a fresh installation is well typed.
LEMMA InitTyped == Init => TypeOK
<1> SUFFICES ASSUME Init PROVE TypeOK
  OBVIOUS
<1>1. /\ sState \in [Strategies -> StrategyStates]
      /\ sConfig \in [Strategies -> Configs]
      /\ sRev \in [Strategies -> Nat]
  BY DEF Init, StrategyStates, Configs
<1>2. /\ jState \in [Jobs -> JobStates] /\ jRev \in [Jobs -> Nat]
      /\ jTxs \in [Jobs -> SUBSET TxStates]
      /\ jFails \in [Jobs -> Nat] /\ jQuar \in [Jobs -> BOOLEAN]
  BY DEF Init, JobStates
<1>3. /\ lock \in [Wallets -> Seq(Task)] /\ phase \in [Wallets -> Phases]
      /\ view \in [Wallets -> View]
  BY NoViewTyped DEF Init, Phases
<1>4. /\ paused \in BOOLEAN /\ pass \in [Strategies -> Nat \cup {None}]
      /\ sup \subseteq Jobs /\ requests \subseteq Request /\ crashes \in Nat
  BY DEF Init
<1> QED
  BY <1>1, <1>2, <1>3, <1>4 DEF TypeOK

\* Whatever the executor does next, the state stays well typed.
LEMMA NextTyped == TypeOK /\ [Next]_vars => TypeOK'
<1> SUFFICES ASSUME TypeOK, [Next]_vars PROVE TypeOK'
  OBVIOUS
<1>1. CASE UNCHANGED vars
  BY <1>1 DEF TypeOK, vars, durable, volatile
<1>2. CASE Next
  <2>1. CASE MonitorStep
    BY <2>1, MonitorTyped
  <2>2. CASE \E j \in Jobs : RunnerClaim(j)
    BY <2>2, ClaimTyped
  <2>3. CASE \E w \in Wallets :
               RunnerStep(w) \/ RecoveryStep(w) \/ SignerStep(w) \/ StopStep(w)
    BY <2>3, RunnerTyped, RecoveryTyped, SignerTyped, StopTyped
  <2>4. CASE SupervisorBegin
    BY <2>4, SupervisorTyped
  <2>5. CASE ApiRequest \/ ApiAnswer
    BY <2>5, ApiRequestTyped, ApiAnswerTyped
  <2>6. CASE CrashStep
    BY <2>6, CrashTyped
  <2> QED
    BY <1>2, <2>1, <2>2, <2>3, <2>4, <2>5, <2>6 DEF Next
<1> QED
  BY <1>1, <1>2

\* Type correctness of the executor: rows, queues, handlers and crash counter
\* keep their types in every reachable state, for any strategies and wallets.
THEOREM TypeCorrect == Spec => []TypeOK
<1>1. Init => TypeOK
  BY InitTyped
<1>2. TypeOK /\ [Next]_vars => TypeOK'
  BY NextTyped
<1> QED
  BY <1>1, <1>2, PTL DEF Spec

-----------------------------------------------------------------------------
(* Every wallet's chain carries only jobs and strategies of that wallet *)

TasksOf(w) ==
  {t \in Task : w = IF t.kind = "stop" THEN WalletOf[t.id] ELSE Wallet(t.id)}

QueueOwn == \A w \in Wallets : lock[w] \in Seq(TasksOf(w))

\* How a step of a task that holds wallet w changes the chains: not at all, or
\* it releases w.
TaskMoves(w) == lock' = lock \/ (lock[w] # <<>> /\ Release(w))

\* A task that holds a wallet only ever releases that wallet.
LEMMA TaskStepMoves ==
  ASSUME NEW w \in Wallets,
         RunnerStep(w) \/ RecoveryStep(w) \/ SignerStep(w) \/ StopStep(w)
  PROVE  TaskMoves(w)
<1>1. CASE RunnerStep(w)
  BY <1>1 DEF RunnerStep, RunStart, RunCheckPass, RunDryRun, RunThrow, RunReverted,
              RunCatch, Advance, Holds, TaskMoves
<1>2. CASE RecoveryStep(w)
  BY <1>2 DEF RecoveryStep, RecoverAlreadyDone, RecoverInspect, RecoverRestart,
              RecoverResume, RecoverInconclusive, RecoverThrow, RecoverReverted,
              RecoverCatch, Advance, Holds, TaskMoves
<1>3. CASE SignerStep(w)
  BY <1>3 DEF SignerStep, TxBegin, TxSend, TxConfirmed, CommitRebalance,
              CommitHoldQuote, CommitFeeCollection, Finish, Advance, Holds,
              volatile, TaskMoves
<1>4. CASE StopStep(w)
  BY <1>4 DEF StopStep, StopRefused, StopRead, StopInspected, StopInconclusive,
              StopArchive, StopRolledBack, Advance, Holds, TaskMoves
<1> QED
  BY <1>1, <1>2, <1>3, <1>4

\* Chaining a task on wallet w, a run only by the runner, or leaving its chain
\* alone.
Chained(w) ==
  \/ lock'[w] = lock[w]
  \/ \E t \in TasksOf(w) :
       /\ lock'[w] = Append(lock[w], t)
       /\ t.kind = "run" => RunnerClaim(t.id)

\* The steps of actors that hold no wallet.
OutsideStep ==
  \/ MonitorStep \/ (\E j \in Jobs : RunnerClaim(j)) \/ SupervisorBegin
  \/ ApiRequest \/ ApiAnswer

\* withWalletLock is always called with the wallet of the job it is called for,
\* and only the runner chains a run.
LEMMA ChainsOwnTasks ==
  ASSUME TypeOK, OutsideStep, NEW w \in Wallets
  PROVE  Chained(w)
<1>1. lock' = lock => Chained(w)
  BY DEF Chained
<1>2. ASSUME NEW v \in Wallets, NEW t \in TasksOf(v), Enqueue(v, t),
             t.kind = "run" => RunnerClaim(t.id)
      PROVE  Chained(w)
  BY <1>2 DEF Enqueue, Chained, TypeOK
<1>3. CASE MonitorStep
  BY <1>1, <1>3 DEF MonitorStep, MonitorBegin, MonitorSkip, MonitorVerdict,
                    MonitorPlan, MonitorRefused, LeavePass
<1>4. ASSUME NEW j \in Jobs, RunnerClaim(j)
      PROVE  Chained(w)
  <2>1. [kind |-> "run", id |-> j] \in TasksOf(Wallet(j)) /\ Wallet(j) \in Wallets
    BY ExecutorAssumption DEF TasksOf, Task, Wallet
  <2> QED
    BY <1>2, <1>4, <2>1 DEF RunnerClaim
<1>5. CASE SupervisorBegin
  <2>1. PICK picked \in SUBSET {j \in Jobs : RecoveryReady(j)} :
          lock' = [v \in Wallets |->
             IF \E j \in picked : Wallet(j) = v
               THEN Append(lock[v], [kind |-> "supervise",
                                     id |-> CHOOSE j \in picked : Wallet(j) = v])
               ELSE lock[v]]
    BY <1>5 DEF SupervisorBegin
  <2>2. CASE \E j \in picked : Wallet(j) = w
    <3> DEFINE chosen == CHOOSE j \in picked : Wallet(j) = w
    <3>1. chosen \in picked /\ Wallet(chosen) = w
      BY <2>2
    <3>2. [kind |-> "supervise", id |-> chosen] \in TasksOf(w)
      BY <3>1 DEF TasksOf, Task
    <3>3. lock'[w] = Append(lock[w], [kind |-> "supervise", id |-> chosen])
      BY <2>1, <2>2
    <3> HIDE DEF chosen
    <3> QED
      BY <3>2, <3>3 DEF Chained
  <2>3. CASE ~ \E j \in picked : Wallet(j) = w
    BY <2>1, <2>3 DEF Chained
  <2> QED
    BY <2>2, <2>3
<1>6. CASE ApiRequest
  <2>1. ASSUME NEW s \in Strategies, ApiStop(s)
        PROVE  Chained(w)
    <3>1. [kind |-> "stop", id |-> s] \in TasksOf(WalletOf[s]) /\ WalletOf[s] \in Wallets
      BY ExecutorAssumption DEF TasksOf, Task
    <3> QED
      BY <1>2, <2>1, <3>1 DEF ApiStop
  <2>2. ASSUME NEW j \in Jobs, ApiResumeJob(j)
        PROVE  Chained(w)
    <3>1. [kind |-> "resume", id |-> j] \in TasksOf(Wallet(j)) /\ Wallet(j) \in Wallets
      BY ExecutorAssumption DEF TasksOf, Task, Wallet
    <3> QED
      BY <1>2, <2>2, <3>1 DEF ApiResumeJob
  <2>3. CASE ~ \E s \in Strategies : ApiStop(s)
    BY <1>1, <1>6, <2>2, <2>3
    DEF ApiRequest, PutBegin, PutDisabled, StartBegin, ExecuteBegin,
        ResumeMonitoringBegin, Suspend, ApiInspectJob, ApiPause, volatile
  <2> QED
    BY <2>1, <2>3
<1>7. CASE ApiAnswer
  BY <1>1, <1>7 DEF ApiAnswer, RequestFails, PutFinish, StartFinish, ExecuteFinish,
                    ResumeMonitoringFinish, Resumed
<1> QED
  BY <1>3, <1>4, <1>5, <1>6, <1>7 DEF OutsideStep

\* A chain that carries only its wallet's jobs goes on doing so: tasks are
\* chained on their own wallet, released from the front, or lost in a crash.
LEMMA QueueOwnKept ==
  ASSUME TypeOK, QueueOwn, Next
  PROVE  QueueOwn'
<1> SUFFICES ASSUME NEW w \in Wallets
             PROVE  lock'[w] \in Seq(TasksOf(w))
  BY DEF QueueOwn, TasksOf, Wallet, Task
<1>1. lock[w] \in Seq(TasksOf(w))
  BY DEF QueueOwn
<1>2. CASE OutsideStep
  <2>1. \A t \in TasksOf(w) : Append(lock[w], t) \in Seq(TasksOf(w))
    BY <1>1, AppendProperties
  <2> QED
    BY <1>1, <1>2, <2>1, ChainsOwnTasks DEF Chained
<1>3. ASSUME NEW v \in Wallets,
             RunnerStep(v) \/ RecoveryStep(v) \/ SignerStep(v) \/ StopStep(v)
      PROVE  lock'[w] \in Seq(TasksOf(w))
  <2>1. lock'[w] = lock[w] \/ (lock[w] # <<>> /\ lock'[w] = Tail(lock[w]))
    BY <1>3, TaskStepMoves DEF TaskMoves, Release, TypeOK
  <2>2. lock[w] # <<>> => Tail(lock[w]) \in Seq(TasksOf(w))
    BY <1>1, HeadTailProperties
  <2> QED
    BY <1>1, <2>1, <2>2
<1>4. CASE CrashStep
  <2>1. lock' = [v \in Wallets |-> <<>>]
    BY <1>4 DEF CrashStep, Crash, CrashAfterInsert, CrashAfterJobState, Restart
  <2> QED
    BY <2>1
<1> QED
  BY <1>2, <1>3, <1>4 DEF Next, OutsideStep

-----------------------------------------------------------------------------
(* A running job is the task its wallet is executing *)

Working == {"precheck", "live", "sending"}

\* No job of wallet w is running.
Quiet(w) == \A j \in Jobs : Wallet(j) = w => jState[j] # "running"

\* If the head task of wallet w is working, it is still the head and working.
WorkGoesOn(w) ==
  lock[w] # <<>> /\ phase[w] \in Working =>
    lock'[w] # <<>> /\ Head(lock'[w]) = Head(lock[w]) /\ phase'[w] \in Working

NobodyStarts == \A j \in Jobs : jState'[j] = "running" => jState[j] = "running"

\* RunningHoldsLock survives a step that makes no job running and leaves each
\* wallet without a running job or with the same working head.
LEMMA HeldAfter ==
  ASSUME RunningHoldsLock, NobodyStarts,
         \A w \in Wallets : Quiet(w)' \/ WorkGoesOn(w)
  PROVE  RunningHoldsLock'
<1> SUFFICES ASSUME NEW j \in Jobs, jState'[j] = "running"
             PROVE  /\ lock'[Wallet(j)] # <<>>
                    /\ Head(lock'[Wallet(j)]).kind \in Signers
                    /\ Head(lock'[Wallet(j)]).id = j
                    /\ phase'[Wallet(j)] \in Working
  BY DEF RunningHoldsLock, HeadJob, Working, Wallet
<1>1. Wallet(j) \in Wallets
  BY ExecutorAssumption DEF Wallet
<1>2. ~ Quiet(Wallet(j))'
  BY DEF Quiet, Wallet
<1>3. /\ lock[Wallet(j)] # <<>>
      /\ Head(lock[Wallet(j)]).kind \in Signers
      /\ Head(lock[Wallet(j)]).id = j
      /\ phase[Wallet(j)] \in Working
  BY DEF RunningHoldsLock, NobodyStarts, HeadJob, Working
<1> QED
  BY <1>1, <1>2, <1>3 DEF WorkGoesOn

\* A wallet whose head task is not a signer at work has no running job.
LEMMA QuietUnlessWorking ==
  ASSUME RunningHoldsLock, NEW w \in Wallets,
         lock[w] = <<>> \/ Head(lock[w]).kind \notin Signers \/ phase[w] \notin Working
  PROVE  Quiet(w)
  BY DEF RunningHoldsLock, Quiet, Working

\* Releasing a wallet touches no other wallet.
LEMMA OthersGoOn ==
  ASSUME TypeOK, NEW w \in Wallets, NEW v \in Wallets, v # w, Release(w)
  PROVE  WorkGoesOn(v)
  BY DEF TypeOK, Release, WorkGoesOn

\* A task that ends its job by writing a state other than 'running' leaves its
\* wallet without a running job.
LEMMA EndsQuiet ==
  ASSUME TypeOK, RunningHoldsLock, NEW w \in Wallets, NEW st \in JobStates,
         st # "running", jState' = [jState EXCEPT ![HeadJob(w)] = st]
  PROVE  Quiet(w)' /\ NobodyStarts
<1>1. NobodyStarts
  BY DEF TypeOK, NobodyStarts
<1>2. \A j \in Jobs : Wallet(j) = w /\ jState[j] = "running" => j = HeadJob(w)
  BY DEF RunningHoldsLock
<1>3. \A j \in Jobs : Wallet(j) = w => jState'[j] # "running"
  BY <1>1, <1>2 DEF TypeOK, NobodyStarts
<1> QED
  BY <1>1, <1>3 DEF Quiet, Wallet

\* runJob or executeRecovery ends its job and lets go of the wallet.
LEMMA EndHeld ==
  ASSUME TypeOK, RunningHoldsLock, NEW w \in Wallets, NEW st \in JobStates,
         st # "running", jState' = [jState EXCEPT ![HeadJob(w)] = st], Release(w)
  PROVE  RunningHoldsLock'
<1>1. Quiet(w)' /\ NobodyStarts
  BY EndsQuiet
<1>2. \A v \in Wallets : Quiet(v)' \/ WorkGoesOn(v)
  BY <1>1, OthersGoOn
<1> QED
  BY <1>1, <1>2, HeldAfter

\* A task that has no running job lets go of the wallet.
LEMMA IdleReleaseHeld ==
  ASSUME TypeOK, RunningHoldsLock, NEW w \in Wallets, Quiet(w), Release(w),
         NobodyStarts
  PROVE  RunningHoldsLock'
<1>1. Quiet(w)'
  BY DEF Quiet, NobodyStarts, Wallet
<1>2. \A v \in Wallets : Quiet(v)' \/ WorkGoesOn(v)
  BY <1>1, OthersGoOn
<1> QED
  BY <1>2, HeldAfter

\* The head task of wallet w moves on to a phase without starting a job.
LEMMA AdvanceHeld ==
  ASSUME TypeOK, RunningHoldsLock, NEW w \in Wallets, NEW p, NobodyStarts,
         UNCHANGED lock, phase' = [phase EXCEPT ![w] = p], Quiet(w) \/ p \in Working
  PROVE  RunningHoldsLock'
<1>1. \A v \in Wallets : Quiet(v)' \/ WorkGoesOn(v)
  BY DEF TypeOK, WorkGoesOn, Quiet, NobodyStarts, Wallet
<1> QED
  BY <1>1, HeldAfter

\* setJobState 'running' by the task at the head of a quiet wallet: the job is
\* one of that wallet, and the only one running.
LEMMA MarkHeld ==
  ASSUME TypeOK, QueueOwn, RunningHoldsLock, NEW w \in Wallets, Quiet(w),
         lock[w] # <<>>, Head(lock[w]).kind \in Signers,
         MarkRunning(w), UNCHANGED lock,
         NEW p \in Working, phase' = [phase EXCEPT ![w] = p]
  PROVE  RunningHoldsLock'
<1> DEFINE j == HeadJob(w)
<1>1. Head(lock[w]) \in TasksOf(w)
  BY HeadTailProperties DEF QueueOwn
<1>2. Wallet(j) = w
  BY <1>1 DEF TasksOf, HeadJob, Signers
<1>3. \A k \in Jobs : jState'[k] = "running" => k = j \/ jState[k] = "running"
  BY DEF TypeOK, MarkRunning
<1> SUFFICES ASSUME NEW k \in Jobs, jState'[k] = "running"
             PROVE  /\ lock[Wallet(k)] # <<>>
                    /\ Head(lock[Wallet(k)]).kind \in Signers
                    /\ HeadJob(Wallet(k)) = k
                    /\ phase'[Wallet(k)] \in Working
  BY DEF RunningHoldsLock, HeadJob, Working, Wallet
<1>4. CASE k = j
  BY <1>2, <1>4 DEF TypeOK
<1>5. CASE jState[k] = "running"
  <2>1. Wallet(k) # w /\ Wallet(k) \in Wallets
    BY <1>5, ExecutorAssumption DEF Quiet, Wallet
  <2> QED
    BY <1>5, <2>1 DEF RunningHoldsLock, TypeOK, Working
<1> QED
  BY <1>3, <1>4, <1>5

\* The runner keeps it: RunStart marks the head of a quiet wallet, every other
\* step moves or ends the job that was marked.
LEMMA RunnerHeld ==
  ASSUME TypeOK, QueueOwn, RunningHoldsLock, NEW w \in Wallets, RunnerStep(w)
  PROVE  RunningHoldsLock'
<1> USE DEF durable
<1>1. CASE RunStart(w)
  <2>1. Quiet(w)
    BY <1>1, QuietUnlessWorking DEF RunStart, Holds, Working
  <2>2. /\ lock[w] # <<>> /\ Head(lock[w]).kind \in Signers
        /\ MarkRunning(w) /\ UNCHANGED lock
        /\ phase' = [phase EXCEPT ![w] = "precheck"]
    BY <1>1 DEF RunStart, Holds, Signers, Advance
  <2> QED
    BY <2>1, <2>2, MarkHeld DEF Working
<1>2. CASE RunCheckPass(w)
  BY <1>2, AdvanceHeld DEF RunCheckPass, Advance, Working, NobodyStarts
<1>3. CASE RunDryRun(w)
  BY <1>3, EndHeld DEF RunDryRun, JobStates
<1>4. ASSUME NEW txs, RunCatch(w, txs)
      PROVE  RunningHoldsLock'
  <2>1. PICK st \in {"failed", "recovery"} :
          jState' = [jState EXCEPT ![HeadJob(w)] = st]
    BY <1>4 DEF RunCatch
  <2> QED
    BY <1>4, <2>1, EndHeld DEF RunCatch, JobStates
<1> QED
  BY <1>1, <1>2, <1>3, <1>4 DEF RunnerStep, RunThrow, RunReverted

\* A recovery attempt keeps it: only RecoverResume marks a job, and the catch
\* takes the mark back before the wallet is released.
LEMMA RecoveryHeld ==
  ASSUME TypeOK, QueueOwn, RunningHoldsLock, NEW w \in Wallets, RecoveryStep(w)
  PROVE  RunningHoldsLock'
<1> USE DEF durable
<1>1. CASE RecoverAlreadyDone(w)
  <2>1. Quiet(w)
    BY <1>1, QuietUnlessWorking DEF RecoverAlreadyDone, Holds, Working
  <2> QED
    BY <1>1, <2>1, IdleReleaseHeld DEF RecoverAlreadyDone, NobodyStarts
<1>2. CASE RecoverInspect(w)
  <2>1. Quiet(w)
    BY <1>2, QuietUnlessWorking DEF RecoverInspect, Holds, Working
  <2> QED
    BY <1>2, <2>1, AdvanceHeld DEF RecoverInspect, NobodyStarts
<1>3. CASE RecoverRestart(w)
  BY <1>3, EndHeld DEF RecoverRestart, JobStates
<1>4. CASE RecoverResume(w)
  <2>1. Quiet(w)
    BY <1>4, QuietUnlessWorking DEF RecoverResume, Holds, Working
  <2>2. /\ lock[w] # <<>> /\ Head(lock[w]).kind \in Signers
        /\ MarkRunning(w) /\ UNCHANGED lock
        /\ phase' = [phase EXCEPT ![w] = "live"]
    BY <1>4 DEF RecoverResume, Holds, Recoverers, Signers
  <2> QED
    BY <2>1, <2>2, MarkHeld DEF Working
<1>5. CASE RecoverInconclusive(w)
  <2>1. Quiet(w)
    BY <1>5, QuietUnlessWorking DEF RecoverInconclusive, Holds, Working
  <2> QED
    BY <1>5, <2>1, IdleReleaseHeld DEF RecoverInconclusive, NobodyStarts
<1>6. CASE RecoverThrow(w) \/ RecoverReverted(w)
  BY <1>6, EndHeld DEF RecoverThrow, RecoverReverted, RecoverCatch, JobStates
<1> QED
  BY <1>1, <1>2, <1>3, <1>4, <1>5, <1>6 DEF RecoveryStep

\* Sending and committing keep it: a commit ends the job with its release.
LEMMA SignerHeld ==
  ASSUME TypeOK, QueueOwn, RunningHoldsLock, NEW w \in Wallets, SignerStep(w)
  PROVE  RunningHoldsLock'
<1> USE DEF durable, volatile
<1>1. CASE TxBegin(w)
  BY <1>1, AdvanceHeld DEF TxBegin, Advance, Working, NobodyStarts
<1>2. CASE TxSend(w)
  BY <1>2, AdvanceHeld DEF TxSend, Advance, Working, NobodyStarts
<1>3. CASE TxConfirmed(w)
  BY <1>3 DEF TxConfirmed, RunningHoldsLock, HeadJob
<1>4. CASE CommitRebalance(w) \/ CommitHoldQuote(w) \/ CommitFeeCollection(w)
  BY <1>4, EndHeld
  DEF CommitRebalance, CommitHoldQuote, CommitFeeCollection, Finish, JobStates
<1> QED
  BY <1>1, <1>2, <1>3, <1>4 DEF SignerStep

\* Stopping keeps it: while a stop holds the wallet no job of it runs.
LEMMA StopHeld ==
  ASSUME TypeOK, QueueOwn, RunningHoldsLock, NEW w \in Wallets, StopStep(w)
  PROVE  RunningHoldsLock'
<1> USE DEF durable
<1>1. Quiet(w)
  <2>1. Head(lock[w]).kind = "stop"
    BY DEF StopStep, StopRefused, StopRead, StopInspected, StopInconclusive,
           StopArchive, StopRolledBack, Holds
  <2> QED
    BY <2>1, QuietUnlessWorking DEF Signers
<1>2. NobodyStarts
  BY DEF StopStep, StopRefused, StopRead, StopInspected, StopInconclusive,
         StopArchive, StopRolledBack, NobodyStarts, TypeOK
<1>3. CASE StopRead(w) \/ StopInspected(w)
  <2>1. PICK p \in Phases : UNCHANGED lock /\ phase' = [phase EXCEPT ![w] = p]
    BY <1>3 DEF StopRead, StopInspected, Advance, Phases
  <2> QED
    BY <1>1, <1>2, <2>1, AdvanceHeld
<1>4. CASE StopRefused(w) \/ StopInconclusive(w) \/ StopArchive(w) \/ StopRolledBack(w)
  <2>1. Release(w)
    BY <1>4 DEF StopRefused, StopInconclusive, StopArchive, StopRolledBack
  <2> QED
    BY <1>1, <1>2, <2>1, IdleReleaseHeld
<1> QED
  BY <1>3, <1>4 DEF StopStep

\* Steps outside the wallet lock keep it: they may chain a task behind the
\* head, never move it, and never mark a job running.
LEMMA OutsideHeld ==
  ASSUME TypeOK, RunningHoldsLock, OutsideStep
  PROVE  RunningHoldsLock'
<1>1. UNCHANGED phase
  BY DEF OutsideStep, MonitorStep, MonitorBegin, MonitorSkip, MonitorVerdict,
         MonitorPlan, MonitorRefused, LeavePass, RunnerClaim, SupervisorBegin,
         ApiRequest, ApiStop, PutBegin, PutDisabled, StartBegin, ExecuteBegin,
         ResumeMonitoringBegin, Suspend, ApiResumeJob, ApiInspectJob, ApiPause,
         ApiAnswer, RequestFails, PutFinish, StartFinish, ExecuteFinish,
         ResumeMonitoringFinish, Resumed, durable, volatile
<1>2. UNCHANGED jState \/ \E j \in Jobs : jState' = [jState EXCEPT ![j] = "planned"]
  BY DEF OutsideStep, MonitorStep, MonitorBegin, MonitorSkip, MonitorVerdict,
         MonitorPlan, MonitorRefused, LeavePass, RunnerClaim, SupervisorBegin,
         ApiRequest, ApiStop, PutBegin, PutDisabled, StartBegin, ExecuteBegin,
         ResumeMonitoringBegin, Suspend, ApiResumeJob, ApiInspectJob, ApiPause,
         ApiAnswer, RequestFails, PutFinish, StartFinish, ExecuteFinish,
         ResumeMonitoringFinish, Resumed, durable, volatile, Insert, Unused
<1>3. NobodyStarts
  BY <1>2 DEF NobodyStarts, TypeOK
<1>4. ASSUME NEW w \in Wallets
      PROVE  WorkGoesOn(w)
  <2>1. CASE lock'[w] = lock[w]
    BY <1>1, <2>1 DEF WorkGoesOn
  <2>2. ASSUME NEW t \in TasksOf(w), lock'[w] = Append(lock[w], t), lock[w] # <<>>
        PROVE  lock'[w] # <<>> /\ Head(lock'[w]) = Head(lock[w])
    <3>1. lock[w] \in Seq(Task) /\ t \in Task
      BY DEF TypeOK, TasksOf
    <3> QED
      BY <2>2, <3>1, AppendProperties, HeadTailProperties
  <2> QED
    BY <1>1, <2>1, <2>2, ChainsOwnTasks DEF Chained, WorkGoesOn
<1> QED
  BY <1>3, <1>4, HeldAfter

\* After a restart nothing is running.
LEMMA CrashHeld ==
  ASSUME TypeOK, CrashStep
  PROVE  RunningHoldsLock'
<1>1. PICK ss, js : Restart(ss, js)
  BY DEF CrashStep, Crash, CrashAfterInsert, CrashAfterJobState
<1>2. \A j \in Jobs : jState'[j] # "running"
  BY <1>1 DEF Restart
<1> QED
  BY <1>2 DEF RunningHoldsLock

\* The inductive invariant: queues carry their wallet's jobs, and the running
\* job of a wallet is the task at work there.
IInv == TypeOK /\ QueueOwn /\ RunningHoldsLock

\* At startup the chains are empty and no job runs.
LEMMA InitHeld == Init => IInv
<1> SUFFICES ASSUME Init PROVE IInv
  OBVIOUS
<1>1. TypeOK
  BY InitTyped
<1>2. QueueOwn
  BY DEF Init, QueueOwn
<1>3. RunningHoldsLock
  BY DEF Init, RunningHoldsLock
<1> QED
  BY <1>1, <1>2, <1>3 DEF IInv

\* Every step of every actor keeps the inductive invariant.
LEMMA NextHeld == IInv /\ [Next]_vars => IInv'
<1> SUFFICES ASSUME IInv, [Next]_vars PROVE IInv'
  OBVIOUS
<1>1. TypeOK /\ QueueOwn /\ RunningHoldsLock
  BY DEF IInv
<1>2. TypeOK'
  BY <1>1, NextTyped
<1>3. CASE UNCHANGED vars
  <2>1. UNCHANGED <<lock, phase, jState>>
    BY <1>3 DEF vars, durable, volatile
  <2>2. QueueOwn' /\ RunningHoldsLock'
    BY <1>1, <2>1 DEF QueueOwn, RunningHoldsLock, HeadJob
  <2> QED
    BY <1>2, <2>2 DEF IInv
<1>4. CASE Next
  <2>1. QueueOwn'
    BY <1>1, <1>4, QueueOwnKept
  <2>2. ASSUME OutsideStep PROVE RunningHoldsLock'
    BY <1>1, <2>2, OutsideHeld
  <2>3. ASSUME NEW w \in Wallets,
               RunnerStep(w) \/ RecoveryStep(w) \/ SignerStep(w) \/ StopStep(w)
        PROVE  RunningHoldsLock'
    BY <1>1, <2>3, RunnerHeld, RecoveryHeld, SignerHeld, StopHeld
  <2>4. ASSUME CrashStep PROVE RunningHoldsLock'
    BY <1>1, <2>4, CrashHeld
  <2>5. RunningHoldsLock'
    BY <1>4, <2>2, <2>3, <2>4 DEF Next, OutsideStep
  <2> QED
    BY <1>2, <2>1, <2>5 DEF IInv
<1> QED
  BY <1>3, <1>4

\* The inductive invariant holds for ever.
LEMMA Held == Spec => []IInv
  BY InitHeld, NextHeld, PTL DEF Spec

\* A job the database calls 'running' is being worked on by the task that holds
\* its wallet, through every retry, stop, request and crash.
THEOREM RunningIsHeld == Spec => []RunningHoldsLock
<1>1. IInv => RunningHoldsLock
  BY DEF IInv
<1> QED
  BY <1>1, Held, PTL

\* No two jobs of one wallet run at the same time, so no two take the same
\* pending nonce: each is the head of the same promise chain.
THEOREM OneRunning == Spec => []OneRunningPerWallet
<1>1. IInv => OneRunningPerWallet
  BY DEF IInv, RunningHoldsLock, OneRunningPerWallet
<1> QED
  BY <1>1, Held, PTL

===============================================================================
