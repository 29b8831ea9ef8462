------------------------ MODULE ExecutorLifecycleProofs ------------------------
(***************************************************************************)
(* ExecutorJobs implements JobLifecycle, for any strategies, jobs, wallets *)
(* and bounds: every step of every actor moves each job as its life        *)
(* allows, and never two jobs of a strategy or of a wallet against each    *)
(* other.  That a job given up has no effect, that a strategy has one open *)
(* job, and that final states are final follow from it.  And no strategy   *)
(* is left 'executing' without a job, but for a dry run that dies.         *)
(***************************************************************************)
EXTENDS ExecutorJobsProofs

-----------------------------------------------------------------------------
(* What the task that holds a wallet knows about its job.  Handlers and      *)
(* passes act on jobs without the lock; each fact below outlives what they   *)
(* may do.                                                                   *)

\* A run is only ever chained on an idle wallet: behind the head there is none.
Later == {t \in Task : t.kind # "run"}

RunsFirst == \A w \in Wallets : lock[w] # <<>> => Tail(lock[w]) \in Seq(Later)

\* The runner's job is planned until it is marked, then running; its wallet has
\* no uncertain transaction of a recovery job.
RunHead(w) ==
  Head(lock[w]).kind = "run" =>
    /\ phase[w] \in {"start"} \cup Working
    /\ phase[w] = "start" => jState[HeadJob(w)] = "planned"
    /\ phase[w] \in Working => jState[HeadJob(w)] = "running"
    /\ phase[w] = "precheck" => jTxs[HeadJob(w)] = {}
    /\ ~WalletUncertain(w)

\* A recovery attempt inspects a job in recovery or one given up meanwhile.
RecoverHead(w) ==
  Head(lock[w]).kind \in Recoverers =>
    /\ phase[w] \in {"start", "inspect", "live", "sending"}
    /\ phase[w] = "inspect" => jState[HeadJob(w)] \in {"recovery", "failed"}
    /\ phase[w] \in Working => jState[HeadJob(w)] = "running"

\* A stop archives the open job of its strategy, once that job is settled.
StopHead(w) ==
  Head(lock[w]).kind = "stop" =>
    /\ phase[w] \in {"start", "inspect", "archive"}
    /\ phase[w] = "inspect" =>
         /\ view[w].job \in Jobs
         /\ StrategyOf[view[w].job] = Head(lock[w]).id
         /\ jState[view[w].job] = "recovery"
    /\ phase[w] = "archive" /\ view[w].job # None =>
         /\ StrategyOf[view[w].job] = Head(lock[w]).id
         /\ jState[view[w].job] \in {"planned", "recovery"}
         /\ "open" \notin jTxs[view[w].job]

\* What is about to be sent is the job's only uncertain transaction.
SendingHead(w) == phase[w] = "sending" => "open" \notin jTxs[HeadJob(w)]

HeadFacts(w) ==
  /\ lock[w] = <<>> => phase[w] = "start"
  /\ lock[w] # <<>> => RunHead(w) /\ RecoverHead(w) /\ StopHead(w) /\ SendingHead(w)

\* A job that was never started has no transactions.
Fresh == \A j \in Jobs : jState[j] \in {"unused", "planned"} => jTxs[j] = {}

\* The inductive invariant of this module.
LInv ==
  /\ IInv
  /\ RunsFirst
  /\ \A w \in Wallets : HeadFacts(w)
  /\ Fresh
  /\ GivenUpHasNoEffect
  /\ OneOpenJob

-----------------------------------------------------------------------------
(* Consequences of the life of a job alone *)

JobSteps == \A j \in Jobs : Lifecycle!Step(j)

\* The two ways a step leaves job j as it is, and the moves of its row.
LEMMA StateMoves ==
  ASSUME NEW j \in Jobs, Lifecycle!Step(j), TypeOK
  PROVE  /\ jState'[j] # jState[j] =>
              \/ jState[j] = "unused" /\ jState'[j] = "planned" /\ jTxs'[j] = jTxs[j]
              \/ jState[j] \in {"planned", "running", "recovery"} /\ jState'[j] # "unused"
         /\ jState[j] \in {"unused", "planned"} /\ jState'[j] # "failed" => jTxs'[j] = jTxs[j]
         /\ jState'[j] \in {"unused", "planned"} =>
              jState[j] \in {"unused", "planned"} /\ jTxs'[j] = jTxs[j]
         /\ jState[j] \in {"completed", "cancelled"} => jState'[j] = jState[j]
  BY DEF Lifecycle!Step, Lifecycle!Goes, Lifecycle!Create, Lifecycle!Start,
         Lifecycle!Send, Lifecycle!Settle, Lifecycle!Commit, Lifecycle!Interrupt,
         Lifecycle!Resume, Lifecycle!GiveUp, Lifecycle!Cancel, Lifecycle!Stays

\* A job that was never started goes on without transactions.
LEMMA FreshKept ==
  ASSUME TypeOK, JobSteps, Fresh
  PROVE  Fresh'
  BY StateMoves DEF JobSteps, Fresh

\* A job is given up without effect, and what is settled stays settled.
LEMMA GivenUpKept ==
  ASSUME TypeOK, JobSteps, GivenUpHasNoEffect
  PROVE  GivenUpHasNoEffect'
<1> SUFFICES ASSUME NEW j \in Jobs, jState'[j] = "failed"
             PROVE  RestartSafe(jTxs'[j])
  BY DEF GivenUpHasNoEffect, RestartSafe
<1>1. Lifecycle!Step(j)
  BY DEF JobSteps
<1>2. CASE Lifecycle!GiveUp(j)
  BY <1>2 DEF Lifecycle!GiveUp, Lifecycle!Uncertain, Lifecycle!Effective, RestartSafe
<1>3. CASE Lifecycle!Settle(j) \/ Lifecycle!Stays(j)
  <2>1. RestartSafe(jTxs[j])
    BY <1>3 DEF Lifecycle!Settle, Lifecycle!Stays, GivenUpHasNoEffect
  <2>2. jTxs'[j] = jTxs[j]
    BY <1>3, <2>1 DEF Lifecycle!Settle, Lifecycle!Stays, Lifecycle!Settles, RestartSafe
  <2> QED
    BY <2>1, <2>2
<1> QED
  BY <1>1, <1>2, <1>3
  DEF Lifecycle!Step, Lifecycle!Goes, Lifecycle!Create, Lifecycle!Start,
      Lifecycle!Send, Lifecycle!Commit, Lifecycle!Interrupt, Lifecycle!Resume,
      Lifecycle!Cancel

\* A new job is alone: its strategy has no open job and no other is created.
CreatedAlone ==
  \A j \in Jobs : jState[j] = "unused" /\ jState'[j] = "planned" =>
    /\ OpenJobs(StrategyOf[j]) = {}
    /\ \A k \in Jobs : jState[k] = "unused" /\ jState'[k] # "unused" => k = j

\* The life of a job opens it only when it is created.
LEMMA OneOpenKept ==
  ASSUME TypeOK, JobSteps, CreatedAlone, OneOpenJob
  PROVE  OneOpenJob'
<1> SUFFICES ASSUME NEW j \in Jobs, NEW k \in Jobs, StrategyOf[j] = StrategyOf[k],
                    IsOpen(jState'[j]), IsOpen(jState'[k])
             PROVE  j = k
  BY DEF OneOpenJob, IsOpen
<1>1. \A i \in {j, k} : IsOpen(jState[i]) \/ (jState[i] = "unused" /\ jState'[i] = "planned")
  BY StateMoves DEF JobSteps, IsOpen
<1>2. CASE IsOpen(jState[j]) /\ IsOpen(jState[k])
  BY <1>2 DEF OneOpenJob
<1>3. CASE ~IsOpen(jState[j])
  BY <1>1, <1>3 DEF CreatedAlone, OpenJobs, IsOpen
<1>4. CASE ~IsOpen(jState[k])
  BY <1>1, <1>4 DEF CreatedAlone, OpenJobs, IsOpen
<1> QED
  BY <1>2, <1>3, <1>4

-----------------------------------------------------------------------------
(* What a step leaves to the wallets it does not hold *)

Same(j) == jState'[j] = jState[j] /\ jTxs'[j] = jTxs[j]

\* What handlers and passes may do to a job without its wallet's lock: create
\* it, or reconcile the transactions of a job that nobody works on.
Touched(j) ==
  \/ jState[j] = "unused" /\ jState'[j] = "planned" /\ jTxs'[j] = jTxs[j]
  \/ /\ jState'[j] = jState[j] /\ jState[j] \in {"recovery", "failed"}
     /\ jTxs'[j] \in Reconciled(jTxs[j])

Undisturbed(w) ==
  /\ lock[w] # <<>>
  /\ lock'[w] # <<>> /\ Head(lock'[w]) = Head(lock[w])
  /\ phase'[w] = phase[w] /\ view'[w] = view[w]
  /\ \A j \in Jobs : Wallet(j) = w => Same(j) \/ Touched(j)

\* The head of a chain is a task of that wallet.
LEMMA HeadOwn ==
  ASSUME TypeOK, QueueOwn, NEW w \in Wallets, lock[w] # <<>>
  PROVE  /\ Head(lock[w]) \in TasksOf(w)
         /\ Head(lock[w]).kind # "stop" => HeadJob(w) \in Jobs /\ Wallet(HeadJob(w)) = w
         /\ Head(lock[w]).kind = "stop" =>
              /\ HeadStrategy(w) = Head(lock[w]).id
              /\ HeadStrategy(w) \in Strategies /\ WalletOf[HeadStrategy(w)] = w
<1>1. Head(lock[w]) \in TasksOf(w)
  BY HeadTailProperties DEF QueueOwn
<1> QED
  BY <1>1 DEF TasksOf, Task, HeadJob, HeadStrategy

\* No uncertain transaction of a recovery job appears where nobody sends.
LEMMA StaysCertain ==
  ASSUME NEW w \in Wallets, ~WalletUncertain(w),
         \A j \in Jobs : Wallet(j) = w => Same(j) \/ Touched(j)
  PROVE  ~WalletUncertain(w)'
<1> SUFFICES ASSUME NEW j \in Jobs, Wallet(j) = w, jState'[j] = "recovery"
             PROVE  "open" \notin jTxs'[j]
  BY DEF WalletUncertain, Wallet
<1>1. jState[j] = "recovery" /\ (jTxs'[j] = jTxs[j] \/ jTxs'[j] \in Reconciled(jTxs[j]))
  BY DEF Same, Touched
<1>2. "open" \notin jTxs[j]
  BY <1>1 DEF WalletUncertain
<1> QED
  BY <1>1, <1>2 DEF Reconciled

\* The facts about a head task outlive every step that does not hold its wallet.
LEMMA UndisturbedFacts ==
  ASSUME TypeOK, QueueOwn, NEW w \in Wallets, HeadFacts(w), Undisturbed(w)
  PROVE  HeadFacts(w)'
<1> DEFINE t == Head(lock[w])
           j == HeadJob(w)
<1>1. /\ lock[w] # <<>> /\ lock'[w] # <<>> /\ Head(lock'[w]) = t
      /\ HeadJob(w)' = j /\ phase'[w] = phase[w] /\ view'[w] = view[w]
  BY DEF Undisturbed, HeadJob
<1>2. t \in TasksOf(w) /\ (t.kind # "stop" => j \in Jobs /\ Wallet(j) = w)
  BY <1>1, HeadOwn
<1>3. t.kind # "stop" => Same(j) \/ Touched(j)
  BY <1>2 DEF Undisturbed
<1>4. RunHead(w)'
  <2> SUFFICES ASSUME t.kind = "run"
               PROVE  /\ phase[w] \in {"start"} \cup Working
                      /\ phase[w] = "start" => jState'[j] = "planned"
                      /\ phase[w] \in Working => jState'[j] = "running"
                      /\ phase[w] = "precheck" => jTxs'[j] = {}
                      /\ ~WalletUncertain(w)'
    BY <1>1 DEF RunHead
  <2>1. RunHead(w)
    BY <1>1 DEF HeadFacts
  <2>2. ~WalletUncertain(w)'
    BY <2>1, StaysCertain DEF RunHead, Undisturbed
  <2> QED
    BY <1>3, <2>1, <2>2 DEF RunHead, Same, Touched, Working
<1>5. RecoverHead(w)'
  <2>1. RecoverHead(w)
    BY <1>1 DEF HeadFacts
  <2> QED
    BY <1>1, <1>3, <2>1 DEF RecoverHead, Recoverers, Same, Touched, Working
<1>6. StopHead(w)'
  <2> SUFFICES ASSUME t.kind = "stop" PROVE StopHead(w)'
    BY <1>1 DEF StopHead
  <2>1. StopHead(w)
    BY <1>1 DEF HeadFacts
  <2>2. view[w].job \in Jobs \cup {None}
    BY DEF TypeOK, View
  <2>3. view[w].job \in Jobs /\ StrategyOf[view[w].job] = t.id =>
          Same(view[w].job) \/ Touched(view[w].job)
    BY <1>2 DEF Undisturbed, Wallet, TasksOf
  <2> QED
    BY <1>1, <2>1, <2>2, <2>3 DEF StopHead, Same, Touched, Reconciled
<1>7. SendingHead(w)'
  <2>1. SendingHead(w) /\ RunHead(w) /\ RecoverHead(w) /\ StopHead(w)
    BY <1>1 DEF HeadFacts
  <2>2. phase[w] = "sending" => t.kind # "stop" /\ jState[j] = "running"
    BY <1>2, <2>1 DEF RunHead, RecoverHead, StopHead, Working, Recoverers, TasksOf, Task
  <2> QED
    BY <1>1, <1>3, <2>1, <2>2 DEF SendingHead, Same, Touched
<1> QED
  BY <1>1, <1>4, <1>5, <1>6, <1>7 DEF HeadFacts

\* A wallet with an empty chain, or whose next task starts from the beginning.
LEMMA StartFacts ==
  ASSUME NEW w \in Wallets, phase'[w] = "start",
         lock'[w] = <<>> \/ Head(lock'[w]) \in Later
  PROVE  HeadFacts(w)'
  BY DEF HeadFacts, RunHead, RecoverHead, StopHead, SendingHead, Later, Working

\* After a release the next task of the chain starts, and it is no run.
LEMMA ReleasedFacts ==
  ASSUME TypeOK, RunsFirst, NEW w \in Wallets, lock[w] # <<>>, Release(w)
  PROVE  HeadFacts(w)'
<1>1. lock'[w] = Tail(lock[w]) /\ phase'[w] = "start"
  BY DEF TypeOK, Release
<1>2. lock'[w] \in Seq(Later)
  BY <1>1 DEF RunsFirst
<1>3. lock'[w] # <<>> => Head(lock'[w]) \in Later
  BY <1>2, HeadTailProperties
<1> QED
  BY <1>1, <1>3, StartFacts

-----------------------------------------------------------------------------
(* Steps that hold no wallet *)

\* createPlannedJob: one new job, after asking for an open one.
Creates ==
  \E s \in Strategies : \E j \in Unused(s) :
    CanCreate(s) /\ jState' = [jState EXCEPT ![j] = "planned"] /\ UNCHANGED jTxs

\* Monitor and API create a job or reconcile one; they touch no other.
LEMMA OutsideTouches ==
  ASSUME TypeOK, OutsideStep
  PROVE  (\A j \in Jobs : Same(j) \/ Touched(j)) /\ CreatedAlone
<1>1. CASE UNCHANGED <<jState, jTxs>>
  BY <1>1 DEF Same, CreatedAlone
<1>2. CASE Creates
  <2>1. PICK s \in Strategies : \E j \in Unused(s) :
          CanCreate(s) /\ jState' = [jState EXCEPT ![j] = "planned"] /\ UNCHANGED jTxs
    BY <1>2 DEF Creates
  <2>2. PICK j \in Unused(s) :
          CanCreate(s) /\ jState' = [jState EXCEPT ![j] = "planned"] /\ UNCHANGED jTxs
    BY <2>1
  <2> QED
    BY <2>2 DEF TypeOK, Unused, CanCreate, Same, Touched, CreatedAlone
<1>3. ASSUME NEW j \in Jobs, ApiInspectJob(j)
      PROVE  (\A k \in Jobs : Same(k) \/ Touched(k)) /\ CreatedAlone
  BY <1>3 DEF ApiInspectJob, TypeOK, Same, Touched, CreatedAlone
<1>4. CASE MonitorStep
  BY <1>1, <1>2, <1>4
  DEF MonitorStep, MonitorBegin, MonitorSkip, MonitorVerdict, MonitorPlan,
      MonitorRefused, Insert, Creates, durable
<1>5. CASE (\E j \in Jobs : RunnerClaim(j)) \/ SupervisorBegin
  BY <1>1, <1>5 DEF RunnerClaim, SupervisorBegin, durable
<1>6. CASE ApiRequest
  BY <1>1, <1>3, <1>6
  DEF ApiRequest, ApiStop, PutBegin, PutDisabled, StartBegin, ExecuteBegin,
      ResumeMonitoringBegin, Suspend, ApiResumeJob, ApiPause, durable
<1>7. CASE ApiAnswer
  <2>1. PICK req \in requests :
          RequestFails(req) \/ PutFinish(req) \/ StartFinish(req)
            \/ ExecuteFinish(req) \/ ResumeMonitoringFinish(req)
    BY <1>7 DEF ApiAnswer
  <2>2. req.s \in Strategies
    BY DEF TypeOK, Request
  <2> QED
    BY <1>1, <1>2, <2>1, <2>2
    DEF RequestFails, PutFinish, StartFinish, ExecuteFinish, ResumeMonitoringFinish,
        Insert, Creates, durable
<1> QED
  BY <1>4, <1>5, <1>6, <1>7 DEF OutsideStep

\* Creating a job and reconciling one are steps of its life.
LEMMA TouchedLives ==
  ASSUME NEW j \in Jobs, Same(j) \/ Touched(j)
  PROVE  Lifecycle!Step(j)
  BY DEF Same, Touched, Reconciled, Lifecycle!Step, Lifecycle!Stays, Lifecycle!Create,
         Lifecycle!Goes, Lifecycle!Settle, Lifecycle!Settles

\* Whatever chains a task leaves phase and view of a busy wallet alone.
LEMMA OutsideWaits ==
  ASSUME TypeOK, OutsideStep
  PROVE  /\ UNCHANGED phase
         /\ UNCHANGED view \/ \E j \in Jobs : RunnerClaim(j)
  BY DEF OutsideStep, MonitorStep, MonitorBegin, MonitorSkip, MonitorVerdict,
         MonitorPlan, MonitorRefused, LeavePass, RunnerClaim, SupervisorBegin,
         ApiRequest, ApiStop, PutBegin, PutDisabled, StartBegin, ExecuteBegin,
         ResumeMonitoringBegin, Suspend, ApiResumeJob, ApiInspectJob, ApiPause,
         ApiAnswer, RequestFails, PutFinish, StartFinish, ExecuteFinish,
         ResumeMonitoringFinish, Resumed, durable, volatile

\* The runner claims a planned job whose idle wallet has no uncertain transaction.
LEMMA ClaimFacts ==
  ASSUME TypeOK, NEW j \in Jobs, RunnerClaim(j), HeadFacts(Wallet(j))
  PROVE  HeadFacts(Wallet(j))'
<1> DEFINE w == Wallet(j)
           t == [kind |-> "run", id |-> j]
<1>1. w \in Wallets
  BY ExecutorAssumption DEF Wallet
<1>2. lock[w] = <<>> /\ lock' = [lock EXCEPT ![w] = Append(@, t)]
  BY DEF RunnerClaim, WalletBusy, Enqueue
<1>3. t \in Task /\ lock[w] \in Seq(Task)
  BY <1>1 DEF TypeOK, Task
<1>4. lock'[w] # <<>> /\ Head(lock'[w]) = t
  BY <1>1, <1>2, <1>3, AppendProperties, HeadTailAppend DEF TypeOK
<1>5. phase'[w] = "start" /\ jState'[j] = "planned"
  BY <1>2 DEF HeadFacts, RunnerClaim, durable
<1>6. ~WalletUncertain(w)'
  BY DEF RunnerClaim, durable, WalletUncertain, Wallet
<1> QED
  BY <1>4, <1>5, <1>6
  DEF HeadFacts, RunHead, RecoverHead, StopHead, SendingHead, HeadJob, Working, Recoverers

\* The facts about head tasks survive every step that holds no wallet.
LEMMA OutsideFacts ==
  ASSUME TypeOK, QueueOwn, OutsideStep, NEW w \in Wallets, HeadFacts(w)
  PROVE  HeadFacts(w)'
<1>1. Chained(w) /\ phase'[w] = phase[w]
  BY ChainsOwnTasks, OutsideWaits
<1>2. ASSUME NEW t \in TasksOf(w), lock'[w] = Append(lock[w], t)
      PROVE  /\ lock'[w] # <<>>
             /\ Head(lock'[w]) = IF lock[w] = <<>> THEN t ELSE Head(lock[w])
  <2>1. t \in Task /\ lock[w] \in Seq(Task)
    BY DEF TypeOK, TasksOf
  <2> QED
    BY <1>2, <2>1, AppendProperties, HeadTailAppend
<1>3. ASSUME NEW j \in Jobs, RunnerClaim(j), Wallet(j) = w
      PROVE  HeadFacts(w)'
  BY <1>3, ClaimFacts
<1>4. CASE lock[w] # <<>>
  <2>1. lock'[w] # <<>> /\ Head(lock'[w]) = Head(lock[w])
    BY <1>1, <1>2, <1>4 DEF Chained
  <2>2. view'[w] = view[w]
    <3>1. ASSUME NEW j \in Jobs, RunnerClaim(j)
          PROVE  view'[w] = view[w]
      BY <1>4, <3>1 DEF RunnerClaim, WalletBusy, TypeOK
    <3> QED
      BY <3>1, OutsideWaits
  <2> QED
    BY <1>1, <1>4, <2>1, <2>2, OutsideTouches, UndisturbedFacts DEF Undisturbed
<1>5. CASE lock[w] = <<>> /\ ~ \E j \in Jobs : RunnerClaim(j) /\ Wallet(j) = w
  <2>1. phase'[w] = "start"
    BY <1>1, <1>5 DEF HeadFacts
  <2>2. lock'[w] = <<>> \/ Head(lock'[w]) \in Later
    <3>1. ASSUME NEW t \in TasksOf(w), t.kind = "run"
          PROVE  t.id \in Jobs /\ Wallet(t.id) = w
      BY <3>1 DEF TasksOf, Task
    <3>2. \A t \in TasksOf(w) : t \in Task
      BY DEF TasksOf
    <3> QED
      BY <1>1, <1>2, <1>5, <3>1, <3>2 DEF Chained, Later
  <2> QED
    BY <2>1, <2>2, StartFacts
<1> QED
  BY <1>3, <1>4, <1>5

-----------------------------------------------------------------------------
(* Steps of the task that holds a wallet *)

\* A task moves one job at a time, of its own wallet, and never creates one.
TaskLife(w) ==
  \A j \in Jobs :
    Same(j) \/ (Wallet(j) = w /\ Lifecycle!Step(j) /\ jState[j] # "unused")

\* Ending or moving the head's job is a step of that job's life.
LEMMA HeadMoves ==
  ASSUME TypeOK, QueueOwn, NEW w \in Wallets, lock[w] # <<>>,
         Head(lock[w]).kind # "stop", jState[HeadJob(w)] # "unused",
         \A k \in Jobs : k # HeadJob(w) => Same(k), Lifecycle!Step(HeadJob(w))
  PROVE  TaskLife(w)
  BY HeadOwn DEF TaskLife

\* The runner's wallet stays without an uncertain transaction of a recovery job
\* while the runner only moves its own job, which is not in recovery.
LEMMA RunStaysCertain ==
  ASSUME TypeOK, NEW w \in Wallets, ~WalletUncertain(w),
         jState'[HeadJob(w)] # "recovery", \A k \in Jobs : k # HeadJob(w) => Same(k)
  PROVE  ~WalletUncertain(w)'
  BY DEF WalletUncertain, Same, Wallet

\* The runner: planned to running, then to recovery, given up or completed; a
\* dry run completes without a transaction.
LEMMA RunnerLife ==
  ASSUME LInv, NEW w \in Wallets, RunnerStep(w)
  PROVE  TaskLife(w) /\ HeadFacts(w)'
<1> DEFINE j == HeadJob(w)
<1>0. TypeOK /\ QueueOwn /\ RunsFirst
  BY DEF LInv, IInv
<1>1. lock[w] # <<>> /\ Head(lock[w]).kind = "run"
  BY DEF RunnerStep, RunStart, RunCheckPass, RunDryRun, RunThrow, RunReverted, Holds
<1>2. RunHead(w) /\ j \in Jobs /\ Wallet(j) = w
  BY <1>0, <1>1, HeadOwn DEF LInv, HeadFacts
<1>3. CASE RunStart(w)
  <2>1. jState[j] = "planned" /\ jTxs[j] = {}
    BY <1>2, <1>3 DEF RunHead, RunStart, Holds, LInv, Fresh
  <2>2. /\ jState'[j] = "running" /\ jTxs' = jTxs
        /\ \A k \in Jobs : k # j => Same(k)
    BY <1>0, <1>2, <1>3 DEF RunStart, MarkRunning, TypeOK, Same
  <2>3. Lifecycle!Step(j)
    BY <2>1, <2>2 DEF Lifecycle!Step, Lifecycle!Start, Lifecycle!Goes
  <2>4. TaskLife(w)
    BY <1>0, <1>1, <2>1, <2>2, <2>3, HeadMoves
  <2>5. ~WalletUncertain(w)'
    BY <1>0, <1>1, <1>2, <2>2, RunStaysCertain DEF RunHead
  <2>6. lock' = lock /\ phase'[w] = "precheck" /\ HeadJob(w)' = j
    BY <1>0, <1>3 DEF RunStart, Advance, TypeOK, HeadJob
  <2>7. HeadFacts(w)'
    BY <1>1, <2>1, <2>2, <2>5, <2>6
    DEF HeadFacts, RunHead, RecoverHead, StopHead, SendingHead, Working, Recoverers
  <2> QED
    BY <2>4, <2>7
<1>4. CASE RunCheckPass(w)
  <2>1. /\ UNCHANGED <<jState, jTxs>> /\ lock' = lock /\ phase'[w] = "live"
        /\ HeadJob(w)' = j /\ jState[j] = "running"
    BY <1>0, <1>2, <1>4
    DEF RunCheckPass, Advance, durable, TypeOK, RunHead, Holds, Working, HeadJob
  <2>2. \A k \in Jobs : Same(k)
    BY <2>1 DEF Same
  <2>3. ~WalletUncertain(w)'
    BY <1>1, <1>2, <2>1 DEF RunHead, WalletUncertain, Wallet
  <2>4. HeadFacts(w)'
    BY <1>1, <2>1, <2>3
    DEF HeadFacts, RunHead, RecoverHead, StopHead, SendingHead, Working, Recoverers
  <2> QED
    BY <2>2, <2>4 DEF TaskLife
<1>5. CASE RunDryRun(w)
  <2>1. jState[j] = "running" /\ jTxs[j] = {}
    BY <1>2, <1>5 DEF RunHead, RunDryRun, Holds, Working
  <2>2. /\ jState'[j] = "completed" /\ jTxs' = jTxs
        /\ \A k \in Jobs : k # j => Same(k)
    BY <1>0, <1>2, <1>5 DEF RunDryRun, TypeOK, Same
  <2>3. Lifecycle!Step(j)
    BY <2>1, <2>2 DEF Lifecycle!Step, Lifecycle!Commit, Lifecycle!Goes, Lifecycle!Uncertain
  <2> QED
    BY <1>0, <1>1, <1>5, <2>1, <2>2, <2>3, HeadMoves, ReleasedFacts DEF RunDryRun
<1>6. ASSUME NEW txs \in Reconciled(jTxs[j]), RunCatch(w, txs),
             phase[w] \in Working
      PROVE  TaskLife(w) /\ HeadFacts(w)'
  <2>1. jState[j] = "running"
    BY <1>1, <1>2, <1>6 DEF RunHead
  <2>2. jTxs'[j] = txs /\ \A k \in Jobs : k # j => Same(k)
    BY <1>0, <1>2, <1>6 DEF RunCatch, TypeOK, Same
  <2>3. \/ jState'[j] = "failed" /\ (txs = {"failed"} \/ txs = {})
        \/ jState'[j] = "recovery"
    BY <1>0, <1>2, <1>6 DEF RunCatch, CatchAbandons, TypeOK
  <2>4. txs \in Lifecycle!Settles(jTxs[j])
    BY <1>6 DEF Reconciled, Lifecycle!Settles
  <2>5. Lifecycle!Step(j)
    BY <2>1, <2>2, <2>3, <2>4
    DEF Lifecycle!Step, Lifecycle!GiveUp, Lifecycle!Interrupt, Lifecycle!Goes,
        Lifecycle!Uncertain, Lifecycle!Effective
  <2> QED
    BY <1>0, <1>1, <1>6, <2>1, <2>2, <2>5, HeadMoves, ReleasedFacts DEF RunCatch
<1>7. CASE RunThrow(w)
  <2>1. jTxs[j] \in Reconciled(jTxs[j])
    BY DEF Reconciled
  <2> QED
    BY <1>6, <1>7, <2>1 DEF RunThrow, Holds, Working
<1>8. CASE RunReverted(w)
  <2>1. (jTxs[j] \ {"open"}) \cup {"failed"} \in Reconciled(jTxs[j])
    BY <1>8 DEF Reconciled, RunReverted
  <2> QED
    BY <1>6, <1>8, <2>1 DEF RunReverted, Holds, Working
<1> QED
  BY <1>3, <1>4, <1>5, <1>7, <1>8 DEF RunnerStep

\* A recovery attempt: resumed only with an effect to build on, given up only
\* without one, and otherwise back in recovery.
LEMMA RecoveryLife ==
  ASSUME LInv, NEW w \in Wallets, RecoveryStep(w)
  PROVE  TaskLife(w) /\ HeadFacts(w)'
<1> DEFINE j == HeadJob(w)
<1>0. TypeOK /\ QueueOwn /\ RunsFirst
  BY DEF LInv, IInv
<1>1. /\ lock[w] # <<>> /\ Head(lock[w]).kind \in Recoverers
      /\ Head(lock[w]).kind \notin {"run", "stop"}
  BY DEF RecoveryStep, RecoverAlreadyDone, RecoverInspect, RecoverRestart, RecoverResume,
         RecoverInconclusive, RecoverThrow, RecoverReverted, Holds, Recoverers
<1>2. RecoverHead(w) /\ j \in Jobs /\ Wallet(j) = w
  BY <1>0, <1>1, HeadOwn DEF LInv, HeadFacts
<1>3. CASE RecoverAlreadyDone(w)
  <2>1. \A k \in Jobs : Same(k)
    BY <1>3 DEF RecoverAlreadyDone, Same
  <2> QED
    BY <1>0, <1>1, <1>3, <2>1, ReleasedFacts DEF RecoverAlreadyDone, TaskLife
<1>4. CASE RecoverInspect(w)
  <2>1. /\ UNCHANGED <<jState, jTxs>> /\ lock' = lock /\ phase'[w] = "inspect"
        /\ HeadJob(w)' = j /\ jState[j] \in {"recovery", "failed"}
    BY <1>0, <1>4 DEF RecoverInspect, durable, TypeOK, HeadJob
  <2>2. HeadFacts(w)'
    BY <1>1, <2>1
    DEF HeadFacts, RunHead, RecoverHead, StopHead, SendingHead, Working, Recoverers
  <2> QED
    BY <2>1, <2>2 DEF TaskLife, Same
<1>5. CASE RecoverRestart(w)
  <2>1. jState[j] \in {"recovery", "failed"}
    BY <1>1, <1>2, <1>5 DEF RecoverHead, RecoverRestart, Holds
  <2>2. PICK txs \in Reconciled(jTxs[j]) :
          RestartSafe(txs) /\ jTxs' = [jTxs EXCEPT ![j] = txs]
    BY <1>5 DEF RecoverRestart
  <2>3. /\ jState'[j] = "failed" /\ jTxs'[j] = txs
        /\ \A k \in Jobs : k # j => Same(k)
    BY <1>0, <1>2, <1>5, <2>2 DEF RecoverRestart, TypeOK, Same
  <2>4. txs \in Lifecycle!Settles(jTxs[j])
    BY DEF Reconciled, Lifecycle!Settles
  <2>5. Lifecycle!Step(j)
    BY <2>1, <2>2, <2>3, <2>4
    DEF Lifecycle!Step, Lifecycle!GiveUp, Lifecycle!Goes, RestartSafe,
        Lifecycle!Uncertain, Lifecycle!Effective
  <2> QED
    BY <1>0, <1>1, <1>5, <2>1, <2>3, <2>5, HeadMoves, ReleasedFacts DEF RecoverRestart
<1>6. CASE RecoverResume(w)
  <2>1. jState[j] \in {"recovery", "failed"}
    BY <1>1, <1>2, <1>6 DEF RecoverHead, RecoverResume, Holds
  <2>2. PICK txs \in Reconciled(jTxs[j]) :
          /\ "open" \notin txs /\ "confirmed" \in txs
          /\ jTxs' = [jTxs EXCEPT ![j] = txs]
    BY <1>6 DEF RecoverResume
  <2>3. jState[j] = "recovery"
    \* a job given up has nothing to resume from
    <3> SUFFICES ASSUME jState[j] = "failed" PROVE FALSE
      BY <2>1
    <3>1. RestartSafe(jTxs[j])
      BY <1>2 DEF LInv, GivenUpHasNoEffect
    <3> QED
      BY <2>2, <3>1 DEF RestartSafe, Reconciled
  <2>4. /\ jState'[j] = "running" /\ jTxs'[j] = txs
        /\ \A k \in Jobs : k # j => Same(k)
    BY <1>0, <1>2, <1>6, <2>2 DEF RecoverResume, MarkRunning, TypeOK, Same
  <2>5. txs \in Lifecycle!Settles(jTxs[j])
    BY DEF Reconciled, Lifecycle!Settles
  <2>6. Lifecycle!Step(j)
    BY <2>2, <2>3, <2>4, <2>5
    DEF Lifecycle!Step, Lifecycle!Resume, Lifecycle!Goes,
        Lifecycle!Uncertain, Lifecycle!Effective
  <2>7. TaskLife(w)
    BY <1>0, <1>1, <2>3, <2>4, <2>6, HeadMoves
  <2>8. lock' = lock /\ phase'[w] = "live" /\ HeadJob(w)' = j
    BY <1>0, <1>6 DEF RecoverResume, TypeOK, HeadJob
  <2>9. HeadFacts(w)'
    BY <1>1, <2>4, <2>8
    DEF HeadFacts, RunHead, RecoverHead, StopHead, SendingHead, Working, Recoverers
  <2> QED
    BY <2>7, <2>9
<1>7. CASE RecoverInconclusive(w)
  <2>1. jState[j] \in {"recovery", "failed"}
    BY <1>1, <1>2, <1>7 DEF RecoverHead, RecoverInconclusive, Holds
  <2>2. PICK txs \in Reconciled(jTxs[j]) : jTxs' = [jTxs EXCEPT ![j] = txs]
    BY <1>7 DEF RecoverInconclusive
  <2>3. /\ jState'[j] = jState[j] /\ jTxs'[j] = txs
        /\ \A k \in Jobs : k # j => Same(k)
    BY <1>0, <1>2, <1>7, <2>2 DEF RecoverInconclusive, TypeOK, Same
  <2>4. Lifecycle!Step(j)
    BY <2>1, <2>2, <2>3
    DEF Lifecycle!Step, Lifecycle!Settle, Lifecycle!Settles, Reconciled
  <2> QED
    BY <1>0, <1>1, <1>7, <2>1, <2>3, <2>4, HeadMoves, ReleasedFacts DEF RecoverInconclusive
<1>8. ASSUME NEW txs \in Reconciled(jTxs[j]), RecoverCatch(w, txs),
             phase[w] \in Working
      PROVE  TaskLife(w) /\ HeadFacts(w)'
  <2>1. jState[j] = "running"
    BY <1>1, <1>2, <1>8 DEF RecoverHead
  <2>2. /\ jState'[j] = "recovery" /\ jTxs'[j] = txs
        /\ \A k \in Jobs : k # j => Same(k)
    BY <1>0, <1>2, <1>8 DEF RecoverCatch, TypeOK, Same
  <2>3. Lifecycle!Step(j)
    BY <1>8, <2>1, <2>2
    DEF Lifecycle!Step, Lifecycle!Interrupt, Lifecycle!Goes, Lifecycle!Settles, Reconciled
  <2> QED
    BY <1>0, <1>1, <1>8, <2>1, <2>2, <2>3, HeadMoves, ReleasedFacts DEF RecoverCatch
<1>9. CASE RecoverThrow(w)
  <2>1. jTxs[j] \in Reconciled(jTxs[j])
    BY DEF Reconciled
  <2> QED
    BY <1>8, <1>9, <2>1 DEF RecoverThrow, Holds, Working
<1>10. CASE RecoverReverted(w)
  <2>1. (jTxs[j] \ {"open"}) \cup {"failed"} \in Reconciled(jTxs[j])
    BY <1>10 DEF Reconciled, RecoverReverted
  <2> QED
    BY <1>8, <1>10, <2>1 DEF RecoverReverted, Holds, Working
<1> QED
  BY <1>3, <1>4, <1>5, <1>6, <1>7, <1>9, <1>10 DEF RecoveryStep

\* Whoever signs for a job holds its wallet, and the job is running.
LEMMA SignerHead ==
  ASSUME LInv, NEW w \in Wallets, lock[w] # <<>>, Head(lock[w]).kind \in Signers,
         phase[w] \in Working
  PROVE  /\ HeadJob(w) \in Jobs /\ Wallet(HeadJob(w)) = w
         /\ jState[HeadJob(w)] = "running"
<1>1. HeadFacts(w) /\ TypeOK /\ QueueOwn
  BY DEF LInv, IInv
<1>2. HeadJob(w) \in Jobs /\ Wallet(HeadJob(w)) = w
  BY <1>1, HeadOwn DEF Signers
<1>3. Head(lock[w]).kind = "run" \/ Head(lock[w]).kind \in Recoverers
  BY DEF Signers, Recoverers
<1> QED
  BY <1>1, <1>2, <1>3 DEF HeadFacts, RunHead, RecoverHead

\* Sending and committing: one transaction at a time, and a commit only when
\* every transaction is settled and one took effect.
LEMMA SignerLife ==
  ASSUME LInv, NEW w \in Wallets, SignerStep(w)
  PROVE  TaskLife(w) /\ HeadFacts(w)'
<1> DEFINE j == HeadJob(w)
<1>0. TypeOK /\ QueueOwn /\ RunsFirst /\ HeadFacts(w)
  BY DEF LInv, IInv
<1>1. /\ lock[w] # <<>> /\ Head(lock[w]).kind \in Signers
      /\ phase[w] \in {"live", "sending"}
  BY DEF SignerStep, TxBegin, TxSend, TxConfirmed, CommitRebalance, CommitHoldQuote,
         CommitFeeCollection, Finish, Holds
<1>2. /\ j \in Jobs /\ Wallet(j) = w /\ jState[j] = "running"
      /\ Head(lock[w]).kind # "stop"
  BY <1>1, SignerHead DEF Working, Signers
<1>3. Head(lock[w]).kind = "run" => ~WalletUncertain(w)
  BY <1>0, <1>1 DEF HeadFacts, RunHead
\* what is left to show when the task keeps the wallet
<1>4. ASSUME jState'[j] = "running", \A k \in Jobs : k # j => Same(k),
             lock' = lock, phase'[w] \in {"live", "sending"},
             phase'[w] = "sending" => "open" \notin jTxs'[j]
      PROVE  HeadFacts(w)'
  <2>1. HeadJob(w)' = j
    BY <1>4 DEF HeadJob
  <2>2. Head(lock[w]).kind = "run" => ~WalletUncertain(w)'
    BY <1>0, <1>3, <1>4, RunStaysCertain
  <2> QED
    BY <1>1, <1>2, <1>4, <2>1, <2>2
    DEF HeadFacts, RunHead, RecoverHead, StopHead, SendingHead, Working
<1>5. CASE TxBegin(w)
  <2>1. /\ UNCHANGED <<jState, jTxs>> /\ lock' = lock /\ phase'[w] = "sending"
        /\ "open" \notin jTxs[j]
    BY <1>0, <1>5 DEF TxBegin, Advance, durable, TypeOK
  <2>2. \A k \in Jobs : Same(k)
    BY <2>1 DEF Same
  <2> QED
    BY <1>2, <1>4, <2>1, <2>2 DEF TaskLife
<1>6. CASE TxSend(w)
  <2>1. "open" \notin jTxs[j]
    BY <1>0, <1>1, <1>6 DEF HeadFacts, SendingHead, TxSend, Holds
  <2>2. /\ jState' = jState /\ jTxs'[j] = jTxs[j] \cup {"open"}
        /\ lock' = lock /\ phase'[w] = "live" /\ \A k \in Jobs : k # j => Same(k)
    BY <1>0, <1>2, <1>6 DEF TxSend, Advance, TypeOK, Same
  <2>3. Lifecycle!Step(j)
    BY <1>2, <2>1, <2>2 DEF Lifecycle!Step, Lifecycle!Send, Lifecycle!Goes, Lifecycle!Uncertain
  <2> QED
    BY <1>0, <1>1, <1>2, <1>4, <2>2, <2>3, HeadMoves
<1>7. CASE TxConfirmed(w)
  <2>1. /\ jState' = jState /\ jTxs'[j] = (jTxs[j] \ {"open"}) \cup {"confirmed"}
        /\ "open" \in jTxs[j] /\ \A k \in Jobs : k # j => Same(k)
        /\ lock' = lock /\ phase'[w] = "live"
    BY <1>0, <1>2, <1>7 DEF TxConfirmed, Holds, volatile, TypeOK, Same
  <2>2. Lifecycle!Step(j)
    BY <1>2, <2>1 DEF Lifecycle!Step, Lifecycle!Settle, Lifecycle!Settles
  <2> QED
    BY <1>0, <1>1, <1>2, <1>4, <2>1, <2>2, HeadMoves
<1>8. CASE Finish(w)
  <2>1. /\ jState'[j] = "completed" /\ jTxs' = jTxs
        /\ "open" \notin jTxs[j] /\ "confirmed" \in jTxs[j]
        /\ \A k \in Jobs : k # j => Same(k)
    BY <1>0, <1>2, <1>8 DEF Finish, TypeOK, Same
  <2>2. Lifecycle!Step(j)
    BY <1>2, <2>1
    DEF Lifecycle!Step, Lifecycle!Commit, Lifecycle!Goes,
        Lifecycle!Uncertain, Lifecycle!Effective
  <2> QED
    BY <1>0, <1>1, <1>2, <1>8, <2>1, <2>2, HeadMoves, ReleasedFacts DEF Finish
<1> QED
  BY <1>5, <1>6, <1>7, <1>8
  DEF SignerStep, CommitRebalance, CommitHoldQuote, CommitFeeCollection

\* Stopping a strategy: its open job is cancelled only when nothing is uncertain,
\* and it is the job the stop read.
LEMMA StopLife ==
  ASSUME LInv, NEW w \in Wallets, StopStep(w)
  PROVE  TaskLife(w) /\ HeadFacts(w)'
<1> DEFINE s == Head(lock[w]).id
           j == view[w].job
<1>0. TypeOK /\ QueueOwn /\ RunsFirst /\ HeadFacts(w)
  BY DEF LInv, IInv
<1>1. lock[w] # <<>> /\ Head(lock[w]).kind = "stop"
  BY DEF StopStep, StopRefused, StopRead, StopInspected, StopInconclusive,
         StopArchive, StopRolledBack, Holds
<1>2. /\ StopHead(w) /\ j \in Jobs \cup {None}
      /\ HeadStrategy(w) = s /\ WalletOf[s] = w
  BY <1>0, <1>1, HeadOwn DEF HeadFacts, TypeOK, View
<1>3. CASE StopRefused(w) \/ StopRolledBack(w)
  <2>1. UNCHANGED <<jState, jTxs>> /\ Release(w)
    BY <1>3 DEF StopRefused, StopRolledBack, durable
  <2> QED
    BY <1>0, <1>1, <2>1, ReleasedFacts DEF TaskLife, Same
<1>4. CASE StopRead(w)
  <2>1. UNCHANGED <<jState, jTxs>> /\ lock' = lock
    BY <1>4 DEF StopRead, durable
  <2>2. TaskLife(w)
    BY <2>1 DEF TaskLife, Same
  <2>3. CASE view'[w].job = None /\ phase'[w] = "archive"
    BY <1>1, <2>1, <2>2, <2>3
    DEF HeadFacts, RunHead, RecoverHead, StopHead, SendingHead, Recoverers
  <2>4. ASSUME NEW k \in OpenJobs(s), jState[k] \in {"planned", "recovery"},
               view'[w].job = k,
               phase'[w] = IF jState[k] = "planned" THEN "archive" ELSE "inspect"
        PROVE  HeadFacts(w)'
    <3>1. k \in Jobs /\ StrategyOf[k] = s
      BY DEF OpenJobs
    <3>2. jState[k] = "planned" => jTxs[k] = {}
      BY <3>1 DEF LInv, Fresh
    <3>3. jState'[k] = jState[k] /\ jTxs'[k] = jTxs[k] /\ Head(lock'[w]).id = s
      BY <2>1
    <3>4. StopHead(w)'
      BY <2>4, <3>1, <3>2, <3>3 DEF StopHead
    <3> QED
      BY <1>1, <2>1, <2>4, <3>4
      DEF HeadFacts, RunHead, RecoverHead, SendingHead, Recoverers
  <2>5. \/ view'[w].job = None /\ phase'[w] = "archive"
        \/ \E k \in OpenJobs(s) :
             /\ jState[k] \in {"planned", "recovery"} /\ view'[w].job = k
             /\ phase'[w] = IF jState[k] = "planned" THEN "archive" ELSE "inspect"
    BY <1>0, <1>2, <1>4 DEF StopRead, TypeOK, NoView, OnlyJob
  <2> QED
    BY <2>2, <2>3, <2>4, <2>5
<1>5. ASSUME NEW txs \in Reconciled(jTxs[j]), jTxs' = [jTxs EXCEPT ![j] = txs],
             UNCHANGED jState, phase[w] = "inspect"
      PROVE  TaskLife(w) /\ jTxs'[j] = txs
  <2>1. j \in Jobs /\ StrategyOf[j] = s /\ jState[j] = "recovery"
    BY <1>1, <1>2, <1>5 DEF StopHead
  <2>2. jTxs'[j] = txs /\ \A k \in Jobs : k # j => Same(k)
    BY <1>0, <1>5, <2>1 DEF TypeOK, Same
  <2>3. Lifecycle!Step(j)
    BY <1>5, <2>1, <2>2 DEF Lifecycle!Step, Lifecycle!Settle, Lifecycle!Settles, Reconciled
  <2> QED
    BY <1>2, <2>1, <2>2, <2>3 DEF TaskLife, Wallet
<1>6. CASE StopInspected(w)
  <2>1. PICK txs \in Reconciled(jTxs[j]) :
          "open" \notin txs /\ jTxs' = [jTxs EXCEPT ![j] = txs]
    BY <1>6 DEF StopInspected
  <2>2. /\ UNCHANGED <<jState, lock, view>> /\ phase[w] = "inspect"
        /\ phase'[w] = "archive"
    BY <1>0, <1>6 DEF StopInspected, Holds, Advance, TypeOK
  <2>3. TaskLife(w) /\ jTxs'[j] = txs
    BY <1>5, <2>1, <2>2
  <2>4. HeadFacts(w)'
    BY <1>1, <1>2, <2>1, <2>2, <2>3
    DEF HeadFacts, RunHead, RecoverHead, StopHead, SendingHead, Recoverers
  <2> QED
    BY <2>3, <2>4
<1>7. CASE StopInconclusive(w)
  <2>1. PICK txs \in Reconciled(jTxs[j]) : jTxs' = [jTxs EXCEPT ![j] = txs]
    BY <1>7 DEF StopInconclusive
  <2>2. UNCHANGED jState /\ phase[w] = "inspect" /\ Release(w)
    BY <1>7 DEF StopInconclusive, Holds
  <2> QED
    BY <1>0, <1>1, <1>5, <2>1, <2>2, ReleasedFacts
<1>8. CASE StopArchive(w)
  <2>1. HeadFacts(w)'
    BY <1>0, <1>1, <1>8, ReleasedFacts DEF StopArchive
  <2>2. CASE j = None
    BY <1>8, <2>1, <2>2 DEF StopArchive, TaskLife, Same
  <2>3. CASE j # None
    <3>1. /\ j \in Jobs /\ StrategyOf[j] = s /\ "open" \notin jTxs[j]
          /\ jState[j] \in {"planned", "recovery"}
      BY <1>1, <1>2, <1>8, <2>3 DEF StopHead, StopArchive, Holds
    <3>2. /\ jState'[j] = "cancelled" /\ jTxs' = jTxs
          /\ \A k \in Jobs : k # j => Same(k)
      BY <1>0, <1>8, <2>3, <3>1 DEF StopArchive, TypeOK, Same
    <3>3. Lifecycle!Step(j)
      BY <3>1, <3>2 DEF Lifecycle!Step, Lifecycle!Cancel, Lifecycle!Goes, Lifecycle!Uncertain
    <3> QED
      BY <1>2, <2>1, <3>1, <3>2, <3>3 DEF TaskLife, Wallet
  <2> QED
    BY <2>2, <2>3
<1> QED
  BY <1>3, <1>4, <1>6, <1>7, <1>8 DEF StopStep

-----------------------------------------------------------------------------
(* Every step *)

WalletStep(w) == RunnerStep(w) \/ RecoveryStep(w) \/ SignerStep(w) \/ StopStep(w)

\* A task works on the chain, the phase and the view of its own wallet.
LEMMA TaskFrame ==
  ASSUME TypeOK, NEW w \in Wallets, WalletStep(w), NEW v \in Wallets, v # w
  PROVE  lock'[v] = lock[v] /\ phase'[v] = phase[v] /\ view'[v] = view[v]
<1> USE DEF TypeOK, Release, Advance, volatile
<1>1. CASE RunnerStep(w)
  BY <1>1 DEF RunnerStep, RunStart, RunCheckPass, RunDryRun, RunThrow, RunReverted, RunCatch
<1>2. CASE RecoveryStep(w)
  BY <1>2 DEF RecoveryStep, RecoverAlreadyDone, RecoverInspect, RecoverRestart,
              RecoverResume, RecoverInconclusive, RecoverThrow, RecoverReverted,
              RecoverCatch
<1>3. CASE SignerStep(w)
  BY <1>3 DEF SignerStep, TxBegin, TxSend, TxConfirmed, CommitRebalance,
              CommitHoldQuote, CommitFeeCollection, Finish
<1>4. CASE StopStep(w)
  BY <1>4 DEF StopStep, StopRefused, StopRead, StopInspected, StopInconclusive,
              StopArchive, StopRolledBack
<1> QED
  BY <1>1, <1>2, <1>3, <1>4 DEF WalletStep

\* A step under a wallet's lock is a step in the life of one of its jobs, and
\* the facts about every head task survive it.
LEMMA WalletStepLife ==
  ASSUME LInv, NEW w \in Wallets, WalletStep(w)
  PROVE  JobSteps /\ CreatedAlone /\ \A v \in Wallets : HeadFacts(v)'
<1>1. TaskLife(w) /\ HeadFacts(w)'
  BY RunnerLife, RecoveryLife, SignerLife, StopLife DEF WalletStep
<1>2. JobSteps
  BY <1>1, TouchedLives DEF JobSteps, TaskLife
<1>3. CreatedAlone
  BY <1>1 DEF CreatedAlone, TaskLife, Same
<1>4. ASSUME NEW v \in Wallets, v # w
      PROVE  HeadFacts(v)'
  <2>1. TypeOK /\ QueueOwn /\ HeadFacts(v)
    BY DEF LInv, IInv
  <2>2. lock'[v] = lock[v] /\ phase'[v] = phase[v] /\ view'[v] = view[v]
    BY <1>4, <2>1, TaskFrame
  <2>3. CASE lock[v] = <<>>
    BY <2>1, <2>2, <2>3, StartFacts DEF HeadFacts
  <2>4. CASE lock[v] # <<>>
    <3>1. Undisturbed(v)
      BY <1>1, <1>4, <2>2, <2>4 DEF Undisturbed, TaskLife
    <3> QED
      BY <2>1, <3>1, UndisturbedFacts
  <2> QED
    BY <2>3, <2>4
<1> QED
  BY <1>1, <1>2, <1>3, <1>4

\* What a restart makes of a job that was left in state st.
AfterRestart(st) == IF st = "running" THEN "recovery" ELSE st

\* A restart interrupts the running jobs, also when the crash fell between the
\* two commits of a section; the process starts with idle wallets.
LEMMA CrashLife ==
  ASSUME LInv, CrashStep
  PROVE  JobSteps /\ CreatedAlone /\ \A w \in Wallets : HeadFacts(w)'
<1>0. TypeOK /\ QueueOwn
  BY DEF LInv, IInv
<1>1. ASSUME NEW ss, NEW js, Restart(ss, js)
      PROVE  /\ \A w \in Wallets : HeadFacts(w)'
             /\ \A j \in Jobs : jState'[j] = AfterRestart(js[j]) /\ jTxs'[j] = jTxs[j]
  <2>1. \A w \in Wallets : lock'[w] = <<>> /\ phase'[w] = "start"
    BY <1>1 DEF Restart
  <2>2. \A j \in Jobs : jState'[j] = AfterRestart(js[j]) /\ jTxs'[j] = jTxs[j]
    BY <1>1 DEF Restart, AfterRestart
  <2> QED
    BY <2>1, <2>2, StartFacts
<1>2. ASSUME NEW j \in Jobs, jState'[j] = AfterRestart(jState[j]), jTxs'[j] = jTxs[j]
      PROVE  Lifecycle!Step(j) /\ (jState[j] = "unused" => jState'[j] = "unused")
  BY <1>2 DEF AfterRestart, Lifecycle!Step, Lifecycle!Interrupt, Lifecycle!Stays,
              Lifecycle!Goes, Lifecycle!Settles
<1>3. CASE Crash
  <2>1. Restart(sState, jState)
    BY <1>3 DEF Crash
  <2> QED
    BY <1>1, <1>2, <2>1 DEF JobSteps, CreatedAlone
<1>4. ASSUME NEW s \in Strategies, CrashAfterInsert(s)
      PROVE  JobSteps /\ CreatedAlone /\ \A w \in Wallets : HeadFacts(w)'
  <2>1. PICK i \in Unused(s) : Restart(sState, [jState EXCEPT ![i] = "planned"])
    BY <1>4 DEF CrashAfterInsert
  <2>2. i \in Jobs /\ StrategyOf[i] = s /\ jState[i] = "unused" /\ OpenJobs(s) = {}
    BY <1>4 DEF Unused, CrashAfterInsert, CanCreate
  <2> DEFINE js == [jState EXCEPT ![i] = "planned"]
  <2>0. \A j \in Jobs : jState'[j] = AfterRestart(js[j]) /\ jTxs'[j] = jTxs[j]
    BY <1>1, <2>1
  <2>3. \A j \in Jobs : j # i =>
          jState'[j] = AfterRestart(jState[j]) /\ jTxs'[j] = jTxs[j]
    BY <1>0, <2>0 DEF TypeOK
  <2>4. jState'[i] = "planned" /\ jTxs'[i] = jTxs[i]
    BY <1>0, <2>0, <2>2 DEF TypeOK, AfterRestart
  <2>5. Lifecycle!Step(i)
    BY <2>2, <2>4 DEF Lifecycle!Step, Lifecycle!Create, Lifecycle!Goes
  <2>6. JobSteps
    BY <1>2, <2>3, <2>5 DEF JobSteps
  <2>7. CreatedAlone
    BY <1>2, <2>2, <2>3 DEF CreatedAlone
  <2> QED
    BY <1>1, <2>1, <2>6, <2>7
<1>5. ASSUME NEW w \in Wallets, CrashAfterJobState(w)
      PROVE  JobSteps /\ CreatedAlone /\ \A v \in Wallets : HeadFacts(v)'
  <2> DEFINE i == HeadJob(w)
  <2>1. lock[w] # <<>> /\ Head(lock[w]).kind \in Signers /\ phase[w] \in Working
    BY <1>5 DEF CrashAfterJobState, Holds, Signers, Working
  <2>2. i \in Jobs /\ jState[i] = "running"
    BY <2>1, SignerHead
  <2>3. PICK st \in {"completed", "recovery"} :
          /\ Restart(sState, [jState EXCEPT ![i] = st])
          /\ st = "completed" => Holds(w, {"run"}, "precheck")
    BY <1>5 DEF CrashAfterJobState
  <2>4. st = "completed" => jTxs[i] = {}
    BY <2>3 DEF LInv, HeadFacts, RunHead, Holds
  <2> DEFINE js == [jState EXCEPT ![i] = st]
  <2>0. \A j \in Jobs : jState'[j] = AfterRestart(js[j]) /\ jTxs'[j] = jTxs[j]
    BY <1>1, <2>3
  <2>5. \A j \in Jobs : j # i =>
          jState'[j] = AfterRestart(jState[j]) /\ jTxs'[j] = jTxs[j]
    BY <1>0, <2>0 DEF TypeOK
  <2>6. jState'[i] = st /\ jTxs'[i] = jTxs[i]
    BY <1>0, <2>0, <2>2 DEF TypeOK, AfterRestart
  <2>7. Lifecycle!Step(i)
    BY <2>2, <2>4, <2>6
    DEF Lifecycle!Step, Lifecycle!Commit, Lifecycle!Interrupt, Lifecycle!Goes,
        Lifecycle!Settles, Lifecycle!Uncertain
  <2>8. JobSteps
    BY <1>2, <2>5, <2>7 DEF JobSteps
  <2>9. CreatedAlone
    BY <1>2, <2>2, <2>5 DEF CreatedAlone
  <2> QED
    BY <1>1, <2>3, <2>8, <2>9
<1> QED
  BY <1>3, <1>4, <1>5 DEF CrashStep

\* Steps without a wallet create or reconcile jobs.
LEMMA OutsideLife ==
  ASSUME LInv, OutsideStep
  PROVE  JobSteps /\ CreatedAlone /\ \A w \in Wallets : HeadFacts(w)'
<1>1. TypeOK /\ QueueOwn /\ \A w \in Wallets : HeadFacts(w)
  BY DEF LInv, IInv
<1>2. JobSteps /\ CreatedAlone
  BY <1>1, OutsideTouches, TouchedLives DEF JobSteps
<1> QED
  BY <1>1, <1>2, OutsideFacts

\* Behind the head of a chain there is never a run: only the runner chains one,
\* on an idle wallet.
LEMMA RunsFirstKept ==
  ASSUME TypeOK, RunsFirst, Next
  PROVE  RunsFirst'
<1> SUFFICES ASSUME NEW w \in Wallets, lock'[w] # <<>>
             PROVE  Tail(lock'[w]) \in Seq(Later)
  BY DEF RunsFirst, Later, Task
<1>1. lock[w] \in Seq(Task) /\ (lock[w] # <<>> => Tail(lock[w]) \in Seq(Later))
  BY DEF TypeOK, RunsFirst
<1>2. CASE lock'[w] = lock[w]
  BY <1>1, <1>2
<1>3. CASE OutsideStep /\ lock'[w] # lock[w]
  <2>1. PICK t \in TasksOf(w) :
          lock'[w] = Append(lock[w], t) /\ (t.kind = "run" => RunnerClaim(t.id))
    BY <1>3, ChainsOwnTasks DEF Chained
  <2>2. t \in Task /\ (t.kind = "run" => lock[w] = <<>>)
    BY <2>1 DEF TasksOf, Task, RunnerClaim, WalletBusy
  <2>3. Tail(lock'[w]) = IF lock[w] = <<>> THEN <<>> ELSE Append(Tail(lock[w]), t)
    BY <1>1, <2>1, <2>2, HeadTailAppend
  <2>4. lock[w] # <<>> => t \in Later
    BY <2>2 DEF Later
  <2>5. CASE lock[w] = <<>>
    BY <2>3, <2>5, EmptySeq
  <2>6. CASE lock[w] # <<>>
    BY <1>1, <2>3, <2>4, <2>6, AppendProperties
  <2> QED
    BY <2>5, <2>6
<1>4. ASSUME NEW v \in Wallets, WalletStep(v), lock'[w] # lock[w]
      PROVE  Tail(lock'[w]) \in Seq(Later)
  <2>1. lock[w] # <<>> /\ lock'[w] = Tail(lock[w])
    BY <1>4, TaskStepMoves DEF WalletStep, TaskMoves, Release, TypeOK
  <2> QED
    BY <1>1, <2>1, HeadTailProperties
<1>5. CASE CrashStep
  <2>1. lock'[w] = <<>>
    BY <1>5 DEF CrashStep, Crash, CrashAfterInsert, CrashAfterJobState, Restart
  <2> QED
    BY <2>1
<1> QED
  BY <1>2, <1>3, <1>4, <1>5 DEF Next, OutsideStep, WalletStep

\* Every step of every actor is a step in the life of the jobs it moves.
LEMMA NextLife ==
  ASSUME LInv, Next
  PROVE  JobSteps /\ CreatedAlone /\ \A w \in Wallets : HeadFacts(w)'
  BY OutsideLife, WalletStepLife, CrashLife DEF Next, OutsideStep, WalletStep

\* At startup no wallet is busy and no job exists.
LEMMA InitLife == Init => LInv
<1> SUFFICES ASSUME Init PROVE LInv
  OBVIOUS
<1>1. IInv
  BY InitHeld
<1>2. \A w \in Wallets : lock[w] = <<>> /\ phase[w] = "start"
  BY DEF Init
<1>3. \A j \in Jobs : jState[j] = "unused" /\ jTxs[j] = {}
  BY DEF Init
<1> QED
  BY <1>1, <1>2, <1>3
  DEF LInv, RunsFirst, HeadFacts, Fresh, GivenUpHasNoEffect, OneOpenJob, IsOpen

\* The invariant is inductive.
LEMMA NextKeeps == LInv /\ [Next]_vars => LInv'
<1> SUFFICES ASSUME LInv, [Next]_vars PROVE LInv'
  OBVIOUS
<1>1. TypeOK /\ RunsFirst /\ Fresh /\ GivenUpHasNoEffect /\ OneOpenJob
  BY DEF LInv, IInv
<1>2. IInv'
  BY NextHeld DEF LInv
<1>3. CASE Next
  <2>1. JobSteps /\ CreatedAlone /\ \A w \in Wallets : HeadFacts(w)'
    BY <1>3, NextLife
  <2>2. (\A w \in Wallets : HeadFacts(w))'
    BY <2>1
  <2> QED
    BY <1>1, <1>2, <1>3, <2>1, <2>2, RunsFirstKept, FreshKept, GivenUpKept, OneOpenKept
    DEF LInv
<1>4. CASE UNCHANGED vars
  <2>1. UNCHANGED <<jState, jTxs, lock, phase, view>>
    BY <1>4 DEF vars, durable, volatile
  <2> QED
    BY <1>2, <2>1
    DEF LInv, RunsFirst, HeadFacts, RunHead, RecoverHead, StopHead, SendingHead, Fresh,
        GivenUpHasNoEffect, OneOpenJob, WalletUncertain, HeadJob
<1> QED
  BY <1>3, <1>4

\* The invariant holds for ever.
LEMMA LifeHolds == Spec => []LInv
  BY InitLife, NextKeeps, PTL DEF Spec

-----------------------------------------------------------------------------
(* Nothing is 'executing' without a job *)

Covered(s) == OpenJobs(s) # {} \/ (s \in DryRun /\ crashes > 0)

\* A quick start puts back a state its strategy had before, and was not executing.
RestoresNone == \A req \in requests : req.state # "executing"

\* A strategy that a step leaves alone, and whose jobs it does not close.
Untouched(s) ==
  /\ sState'[s] = "executing" => sState[s] = "executing"
  /\ \A j \in Jobs : StrategyOf[j] = s /\ IsOpen(jState[j]) => IsOpen(jState'[j])

\* What the head task does to the strategy it works for.
HeadCovers(s) ==
  sState'[s] = "executing" => OpenJobs(s)' # {} \/ Untouched(s)

LEMMA UntouchedCovered ==
  ASSUME NEW s \in Strategies, ExecutingHasJob, Untouched(s), sState'[s] = "executing",
         crashes \in Nat, crashes' \in Nat, crashes' >= crashes
  PROVE  Covered(s)'
<1>1. Covered(s)
  BY DEF ExecutingHasJob, Untouched, Covered
<1>2. CASE OpenJobs(s) # {}
  <2>1. PICK j \in Jobs : StrategyOf[j] = s /\ IsOpen(jState[j])
    BY <1>2 DEF OpenJobs
  <2>2. j \in OpenJobs(s)'
    BY <2>1 DEF Untouched, OpenJobs
  <2> QED
    BY <2>2 DEF Covered
<1>3. CASE s \in DryRun /\ crashes > 0
  BY <1>3 DEF Covered
<1> QED
  BY <1>1, <1>2, <1>3 DEF Covered

\* A job that is created or reconciled, or left alone, does not close.
LEMMA StaysOpen ==
  ASSUME NEW j \in Jobs, Same(j) \/ Touched(j), IsOpen(jState[j])
  PROVE  IsOpen(jState'[j])
BY DEF Same, Touched, IsOpen

\* Handlers, passes and the supervisor never write 'executing'.
LEMMA OutsideCovers ==
  ASSUME TypeOK, RestoresNone, OutsideStep
  PROVE  RestoresNone' /\ \A s \in Strategies : Untouched(s)
<1> USE ExecutorAssumption DEF TypeOK
<1>1. \A j \in Jobs : IsOpen(jState[j]) => IsOpen(jState'[j])
  BY OutsideTouches, StaysOpen
<1>2. CASE MonitorStep
  <2>1. \A s \in Strategies : sState'[s] = "executing" => sState[s] = "executing"
    BY <1>2 DEF MonitorStep, MonitorBegin, MonitorSkip, MonitorVerdict, MonitorPlan,
                MonitorRefused, LeavePass, Monitored, durable
  <2>2. requests' = requests
    BY <1>2 DEF MonitorStep, MonitorBegin, MonitorSkip, MonitorVerdict, MonitorPlan,
                MonitorRefused, LeavePass, durable
  <2> QED
    BY <1>1, <2>1, <2>2 DEF Untouched, RestoresNone
<1>3. CASE (\E j \in Jobs : RunnerClaim(j)) \/ SupervisorBegin
  <2>1. UNCHANGED <<sState, requests>>
    BY <1>3 DEF RunnerClaim, SupervisorBegin, durable
  <2> QED
    BY <1>1, <2>1 DEF Untouched, RestoresNone
<1>4. CASE ApiRequest
  <2>1. \A s \in Strategies : sState'[s] = "executing" => sState[s] = "executing"
    BY <1>4 DEF ApiRequest, ApiStop, PutBegin, PutDisabled, StartBegin, ExecuteBegin,
                ResumeMonitoringBegin, Suspend, ApiResumeJob, ApiInspectJob, ApiPause, durable
  <2>2. \A req \in requests' : req \in requests \/ req.state # "executing"
    <3>1. ASSUME NEW new, Suspend(new), new.state # "executing"
          PROVE  \A req \in requests' : req \in requests \/ req.state # "executing"
      BY <3>1 DEF Suspend
    <3>2. ASSUME NEW s \in Strategies,
                 PutBegin(s) \/ StartBegin(s) \/ ExecuteBegin(s) \/ ResumeMonitoringBegin(s)
          PROVE  \E new : Suspend(new) /\ new.state # "executing"
      BY <3>2 DEF PutBegin, StartBegin, ExecuteBegin, ResumeMonitoringBegin, OpenStates
    <3>3. ASSUME NEW s \in Strategies, ApiStop(s) \/ PutDisabled(s)
          PROVE  requests' = requests
      BY <3>3 DEF ApiStop, PutDisabled, volatile
    <3>4. ASSUME NEW j \in Jobs, ApiResumeJob(j) \/ ApiInspectJob(j)
          PROVE  requests' = requests
      BY <3>4 DEF ApiResumeJob, ApiInspectJob, volatile
    <3>5. ApiPause => requests' = requests
      BY DEF ApiPause, volatile
    <3> QED
      BY <1>4, <3>1, <3>2, <3>3, <3>4, <3>5 DEF ApiRequest
  <2> QED
    BY <1>1, <2>1, <2>2 DEF Untouched, RestoresNone
<1>5. CASE ApiAnswer
  <2>1. PICK req \in requests :
          RequestFails(req) \/ PutFinish(req) \/ StartFinish(req)
            \/ ExecuteFinish(req) \/ ResumeMonitoringFinish(req)
    BY <1>5 DEF ApiAnswer
  <2>2. req.s \in Strategies /\ req.state # "executing"
    BY DEF Request, RestoresNone
  <2>3. requests' \subseteq requests
    BY <2>1 DEF RequestFails, PutFinish, StartFinish, ExecuteFinish,
                ResumeMonitoringFinish, Resumed
  <2>4. \A s \in Strategies : sState'[s] = "executing" => sState[s] = "executing"
    BY <2>1, <2>2 DEF RequestFails, PutFinish, StartFinish, ExecuteFinish,
                      ResumeMonitoringFinish, durable
  <2> QED
    BY <1>1, <2>3, <2>4 DEF Untouched, RestoresNone
<1> QED
  BY <1>2, <1>3, <1>4, <1>5 DEF OutsideStep

\* The head task changes only its strategy and the jobs of it.
Confined(w) ==
  /\ \A s \in Strategies : s # HeadStrategy(w) => sState'[s] = sState[s]
  /\ \A j \in Jobs : StrategyOf[j] # HeadStrategy(w) => jState'[j] = jState[j]

\* The head's job is running in it, or its strategy is not left 'executing'.
LEMMA RunnerCovers ==
  ASSUME LInv, NEW w \in Wallets, RunnerStep(w), NEW s, s = HeadStrategy(w)
  PROVE  Confined(w) /\ HeadCovers(s)
<1> DEFINE j == HeadJob(w)
<1>1. lock[w] # <<>> /\ Head(lock[w]).kind = "run"
  BY DEF RunnerStep, RunStart, RunCheckPass, RunDryRun, RunThrow, RunReverted, Holds
<1>2. TypeOK /\ j \in Jobs /\ s = StrategyOf[j] /\ s \in Strategies
  BY <1>1, HeadOwn, ExecutorAssumption DEF LInv, IInv, HeadStrategy
<1>3. CASE RunStart(w)
  <2>1. /\ jState' = [jState EXCEPT ![j] = "running"]
        /\ sState' = [sState EXCEPT ![s] = "executing"]
    BY <1>3 DEF RunStart, MarkRunning
  <2>2. j \in OpenJobs(s)'
    BY <1>2, <2>1 DEF OpenJobs, IsOpen, TypeOK
  <2> QED
    BY <1>2, <2>1, <2>2 DEF Confined, HeadCovers, TypeOK
<1>4. CASE RunCheckPass(w)
  BY <1>4 DEF RunCheckPass, durable, Confined, HeadCovers, Untouched
<1>5. CASE RunDryRun(w) \/ \E txs : RunCatch(w, txs)
  <2>1. \E st, v : /\ jState' = [jState EXCEPT ![j] = st]
                   /\ sState' = [sState EXCEPT ![s] = v] /\ v # "executing"
    BY <1>5 DEF RunDryRun, RunCatch
  <2> QED
    BY <1>2, <2>1 DEF Confined, HeadCovers, TypeOK
<1> QED
  BY <1>3, <1>4, <1>5 DEF RunnerStep, RunThrow, RunReverted

LEMMA RecoveryCovers ==
  ASSUME LInv, NEW w \in Wallets, RecoveryStep(w), NEW s, s = HeadStrategy(w)
  PROVE  Confined(w) /\ HeadCovers(s)
<1> DEFINE j == HeadJob(w)
<1>1. lock[w] # <<>> /\ Head(lock[w]).kind \in Recoverers /\ Head(lock[w]).kind # "stop"
  BY DEF RecoveryStep, RecoverAlreadyDone, RecoverInspect, RecoverRestart, RecoverResume,
         RecoverInconclusive, RecoverThrow, RecoverReverted, Holds, Recoverers
<1>2. TypeOK /\ j \in Jobs /\ s = StrategyOf[j] /\ s \in Strategies
  BY <1>1, HeadOwn, ExecutorAssumption DEF LInv, IInv, HeadStrategy
<1>3. CASE RecoverAlreadyDone(w) \/ RecoverInspect(w)
  BY <1>3 DEF RecoverAlreadyDone, RecoverInspect, durable, Confined, HeadCovers, Untouched
<1>4. CASE RecoverResume(w)
  <2>1. /\ jState' = [jState EXCEPT ![j] = "running"]
        /\ sState' = [sState EXCEPT ![s] = "executing"]
    BY <1>4 DEF RecoverResume, MarkRunning
  <2>2. j \in OpenJobs(s)'
    BY <1>2, <2>1 DEF OpenJobs, IsOpen, TypeOK
  <2> QED
    BY <1>2, <2>1, <2>2 DEF Confined, HeadCovers, TypeOK
<1>5. CASE RecoverRestart(w) \/ \E txs : RecoverCatch(w, txs)
  <2>1. \E st, v : /\ jState' = [jState EXCEPT ![j] = st]
                   /\ sState' = [sState EXCEPT ![s] = v] /\ v # "executing"
    <3>1. CASE RecoverRestart(w)
      BY <3>1 DEF RecoverRestart
    <3>2. ASSUME NEW txs, RecoverCatch(w, txs)
          PROVE  /\ jState' = [jState EXCEPT ![j] = "recovery"]
                 /\ \/ sState' = [sState EXCEPT ![s] = "recovery"]
                    \/ sState' = [[sState EXCEPT ![s] = "recovery"]
                                    EXCEPT ![s] = "recovery_quarantined"]
      BY <1>2, <3>2 DEF RecoverCatch, Strike
    <3>3. [[sState EXCEPT ![s] = "recovery"] EXCEPT ![s] = "recovery_quarantined"]
            = [sState EXCEPT ![s] = "recovery_quarantined"]
      BY <1>2 DEF TypeOK
    <3> QED
      BY <1>5, <3>1, <3>2, <3>3
  <2> QED
    BY <1>2, <2>1 DEF Confined, HeadCovers, TypeOK
<1>6. CASE RecoverInconclusive(w)
  <2>1. /\ UNCHANGED jState
        /\ sState' = sState \/ sState' = [sState EXCEPT ![s] = "recovery_quarantined"]
    BY <1>2, <1>6 DEF RecoverInconclusive, Strike
  <2> QED
    BY <1>2, <2>1 DEF Confined, HeadCovers, Untouched, TypeOK
<1> QED
  BY <1>3, <1>4, <1>5, <1>6 DEF RecoveryStep, RecoverThrow, RecoverReverted

LEMMA SignerCovers ==
  ASSUME LInv, NEW w \in Wallets, SignerStep(w), NEW s, s = HeadStrategy(w)
  PROVE  Confined(w) /\ HeadCovers(s)
<1> DEFINE j == HeadJob(w)
<1>1. lock[w] # <<>> /\ Head(lock[w]).kind \in Signers /\ Head(lock[w]).kind # "stop"
  BY DEF SignerStep, TxBegin, TxSend, TxConfirmed, CommitRebalance,
         CommitHoldQuote, CommitFeeCollection, Finish, Holds, Signers
<1>2. TypeOK /\ j \in Jobs /\ s = StrategyOf[j] /\ s \in Strategies
  BY <1>1, HeadOwn, ExecutorAssumption DEF LInv, IInv, HeadStrategy
<1>3. CASE TxBegin(w) \/ TxSend(w) \/ TxConfirmed(w)
  BY <1>3 DEF TxBegin, TxSend, TxConfirmed, durable, Confined, HeadCovers, Untouched
<1>4. CASE CommitRebalance(w) \/ CommitHoldQuote(w) \/ CommitFeeCollection(w)
  <2>1. \E st, v : /\ jState' = [jState EXCEPT ![j] = st]
                   /\ sState' = [sState EXCEPT ![s] = v] /\ v # "executing"
    BY <1>4 DEF CommitRebalance, CommitHoldQuote, CommitFeeCollection, Finish
  <2> QED
    BY <1>2, <2>1 DEF Confined, HeadCovers, TypeOK
<1> QED
  BY <1>3, <1>4 DEF SignerStep

LEMMA StopCovers ==
  ASSUME LInv, NEW w \in Wallets, StopStep(w), NEW s, s = HeadStrategy(w)
  PROVE  Confined(w) /\ HeadCovers(s)
<1> DEFINE j == view[w].job
<1>1. lock[w] # <<>> /\ Head(lock[w]).kind = "stop"
  BY DEF StopStep, StopRefused, StopRead, StopInspected, StopInconclusive,
         StopArchive, StopRolledBack, Holds
<1>2. TypeOK /\ s \in Strategies /\ s = Head(lock[w]).id /\ StopHead(w)
  BY <1>1, HeadOwn DEF LInv, IInv, HeadFacts
<1>3. CASE StopRefused(w) \/ StopRead(w) \/ StopInspected(w) \/ StopInconclusive(w)
             \/ StopRolledBack(w)
  BY <1>3 DEF StopRefused, StopRead, StopInspected, StopInconclusive, StopRolledBack,
              durable, Confined, HeadCovers, Untouched
<1>4. CASE StopArchive(w)
  <2>1. /\ sState' = [sState EXCEPT ![s] = "archived"]
        /\ \/ UNCHANGED jState
           \/ j # None /\ jState' = [jState EXCEPT ![j] = "cancelled"]
    BY <1>4 DEF StopArchive
  <2>2. j # None => StrategyOf[j] = s
    BY <1>1, <1>2, <1>4 DEF StopHead, StopArchive, Holds
  <2> QED
    BY <1>2, <2>1, <2>2 DEF Confined, HeadCovers, TypeOK
<1> QED
  BY <1>3, <1>4 DEF StopStep

\* A restart finds every running job, and takes its strategy out of 'executing'.
LEMMA CrashCovers ==
  ASSUME LInv, CrashStep, ExecutingHasJob, NEW s \in Strategies, sState'[s] = "executing"
  PROVE  Covered(s)'
<1>0. TypeOK /\ crashes \in Nat
  BY DEF LInv, IInv, TypeOK
<1>1. ASSUME NEW js, Restart(sState, js)
      PROVE  /\ sState[s] = "executing" /\ crashes' = crashes + 1
             /\ \A j \in Jobs : StrategyOf[j] = s => jState'[j] = js[j]
  BY <1>1 DEF Restart
<1>2. ASSUME NEW js, Restart(sState, js), \A j \in Jobs : IsOpen(jState[j]) => IsOpen(js[j])
      PROVE  Covered(s)'
  <2>1. Untouched(s)
    BY <1>1, <1>2 DEF Untouched
  <2> QED
    BY <1>0, <1>1, <1>2, <2>1, UntouchedCovered
<1>3. CASE Crash
  BY <1>2, <1>3 DEF Crash
<1>4. ASSUME NEW t \in Strategies, CrashAfterInsert(t)
      PROVE  Covered(s)'
  <2>1. PICK i \in Unused(t) : Restart(sState, [jState EXCEPT ![i] = "planned"])
    BY <1>4 DEF CrashAfterInsert
  <2>2. i \in Jobs /\ jState[i] = "unused"
    BY DEF Unused
  <2>3. \A j \in Jobs : IsOpen(jState[j]) => IsOpen([jState EXCEPT ![i] = "planned"][j])
    BY <1>0, <2>2 DEF TypeOK, IsOpen
  <2> QED
    BY <1>2, <2>1, <2>3
<1>5. ASSUME NEW w \in Wallets, CrashAfterJobState(w)
      PROVE  Covered(s)'
  <2>1. lock[w] # <<>> /\ Head(lock[w]).kind \in Signers /\ phase[w] \in Working
    BY <1>5 DEF CrashAfterJobState, Holds, Signers, Working
  <2>2. HeadJob(w) \in Jobs /\ HeadStrategy(w) = StrategyOf[HeadJob(w)]
    BY <2>1, SignerHead DEF HeadStrategy, Signers
  <2>3. CASE Restart(sState, [jState EXCEPT ![HeadJob(w)] = "recovery"])
    <3>1. \A j \in Jobs :
            IsOpen(jState[j]) => IsOpen([jState EXCEPT ![HeadJob(w)] = "recovery"][j])
      BY <1>0, <2>2 DEF TypeOK, IsOpen
    <3> QED
      BY <1>2, <2>3, <3>1
  <2>4. CASE /\ HeadStrategy(w) \in DryRun
             /\ Restart(sState, [jState EXCEPT ![HeadJob(w)] = "completed"])
    <3>1. CASE s = HeadStrategy(w)
      BY <1>0, <1>1, <2>4, <3>1 DEF Covered
    <3>2. CASE s # HeadStrategy(w)
      <4>1. \A j \in Jobs : StrategyOf[j] = s => jState'[j] = jState[j]
        BY <1>0, <1>1, <2>2, <2>4, <3>2 DEF TypeOK
      <4>2. Untouched(s)
        BY <1>1, <2>4, <4>1 DEF Untouched
      <4> QED
        BY <1>0, <1>1, <2>4, <4>2, UntouchedCovered
    <3> QED
      BY <3>1, <3>2
  <2> QED
    BY <1>5, <2>3, <2>4 DEF CrashAfterJobState
<1> QED
  BY <1>3, <1>4, <1>5 DEF CrashStep

\* No step leaves a strategy 'executing' without a job.
LEMMA NextCovers ==
  ASSUME LInv, LInv', ExecutingHasJob, RestoresNone, [Next]_vars
  PROVE  ExecutingHasJob' /\ RestoresNone'
<1>0. /\ TypeOK /\ crashes \in Nat /\ crashes' \in Nat
      /\ ExecutingHasJob' <=> \A s \in Strategies : sState'[s] = "executing" => Covered(s)'
  BY DEF LInv, IInv, TypeOK, ExecutingHasJob, Covered
<1>1. CASE OutsideStep
  <2>1. crashes' = crashes
    BY <1>1 DEF OutsideStep, MonitorStep, MonitorBegin, MonitorSkip, MonitorVerdict,
         MonitorPlan, MonitorRefused, LeavePass, RunnerClaim, SupervisorBegin,
         ApiRequest, ApiStop, PutBegin, PutDisabled, StartBegin, ExecuteBegin,
         ResumeMonitoringBegin, Suspend, ApiResumeJob, ApiInspectJob, ApiPause,
         ApiAnswer, RequestFails, PutFinish, StartFinish, ExecuteFinish,
         ResumeMonitoringFinish, Resumed
  <2> QED
    BY <1>0, <1>1, <2>1, OutsideCovers, UntouchedCovered
<1>2. ASSUME NEW w \in Wallets, WalletStep(w)
      PROVE  ExecutingHasJob' /\ RestoresNone'
  <2>1. Confined(w) /\ \A s : s = HeadStrategy(w) => HeadCovers(s)
    BY <1>2, RunnerCovers, RecoveryCovers, SignerCovers, StopCovers DEF WalletStep
  <2>2. UNCHANGED <<requests, crashes>>
    <3> USE DEF durable, volatile
    <3>1. CASE RunnerStep(w)
      BY <3>1 DEF RunnerStep, RunStart, RunCheckPass, RunDryRun, RunThrow, RunReverted, RunCatch
    <3>2. CASE RecoveryStep(w)
      BY <3>2 DEF RecoveryStep, RecoverAlreadyDone, RecoverInspect, RecoverRestart,
                  RecoverResume, RecoverInconclusive, RecoverThrow, RecoverReverted,
                  RecoverCatch
    <3>3. CASE SignerStep(w)
      BY <3>3 DEF SignerStep, TxBegin, TxSend, TxConfirmed, CommitRebalance,
                  CommitHoldQuote, CommitFeeCollection, Finish
    <3>4. CASE StopStep(w)
      BY <3>4 DEF StopStep, StopRefused, StopRead, StopInspected, StopInconclusive,
                  StopArchive, StopRolledBack
    <3> QED
      BY <1>2, <3>1, <3>2, <3>3, <3>4 DEF WalletStep
  <2>3. ASSUME NEW s \in Strategies, sState'[s] = "executing"
        PROVE  Covered(s)'
    <3>1. CASE s = HeadStrategy(w)
      <4>1. OpenJobs(s)' # {} \/ Untouched(s)
        BY <2>1, <2>3, <3>1 DEF HeadCovers
      <4> QED
        BY <1>0, <2>2, <2>3, <4>1, UntouchedCovered DEF Covered
    <3>2. CASE s # HeadStrategy(w)
      <4>1. Untouched(s)
        BY <2>1, <3>2 DEF Confined, Untouched
      <4> QED
        BY <1>0, <2>2, <2>3, <4>1, UntouchedCovered
    <3> QED
      BY <3>1, <3>2
  <2> QED
    BY <1>0, <2>2, <2>3 DEF RestoresNone
<1>3. CASE CrashStep
  <2>1. requests' = {}
    BY <1>3 DEF CrashStep, Crash, CrashAfterInsert, CrashAfterJobState, Restart
  <2> QED
    BY <1>0, <1>3, <2>1, CrashCovers DEF RestoresNone
<1>4. CASE UNCHANGED vars
  BY <1>4 DEF vars, durable, volatile, ExecutingHasJob, RestoresNone, OpenJobs
<1> QED
  BY <1>1, <1>2, <1>3, <1>4 DEF Next, OutsideStep, WalletStep

-----------------------------------------------------------------------------
(* The theorems *)

\* Whatever monitor, runner, supervisor, API and crashes do, a strategy never
\* has two open jobs: the index one_open_job_per_strategy is never what fails,
\* also when executeRecovery is called for a job already given up.
THEOREM OneOpen == Spec => []OneOpenJob
<1>1. LInv => OneOpenJob
  BY DEF LInv
<1> QED
  BY <1>1, LifeHolds, PTL

\* A job is given up only when none of its transactions took or can take effect,
\* by the catch of runJob as by the recovery.
THEOREM GivenUpIsHarmless == Spec => []GivenUpHasNoEffect
<1>1. LInv => GivenUpHasNoEffect
  BY DEF LInv
<1> QED
  BY <1>1, LifeHolds, PTL

\* runOnce asks for uncertain transactions before it chains the run; by the time
\* the run holds the wallet, and until it lets go, there still is none.
THEOREM FreshRunIsAlone == Spec => []FreshRunAlone
<1>1. LInv => FreshRunAlone
  BY DEF LInv, FreshRunAlone, HeadFacts, RunHead
<1> QED
  BY <1>1, LifeHolds, PTL

\* setJobState writes whatever it is told, and still no completed or cancelled
\* job ever changes state again.
THEOREM FinalJobsStay == Spec => JobsStayFinal
<1>1. LInv /\ [Next]_vars =>
        [\A j \in Jobs : jState[j] \in {"completed", "cancelled"} => jState'[j] = jState[j]]_vars
  <2> SUFFICES ASSUME LInv, Next, NEW j \in Jobs, jState[j] \in {"completed", "cancelled"}
               PROVE  jState'[j] = jState[j]
    OBVIOUS
  <2>1. TypeOK /\ Lifecycle!Step(j)
    BY NextLife DEF LInv, IInv, JobSteps
  <2> QED
    BY <2>1, StateMoves
<1> QED
  BY <1>1, LifeHolds, PTL DEF Spec, JobsStayFinal

\* However a run, a recovery or a stop ends, its strategy does not stay 'executing'
\* without an open job, which PUT and DELETE would refuse for ever; the one
\* exception is a dry run that dies between setJobState and setStrategyState.
THEOREM ExecutingIsOpen == Spec => []ExecutingHasJob
<1>1. Init => ExecutingHasJob /\ RestoresNone
  BY DEF Init, ExecutingHasJob, RestoresNone
<1>2. LInv /\ LInv' /\ ExecutingHasJob /\ RestoresNone /\ [Next]_vars
        => ExecutingHasJob' /\ RestoresNone'
  BY NextCovers
<1> QED
  BY <1>1, <1>2, LifeHolds, PTL DEF Spec

\* The executor implements the life of its jobs: initial states are initial
\* there, and every step is a step of JobLifecycle or leaves the jobs alone.
THEOREM ImplementsLifecycle == Spec => FollowsLifecycle
<1>1. Init => Lifecycle!Init
  BY DEF Init, Lifecycle!Init
<1>2. LInv /\ LInv' /\ [Next]_vars => [Lifecycle!Next]_(Lifecycle!jobVars)
  <2> SUFFICES ASSUME LInv, LInv', [Next]_vars
               PROVE  [Lifecycle!Next]_(Lifecycle!jobVars)
    OBVIOUS
  <2>1. CASE UNCHANGED vars
    BY <2>1 DEF vars, durable, Lifecycle!jobVars
  <2>2. CASE Next
    <3>1. \A j \in Jobs : Lifecycle!Step(j)
      BY <2>2, NextLife DEF JobSteps
    <3>2. OneOpenJob' /\ RunningHoldsLock'
      BY DEF LInv, IInv
    <3>3. Lifecycle!Exclusive'
      BY <3>2
      DEF Lifecycle!Exclusive, Lifecycle!IsOpen, SameStrategyJobs, SameWalletJobs,
          OneOpenJob, IsOpen, RunningHoldsLock, HeadJob, Wallet
    <3> QED
      BY <3>1, <3>3 DEF Lifecycle!Next
  <2> QED
    BY <2>1, <2>2
<1> QED
  BY <1>1, <1>2, LifeHolds, PTL DEF Spec, FollowsLifecycle, Lifecycle!Spec

================================================================================
