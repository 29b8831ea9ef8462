------------------------------ MODULE TxRecovery ------------------------------
(***************************************************************************)
(* The transactions of the jobs of one signing wallet: how sendTracked     *)
(* (executor/signer.ts) writes a row of job_transactions before, during    *)
(* and after a transaction, what the chain and the wallet's owner do       *)
(* meanwhile, and how recovery.ts decides from rows, hashes and nonces     *)
(* whether a step landed, is still pending, or may be sent again.          *)
(*                                                                         *)
(* One action is what happens between two awaits of the sender or of the   *)
(* inspection; the chain moves, and the process may die, in between.       *)
(* Environment: a lookup by hash is truthful; the count of mined nonces    *)
(* may lag ("lag"); the owner may replace a transaction of the executor    *)
(* ("replaced"); mined blocks are final.                                   *)
(*                                                                         *)
(* A job is a ladder of steps, one transaction each.  A transaction is     *)
(* its slot, nonce, calldata (data) and gas price (bid): two of them have  *)
(* the same hash exactly when they are the same record.                    *)
(***************************************************************************)
EXTENDS Naturals, Sequences, FiniteSets, FiniteSetsExt

CONSTANTS
  Jobs,        \* jobs that sign with the wallet
  Steps,       \* step_index of the steps of a job, in order
  Payloads,    \* calldata that one step may be built with
  MaxBid,      \* bound: gas prices; a fee retry bids more
  MaxNonce,    \* bound: nonces the wallet uses
  MaxOwnerTxs, \* bound: transactions the owner sends by hand
  MaxCrashes,  \* bound: process crashes
  Faults,      \* {"lag", "replaced"} or less
  None

Tx == [job : Jobs \cup {None}, step : Steps \cup {0}, nonce : Nat,
       data : Payloads \cup {0}, bid : Nat]

ASSUME TxAssumption ==
  /\ Steps \subseteq Nat \ {0} /\ IsFiniteSet(Steps) /\ Steps # {}
  /\ Payloads \subseteq Nat
  /\ MaxBid \in Nat \ {0} /\ MaxNonce \in Nat
  /\ MaxOwnerTxs \in Nat /\ MaxCrashes \in Nat
  /\ Faults \subseteq {"lag", "replaced"}
  /\ None \notin Jobs /\ None \notin Tx

VARIABLES
  mined,    \* chain: transactions by nonce, with their status
  pool,     \* chain: what the node admitted and has not mined
  rows,     \* SQLite: job_transactions
  jobs,     \* SQLite: jobs.state
  task,     \* the holder of the wallet lock
  send,     \* sendTracked of the holder
  facts,    \* transactionFact per row, while the holder inspects
  ownerTxs, crashes

chain == <<mined, pool, ownerTxs>>
vars  == <<chain, rows, jobs, task, send, facts, crashes>>

\* a transaction the owner of the wallet sends with another program
OwnerTx(n, b) == [job |-> None, step |-> 0, nonce |-> n, data |-> 0, bid |-> b]

NoRow  == [state |-> "none", nonce |-> 0, data |-> 0, hash |-> None]
NoSend == [at |-> "idle", step |-> 0, nonce |-> 0, data |-> 0, bid |-> 0]
Idle   == [kind |-> "idle", job |-> None, at |-> "idle"]
NoFacts == [s \in Steps |-> "none"]

RowStates == {"none", "sending", "sent", "confirmed", "failed"}
FactStates == {"none", "unread", "missing", "confirmed", "reverted", "pending",
               "absent", "ambiguous"}

TypeOK ==
  /\ mined \in Seq([tx : Tx, ok : BOOLEAN])
  /\ pool \subseteq Tx
  /\ rows \in [Jobs -> [Steps -> [state : RowStates, nonce : Nat,
                                  data : Payloads \cup {0},
                                  hash : Tx \cup {None}]]]
  /\ jobs \in [Jobs -> {"planned", "running", "recovery", "failed",
                        "completed", "cancelled"}]
  /\ task \in [kind : {"idle", "run", "recover", "stop"},
               job : Jobs \cup {None}, at : {"idle", "inspect", "execute"}]
  /\ send \in [at : {"idle", "preflight", "marked", "signed", "admitted", "sent"},
               step : Steps \cup {0}, nonce : Nat, data : Payloads \cup {0},
               bid : Nat]
  /\ facts \in [Steps -> FactStates]
  /\ ownerTxs \in Nat /\ crashes \in Nat

Init ==
  /\ mined = <<>> /\ pool = {} /\ ownerTxs = 0
  /\ rows = [j \in Jobs |-> [s \in Steps |-> NoRow]]
  /\ jobs = [j \in Jobs |-> "planned"]
  /\ task = Idle /\ send = NoSend /\ facts = NoFacts
  /\ crashes = 0

-----------------------------------------------------------------------------
(* The chain, as the node shows it *)

Latest == Len(mined)

\* getTransactionCount 'pending': the first nonce neither mined nor queued
PendingNonce == Min({n \in Latest .. MaxNonce : \A t \in pool : t.nonce # n})

MinedAt(n) == mined[n + 1]
IsMined(t) == t.nonce < Latest /\ MinedAt(t.nonce).tx = t
Landed(t)  == IsMined(t) /\ MinedAt(t.nonce).ok

\* a free nonce, or one whose occupant bids less
Admissible(t) ==
  /\ t.nonce >= Latest
  /\ \A o \in pool : o.nonce = t.nonce => o.bid < t.bid

Admitted(t) == {o \in pool : o.nonce # t.nonce} \cup {t}

Mine(t, ok) ==
  /\ t \in pool /\ t.nonce = Latest
  /\ mined' = Append(mined, [tx |-> t, ok |-> ok])
  /\ pool' = pool \ {t}
  /\ UNCHANGED <<ownerTxs, rows, jobs, task, send, facts, crashes>>

\* the node gives a transaction up for good
Evict(t) ==
  /\ t \in pool
  /\ pool' = pool \ {t}
  /\ UNCHANGED <<mined, ownerTxs, rows, jobs, task, send, facts, crashes>>

OwnerSends(n, b) ==
  /\ ownerTxs < MaxOwnerTxs
  /\ n = PendingNonce \/ ("replaced" \in Faults /\ \E t \in pool : t.nonce = n)
  /\ n < MaxNonce
  /\ Admissible(OwnerTx(n, b))
  /\ pool' = Admitted(OwnerTx(n, b))
  /\ ownerTxs' = ownerTxs + 1
  /\ UNCHANGED <<mined, rows, jobs, task, send, facts, crashes>>

-----------------------------------------------------------------------------
(* Jobs on the wallet lock *)

IsOpenRow(r) == r.state \in {"sending", "sent"}

\* walletHasUnfinishedMutation
UnfinishedMutation ==
  \E j \in Jobs : jobs[j] = "recovery" /\ \E s \in Steps : IsOpenRow(rows[j][s])

Done(j) == {s \in Steps : rows[j][s].state = "confirmed"}

\* Mutant: the ladder goes on at the first unconfirmed step.
Ahead_Unconfirmed(j) == Steps \ Done(j)

\* the steps after the last confirmed one
Ahead(j) == {s \in Steps : \A d \in Done(j) : d < s}

RunJob(j) ==
  /\ task = Idle
  /\ jobs[j] = "planned" /\ ~UnfinishedMutation
  /\ jobs' = [jobs EXCEPT ![j] = "running"]
  /\ task' = [kind |-> "run", job |-> j, at |-> "execute"]
  /\ UNCHANGED <<chain, rows, send, facts, crashes>>

\* commitRebalance and the other commits
Complete ==
  /\ task.at = "execute" /\ send = NoSend /\ Ahead(task.job) = {}
  /\ jobs' = [jobs EXCEPT ![task.job] = "completed"]
  /\ task' = Idle
  /\ UNCHANGED <<chain, rows, send, facts, crashes>>

\* the catch of executeRecoveryLocked; the one of runJob gives up a job whose
\* every attempt reverted, or that failed for a passing reason before any row
StatesAfterThrow(slots) ==
  LET states == {slots[s].state : s \in Steps} IN
  IF task.kind = "recover" \/ ~(states \subseteq {"none", "failed"}) THEN {"recovery"}
  ELSE IF "failed" \in states THEN {"failed"} ELSE {"failed", "recovery"}

AfterThrow(newRows) ==
  /\ rows' = newRows
  /\ \E state \in StatesAfterThrow(newRows[task.job]) :
       jobs' = [jobs EXCEPT ![task.job] = state]
  /\ task' = Idle /\ send' = NoSend
  /\ UNCHANGED <<chain, facts, crashes>>

-----------------------------------------------------------------------------
(* sendTracked: the row is written as each fact becomes known *)

Row == rows[task.job][send.step]
SendTx == [job |-> task.job, step |-> send.step, nonce |-> send.nonce,
           data |-> send.data, bid |-> send.bid]

WithRow(r) == [rows EXCEPT ![task.job][send.step] = r]

\* getChainId, then the pending nonce
ReadNonce ==
  /\ task.at = "execute" /\ send = NoSend /\ Ahead(task.job) # {}
  /\ PendingNonce < MaxNonce
  /\ send' = [NoSend EXCEPT !.at = "preflight", !.step = Min(Ahead(task.job)),
                            !.nonce = PendingNonce]
  /\ UNCHANGED <<chain, rows, jobs, task, facts, crashes>>

\* after estimateGas; the upsert keeps the hash of an earlier use of the slot
Mark(d) ==
  /\ send.at = "preflight"
  /\ rows' = WithRow([state |-> "sending", nonce |-> send.nonce, data |-> d,
                      hash |-> Row.hash])
  /\ send' = [send EXCEPT !.at = "marked", !.data = d]
  /\ UNCHANGED <<chain, jobs, task, facts, crashes>>

\* Mutant: the hash is not written before the transaction goes out.
Sign_NotDurable(b) ==
  /\ send.at = "marked" /\ b > send.bid
  /\ send' = [send EXCEPT !.at = "signed", !.bid = b]
  /\ UNCHANGED <<chain, rows, jobs, task, facts, crashes>>

\* the gas price is read, the limits hold, the hash is durable
Sign(b) ==
  /\ send.at = "marked" /\ b > send.bid
  /\ send' = [send EXCEPT !.at = "signed", !.bid = b]
  /\ rows' = WithRow([Row EXCEPT !.hash = [SendTx EXCEPT !.bid = b]])
  /\ UNCHANGED <<chain, jobs, task, facts, crashes>>

\* estimateGas, the fee reads or a gas limit throws
ThrowBeforeSend ==
  /\ send.at \in {"preflight", "marked"}
  /\ AfterThrow(rows)

\* broadcastExact: admitted, and the answer or getTransaction says so
Broadcast ==
  /\ send.at = "signed" /\ Admissible(SendTx)
  /\ pool' = Admitted(SendTx)
  /\ send' = [send EXCEPT !.at = "admitted"]
  /\ UNCHANGED <<mined, ownerTxs, rows, jobs, task, facts, crashes>>

\* the node refuses the fee: the same nonce again, with a higher bid
RefuseFee ==
  /\ send.at = "signed" /\ send.bid < MaxBid
  /\ send' = [send EXCEPT !.at = "marked"]
  /\ UNCHANGED <<chain, rows, jobs, task, facts, crashes>>

\* refused, or not delivered, for good
RefuseSend ==
  /\ send.at = "signed"
  /\ AfterThrow(rows)

\* admitted, but every answer of broadcastExact is lost and it throws
Unanswered ==
  /\ send.at = "admitted"
  /\ AfterThrow(rows)

MarkSent ==
  /\ send.at = "admitted"
  /\ rows' = WithRow([Row EXCEPT !.state = "sent"])
  /\ send' = [send EXCEPT !.at = "sent"]
  /\ UNCHANGED <<chain, jobs, task, facts, crashes>>

\* Mutant: the status of the receipt is not looked at.
ReceiptSuccess_AnyStatus ==
  /\ send.at = "sent" /\ send.nonce < Latest
  /\ rows' = WithRow([Row EXCEPT !.state = "confirmed"])
  /\ send' = NoSend
  /\ UNCHANGED <<chain, jobs, task, facts, crashes>>

\* waitForTransactionReceipt answers with what took the nonce: the
\* transaction, or the one that replaced it
ReceiptSuccess ==
  /\ send.at = "sent" /\ send.nonce < Latest /\ MinedAt(send.nonce).ok
  /\ rows' = WithRow([Row EXCEPT !.state = "confirmed"])
  /\ send' = NoSend
  /\ UNCHANGED <<chain, jobs, task, facts, crashes>>

ReceiptReverted ==
  /\ send.at = "sent" /\ send.nonce < Latest /\ ~MinedAt(send.nonce).ok
  /\ AfterThrow(WithRow([Row EXCEPT !.state = "failed"]))

\* the deadline of waitForReceiptTolerant, or an error that is not transient
ReceiptTimeout ==
  /\ send.at = "sent"
  /\ AfterThrow(rows)

-----------------------------------------------------------------------------
(* inspectRecovery: facts row by row, then reconcile and classify *)

\* executeRecovery and stopAndArchiveStrategy, under the wallet lock
BeginInspection(j, kind) ==
  /\ task = Idle
  /\ IF kind = "recover" THEN jobs[j] \in {"recovery", "failed"}
                         ELSE kind = "stop" /\ jobs[j] = "recovery"
  /\ task' = [kind |-> kind, job |-> j, at |-> "inspect"]
  /\ facts' = [s \in Steps |-> IF rows[j][s] = NoRow THEN "none" ELSE "unread"]
  /\ UNCHANGED <<chain, rows, jobs, send, crashes>>

Unsettled == {s \in Steps : facts[s] \in {"unread", "missing"}}
Settle(s, f) ==
  /\ facts' = [facts EXCEPT ![s] = f]
  /\ UNCHANGED <<chain, rows, jobs, task, send, crashes>>

\* Mutant: what has no receipt was never sent.
HashFact_NoReceiptIsAbsent(r) ==
  IF r.hash # None /\ IsMined(r.hash)
    THEN IF Landed(r.hash) THEN "confirmed" ELSE "reverted"
    ELSE "absent"

\* by hash: the receipt and the transaction, which must be what the row says
HashFact(r) ==
  IF r.hash = None THEN "missing"
  ELSE IF IsMined(r.hash) THEN
         IF r.hash.data # r.data THEN "ambiguous"
         ELSE IF Landed(r.hash) THEN "confirmed" ELSE "reverted"
  ELSE IF r.hash \in pool THEN "pending" ELSE "missing"

LookUp ==
  /\ task.at = "inspect" /\ Unsettled # {}
  /\ LET s == Min(Unsettled) IN
       /\ facts[s] = "unread"
       /\ Settle(s, HashFact(rows[task.job][s]))

\* another slot's transaction, verified on chain, holds the nonce
LocalReplacement(j, s) ==
  \E k \in Jobs, q \in Steps :
    /\ <<k, q>> # <<j, s>>
    /\ rows[k][q].state = "confirmed" /\ rows[k][q].nonce = rows[j][s].nonce
    /\ rows[k][q].hash # None /\ Landed(rows[k][q].hash)
    /\ rows[k][q].hash.data = rows[k][q].data

\* classifyMissingTransactionNonce
NonceFact(nonce, latest, replaced) ==
  IF latest > nonce \/ PendingNonce <= nonce \/ replaced
    THEN "absent" ELSE "ambiguous"

LatestReads == {Latest} \cup (IF "lag" \in Faults /\ Latest > 0
                              THEN {Latest - 1} ELSE {})

CountNonces ==
  /\ task.at = "inspect" /\ Unsettled # {}
  /\ LET s == Min(Unsettled) IN
       /\ facts[s] = "missing"
       /\ \E latest \in LatestReads :
            Settle(s, NonceFact(rows[task.job][s].nonce, latest,
                                LocalReplacement(task.job, s)))

Facts == {facts[s] : s \in Steps}

\* Mutant: the fact is written where the state of the row belongs.
Reconciled_FactAsState ==
  [rows EXCEPT ![task.job] = [s \in Steps |->
     IF facts[s] \in {"none", "ambiguous", "pending"} THEN @[s]
     ELSE [@[s] EXCEPT !.state = facts[s]]]]

\* reconcileJobTransaction on each row with a definite fact
Reconciled ==
  [rows EXCEPT ![task.job] = [s \in Steps |->
     CASE facts[s] = "confirmed" -> [@[s] EXCEPT !.state = "confirmed"]
       [] facts[s] \in {"reverted", "absent"} -> [@[s] EXCEPT !.state = "failed"]
       [] OTHER -> @[s]]]

Concluded == task.at = "inspect" /\ Unsettled = {}

\* manual_review or wait_pending: thrown, nothing else changes
Defer ==
  /\ Concluded
  /\ Facts \cap {"ambiguous", "pending"} # {}
  /\ rows' = Reconciled
  /\ task' = Idle /\ facts' = NoFacts
  /\ UNCHANGED <<chain, jobs, send, crashes>>

\* Mutant: a pending transaction does not hold the job back.
GiveUp_IgnoresPending ==
  /\ Concluded /\ task.kind = "recover"
  /\ Facts \cap {"ambiguous", "confirmed"} = {}
  /\ rows' = Reconciled
  /\ jobs' = [jobs EXCEPT ![task.job] = "failed"]
  /\ task' = Idle /\ facts' = NoFacts
  /\ UNCHANGED <<chain, send, crashes>>

\* restart_safe: abandonRecoveryJob
GiveUp ==
  /\ Concluded /\ task.kind = "recover"
  /\ Facts \cap {"ambiguous", "pending", "confirmed"} = {}
  /\ rows' = Reconciled
  /\ jobs' = [jobs EXCEPT ![task.job] = "failed"]
  /\ task' = Idle /\ facts' = NoFacts
  /\ UNCHANGED <<chain, send, crashes>>

\* the resume_* dispositions: on from the last confirmed step
Resume ==
  /\ Concluded /\ task.kind = "recover"
  /\ Facts \cap {"ambiguous", "pending"} = {} /\ "confirmed" \in Facts
  /\ rows' = Reconciled
  /\ jobs' = [jobs EXCEPT ![task.job] = "running"]
  /\ task' = [task EXCEPT !.at = "execute"] /\ facts' = NoFacts
  /\ UNCHANGED <<chain, send, crashes>>

\* stopAndArchiveStrategy once every transaction has an outcome
Archive ==
  /\ Concluded /\ task.kind = "stop"
  /\ Facts \cap {"ambiguous", "pending"} = {}
  /\ rows' = Reconciled
  /\ jobs' = [jobs EXCEPT ![task.job] = "cancelled"]
  /\ task' = Idle /\ facts' = NoFacts
  /\ UNCHANGED <<chain, send, crashes>>

\* the process dies; quarantineInterruptedJobs at the next start
Crash ==
  /\ crashes < MaxCrashes
  /\ crashes' = crashes + 1
  /\ jobs' = [j \in Jobs |-> IF jobs[j] = "running" THEN "recovery" ELSE jobs[j]]
  /\ task' = Idle /\ send' = NoSend /\ facts' = NoFacts
  /\ UNCHANGED <<chain, rows>>

-----------------------------------------------------------------------------
Chain ==
  \/ \E t \in pool, ok \in BOOLEAN : Mine(t, ok)
  \/ \E t \in pool : Evict(t)
  \/ \E n \in 0 .. MaxNonce, b \in 1 .. MaxBid : OwnerSends(n, b)

Sender ==
  \/ ReadNonce \/ (\E d \in Payloads : Mark(d)) \/ (\E b \in 1 .. MaxBid : Sign(b))
  \/ ThrowBeforeSend \/ Broadcast \/ RefuseFee \/ RefuseSend \/ Unanswered
  \/ MarkSent \/ ReceiptSuccess \/ ReceiptReverted \/ ReceiptTimeout

Inspector ==
  \/ \E j \in Jobs, kind \in {"recover", "stop"} : BeginInspection(j, kind)
  \/ LookUp \/ CountNonces \/ Defer \/ GiveUp \/ Resume \/ Archive

Next ==
  \/ Chain \/ Sender \/ Inspector
  \/ \E j \in Jobs : RunJob(j)
  \/ Complete \/ Crash

Spec == Init /\ [][Next]_vars

-----------------------------------------------------------------------------
LandedNonces(j, s) ==
  {n \in 1 .. Latest : mined[n].tx.job = j /\ mined[n].tx.step = s /\ mined[n].ok}

\* A step of a job takes effect at most once, however often the process died,
\* lost an answer or rebuilt the step (sendTracked, nextTransactionIndex).
EffectOnce == \A j \in Jobs, s \in Steps : Cardinality(LandedNonces(j, s)) <= 1

\* Whatever of ours can still be mined is the transaction whose hash an open row
\* holds: there is nothing on the way that recovery would not find
\* (signer.ts writes the hash before the first network send).
NoOrphan ==
  \A t \in pool : t.job # None =>
    LET r == rows[t.job][t.step] IN r.hash = t /\ IsOpenRow(r)

\* A job given up as restart_safe never took effect and never will; a cancelled
\* one has nothing left that could (abandonRecoveryJob, archiveStrategy).
GivenUpIsDead ==
  \A j \in Jobs :
    /\ jobs[j] \in {"failed", "cancelled"} => \A t \in pool : t.job # j
    /\ jobs[j] = "failed" => \A s \in Steps : LandedNonces(j, s) = {}

\* The transactions of a job take effect in the order of its steps, also when
\* some were sent by a recovery: none is overtaken by a later one.
LandInOrder ==
  \A m, n \in 1 .. Latest :
    m < n /\ mined[m].tx.job = mined[n].tx.job /\ mined[m].tx.job # None
      /\ mined[m].ok /\ mined[n].ok
    => mined[m].tx.step <= mined[n].tx.step

\* Every step of a completed job landed, except where a transaction of the
\* wallet's owner took the nonce while the receipt was awaited.
CompletedIsAccountedFor ==
  \A j \in Jobs, s \in Steps :
    jobs[j] = "completed" =>
      \/ LandedNonces(j, s) # {}
      \/ \E n \in 1 .. Latest : mined[n].tx.job = None /\ mined[n].ok

\* A row is called ambiguous only while a transaction with its nonce is still
\* undecided: with definite outcomes the job can be recovered or stopped.
AmbiguousOnlyWhileOpen ==
  [][\A s \in Steps :
       facts'[s] = "ambiguous" /\ facts[s] # "ambiguous"
       => \E t \in pool : t.nonce = rows[task.job][s].nonce]_vars

=============================================================================
