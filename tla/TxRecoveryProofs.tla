--------------------------- MODULE TxRecoveryProofs ---------------------------
(***************************************************************************)
(* Theorems about TxRecovery, for any jobs, steps, payloads and bounds: a  *)
(* step takes effect at most once and in order, nothing is on the way that *)
(* recovery would not find, a job that was given up is dead, and every     *)
(* step of a completed job is accounted for.                               *)
(***************************************************************************)
EXTENDS TxRecovery, TLAPS, FiniteSetTheorems, SequenceTheorems, WellFoundedInduction

-----------------------------------------------------------------------------
(* The inductive invariant *)

\* no transaction of the step can still be mined; none took effect
Clear(j, s) == \A t \in pool : ~(t.job = j /\ t.step = s)
Took(j, s) == \E n \in 1 .. Latest : mined[n].tx.job = j /\ mined[n].tx.step = s /\ mined[n].ok

\* The node: nonces are mined in turn and held once, and stay below the bound.
ChainOrder ==
  /\ Latest <= MaxNonce
  /\ \A n \in 1 .. Latest : mined[n].tx.nonce = n - 1
  /\ \A t \in pool : Latest <= t.nonce /\ t.nonce < MaxNonce
  /\ \A t, u \in pool : t.nonce = u.nonce => t = u

\* What is on the way, or took effect, is the transaction of its row.
WayKnown ==
  \A t \in pool : t.job # None =>
    t.step \in Steps /\ rows[t.job][t.step].hash = t /\ IsOpenRow(rows[t.job][t.step])

EffectKnown ==
  \A n \in 1 .. Latest : mined[n].ok /\ mined[n].tx.job # None =>
    LET t == mined[n].tx IN
    /\ t.step \in Steps /\ rows[t.job][t.step].hash = t
    /\ rows[t.job][t.step].state \in {"sending", "sent", "confirmed"}

\* One transaction of a job is on the way, and it is the job's latest step.
OneAtATime ==
  /\ \A t, u \in pool : t.job = u.job /\ t.job # None => t = u
  /\ \A t \in pool, n \in 1 .. Latest :
       mined[n].ok /\ mined[n].tx.job = t.job /\ t.job # None => mined[n].tx.step < t.step

\* What the state of a job promises about its transactions.
JobFacts ==
  \A j \in Jobs :
    /\ jobs[j] \in {"planned", "failed", "completed", "cancelled"} => \A s \in Steps : Clear(j, s)
    /\ jobs[j] \in {"planned", "failed"} => \A s \in Steps : ~Took(j, s)

TaskFacts ==
  /\ task.at = "idle" => task = Idle
  /\ task.at # "idle" => task.job \in Jobs
  /\ task.at # "execute" => send = NoSend
  /\ send.at = "idle" => send = NoSend
  /\ task.at = "execute" => jobs[task.job] = "running"

\* While a job executes, all it did before is confirmed and nothing but the
\* transaction of sendTracked is on the way.
ExecuteFacts ==
  task.at = "execute" =>
    /\ \A s \in Steps : s = send.step \/ (Clear(task.job, s) /\ (Took(task.job, s) => rows[task.job][s].state = "confirmed"))
    /\ send.at # "idle" => send.step \in Ahead(task.job) /\ send.nonce < MaxNonce
    /\ send.at \in {"preflight", "marked", "signed"} =>
         Clear(task.job, send.step) /\ ~Took(task.job, send.step)
    /\ send.at \in {"marked", "signed", "admitted", "sent"} => IsOpenRow(Row)
    /\ send.at \in {"signed", "admitted", "sent"} => Row.hash = SendTx

\* A fact once read stays true: what is missing or had no effect never will.
InspectFacts ==
  task.at = "inspect" => \A s \in Steps :
    /\ facts[s] \in {"none", "missing", "absent", "reverted", "confirmed"} => Clear(task.job, s)
    /\ facts[s] \in {"none", "missing", "absent", "reverted"} => ~Took(task.job, s)

IInv ==
  /\ TypeOK /\ ChainOrder /\ WayKnown /\ EffectKnown /\ OneAtATime
  /\ JobFacts /\ TaskFacts /\ ExecuteFacts /\ InspectFacts /\ LandInOrder

-----------------------------------------------------------------------------
(* Lemmas about the operators *)

\* Min finds the least element: the natural numbers are well founded.
LEMMA MinOfNat ==
  ASSUME NEW S, S \subseteq Nat, S # {}
  PROVE  Min(S) \in S /\ \A y \in S : Min(S) <= y
<1>1. PICK x \in S : \A y \in S : ~(<<y, x>> \in OpToRel(<, Nat))
  BY NatLessThanWellFounded, WFMin
<1>2. ASSUME NEW y \in S, y < x PROVE FALSE
  <2>1. <<y, x>> \in Nat \X Nat /\ <<y, x>>[1] < <<y, x>>[2]
    BY <1>2
  <2>2. <<y, x>> \in OpToRel(<, Nat)
    BY <2>1, Zenon DEF OpToRel
  <2> QED
    BY <1>1, <2>2
<1>3. \A y \in S : x <= y
  BY <1>2
<1> QED
  BY <1>1, <1>3 DEF Min

\* The pending nonce is one the wallet may use, and no transaction holds it.
LEMMA PendingFree ==
  ASSUME TypeOK, ChainOrder
  PROVE  PendingNonce \in Latest .. MaxNonce
<1>1. Latest \in Nat
  BY LenProperties DEF TypeOK, Latest
<1> DEFINE S == {n \in Latest .. MaxNonce : \A t \in pool : t.nonce # n}
<1>2. MaxNonce \in S
  BY <1>1, TxAssumption DEF ChainOrder, TypeOK, Tx
<1>3. S \subseteq Nat
  BY <1>1, TxAssumption
<1> QED
  BY <1>2, <1>3, MinOfNat DEF PendingNonce

\* The step a job has to do next is one of its steps.
LEMMA NextStep ==
  ASSUME NEW j \in Jobs, Ahead(j) # {}
  PROVE  Min(Ahead(j)) \in Ahead(j) /\ Ahead(j) \subseteq Steps
BY MinOfNat, TxAssumption DEF Ahead

\* What a mined block does to the chain.
LEMMA MinedAfter ==
  ASSUME TypeOK, NEW t \in pool, NEW ok \in BOOLEAN, Mine(t, ok)
  PROVE  /\ mined' \in Seq([tx : Tx, ok : BOOLEAN])
         /\ Latest \in Nat /\ Latest' = Latest + 1
         /\ mined'[Latest + 1] = [tx |-> t, ok |-> ok]
         /\ \A n \in 1 .. Latest : mined'[n] = mined[n]
<1>1. [tx |-> t, ok |-> ok] \in [tx : Tx, ok : BOOLEAN]
  BY DEF TypeOK
<1> QED
  BY <1>1, AppendProperties, LenProperties DEF TypeOK, Mine, Latest

\* Steps are numbered.
LEMMA TxStep == \A t \in Tx : t.step \in Nat
<1>1. \A s \in Steps \cup {0} : s \in Nat
  BY TxAssumption
<1>2. \A t \in Tx : t.step \in Steps \cup {0}
  BY DEF Tx
<1> QED
  BY <1>1, <1>2

-----------------------------------------------------------------------------
(* The chain moves *)

LEMMA MineKeeps ==
  ASSUME IInv, NEW t \in pool, NEW ok \in BOOLEAN, Mine(t, ok)
  PROVE  IInv'
<1> USE DEF IInv
<1>1. /\ mined' \in Seq([tx : Tx, ok : BOOLEAN])
      /\ Latest \in Nat /\ Latest' = Latest + 1
      /\ mined'[Latest'] = [tx |-> t, ok |-> ok]
      /\ \A n \in 1 .. Latest : mined'[n] = mined[n]
  BY MinedAfter
<1>2. /\ pool' = pool \ {t} /\ t.nonce = Latest
      /\ UNCHANGED <<ownerTxs, rows, jobs, task, send, facts, crashes>>
  BY DEF Mine
<1>3. TypeOK'
  BY <1>1, <1>2 DEF TypeOK
<1>4. ChainOrder'
  <2>1. Latest < MaxNonce /\ MaxNonce \in Nat /\ \A u \in pool : u.nonce \in Nat
    BY <1>2, TxAssumption DEF ChainOrder, TypeOK, Tx
  <2>2. \A n \in 1 .. Latest' : mined'[n].tx.nonce = n - 1
    <3> SUFFICES ASSUME NEW n \in 1 .. Latest' PROVE mined'[n].tx.nonce = n - 1
      OBVIOUS
    <3>1. CASE n \in 1 .. Latest
      BY <1>1, <3>1 DEF ChainOrder
    <3>2. CASE n = Latest'
      BY <1>1, <1>2, <3>2
    <3> QED
      BY <1>1, <3>1, <3>2
  <2>3. \A u \in pool' : Latest' <= u.nonce /\ u.nonce < MaxNonce
    BY <1>1, <1>2, <2>1 DEF ChainOrder
  <2> QED
    BY <1>1, <1>2, <2>1, <2>2, <2>3 DEF ChainOrder
<1>5. WayKnown'
  BY <1>2 DEF WayKnown, IsOpenRow
<1>6. EffectKnown'
  <2> SUFFICES ASSUME NEW n \in 1 .. Latest', mined'[n].ok, mined'[n].tx.job # None
               PROVE  LET u == mined'[n].tx IN
                      /\ u.step \in Steps /\ rows[u.job][u.step].hash = u
                      /\ rows[u.job][u.step].state \in {"sending", "sent", "confirmed"}
    BY <1>2 DEF EffectKnown
  <2>1. CASE n \in 1 .. Latest
    <3>1. mined'[n] = mined[n]
      BY <1>1, <2>1
    <3>2. mined[n].ok /\ mined[n].tx.job # None
      BY <3>1
    <3> QED
      BY <1>2, <2>1, <3>1, <3>2 DEF EffectKnown
  <2>2. CASE n = Latest'
    <3>1. mined'[n].tx = t
      BY <1>1, <2>2
    <3>2. t \in pool /\ t.job # None
      BY <1>1, <3>1
    <3>3. /\ t.step \in Steps /\ rows[t.job][t.step].hash = t
          /\ rows[t.job][t.step].state \in {"sending", "sent"}
      BY <3>2 DEF WayKnown, IsOpenRow
    <3> QED
      BY <1>2, <3>1, <3>3
  <2>3. n \in 1 .. Latest \/ n = Latest'
    BY <1>1
  <2> QED
    BY <2>1, <2>2, <2>3
<1>7. OneAtATime'
  <2>1. \A u, v \in pool' : u.job = v.job /\ u.job # None => u = v
    BY <1>2 DEF OneAtATime
  <2>2. ASSUME NEW u \in pool', NEW n \in 1 .. Latest',
               mined'[n].ok, mined'[n].tx.job = u.job, u.job # None
        PROVE  mined'[n].tx.step < u.step
    <3>1. CASE n \in 1 .. Latest
      BY <1>1, <1>2, <2>2, <3>1 DEF OneAtATime
    <3>2. CASE n = Latest'
      BY <1>1, <1>2, <2>2, <3>2 DEF OneAtATime
    <3> QED
      BY <1>1, <3>1, <3>2
  <2> QED
    BY <2>1, <2>2 DEF OneAtATime
<1>8. /\ \A j, s : Clear(j, s) => Clear(j, s)'
      /\ \A j, s : Clear(j, s) /\ ~Took(j, s) => ~Took(j, s)'
  <2>1. \A j, s : Clear(j, s) => Clear(j, s)'
    BY <1>2 DEF Clear
  <2>2. ASSUME NEW j, NEW s, Clear(j, s), Took(j, s)' PROVE Took(j, s)
    <3>1. PICK n \in 1 .. Latest' : mined'[n].tx.job = j /\ mined'[n].tx.step = s /\ mined'[n].ok
      BY <2>2 DEF Took
    <3>2. n # Latest'
      BY <1>1, <2>2, <3>1 DEF Clear
    <3> QED
      BY <1>1, <3>1, <3>2 DEF Took
  <2> QED
    BY <2>1, <2>2
<1>9. JobFacts'
  BY <1>2, <1>8 DEF JobFacts
<1>10. TaskFacts'
  BY <1>2 DEF TaskFacts
<1>11. ExecuteFacts'
  <2> SUFFICES ASSUME task.at = "execute" PROVE ExecuteFacts'
    BY <1>2 DEF ExecuteFacts
  <2>1. send.at \in {"preflight", "marked", "signed"} =>
          Clear(task.job, send.step)' /\ ~Took(task.job, send.step)'
    BY <1>2, <1>8 DEF ExecuteFacts
  <2>2. \A s \in Steps : s = send.step \/
          (Clear(task.job, s)' /\ (Took(task.job, s)' => rows[task.job][s].state = "confirmed"))
    BY <1>2, <1>8 DEF ExecuteFacts
  <2> QED
    BY <1>2, <2>1, <2>2 DEF ExecuteFacts, Clear, Took, Ahead, Done, Row, SendTx, IsOpenRow
<1>12. InspectFacts'
  BY <1>2, <1>8 DEF InspectFacts
<1>13. LandInOrder'
  <2> SUFFICES ASSUME NEW m \in 1 .. Latest', NEW n \in 1 .. Latest', m < n,
                      mined'[m].tx.job = mined'[n].tx.job, mined'[m].tx.job # None,
                      mined'[m].ok, mined'[n].ok
               PROVE  mined'[m].tx.step <= mined'[n].tx.step
    BY DEF LandInOrder
  <2>1. m \in 1 .. Latest
    BY <1>1
  <2>2. CASE n \in 1 .. Latest
    BY <1>1, <2>1, <2>2 DEF LandInOrder
  <2>3. CASE n = Latest'
    <3>1. mined[m].tx.step < t.step
      BY <1>1, <2>1, <2>3 DEF OneAtATime
    <3>2. mined[m] \in [tx : Tx, ok : BOOLEAN] /\ t \in Tx
      BY <2>1, ElementOfSeq DEF TypeOK, Latest
    <3>3. mined[m].tx.step \in Nat /\ t.step \in Nat
      BY <3>2, TxStep
    <3> QED
      BY <1>1, <2>1, <2>3, <3>1, <3>3
  <2> QED
    BY <1>1, <2>2, <2>3
<1> QED
  BY <1>3, <1>4, <1>5, <1>6, <1>7, <1>9, <1>10, <1>11, <1>12, <1>13

\* Transactions leave the pool, and those of the owner enter it.
LEMMA PoolShrinks ==
  ASSUME IInv, pool' \subseteq pool \cup {t \in Tx : t.job = None},
         \A t \in pool' : Latest <= t.nonce /\ t.nonce < MaxNonce,
         \A t, u \in pool' : t.nonce = u.nonce => t = u,
         ownerTxs' \in Nat, UNCHANGED <<mined, rows, jobs, task, send, facts, crashes>>
  PROVE  IInv'
<1> USE DEF IInv
<1>1. TypeOK'
  BY DEF TypeOK
<1>2. ChainOrder'
  BY DEF ChainOrder, Latest
<1>3. WayKnown'
  BY DEF WayKnown, IsOpenRow
<1>4. EffectKnown'
  BY DEF EffectKnown, Latest
<1>5. OneAtATime'
  BY DEF OneAtATime, Latest
<1>6. /\ \A s : \A j \in Jobs : Clear(j, s) => Clear(j, s)'
      /\ \A j, s : Took(j, s)' = Took(j, s)
  <2>1. \A s : \A j \in Jobs : Clear(j, s) => Clear(j, s)'
    BY TxAssumption DEF Clear
  <2>2. \A j, s : Took(j, s)' = Took(j, s)
    BY DEF Took, Latest
  <2> QED
    BY <2>1, <2>2
<1>7. JobFacts'
  BY <1>6 DEF JobFacts
<1>8. TaskFacts'
  BY DEF TaskFacts
<1>9. ExecuteFacts'
  <2> SUFFICES ASSUME task.at = "execute" PROVE ExecuteFacts'
    BY DEF ExecuteFacts
  <2>1. task.job \in Jobs
    BY DEF TaskFacts
  <2>2. \A s \in Steps : s = send.step \/
          (Clear(task.job, s)' /\ (Took(task.job, s)' => rows[task.job][s].state = "confirmed"))
    BY <1>6, <2>1 DEF ExecuteFacts
  <2>3. send.at \in {"preflight", "marked", "signed"} =>
          Clear(task.job, send.step)' /\ ~Took(task.job, send.step)'
    BY <1>6, <2>1 DEF ExecuteFacts
  <2> QED
    BY <2>2, <2>3 DEF ExecuteFacts, Ahead, Done, Row, SendTx, IsOpenRow
<1>10. InspectFacts'
  BY <1>6 DEF InspectFacts, TaskFacts
<1>11. LandInOrder'
  BY DEF LandInOrder, Latest
<1> QED
  BY <1>1, <1>2, <1>3, <1>4, <1>5, <1>7, <1>8, <1>9, <1>10, <1>11

LEMMA EvictKeeps ==
  ASSUME IInv, NEW t \in pool, Evict(t)
  PROVE  IInv'
BY PoolShrinks DEF Evict, IInv, ChainOrder, TypeOK

LEMMA OwnerSendsKeeps ==
  ASSUME IInv, NEW n \in 0 .. MaxNonce, NEW b \in 1 .. MaxBid, OwnerSends(n, b)
  PROVE  IInv'
<1> DEFINE t == OwnerTx(n, b)
<1>1. t \in Tx /\ t.job = None /\ t.nonce = n
  BY TxAssumption DEF OwnerTx, Tx
<1>2. pool' = {o \in pool : o.nonce # n} \cup {t} /\ Latest <= n /\ n < MaxNonce
  BY <1>1 DEF OwnerSends, Admitted, Admissible
<1>3. \A u, v \in pool' : u.nonce = v.nonce => u = v
  BY <1>1, <1>2 DEF IInv, ChainOrder
<1>4. \A u \in pool' : Latest <= u.nonce /\ u.nonce < MaxNonce
  BY <1>1, <1>2 DEF IInv, ChainOrder
<1>5. ownerTxs' \in Nat /\ UNCHANGED <<mined, rows, jobs, task, send, facts, crashes>>
  BY DEF OwnerSends, IInv, TypeOK
<1> QED
  BY <1>1, <1>2, <1>3, <1>4, <1>5, PoolShrinks

-----------------------------------------------------------------------------
(* The holder of the wallet lock *)

\* What survives as long as the chain stands still.
LEMMA ChainStill ==
  ASSUME IInv, UNCHANGED <<mined, pool>>
  PROVE  /\ ChainOrder' /\ OneAtATime' /\ LandInOrder' /\ Latest' = Latest
         /\ \A j, s : Clear(j, s)' = Clear(j, s) /\ Took(j, s)' = Took(j, s)
<1>1. Latest' = Latest
  BY DEF Latest
<1>2. ChainOrder' /\ OneAtATime' /\ LandInOrder'
  BY <1>1 DEF IInv, ChainOrder, OneAtATime, LandInOrder
<1>3. \A j, s : Clear(j, s)' = Clear(j, s) /\ Took(j, s)' = Took(j, s)
  BY <1>1 DEF Clear, Took
<1> QED
  BY <1>1, <1>2, <1>3

LEMMA RowsStill ==
  ASSUME IInv, UNCHANGED <<mined, pool, rows>>
  PROVE  WayKnown' /\ EffectKnown'
BY DEF IInv, WayKnown, EffectKnown, IsOpenRow, Latest

\* A job that has no transaction starts with a clean slate.
LEMMA RunJobKeeps ==
  ASSUME IInv, NEW j \in Jobs, RunJob(j)
  PROVE  IInv'
<1> USE DEF IInv
<1>1. /\ task = Idle /\ jobs[j] = "planned" /\ jobs' = [jobs EXCEPT ![j] = "running"]
      /\ task' = [kind |-> "run", job |-> j, at |-> "execute"]
      /\ UNCHANGED <<mined, pool, ownerTxs, rows, send, facts, crashes>>
  BY DEF RunJob, chain
<1>2. send = NoSend
  BY <1>1 DEF TaskFacts, Idle
<1>3. TypeOK'
  BY <1>1 DEF TypeOK
<1>4. /\ ChainOrder' /\ OneAtATime' /\ LandInOrder' /\ WayKnown' /\ EffectKnown'
      /\ \A i, s : Clear(i, s)' = Clear(i, s) /\ Took(i, s)' = Took(i, s)
  BY <1>1, ChainStill, RowsStill
<1>5. JobFacts'
  BY <1>1, <1>4 DEF JobFacts, TypeOK
<1>6. TaskFacts'
  BY <1>1, <1>2 DEF TaskFacts, TypeOK, NoSend
<1>7. ExecuteFacts'
  <2>1. \A s \in Steps : Clear(j, s)' /\ ~Took(j, s)'
    BY <1>1, <1>4 DEF JobFacts
  <2>2. task'.job = j /\ send'.at = "idle"
    BY <1>1, <1>2 DEF NoSend
  <2>3. \A s \in Steps : Clear(task.job, s)' /\ ~Took(task.job, s)'
    BY <2>1, <2>2, <1>1, <1>4
  <2> QED
    BY <2>2, <2>3 DEF ExecuteFacts
<1>8. InspectFacts'
  BY <1>1 DEF InspectFacts
<1> QED
  BY <1>3, <1>4, <1>5, <1>6, <1>7, <1>8

LEMMA CompleteKeeps ==
  ASSUME IInv, Complete
  PROVE  IInv'
<1> USE DEF IInv
<1>1. /\ task.at = "execute" /\ send = NoSend /\ task' = Idle
      /\ jobs' = [jobs EXCEPT ![task.job] = "completed"]
      /\ UNCHANGED <<mined, pool, ownerTxs, rows, send, facts, crashes>>
  BY DEF Complete, chain
<1>2. task.job \in Jobs
  BY <1>1 DEF TaskFacts
<1>3. TypeOK'
  BY <1>1, <1>2 DEF TypeOK, Idle
<1>4. /\ ChainOrder' /\ OneAtATime' /\ LandInOrder' /\ WayKnown' /\ EffectKnown'
      /\ \A i, s : Clear(i, s)' = Clear(i, s) /\ Took(i, s)' = Took(i, s)
  BY <1>1, ChainStill, RowsStill
<1>5. \A s \in Steps : Clear(task.job, s)
  BY <1>1, TxAssumption DEF ExecuteFacts, NoSend
<1>6. JobFacts'
  BY <1>1, <1>2, <1>4, <1>5 DEF JobFacts, TypeOK
<1>7. TaskFacts' /\ ExecuteFacts' /\ InspectFacts'
  BY <1>1 DEF TaskFacts, ExecuteFacts, InspectFacts, Idle
<1> QED
  BY <1>3, <1>4, <1>6, <1>7

\* The restart puts running jobs into recovery and leaves no task.
LEMMA CrashKeeps ==
  ASSUME IInv, Crash
  PROVE  IInv'
<1> USE DEF IInv
<1>1. /\ jobs' = [j \in Jobs |-> IF jobs[j] = "running" THEN "recovery" ELSE jobs[j]]
      /\ task' = Idle /\ send' = NoSend /\ facts' = NoFacts /\ crashes' = crashes + 1
      /\ UNCHANGED <<mined, pool, ownerTxs, rows>>
  BY DEF Crash, chain
<1>2. TypeOK'
  BY <1>1 DEF TypeOK, Idle, NoSend, NoFacts, FactStates
<1>3. /\ ChainOrder' /\ OneAtATime' /\ LandInOrder' /\ WayKnown' /\ EffectKnown'
      /\ \A i, s : Clear(i, s)' = Clear(i, s) /\ Took(i, s)' = Took(i, s)
  BY <1>1, ChainStill, RowsStill
<1>4. JobFacts'
  BY <1>1, <1>3 DEF JobFacts, TypeOK
<1>5. TaskFacts' /\ ExecuteFacts' /\ InspectFacts'
  BY <1>1 DEF TaskFacts, ExecuteFacts, InspectFacts, Idle, NoSend
<1> QED
  BY <1>2, <1>3, <1>4, <1>5

\* A row that was not sent, or failed, has no transaction on the way and none
\* that took effect; R is the table of the rows, before or after a step.
LEMMA UnusedRowClear ==
  ASSUME NEW R, NEW j, j # None, NEW s, R[j][s].state \in {"none", "failed"},
         \A u \in pool : u.job # None => R[u.job][u.step].state \in {"sending", "sent"},
         \A n \in 1 .. Latest : mined[n].ok /\ mined[n].tx.job # None =>
            R[mined[n].tx.job][mined[n].tx.step].state \in {"sending", "sent", "confirmed"}
  PROVE  Clear(j, s) /\ ~Took(j, s)
<1>1. Clear(j, s)
  <2> SUFFICES ASSUME NEW u \in pool, u.job = j, u.step = s PROVE FALSE
    BY DEF Clear
  <2> QED
    OBVIOUS
<1>2. ~Took(j, s)
  <2> SUFFICES ASSUME NEW n \in 1 .. Latest, mined[n].tx.job = j, mined[n].tx.step = s, mined[n].ok
               PROVE  FALSE
    BY DEF Took
  <2>1. R[j][s].state \in {"sending", "sent", "confirmed"}
    OBVIOUS
  <2> QED
    BY <2>1
<1> QED
  BY <1>1, <1>2

\* An inspection begins with the rows that were never used.
LEMMA BeginInspectionKeeps ==
  ASSUME IInv, NEW j \in Jobs, NEW kind \in {"recover", "stop"}, BeginInspection(j, kind)
  PROVE  IInv'
<1> USE DEF IInv
<1>1. /\ task = Idle /\ task' = [kind |-> kind, job |-> j, at |-> "inspect"]
      /\ facts' = [s \in Steps |-> IF rows[j][s] = NoRow THEN "none" ELSE "unread"]
      /\ UNCHANGED <<mined, pool, ownerTxs, rows, jobs, send, crashes>>
  BY DEF BeginInspection, chain
<1>2. send = NoSend
  BY <1>1 DEF TaskFacts, Idle
<1>3. TypeOK'
  BY <1>1 DEF TypeOK, FactStates
<1>4. /\ ChainOrder' /\ OneAtATime' /\ LandInOrder' /\ WayKnown' /\ EffectKnown'
      /\ \A i, s : Clear(i, s)' = Clear(i, s) /\ Took(i, s)' = Took(i, s)
  BY <1>1, ChainStill, RowsStill
<1>5. JobFacts'
  BY <1>1, <1>4 DEF JobFacts
<1>6. TaskFacts' /\ ExecuteFacts'
  BY <1>1, <1>2 DEF TaskFacts, ExecuteFacts, NoSend
<1>7. \A s \in Steps : rows[j][s] = NoRow => Clear(j, s) /\ ~Took(j, s)
  <2> SUFFICES ASSUME NEW s \in Steps, rows[j][s] = NoRow PROVE Clear(j, s) /\ ~Took(j, s)
    OBVIOUS
  <2>1. rows[j][s].state = "none" /\ j # None
    BY TxAssumption DEF NoRow
  <2>2. \A u \in pool : u.job # None => rows[u.job][u.step].state \in {"sending", "sent"}
    BY DEF WayKnown, IsOpenRow
  <2>3. \A n \in 1 .. Latest : mined[n].ok /\ mined[n].tx.job # None =>
           rows[mined[n].tx.job][mined[n].tx.step].state \in {"sending", "sent", "confirmed"}
    BY DEF EffectKnown
  <2>4. rows[j][s].state \in {"none", "failed"}
    BY <2>1
  <2> QED
    BY <2>1, <2>2, <2>3, <2>4, UnusedRowClear
<1>8. InspectFacts'
  BY <1>1, <1>4, <1>7 DEF InspectFacts
<1> QED
  BY <1>3, <1>4, <1>5, <1>6, <1>8

-----------------------------------------------------------------------------
(* The inspection *)

\* The fact of the hash: what is not on the way and has no effect stays so.
LEMMA HashFactMeans ==
  ASSUME IInv, NEW j \in Jobs, NEW s \in Steps
  PROVE  LET fact == HashFact(rows[j][s]) IN
         /\ fact \in FactStates
         /\ fact \in {"missing", "reverted", "confirmed"} => Clear(j, s)
         /\ fact \in {"missing", "reverted"} => ~Took(j, s)
         /\ fact \notin {"none", "absent"}
<1> USE DEF IInv
<1> DEFINE r == rows[j][s]
           fact == HashFact(r)
<1>1. /\ fact \in FactStates \ {"none", "absent"}
      /\ fact = "confirmed" => IsMined(r.hash)
      /\ fact = "reverted" => IsMined(r.hash) /\ ~Landed(r.hash)
      /\ fact = "missing" => r.hash = None \/ (~IsMined(r.hash) /\ r.hash \notin pool)
  BY DEF HashFact, FactStates
<1>2. Latest \in Nat /\ None \notin Tx /\ j # None
  BY LenProperties, TxAssumption DEF TypeOK, Latest
<1>3. ASSUME NEW t \in pool, t.job = j, t.step = s
      PROVE  t = r.hash /\ t \in Tx /\ ~IsMined(t)
  BY <1>2, <1>3 DEF WayKnown, ChainOrder, IsMined, TypeOK, Tx
<1>4. fact \in {"missing", "reverted", "confirmed"} => Clear(j, s)
  BY <1>1, <1>2, <1>3 DEF Clear
<1>5. ASSUME Took(j, s)
      PROVE  r.hash \in Tx /\ Landed(r.hash)
  <2>1. PICK n \in 1 .. Latest : mined[n].tx.job = j /\ mined[n].tx.step = s /\ mined[n].ok
    BY <1>5 DEF Took
  <2>2. mined[n].tx = r.hash
    BY <1>2, <2>1 DEF EffectKnown
  <2>3. mined[n] \in [tx : Tx, ok : BOOLEAN]
    BY <2>1, ElementOfSeq DEF TypeOK, Latest
  <2>4. r.hash.nonce = n - 1 /\ (n - 1) + 1 = n /\ n - 1 < Latest
    BY <1>2, <2>2 DEF ChainOrder
  <2> QED
    BY <2>1, <2>2, <2>3, <2>4 DEF Landed, IsMined, MinedAt
<1>6. fact \in {"missing", "reverted"} => ~Took(j, s)
  BY <1>1, <1>2, <1>5 DEF Landed
<1> QED
  BY <1>1, <1>4, <1>6

\* Reading a fact changes nothing but the fact.
LEMMA SettleKeeps ==
  ASSUME IInv, task.at = "inspect", NEW s \in Steps, NEW f \in FactStates, Settle(s, f),
         f \in {"none", "missing", "absent", "reverted", "confirmed"} => Clear(task.job, s),
         f \in {"none", "missing", "absent", "reverted"} => ~Took(task.job, s)
  PROVE  IInv'
<1> USE DEF IInv
<1>1. /\ facts' = [facts EXCEPT ![s] = f]
      /\ UNCHANGED <<mined, pool, ownerTxs, rows, jobs, task, send, crashes>>
  BY DEF Settle, chain
<1>2. TypeOK'
  BY <1>1 DEF TypeOK
<1>3. /\ ChainOrder' /\ OneAtATime' /\ LandInOrder' /\ WayKnown' /\ EffectKnown'
      /\ \A i, q : Clear(i, q)' = Clear(i, q) /\ Took(i, q)' = Took(i, q)
  BY <1>1, ChainStill, RowsStill
<1>4. JobFacts'
  BY <1>1, <1>3 DEF JobFacts
<1>5. TaskFacts' /\ ExecuteFacts'
  BY <1>1 DEF TaskFacts, ExecuteFacts
<1>6. InspectFacts'
  BY <1>1, <1>3 DEF InspectFacts, TypeOK
<1> QED
  BY <1>2, <1>3, <1>4, <1>5, <1>6

\* The row an inspection is at.
LEMMA UnsettledRow ==
  ASSUME TypeOK, Unsettled # {}
  PROVE  Min(Unsettled) \in Steps
BY MinOfNat, TxAssumption DEF Unsettled

LEMMA LookUpKeeps ==
  ASSUME IInv, LookUp
  PROVE  IInv'
<1> DEFINE s == Min(Unsettled)
           f == HashFact(rows[task.job][s])
<1>1. s \in Steps /\ task.job \in Jobs /\ task.at = "inspect" /\ Settle(s, f)
  BY UnsettledRow DEF LookUp, IInv, TaskFacts
<1> HIDE DEF s
<1>2. /\ f \in FactStates /\ f \notin {"none", "absent"}
      /\ f \in {"missing", "reverted", "confirmed"} => Clear(task.job, s)
      /\ f \in {"missing", "reverted"} => ~Took(task.job, s)
  BY <1>1, HashFactMeans
<1> HIDE DEF f
<1> QED
  BY <1>1, <1>2, SettleKeeps

LEMMA CountNoncesKeeps ==
  ASSUME IInv, CountNonces
  PROVE  IInv'
<1> DEFINE s == Min(Unsettled)
<1>1. PICK f \in {"absent", "ambiguous"} : Settle(s, f)
  BY DEF CountNonces, NonceFact
<1>2. s \in Steps /\ facts[s] = "missing" /\ task.at = "inspect"
  BY UnsettledRow DEF CountNonces, IInv
<1>3. Clear(task.job, s) /\ ~Took(task.job, s)
  BY <1>2 DEF IInv, InspectFacts
<1> HIDE DEF s
<1> QED
  BY <1>1, <1>2, <1>3, SettleKeeps DEF FactStates

\* Reconciliation closes only rows whose transaction can no longer be mined,
\* and fails only those without effect.
LEMMA ReconciledKnown ==
  ASSUME IInv, Concluded, rows' = Reconciled, UNCHANGED <<mined, pool>>
  PROVE  /\ rows' \in [Jobs -> [Steps -> [state : RowStates, nonce : Nat,
                                          data : Payloads \cup {0}, hash : Tx \cup {None}]]]
         /\ WayKnown' /\ EffectKnown'
         /\ \A s \in Steps : facts[s] = "confirmed" => rows'[task.job][s].state = "confirmed"
<1> USE DEF IInv
<1> DEFINE j == task.job
<1>1. j \in Jobs /\ task.at = "inspect" /\ rows[j] \in [Steps -> [state : RowStates, nonce : Nat,
                                          data : Payloads \cup {0}, hash : Tx \cup {None}]]
  BY DEF Concluded, TaskFacts, TypeOK
<1>2. /\ \A k \in Jobs : k # j => rows'[k] = rows[k]
      /\ \A s \in Steps : rows'[j][s] =
           CASE facts[s] = "confirmed" -> [rows[j][s] EXCEPT !.state = "confirmed"]
             [] facts[s] \in {"reverted", "absent"} -> [rows[j][s] EXCEPT !.state = "failed"]
             [] OTHER -> rows[j][s]
      /\ rows' = [rows EXCEPT ![j] = [s \in Steps |-> rows'[j][s]]]
  BY <1>1 DEF Reconciled, TypeOK
<1>3. \A s \in Steps : /\ rows'[j][s] \in [state : RowStates, nonce : Nat,
                                            data : Payloads \cup {0}, hash : Tx \cup {None}]
                       /\ rows'[j][s].hash = rows[j][s].hash
                       /\ facts[s] = "confirmed" => rows'[j][s].state = "confirmed"
                       /\ facts[s] \in {"reverted", "absent"} => rows'[j][s].state = "failed"
                       /\ facts[s] \notin {"confirmed", "reverted", "absent"} => rows'[j][s] = rows[j][s]
  <2> SUFFICES ASSUME NEW s \in Steps
               PROVE  /\ rows'[j][s] \in [state : RowStates, nonce : Nat,
                                          data : Payloads \cup {0}, hash : Tx \cup {None}]
                      /\ rows'[j][s].hash = rows[j][s].hash
                      /\ facts[s] = "confirmed" => rows'[j][s].state = "confirmed"
                      /\ facts[s] \in {"reverted", "absent"} => rows'[j][s].state = "failed"
                      /\ facts[s] \notin {"confirmed", "reverted", "absent"} => rows'[j][s] = rows[j][s]
    OBVIOUS
  <2>1. rows[j][s] \in [state : RowStates, nonce : Nat, data : Payloads \cup {0}, hash : Tx \cup {None}]
    BY <1>1
  <2>2. CASE facts[s] = "confirmed"
    <3>1. rows'[j][s] = [rows[j][s] EXCEPT !.state = "confirmed"]
      BY <1>2, <2>2
    <3> QED
      BY <2>1, <2>2, <3>1 DEF RowStates
  <2>3. CASE facts[s] \in {"reverted", "absent"}
    <3>1. rows'[j][s] = [rows[j][s] EXCEPT !.state = "failed"]
      BY <1>2, <2>3
    <3> QED
      BY <2>1, <2>3, <3>1 DEF RowStates
  <2>4. CASE facts[s] \notin {"confirmed", "reverted", "absent"}
    BY <1>2, <2>1, <2>4
  <2> QED
    BY <2>2, <2>3, <2>4
<1>4. rows' \in [Jobs -> [Steps -> [state : RowStates, nonce : Nat,
                                   data : Payloads \cup {0}, hash : Tx \cup {None}]]]
  <2> DEFINE R == [state : RowStates, nonce : Nat, data : Payloads \cup {0}, hash : Tx \cup {None}]
             f == [s \in Steps |-> rows'[j][s]]
  <2>1. f \in [Steps -> R] /\ rows' = [rows EXCEPT ![j] = f] /\ rows \in [Jobs -> [Steps -> R]]
    BY <1>2, <1>3 DEF TypeOK
  <2> HIDE DEF f, R
  <2>2. rows' \in [Jobs -> [Steps -> R]]
    BY <2>1, <1>1
  <2> QED
    BY <2>2 DEF R
<1>5. \A s \in Steps : ~Clear(j, s) => rows'[j][s] = rows[j][s]
  BY <1>1, <1>3 DEF InspectFacts
<1>6. WayKnown'
  <2> SUFFICES ASSUME NEW t \in pool, t.job # None
               PROVE  t.step \in Steps /\ rows'[t.job][t.step].hash = t /\ rows'[t.job][t.step].state \in {"sending", "sent"}
    BY DEF WayKnown, IsOpenRow
  <2>1. t.step \in Steps /\ rows[t.job][t.step].hash = t /\ rows[t.job][t.step].state \in {"sending", "sent"}
    BY DEF WayKnown, IsOpenRow
  <2>2. t.job \in Jobs
    BY DEF TypeOK, Tx
  <2>3. CASE t.job = j
    BY <1>5, <2>1, <2>3 DEF Clear
  <2>4. CASE t.job # j
    BY <1>2, <2>1, <2>2, <2>4
  <2> QED
    BY <2>3, <2>4
<1>7. EffectKnown'
  <2> SUFFICES ASSUME NEW n \in 1 .. Latest, mined[n].ok, mined[n].tx.job # None
               PROVE  LET t == mined[n].tx IN
                      /\ t.step \in Steps /\ rows'[t.job][t.step].hash = t
                      /\ rows'[t.job][t.step].state \in {"sending", "sent", "confirmed"}
    BY DEF EffectKnown, Latest
  <2> DEFINE t == mined[n].tx
  <2>1. /\ t.step \in Steps /\ rows[t.job][t.step].hash = t
        /\ rows[t.job][t.step].state \in {"sending", "sent", "confirmed"}
    BY DEF EffectKnown
  <2>2. mined[n] \in [tx : Tx, ok : BOOLEAN]
    BY ElementOfSeq DEF TypeOK, Latest
  <2>3. t.job \in Jobs
    BY <2>2 DEF Tx
  <2>4. CASE t.job = j
    <3>1. Took(j, t.step)
      BY <2>4 DEF Took
    <3>2. facts[t.step] \notin {"reverted", "absent"}
      BY <1>1, <2>1, <3>1 DEF InspectFacts
    <3>3. rows[j][t.step].hash = t /\ rows[j][t.step].state \in {"sending", "sent", "confirmed"}
      BY <2>1, <2>4
    <3>4. /\ rows'[j][t.step].hash = t
          /\ rows'[j][t.step].state \in {"sending", "sent", "confirmed"}
      <4>1. CASE facts[t.step] = "confirmed"
        BY <1>3, <2>1, <3>3, <4>1
      <4>2. CASE facts[t.step] # "confirmed"
        <5>1. rows'[j][t.step] = rows[j][t.step]
          BY <1>3, <2>1, <3>2, <4>2
        <5> QED
          BY <3>3, <5>1
      <4> QED
        BY <4>1, <4>2
    <3> QED
      BY <2>1, <2>4, <3>4
  <2>5. CASE t.job # j
    BY <1>2, <2>1, <2>3, <2>5
  <2> QED
    BY <2>4, <2>5
<1> QED
  BY <1>3, <1>4, <1>6, <1>7

\* What the facts can be once all are read.
LEMMA SettledFacts ==
  ASSUME TypeOK, Concluded
  PROVE  \A s \in Steps : facts[s] \in {"none", "confirmed", "reverted", "absent"}
                          \/ facts[s] \in Facts \cap {"ambiguous", "pending"}
<1>1. \A s \in Steps : facts[s] \in FactStates /\ facts[s] \in Facts
  BY DEF TypeOK, Facts
<1>2. \A s \in Steps : facts[s] \notin {"unread", "missing"}
  BY DEF Concluded, Unsettled
<1> QED
  BY <1>1, <1>2 DEF FactStates

\* Defer, GiveUp and Archive end the inspection.
LEMMA InspectionEnds ==
  ASSUME IInv, Concluded, rows' = Reconciled, task' = Idle, facts' = NoFacts,
         jobs' \in [Jobs -> {"planned", "running", "recovery", "failed", "completed", "cancelled"}],
         JobFacts', UNCHANGED <<mined, pool, ownerTxs, send, crashes>>
  PROVE  IInv'
<1>1. /\ ChainOrder' /\ OneAtATime' /\ LandInOrder'
  BY ChainStill
<1>2. send = NoSend
  BY DEF IInv, TaskFacts, Concluded
<1>3. TypeOK'
  BY ReconciledKnown DEF IInv, TypeOK, Idle, NoFacts, FactStates
<1>4. TaskFacts' /\ ExecuteFacts' /\ InspectFacts'
  BY <1>2 DEF TaskFacts, ExecuteFacts, InspectFacts, Idle, NoSend
<1> QED
  BY <1>1, <1>3, <1>4, ReconciledKnown DEF IInv

LEMMA DeferKeeps ==
  ASSUME IInv, Defer
  PROVE  IInv'
<1>1. UNCHANGED <<mined, pool, ownerTxs, jobs, send, crashes>> /\ Concluded
      /\ rows' = Reconciled /\ task' = Idle /\ facts' = NoFacts
  BY DEF Defer, chain
<1>2. JobFacts'
  BY <1>1, ChainStill DEF IInv, JobFacts
<1> QED
  BY <1>1, <1>2, InspectionEnds DEF IInv, TypeOK

LEMMA GiveUpKeeps ==
  ASSUME IInv, GiveUp
  PROVE  IInv'
<1> USE DEF IInv
<1>1. /\ UNCHANGED <<mined, pool, ownerTxs, send, crashes>> /\ Concluded
      /\ rows' = Reconciled /\ task' = Idle /\ facts' = NoFacts
      /\ jobs' = [jobs EXCEPT ![task.job] = "failed"]
      /\ Facts \cap {"ambiguous", "pending", "confirmed"} = {}
  BY DEF GiveUp, chain
<1>2. task.job \in Jobs /\ task.at = "inspect"
  BY <1>1 DEF TaskFacts, Concluded
<1>3. \A s \in Steps : facts[s] \in {"none", "absent", "reverted"}
  BY <1>1, SettledFacts DEF Facts
<1>4. \A s \in Steps : Clear(task.job, s) /\ ~Took(task.job, s)
  BY <1>2, <1>3 DEF InspectFacts
<1>5. JobFacts'
  BY <1>1, <1>2, <1>4, ChainStill DEF JobFacts, TypeOK
<1>6. jobs' \in [Jobs -> {"planned", "running", "recovery", "failed", "completed", "cancelled"}]
  BY <1>1 DEF TypeOK
<1> QED
  BY <1>1, <1>5, <1>6, InspectionEnds

LEMMA ArchiveKeeps ==
  ASSUME IInv, Archive
  PROVE  IInv'
<1> USE DEF IInv
<1>1. /\ UNCHANGED <<mined, pool, ownerTxs, send, crashes>> /\ Concluded
      /\ rows' = Reconciled /\ task' = Idle /\ facts' = NoFacts
      /\ jobs' = [jobs EXCEPT ![task.job] = "cancelled"]
      /\ Facts \cap {"ambiguous", "pending"} = {}
  BY DEF Archive, chain
<1>2. task.job \in Jobs /\ task.at = "inspect"
  BY <1>1 DEF TaskFacts, Concluded
<1>3. \A s \in Steps : facts[s] \in {"none", "absent", "reverted", "confirmed"}
  BY <1>1, SettledFacts
<1>4. \A s \in Steps : Clear(task.job, s)
  BY <1>2, <1>3 DEF InspectFacts
<1>5. JobFacts'
  BY <1>1, <1>2, <1>4, ChainStill DEF JobFacts, TypeOK
<1>6. jobs' \in [Jobs -> {"planned", "running", "recovery", "failed", "completed", "cancelled"}]
  BY <1>1 DEF TypeOK
<1> QED
  BY <1>1, <1>5, <1>6, InspectionEnds

\* A resumed job has confirmed what it did, and nothing is on the way.
LEMMA ResumeKeeps ==
  ASSUME IInv, Resume
  PROVE  IInv'
<1> USE DEF IInv
<1>1. /\ UNCHANGED <<mined, pool, ownerTxs, send, crashes>> /\ Concluded
      /\ rows' = Reconciled /\ task' = [task EXCEPT !.at = "execute"] /\ facts' = NoFacts
      /\ jobs' = [jobs EXCEPT ![task.job] = "running"]
      /\ Facts \cap {"ambiguous", "pending"} = {}
  BY DEF Resume, chain
<1>2. task.job \in Jobs /\ task.at = "inspect" /\ send = NoSend
  BY <1>1 DEF TaskFacts, Concluded
<1>3. task'.job = task.job /\ task'.at = "execute"
  BY <1>1 DEF TypeOK
<1>4. \A s \in Steps : facts[s] \in {"none", "absent", "reverted", "confirmed"}
  BY <1>1, SettledFacts
<1>5. \A s \in Steps : Clear(task.job, s)' /\ (Took(task.job, s)' => rows'[task.job][s].state = "confirmed")
  <2>1. \A s \in Steps : Clear(task.job, s) /\ (Took(task.job, s) => facts[s] = "confirmed")
    BY <1>2, <1>4 DEF InspectFacts
  <2> QED
    BY <1>1, <1>3, <2>1, ChainStill, ReconciledKnown
<1>6. TypeOK'
  BY <1>1, ReconciledKnown DEF TypeOK, NoFacts, FactStates
<1>7. JobFacts'
  BY <1>1, ChainStill DEF JobFacts, TypeOK
<1>8. TaskFacts'
  BY <1>1, <1>2, <1>3 DEF TaskFacts, TypeOK
<1>9. ExecuteFacts'
  BY <1>1, <1>2, <1>3, <1>5 DEF ExecuteFacts, NoSend
<1>10. InspectFacts'
  BY <1>3 DEF InspectFacts
<1> QED
  BY <1>1, <1>6, <1>7, <1>8, <1>9, <1>10, ChainStill, ReconciledKnown

-----------------------------------------------------------------------------
(* sendTracked *)

RowType == [state : RowStates, nonce : Nat, data : Payloads \cup {0}, hash : Tx \cup {None}]

\* The sender is at a step that is not done.
LEMMA SenderAt ==
  ASSUME IInv, send.at # "idle"
  PROVE  /\ task.at = "execute" /\ task.job \in Jobs /\ jobs[task.job] = "running"
         /\ send.step \in Steps /\ send.step \in Ahead(task.job)
         /\ rows[task.job] \in [Steps -> RowType] /\ Row \in RowType
         /\ SendTx \in Tx /\ send.nonce < MaxNonce
<1>1. task.at = "execute"
  BY DEF IInv, TaskFacts, NoSend
<1>2. task.job \in Jobs /\ jobs[task.job] = "running" /\ send.nonce < MaxNonce
      /\ send.step \in Ahead(task.job) /\ send.step \in Steps
  BY <1>1 DEF IInv, TaskFacts, ExecuteFacts, Ahead
<1>3. rows[task.job] \in [Steps -> RowType] /\ Row \in RowType
  BY <1>2 DEF IInv, TypeOK, RowType, Row
<1>4. SendTx \in Tx
  BY <1>2 DEF IInv, TypeOK, SendTx, Tx
<1> QED
  BY <1>1, <1>2, <1>3, <1>4

\* A row is written over only when it hides no transaction.
LEMMA RowWritten ==
  ASSUME IInv, send.at # "idle", UNCHANGED <<mined, pool>>, NEW r \in RowType, rows' = WithRow(r),
         Clear(task.job, send.step) \/ (r.hash = Row.hash /\ r.state \in {"sending", "sent"}),
         ~Took(task.job, send.step) \/ (r.hash = Row.hash /\ r.state \in {"sending", "sent", "confirmed"})
  PROVE  /\ rows' \in [Jobs -> [Steps -> RowType]]
         /\ rows'[task.job][send.step] = r
         /\ \A s \in Steps \ {send.step} : rows'[task.job][s] = rows[task.job][s]
         /\ WayKnown' /\ EffectKnown'
<1> USE DEF IInv
<1>1. task.job \in Jobs /\ send.step \in Steps /\ rows \in [Jobs -> [Steps -> RowType]]
  BY SenderAt DEF TypeOK, RowType
<1>2. /\ rows' \in [Jobs -> [Steps -> RowType]]
      /\ rows'[task.job][send.step] = r
      /\ \A j \in Jobs, s \in Steps : j # task.job \/ s # send.step => rows'[j][s] = rows[j][s]
  BY <1>1 DEF WithRow
<1>3. WayKnown'
  <2> SUFFICES ASSUME NEW t \in pool, t.job # None
               PROVE  t.step \in Steps /\ rows'[t.job][t.step].hash = t
                      /\ rows'[t.job][t.step].state \in {"sending", "sent"}
    BY DEF WayKnown, IsOpenRow
  <2>1. t.step \in Steps /\ rows[t.job][t.step].hash = t
    BY DEF WayKnown
  <2>2. t.job \in Jobs /\ rows[t.job][t.step].state \in {"sending", "sent"}
    BY DEF TypeOK, Tx, WayKnown, IsOpenRow
  <2>3. CASE t.job = task.job /\ t.step = send.step
    BY <1>2, <2>1, <2>3 DEF Clear, Row
  <2>4. CASE t.job # task.job \/ t.step # send.step
    BY <1>2, <2>1, <2>2, <2>4
  <2> QED
    BY <2>3, <2>4
<1>4. EffectKnown'
  <2> SUFFICES ASSUME NEW n \in 1 .. Latest, mined[n].ok, mined[n].tx.job # None
               PROVE  LET t == mined[n].tx IN
                      /\ t.step \in Steps /\ rows'[t.job][t.step].hash = t
                      /\ rows'[t.job][t.step].state \in {"sending", "sent", "confirmed"}
    BY DEF EffectKnown, Latest
  <2> DEFINE t == mined[n].tx
  <2>1. /\ t.step \in Steps /\ rows[t.job][t.step].hash = t
        /\ rows[t.job][t.step].state \in {"sending", "sent", "confirmed"}
    BY DEF EffectKnown
  <2>2. mined[n] \in [tx : Tx, ok : BOOLEAN]
    BY ElementOfSeq DEF TypeOK, Latest
  <2>3. t.job \in Jobs
    BY <2>2 DEF Tx
  <2>4. CASE t.job = task.job /\ t.step = send.step
    <3>1. Took(task.job, send.step)
      BY <2>4 DEF Took
    <3> QED
      BY <1>2, <2>1, <2>4, <3>1 DEF Row
  <2>5. CASE t.job # task.job \/ t.step # send.step
    BY <1>2, <2>1, <2>3, <2>5
  <2> QED
    BY <2>4, <2>5
<1> QED
  BY <1>1, <1>2, <1>3, <1>4

\* A job that throws and is not left for recovery has nothing open or landed.
LEMMA ThrowKeeps ==
  ASSUME IInv, send.at # "idle", NEW newRows, AfterThrow(newRows),
         newRows \in [Jobs -> [Steps -> RowType]], WayKnown', EffectKnown'
  PROVE  IInv'
<1> USE DEF IInv
<1>1. /\ rows' = newRows /\ task' = Idle /\ send' = NoSend
      /\ UNCHANGED <<mined, pool, ownerTxs, facts, crashes>>
  BY DEF AfterThrow, chain
<1>2. PICK state \in StatesAfterThrow(newRows[task.job]) : jobs' = [jobs EXCEPT ![task.job] = state]
  BY DEF AfterThrow
<1>3. task.job \in Jobs
  BY SenderAt
<1>4. /\ state \in {"failed", "recovery"}
      /\ state = "failed" => \A s \in Steps : rows'[task.job][s].state \in {"none", "failed"}
  BY <1>1 DEF StatesAfterThrow
<1>5. ChainOrder' /\ OneAtATime' /\ LandInOrder'
      /\ \A i, s : Clear(i, s)' = Clear(i, s) /\ Took(i, s)' = Took(i, s)
  BY <1>1, ChainStill
<1>6. TypeOK'
  BY <1>1, <1>2, <1>4 DEF TypeOK, RowType, Idle, NoSend
<1>7. JobFacts'
  <2> SUFFICES ASSUME NEW j \in Jobs
               PROVE  /\ jobs'[j] \in {"planned", "failed", "completed", "cancelled"} => \A s \in Steps : Clear(j, s)'
                      /\ jobs'[j] \in {"planned", "failed"} => \A s \in Steps : ~Took(j, s)'
    BY DEF JobFacts
  <2>1. CASE j = task.job
    <3>1. jobs'[j] = state
      BY <1>2, <1>3, <2>1 DEF TypeOK
    <3>2. state = "failed" => \A s \in Steps : Clear(j, s) /\ ~Took(j, s)
      <4> SUFFICES ASSUME state = "failed", NEW s \in Steps PROVE Clear(j, s) /\ ~Took(j, s)
        OBVIOUS
      <4>1. rows'[j][s].state \in {"none", "failed"} /\ j # None
        BY <1>3, <1>4, <2>1, TxAssumption
      <4>2. \A u \in pool : u.job # None => rows'[u.job][u.step].state \in {"sending", "sent"}
        BY <1>1 DEF WayKnown, IsOpenRow
      <4>3. \A n \in 1 .. Latest : mined[n].ok /\ mined[n].tx.job # None =>
               rows'[mined[n].tx.job][mined[n].tx.step].state \in {"sending", "sent", "confirmed"}
        BY <1>1 DEF EffectKnown, Latest
      <4> DEFINE R == rows'
      <4> HIDE DEF R
      <4>4. /\ R[j][s].state \in {"none", "failed"} /\ j # None
            /\ \A u \in pool : u.job # None => R[u.job][u.step].state \in {"sending", "sent"}
            /\ \A n \in 1 .. Latest : mined[n].ok /\ mined[n].tx.job # None =>
                 R[mined[n].tx.job][mined[n].tx.step].state \in {"sending", "sent", "confirmed"}
        BY <4>1, <4>2, <4>3 DEF R
      <4> QED
        BY <4>4, UnusedRowClear
    <3> QED
      BY <1>4, <1>5, <3>1, <3>2
  <2>2. CASE j # task.job
    BY <1>2, <1>5, <2>2 DEF JobFacts, TypeOK
  <2> QED
    BY <2>1, <2>2
<1>8. TaskFacts' /\ ExecuteFacts' /\ InspectFacts'
  BY <1>1 DEF TaskFacts, ExecuteFacts, InspectFacts, Idle, NoSend
<1> QED
  BY <1>5, <1>6, <1>7, <1>8

\* The next step of a job has had no effect, and nothing of the job is on the way.
LEMMA ReadNonceKeeps ==
  ASSUME IInv, ReadNonce
  PROVE  IInv'
<1> USE DEF IInv
<1> DEFINE s == Min(Ahead(task.job))
           n == PendingNonce
<1>1. /\ task.at = "execute" /\ send = NoSend /\ Ahead(task.job) # {} /\ n < MaxNonce
      /\ send' = [NoSend EXCEPT !.at = "preflight", !.step = s, !.nonce = n]
      /\ UNCHANGED <<mined, pool, ownerTxs, rows, jobs, task, facts, crashes>>
  BY DEF ReadNonce, chain
<1>2. task.job \in Jobs /\ s \in Ahead(task.job) /\ s \in Steps
  BY <1>1, NextStep DEF TaskFacts
<1>3. n \in Nat
  BY PendingFree, LenProperties DEF TypeOK, Latest
<1> HIDE DEF s, n
<1>4. /\ send'.at = "preflight" /\ send'.step = s /\ send'.nonce = n
      /\ send' \in [at : {"idle", "preflight", "marked", "signed", "admitted", "sent"},
                    step : Steps \cup {0}, nonce : Nat, data : Payloads \cup {0}, bid : Nat]
  BY <1>1, <1>2, <1>3 DEF NoSend
<1>5. TypeOK'
  BY <1>1, <1>4 DEF TypeOK
<1>6. /\ ChainOrder' /\ OneAtATime' /\ LandInOrder' /\ WayKnown' /\ EffectKnown'
      /\ \A i, q : Clear(i, q)' = Clear(i, q) /\ Took(i, q)' = Took(i, q)
  BY <1>1, ChainStill, RowsStill
<1>7. JobFacts'
  BY <1>1, <1>6 DEF JobFacts
<1>8. TaskFacts' /\ InspectFacts'
  BY <1>1, <1>4 DEF TaskFacts, InspectFacts
<1>9. \A q \in Steps : Clear(task.job, q) /\ (Took(task.job, q) => rows[task.job][q].state = "confirmed")
  BY <1>1, TxAssumption DEF ExecuteFacts, NoSend
<1>10. ~Took(task.job, s)
  BY <1>2, <1>9, TxAssumption DEF Ahead, Done
<1>11. ExecuteFacts'
  <2>1. Ahead(task.job)' = Ahead(task.job)
    BY <1>1 DEF Ahead, Done
  <2>2. \A q \in Steps : Clear(task.job, q)' /\ (Took(task.job, q)' => rows[task.job][q].state = "confirmed")
    BY <1>1, <1>6, <1>9
  <2>3. \A q : q = s => ~Took(task.job, q)'
    BY <1>1, <1>6, <1>10
  <2>4. Clear(task.job, send.step)' /\ ~Took(task.job, send.step)' /\ send'.step \in Ahead(task.job)'
    BY <1>1, <1>2, <1>4, <2>1, <2>2, <2>3
  <2> QED
    BY <1>1, <1>4, <2>2, <2>4 DEF ExecuteFacts
<1> QED
  BY <1>5, <1>6, <1>7, <1>8, <1>11

\* One step of sendTracked that writes the row: what it must show of the new state.
LEMMA SenderSteps ==
  ASSUME IInv, send.at # "idle", UNCHANGED <<mined, pool, ownerTxs, jobs, task, facts, crashes>>,
         NEW r \in RowType, rows' = WithRow(r), IsOpenRow(r) \/ r = Row,
         r.hash = Row.hash \/ (Clear(task.job, send.step) /\ ~Took(task.job, send.step)),
         send' \in [at : {"preflight", "marked", "signed", "admitted", "sent"},
                   step : {send.step}, nonce : {send.nonce}, data : Payloads \cup {0}, bid : Nat],
         send'.at \in {"preflight", "marked", "signed"} => Clear(task.job, send.step) /\ ~Took(task.job, send.step),
         send'.at # "preflight" => IsOpenRow(r),
         send'.at \in {"signed", "admitted", "sent"} => r.hash = SendTx'
  PROVE  IInv'
<1> USE DEF IInv
<1>1. /\ task.at = "execute" /\ task.job \in Jobs /\ send.step \in Steps
      /\ send.step \in Ahead(task.job) /\ send.nonce < MaxNonce /\ Row \in RowType
      /\ rows[task.job] \in [Steps -> RowType]
  BY SenderAt
<1>2. /\ Clear(task.job, send.step) \/ (r.hash = Row.hash /\ r.state \in {"sending", "sent"}) \/ r = Row
      /\ ~Took(task.job, send.step) \/ (r.hash = Row.hash /\ r.state \in {"sending", "sent", "confirmed"}) \/ r = Row
  BY DEF IsOpenRow
<1>3. /\ ChainOrder' /\ OneAtATime' /\ LandInOrder'
      /\ \A i, q : Clear(i, q)' = Clear(i, q) /\ Took(i, q)' = Took(i, q)
  BY ChainStill
<1>4. /\ rows' \in [Jobs -> [Steps -> RowType]]
      /\ rows'[task.job][send.step] = r
      /\ \A q \in Steps \ {send.step} : rows'[task.job][q] = rows[task.job][q]
      /\ WayKnown' /\ EffectKnown'
  <2>1. CASE IsOpenRow(r)
    BY <2>1, RowWritten DEF IsOpenRow
  <2>2. CASE r = Row
    <3>1. rows' = rows
      BY <1>1, <2>2 DEF WithRow, Row, TypeOK
    <3> QED
      BY <1>1, <2>2, <3>1, RowsStill DEF TypeOK, RowType, Row
  <2> QED
    BY <2>1, <2>2
<1>5. TypeOK'
  BY <1>1, <1>4 DEF TypeOK, RowType
<1>6. JobFacts'
  BY <1>3 DEF JobFacts
<1>7. TaskFacts' /\ InspectFacts'
  BY <1>1 DEF TaskFacts, InspectFacts
<1>8. ExecuteFacts'
  <2>1. send'.step = send.step /\ send'.nonce = send.nonce /\ Row' = r
    BY <1>4 DEF Row
  <2>2. Done(task.job)' \subseteq Done(task.job)
    BY <1>1, <1>4 DEF Done, IsOpenRow, Row
  <2>3. send'.step \in Ahead(task.job)'
    BY <1>1, <2>1, <2>2 DEF Ahead
  <2>4. \A q \in Steps : q = send.step \/
          (Clear(task.job, q)' /\ (Took(task.job, q)' => rows'[task.job][q].state = "confirmed"))
    BY <1>1, <1>3, <1>4 DEF ExecuteFacts
  <2>5. send'.at \in {"preflight", "marked", "signed"} =>
          Clear(task.job, send.step)' /\ ~Took(task.job, send.step)'
    BY <1>3, <2>1
  <2> QED
    BY <1>1, <2>1, <2>3, <2>4, <2>5 DEF ExecuteFacts, IsOpenRow
<1> QED
  BY <1>3, <1>4, <1>5, <1>6, <1>7, <1>8

LEMMA MarkKeeps ==
  ASSUME IInv, NEW d \in Payloads, Mark(d)
  PROVE  IInv'
<1> DEFINE r == [state |-> "sending", nonce |-> send.nonce, data |-> d, hash |-> Row.hash]
<1>1. /\ send.at = "preflight" /\ rows' = WithRow(r)
      /\ send' = [send EXCEPT !.at = "marked", !.data = d]
      /\ UNCHANGED <<mined, pool, ownerTxs, jobs, task, facts, crashes>>
  BY DEF Mark, chain
<1>2. Row \in RowType /\ send \in [at : {"idle", "preflight", "marked", "signed", "admitted", "sent"},
                    step : Steps \cup {0}, nonce : Nat, data : Payloads \cup {0}, bid : Nat]
  BY <1>1, SenderAt DEF IInv, TypeOK
<1>3. r \in RowType /\ r.hash = Row.hash /\ IsOpenRow(r)
  BY <1>2 DEF RowType, RowStates, IsOpenRow
<1>4. send' \in [at : {"preflight", "marked", "signed", "admitted", "sent"},
                   step : {send.step}, nonce : {send.nonce}, data : Payloads \cup {0}, bid : Nat]
      /\ send'.at = "marked"
  BY <1>1, <1>2
<1>5. Clear(task.job, send.step) /\ ~Took(task.job, send.step)
  BY <1>1, SenderAt DEF IInv, ExecuteFacts
<1> HIDE DEF r
<1> QED
  BY <1>1, <1>3, <1>4, <1>5, SenderSteps

LEMMA SignKeeps ==
  ASSUME IInv, NEW b \in 1 .. MaxBid, Sign(b)
  PROVE  IInv'
<1> DEFINE r == [Row EXCEPT !.hash = [SendTx EXCEPT !.bid = b]]
<1>1. /\ send.at = "marked" /\ rows' = WithRow(r)
      /\ send' = [send EXCEPT !.at = "signed", !.bid = b]
      /\ UNCHANGED <<mined, pool, ownerTxs, jobs, task, facts, crashes>>
  BY DEF Sign, chain
<1>2. Row \in RowType /\ SendTx \in Tx /\ IsOpenRow(Row)
      /\ send \in [at : {"idle", "preflight", "marked", "signed", "admitted", "sent"},
                    step : Steps \cup {0}, nonce : Nat, data : Payloads \cup {0}, bid : Nat]
      /\ b \in Nat
  BY <1>1, SenderAt, TxAssumption DEF IInv, TypeOK, ExecuteFacts
<1>3. SendTx' = [SendTx EXCEPT !.bid = b] /\ SendTx' \in Tx
  BY <1>1, <1>2 DEF SendTx, Tx
<1>4. r \in RowType /\ r.hash = SendTx' /\ IsOpenRow(r)
  BY <1>2, <1>3 DEF RowType, IsOpenRow
<1>5. send' \in [at : {"preflight", "marked", "signed", "admitted", "sent"},
                   step : {send.step}, nonce : {send.nonce}, data : Payloads \cup {0}, bid : Nat]
      /\ send'.at = "signed"
  BY <1>1, <1>2
<1>6. Clear(task.job, send.step) /\ ~Took(task.job, send.step)
  BY <1>1, SenderAt DEF IInv, ExecuteFacts
<1> HIDE DEF r
<1> QED
  BY <1>1, <1>4, <1>5, <1>6, SenderSteps

LEMMA RefuseFeeKeeps ==
  ASSUME IInv, RefuseFee
  PROVE  IInv'
<1>1. /\ send.at = "signed" /\ send' = [send EXCEPT !.at = "marked"]
      /\ UNCHANGED <<mined, pool, ownerTxs, rows, jobs, task, facts, crashes>>
  BY DEF RefuseFee, chain
<1>2. /\ Row \in RowType /\ IsOpenRow(Row) /\ rows' = WithRow(Row)
      /\ send \in [at : {"idle", "preflight", "marked", "signed", "admitted", "sent"},
                    step : Steps \cup {0}, nonce : Nat, data : Payloads \cup {0}, bid : Nat]
  BY <1>1, SenderAt DEF IInv, TypeOK, ExecuteFacts, WithRow, Row
<1>3. send' \in [at : {"preflight", "marked", "signed", "admitted", "sent"},
                   step : {send.step}, nonce : {send.nonce}, data : Payloads \cup {0}, bid : Nat]
      /\ send'.at = "marked"
  BY <1>1, <1>2
<1>4. Clear(task.job, send.step) /\ ~Took(task.job, send.step)
  BY <1>1, SenderAt DEF IInv, ExecuteFacts
<1> QED
  BY <1>1, <1>2, <1>3, <1>4, SenderSteps

LEMMA MarkSentKeeps ==
  ASSUME IInv, MarkSent
  PROVE  IInv'
<1> DEFINE r == [Row EXCEPT !.state = "sent"]
<1>1. /\ send.at = "admitted" /\ rows' = WithRow(r) /\ send' = [send EXCEPT !.at = "sent"]
      /\ UNCHANGED <<mined, pool, ownerTxs, jobs, task, facts, crashes>>
  BY DEF MarkSent, chain
<1>2. /\ Row \in RowType /\ Row.hash = SendTx
      /\ send \in [at : {"idle", "preflight", "marked", "signed", "admitted", "sent"},
                    step : Steps \cup {0}, nonce : Nat, data : Payloads \cup {0}, bid : Nat]
  BY <1>1, SenderAt DEF IInv, TypeOK, ExecuteFacts
<1>3. send' \in [at : {"preflight", "marked", "signed", "admitted", "sent"},
                   step : {send.step}, nonce : {send.nonce}, data : Payloads \cup {0}, bid : Nat]
      /\ send'.at = "sent" /\ SendTx' = SendTx
  BY <1>1, <1>2 DEF SendTx
<1>4. r \in RowType /\ r.hash = Row.hash /\ IsOpenRow(r)
  BY <1>2 DEF RowType, RowStates, IsOpenRow
<1> HIDE DEF r
<1> QED
  BY <1>1, <1>2, <1>3, <1>4, SenderSteps

\* The broadcast of the one transaction that the row already names.
LEMMA BroadcastKeeps ==
  ASSUME IInv, Broadcast
  PROVE  IInv'
<1> USE DEF IInv
<1> DEFINE x == SendTx
<1>1. /\ send.at = "signed" /\ send' = [send EXCEPT !.at = "admitted"]
      /\ Admissible(x) /\ pool' = {o \in pool : o.nonce # x.nonce} \cup {x}
      /\ UNCHANGED <<mined, ownerTxs, rows, jobs, task, facts, crashes>>
  BY DEF Broadcast, Admitted
<1>2. /\ task.at = "execute" /\ task.job \in Jobs /\ jobs[task.job] = "running"
      /\ send.step \in Steps /\ send.step \in Ahead(task.job) /\ x \in Tx
      /\ x.job = task.job /\ x.step = send.step /\ x.nonce = send.nonce /\ send.nonce < MaxNonce
      /\ IsOpenRow(Row) /\ Row.hash = x
  BY <1>1, SenderAt DEF SendTx, ExecuteFacts
<1>3. \A s \in Steps : /\ Clear(task.job, s)
                       /\ Took(task.job, s) => rows[task.job][s].state = "confirmed"
  BY <1>1, <1>2 DEF ExecuteFacts
<1>4. ~Took(task.job, send.step)
  BY <1>1, <1>2 DEF ExecuteFacts
<1>5. \A t \in pool : t.job # task.job
  <2>1. task.job # None
    BY <1>2, TxAssumption
  <2> QED
    BY <1>3, <2>1 DEF WayKnown, Clear
<1>6. /\ send'.at = "admitted" /\ send'.step = send.step /\ send'.nonce = send.nonce /\ SendTx' = x
      /\ send' \in [at : {"idle", "preflight", "marked", "signed", "admitted", "sent"},
                    step : Steps \cup {0}, nonce : Nat, data : Payloads \cup {0}, bid : Nat]
  BY <1>1 DEF TypeOK, SendTx
<1> HIDE DEF x
<1>7. TypeOK'
  BY <1>1, <1>2, <1>6 DEF TypeOK
<1>8. Latest' = Latest /\ Latest \in Nat
  BY <1>1, LenProperties DEF Latest, TypeOK
<1>9. ChainOrder'
  <2>1. \A t \in pool' : Latest <= t.nonce /\ t.nonce < MaxNonce
    BY <1>1, <1>2 DEF ChainOrder, Admissible
  <2>2. \A t, u \in pool' : t.nonce = u.nonce => t = u
    BY <1>1 DEF ChainOrder
  <2> QED
    BY <1>1, <1>8, <2>1, <2>2 DEF ChainOrder
<1>10. WayKnown'
  BY <1>1, <1>2 DEF WayKnown, Row, IsOpenRow
<1>11. EffectKnown'
  BY <1>1, <1>8 DEF EffectKnown
<1>12. OneAtATime'
  <2>1. \A t, u \in pool' : t.job = u.job /\ t.job # None => t = u
    BY <1>1, <1>2, <1>5 DEF OneAtATime
  <2>2. ASSUME NEW t \in pool', NEW n \in 1 .. Latest, mined[n].ok, mined[n].tx.job = t.job, t.job # None
        PROVE  mined[n].tx.step < t.step
    <3>1. CASE t = x
      <4>1. mined[n].tx.step \in Steps
        BY <2>2 DEF EffectKnown
      <4>2. Took(task.job, mined[n].tx.step)
        BY <1>2, <2>2, <3>1 DEF Took
      <4>3. mined[n].tx.step \in Done(task.job)
        BY <1>3, <4>1, <4>2 DEF Done
      <4> QED
        BY <1>2, <3>1, <4>3 DEF Ahead
    <3>2. CASE t # x
      BY <1>1, <2>2, <3>2 DEF OneAtATime
    <3> QED
      BY <3>1, <3>2
  <2> QED
    BY <1>1, <1>8, <2>1, <2>2 DEF OneAtATime
<1>13. /\ \A j, s : j # task.job \/ s # send.step => (Clear(j, s) => Clear(j, s)')
       /\ \A j, s : Took(j, s)' = Took(j, s)
  <2>1. \A j, s : j # task.job \/ s # send.step => (Clear(j, s) => Clear(j, s)')
    BY <1>1, <1>2 DEF Clear
  <2>2. \A j, s : Took(j, s)' = Took(j, s)
    BY <1>1, <1>8 DEF Took
  <2> QED
    BY <2>1, <2>2
<1>14. JobFacts'
  <2> SUFFICES ASSUME NEW j \in Jobs
               PROVE  /\ jobs[j] \in {"planned", "failed", "completed", "cancelled"} => \A s \in Steps : Clear(j, s)'
                      /\ jobs[j] \in {"planned", "failed"} => \A s \in Steps : ~Took(j, s)'
    BY <1>1 DEF JobFacts
  <2>1. CASE j = task.job
    BY <1>2, <2>1
  <2>2. CASE j # task.job
    BY <1>13, <2>2 DEF JobFacts
  <2> QED
    BY <2>1, <2>2
<1>15. TaskFacts' /\ InspectFacts'
  BY <1>1, <1>2, <1>6 DEF TaskFacts, InspectFacts
<1>16. ExecuteFacts'
  <2>1. Ahead(task.job)' = Ahead(task.job) /\ Row' = Row
    BY <1>1, <1>6 DEF Ahead, Done, Row
  <2>2. \A s \in Steps : s = send.step \/
          (Clear(task.job, s)' /\ (Took(task.job, s)' => rows[task.job][s].state = "confirmed"))
    BY <1>1, <1>3, <1>13
  <2> QED
    BY <1>1, <1>2, <1>6, <2>1, <2>2 DEF ExecuteFacts, IsOpenRow
<1>17. LandInOrder'
  BY <1>1, <1>8 DEF LandInOrder
<1> QED
  BY <1>7, <1>9, <1>10, <1>11, <1>12, <1>14, <1>15, <1>16, <1>17

\* A call that throws leaves the row as it is.
LEMMA ThrowSameRows ==
  ASSUME IInv, send.at # "idle", AfterThrow(rows)
  PROVE  IInv'
<1>1. UNCHANGED <<mined, pool, rows>>
  BY DEF AfterThrow, chain
<1>2. rows \in [Jobs -> [Steps -> RowType]]
  BY DEF IInv, TypeOK, RowType
<1> QED
  BY <1>1, <1>2, RowsStill, ThrowKeeps

\* A nonce that is mined holds no transaction any more.
LEMMA MinedNonceClear ==
  ASSUME IInv, send.at = "sent", send.nonce < Latest
  PROVE  /\ Clear(task.job, send.step)
         /\ Took(task.job, send.step) => MinedAt(send.nonce).ok
<1> USE DEF IInv
<1>1. /\ task.at = "execute" /\ task.job \in Jobs /\ task.job # None /\ send.step \in Steps
      /\ Row.hash = SendTx /\ SendTx.nonce = send.nonce /\ send.nonce \in Nat /\ Latest \in Nat
  BY SenderAt, TxAssumption, LenProperties DEF ExecuteFacts, SendTx, TypeOK, Latest
<1>2. Clear(task.job, send.step)
  <2> SUFFICES ASSUME NEW t \in pool, t.job = task.job, t.step = send.step PROVE FALSE
    BY DEF Clear
  <2>1. t.nonce = send.nonce
    BY <1>1 DEF WayKnown, Row
  <2>2. t.nonce \in Nat /\ Latest <= t.nonce
    BY DEF ChainOrder, TypeOK, Tx
  <2> QED
    BY <1>1, <2>1, <2>2
<1>3. ASSUME Took(task.job, send.step) PROVE MinedAt(send.nonce).ok
  <2>1. PICK n \in 1 .. Latest : mined[n].tx.job = task.job /\ mined[n].tx.step = send.step /\ mined[n].ok
    BY <1>3 DEF Took
  <2>2. mined[n].tx = SendTx
    BY <1>1, <2>1 DEF EffectKnown, Row
  <2>3. n = send.nonce + 1
    BY <1>1, <2>2 DEF ChainOrder
  <2> QED
    BY <2>1, <2>3 DEF MinedAt
<1> QED
  BY <1>2, <1>3

LEMMA ReceiptRevertedKeeps ==
  ASSUME IInv, ReceiptReverted
  PROVE  IInv'
<1> DEFINE r == [Row EXCEPT !.state = "failed"]
<1>1. send.at = "sent" /\ send.nonce < Latest /\ ~MinedAt(send.nonce).ok /\ AfterThrow(WithRow(r))
  BY DEF ReceiptReverted
<1>2. rows' = WithRow(r) /\ UNCHANGED <<mined, pool>>
  BY <1>1 DEF AfterThrow, chain
<1>3. r \in RowType
  BY <1>1, SenderAt DEF RowType, RowStates
<1>4. Clear(task.job, send.step) /\ ~Took(task.job, send.step)
  BY <1>1, MinedNonceClear
<1> HIDE DEF r
<1>5. WayKnown' /\ EffectKnown' /\ WithRow(r) \in [Jobs -> [Steps -> RowType]]
  BY <1>1, <1>2, <1>3, <1>4, RowWritten
<1> QED
  BY <1>1, <1>5, ThrowKeeps

LEMMA ReceiptSuccessKeeps ==
  ASSUME IInv, ReceiptSuccess
  PROVE  IInv'
<1> USE DEF IInv
<1> DEFINE r == [Row EXCEPT !.state = "confirmed"]
<1>1. /\ send.at = "sent" /\ send.nonce < Latest /\ rows' = WithRow(r) /\ send' = NoSend
      /\ UNCHANGED <<mined, pool, ownerTxs, jobs, task, facts, crashes>>
  BY DEF ReceiptSuccess, chain
<1>2. r \in RowType /\ r.hash = Row.hash /\ r.state = "confirmed"
  BY <1>1, SenderAt DEF RowType, RowStates
<1>3. Clear(task.job, send.step)
  BY <1>1, MinedNonceClear
<1>4. task.at = "execute" /\ task.job \in Jobs /\ send.step \in Steps
  BY <1>1, SenderAt
<1> HIDE DEF r
<1>5. /\ rows' \in [Jobs -> [Steps -> RowType]]
      /\ rows'[task.job][send.step] = r
      /\ \A s \in Steps \ {send.step} : rows'[task.job][s] = rows[task.job][s]
      /\ WayKnown' /\ EffectKnown'
  BY <1>1, <1>2, <1>3, RowWritten
<1>6. /\ ChainOrder' /\ OneAtATime' /\ LandInOrder'
      /\ \A i, s : Clear(i, s)' = Clear(i, s) /\ Took(i, s)' = Took(i, s)
  BY <1>1, ChainStill
<1>7. TypeOK'
  BY <1>1, <1>5 DEF TypeOK, RowType, NoSend
<1>8. JobFacts'
  BY <1>1, <1>6 DEF JobFacts
<1>9. TaskFacts' /\ InspectFacts'
  BY <1>1, <1>4 DEF TaskFacts, InspectFacts, NoSend
<1>10. ExecuteFacts'
  <2>1. \A s \in Steps : Clear(task.job, s) /\ (Took(task.job, s) => rows'[task.job][s].state = "confirmed")
    BY <1>2, <1>3, <1>4, <1>5 DEF ExecuteFacts
  <2>2. \A s \in Steps : Clear(task.job, s)' /\ (Took(task.job, s)' => rows'[task.job][s].state = "confirmed")
    BY <1>1, <1>6, <2>1
  <2> QED
    BY <1>1, <2>2 DEF ExecuteFacts, NoSend
<1> QED
  BY <1>5, <1>6, <1>7, <1>8, <1>9, <1>10

-----------------------------------------------------------------------------
(* What a completed job did *)

\* A step took effect, or the owner has used a nonce meanwhile.
OwnerTook == \E n \in 1 .. Latest : mined[n].tx.job = None /\ mined[n].ok
Explained(j, s) == Took(j, s) \/ OwnerTook

\* A row holds a hash of its own slot; a confirmed row is explained; and no row
\* is written before the steps below it are.
RowsExplained ==
  \A j \in Jobs, s \in Steps :
    /\ rows[j][s].hash # None => rows[j][s].hash.job = j /\ rows[j][s].hash.step = s
    /\ rows[j][s].state = "confirmed" => Explained(j, s)
    /\ rows[j][s] # NoRow => \A q \in Steps : q < s => Explained(j, q)

\* The nonce of the transaction that sendTracked waits for went to it, or to one
\* of the owner.
OwnOrOwners(t) == t = SendTx \/ t.job = None

SenderExplained ==
  /\ send.at # "idle" => \A q \in Steps : q < send.step => Explained(task.job, q)
  /\ send.at \in {"admitted", "sent"} =>
       /\ \A t \in pool : t.nonce = send.nonce => OwnOrOwners(t)
       /\ send.nonce < Latest => OwnOrOwners(MinedAt(send.nonce).tx)

FactsExplained ==
  task.at = "inspect" => \A s \in Steps :
    /\ facts[s] = "confirmed" => Took(task.job, s)
    /\ facts[s] # "none" => rows[task.job][s] # NoRow

\* The strengthening of CompletedIsAccountedFor, beyond IInv.
Reckoned ==
  /\ RowsExplained /\ SenderExplained /\ FactsExplained
  /\ \A j \in Jobs : jobs[j] = "completed" => \A s \in Steps : Explained(j, s)

\* What has taken effect stays so.
LEMMA ExplainedStays ==
  ASSUME IInv, UNCHANGED mined \/ \E t \in pool, ok \in BOOLEAN : Mine(t, ok)
  PROVE  \A j, s : (Took(j, s) => Took(j, s)') /\ (Explained(j, s) => Explained(j, s)')
<1>1. Latest \in Nat /\ Latest' \in Nat /\ Latest <= Latest'
      /\ \A n \in 1 .. Latest : mined'[n] = mined[n]
  <2>1. CASE UNCHANGED mined
    BY <2>1, LenProperties DEF IInv, TypeOK, Latest
  <2>2. ASSUME NEW t \in pool, NEW ok \in BOOLEAN, Mine(t, ok)
        PROVE  Latest \in Nat /\ Latest' = Latest + 1 /\ \A n \in 1 .. Latest : mined'[n] = mined[n]
    BY <2>2, MinedAfter DEF IInv
  <2> QED
    BY <2>1, <2>2
<1>2. ASSUME NEW j, NEW s, Took(j, s) PROVE Took(j, s)'
  BY <1>1, <1>2 DEF Took
<1>3. OwnerTook => OwnerTook'
  BY <1>1 DEF OwnerTook
<1> QED
  BY <1>2, <1>3 DEF Explained

\* The steps behind a job's next one are explained.
LEMMA BehindExplained ==
  ASSUME RowsExplained, NEW j \in Jobs, NEW s \in Steps, s \notin Ahead(j)
  PROVE  Explained(j, s)
<1>1. PICK d \in Done(j) : ~(d < s)
  BY DEF Ahead
<1>2. d \in Steps /\ rows[j][d].state = "confirmed" /\ rows[j][d] # NoRow
  BY DEF Done, NoRow
<1>3. d = s \/ s < d
  <2>1. d \in Nat /\ s \in Nat
    BY <1>2, TxAssumption
  <2> QED
    BY <1>1, <2>1
<1>4. Explained(j, d) /\ \A q \in Steps : q < d => Explained(j, q)
  BY <1>2 DEF RowsExplained
<1> QED
  BY <1>3, <1>4

\* Rows that stand still stay explained.
LEMMA RowsStayExplained ==
  ASSUME IInv, RowsExplained, UNCHANGED rows,
         UNCHANGED mined \/ \E t \in pool, ok \in BOOLEAN : Mine(t, ok)
  PROVE  RowsExplained'
BY ExplainedStays DEF RowsExplained

\* The chain moves: nobody but the owner takes the nonce that is waited for.
LEMMA ChainReckons ==
  ASSUME IInv, Reckoned, Chain
  PROVE  Reckoned'
<1>1. /\ UNCHANGED <<rows, jobs, task, send, facts>>
      /\ UNCHANGED mined \/ \E t \in pool, ok \in BOOLEAN : Mine(t, ok)
  BY DEF Chain, Mine, Evict, OwnerSends
<1>2. /\ \A j, s : (Took(j, s) => Took(j, s)') /\ (Explained(j, s) => Explained(j, s)')
      /\ RowsExplained'
  BY <1>1, ExplainedStays, RowsStayExplained DEF Reckoned
<1>3. FactsExplained'
  BY <1>1, <1>2 DEF Reckoned, FactsExplained
<1>4. \A j \in Jobs : jobs'[j] = "completed" => \A s \in Steps : Explained(j, s)'
  BY <1>1, <1>2 DEF Reckoned
<1>5. ASSUME send.at \in {"admitted", "sent"}
      PROVE  /\ \A t \in pool' : t.nonce = send.nonce => t = SendTx \/ t.job = None
             /\ send.nonce < Latest' =>
                  mined'[send.nonce + 1].tx = SendTx \/ mined'[send.nonce + 1].tx.job = None
  <2>1. /\ \A t \in pool : t.nonce = send.nonce => t = SendTx \/ t.job = None
        /\ send.nonce < Latest =>
             mined[send.nonce + 1].tx = SendTx \/ mined[send.nonce + 1].tx.job = None
        /\ Latest \in Nat /\ send.nonce \in Nat
    BY <1>5, LenProperties DEF Reckoned, SenderExplained, OwnOrOwners, MinedAt, IInv, TypeOK, Latest
  <2>2. CASE \E t \in pool, ok \in BOOLEAN : Mine(t, ok)
    <3> PICK t \in pool, ok \in BOOLEAN : Mine(t, ok)
      BY <2>2
    <3>1. /\ Latest' = Latest + 1 /\ mined'[Latest + 1] = [tx |-> t, ok |-> ok]
          /\ \A n \in 1 .. Latest : mined'[n] = mined[n]
          /\ pool' = pool \ {t} /\ t.nonce = Latest
      BY MinedAfter DEF IInv, Mine
    <3>2. CASE send.nonce < Latest
      BY <2>1, <3>1, <3>2
    <3>3. CASE send.nonce >= Latest
      BY <2>1, <3>1, <3>3
    <3> QED
      BY <2>1, <3>2, <3>3
  <2>3. CASE \/ \E t \in pool : Evict(t)
             \/ \E n \in 0 .. MaxNonce, b \in 1 .. MaxBid : OwnerSends(n, b)
    <3>1. mined' = mined
      BY <2>3 DEF Evict, OwnerSends
    <3>2. ASSUME NEW t \in pool' PROVE t \in pool \/ t.job = None
      <4>1. ASSUME NEW n, NEW b, OwnerSends(n, b) PROVE t \in pool \/ t = OwnerTx(n, b)
        BY <4>1 DEF OwnerSends, Admitted
      <4>2. \A n, b : OwnerTx(n, b).job = None
        BY DEF OwnerTx
      <4> QED
        BY <2>3, <4>1, <4>2 DEF Evict
    <3> QED
      BY <2>1, <3>1, <3>2 DEF Latest
  <2> QED
    BY <2>2, <2>3 DEF Chain
<1>6. SenderExplained'
  <2>1. send.at # "idle" => \A q \in Steps : q < send.step => Explained(task.job, q)'
    BY <1>1, <1>2 DEF Reckoned, SenderExplained
  <2>2. SendTx' = SendTx
    BY <1>1 DEF SendTx
  <2> QED
    BY <1>1, <1>5, <2>1, <2>2 DEF SenderExplained, OwnOrOwners, MinedAt
<1> QED
  BY <1>2, <1>3, <1>4, <1>6 DEF Reckoned

\* A step after which nothing is being sent.
LEMMA QuietReckons ==
  ASSUME IInv, Reckoned, UNCHANGED mined, RowsExplained', send'.at = "idle", FactsExplained',
         \A j \in Jobs : jobs'[j] = "completed" =>
           jobs[j] = "completed" \/ \A s \in Steps : Explained(j, s)
  PROVE  Reckoned'
<1>1. \A j \in Jobs : jobs'[j] = "completed" => \A s \in Steps : Explained(j, s)'
  BY ExplainedStays DEF Reckoned
<1>2. SenderExplained'
  BY DEF SenderExplained
<1> QED
  BY <1>1, <1>2 DEF Reckoned

\* The job starts, completes, or dies with the process.
LEMMA LockReckons ==
  ASSUME IInv, Reckoned, (\E j \in Jobs : RunJob(j)) \/ Complete \/ Crash
  PROVE  Reckoned'
<1>1. UNCHANGED <<mined, rows>> /\ send'.at = "idle" /\ task'.at # "inspect"
  BY DEF RunJob, Complete, Crash, chain, NoSend, Idle, IInv, TaskFacts
<1>2. RowsExplained' /\ FactsExplained'
  BY <1>1, RowsStayExplained DEF Reckoned, FactsExplained
<1>3. ASSUME NEW j \in Jobs, jobs'[j] = "completed"
      PROVE  jobs[j] = "completed" \/ \A s \in Steps : Explained(j, s)
  <2>1. CASE \E i \in Jobs : RunJob(i)
    BY <1>3, <2>1 DEF RunJob, IInv, TypeOK
  <2>2. CASE Crash
    BY <1>3, <2>2 DEF Crash, IInv, TypeOK
  <2>3. CASE Complete
    <3>1. task.job \in Jobs /\ Ahead(task.job) = {}
          /\ jobs' = [jobs EXCEPT ![task.job] = "completed"]
      BY <2>3 DEF Complete, IInv, TaskFacts
    <3>2. \A s \in Steps : Explained(task.job, s)
      BY <3>1, BehindExplained DEF Reckoned
    <3> QED
      BY <1>3, <3>1, <3>2 DEF IInv, TypeOK
  <2> QED
    BY <2>1, <2>2, <2>3
<1> QED
  BY <1>1, <1>2, <1>3, QuietReckons

\* A receipt found by the hash of a row is that of the row's own step.
LEMMA ReceiptIsOwn ==
  ASSUME IInv, RowsExplained, NEW j \in Jobs, NEW s \in Steps,
         HashFact(rows[j][s]) = "confirmed"
  PROVE  Took(j, s)
<1>1. PICK h : h = rows[j][s].hash
  OBVIOUS
<1>2. h # None /\ IsMined(h) /\ Landed(h)
  BY <1>1 DEF HashFact
<1>3. h \in Tx /\ h.job = j /\ h.step = s
  BY <1>1, <1>2 DEF RowsExplained, IInv, TypeOK
<1>4. h.nonce \in Nat /\ Latest \in Nat
  BY <1>3, LenProperties DEF Tx, IInv, TypeOK, Latest
<1>5. h.nonce + 1 \in 1 .. Latest /\ mined[h.nonce + 1].tx = h /\ mined[h.nonce + 1].ok
  BY <1>2, <1>4 DEF Landed, IsMined, MinedAt
<1> QED
  BY <1>3, <1>5 DEF Took

\* The inspection reads its facts.
LEMMA ReadingReckons ==
  ASSUME IInv, Reckoned,
         \/ \E j \in Jobs, kind \in {"recover", "stop"} : BeginInspection(j, kind)
         \/ LookUp \/ CountNonces
  PROVE  Reckoned'
<1>1. UNCHANGED <<mined, rows, jobs>> /\ send'.at = "idle"
  BY DEF BeginInspection, LookUp, CountNonces, Settle, chain, NoSend, Idle, IInv, TaskFacts
<1>2. RowsExplained'
  BY <1>1, RowsStayExplained DEF Reckoned
<1>3. FactsExplained'
  <2>1. ASSUME NEW j \in Jobs, NEW kind \in {"recover", "stop"}, BeginInspection(j, kind)
        PROVE  FactsExplained'
    <3>1. task'.job = j /\ facts' = [s \in Steps |-> IF rows[j][s] = NoRow THEN "none" ELSE "unread"]
      BY <2>1 DEF BeginInspection
    <3> QED
      BY <1>1, <3>1 DEF FactsExplained
  <2>2. ASSUME NEW s \in Steps, NEW f, Settle(s, f), task.at = "inspect", facts[s] # "none",
               f = "confirmed" => Took(task.job, s)
        PROVE  FactsExplained'
    <3>1. task' = task /\ facts' = [facts EXCEPT ![s] = f] /\ facts \in [Steps -> FactStates]
      BY <2>2 DEF Settle, IInv, TypeOK
    <3>2. ASSUME NEW q \in Steps
          PROVE  /\ facts'[q] = "confirmed" => Took(task.job, q)'
                 /\ facts'[q] # "none" => rows[task.job][q] # NoRow
      <4>1. facts'[q] = IF q = s THEN f ELSE facts[q]
        BY <3>1
      <4>2. Took(task.job, q) => Took(task.job, q)'
        BY <1>1, <3>1, ExplainedStays
      <4>3. /\ facts[q] = "confirmed" => Took(task.job, q)
            /\ facts[q] # "none" => rows[task.job][q] # NoRow
        BY <2>2 DEF Reckoned, FactsExplained
      <4> QED
        BY <2>2, <4>1, <4>2, <4>3
    <3>3. task'.job = task.job
      BY <3>1
    <3> QED
      BY <1>1, <3>1, <3>2, <3>3 DEF FactsExplained, Took
  <2>3. CASE LookUp
    <3>1. PICK s \in Steps : /\ s = Min(Unsettled) /\ facts[s] = "unread" /\ task.at = "inspect"
                             /\ Settle(s, HashFact(rows[task.job][s]))
      BY <2>3, UnsettledRow DEF LookUp, IInv
    <3>2. HashFact(rows[task.job][s]) = "confirmed" => Took(task.job, s)
      BY <3>1, ReceiptIsOwn DEF Reckoned, IInv, TaskFacts
    <3> QED
      BY <2>2, <3>1, <3>2
  <2>4. CASE CountNonces
    <3>1. PICK s \in Steps, f \in {"absent", "ambiguous"} :
            Settle(s, f) /\ facts[s] = "missing" /\ task.at = "inspect"
      BY <2>4, UnsettledRow DEF CountNonces, NonceFact, IInv
    <3> QED
      BY <2>2, <3>1
  <2> QED
    BY <2>1, <2>3, <2>4
<1> QED
  BY <1>1, <1>2, <1>3, QuietReckons

\* The inspection ends: what it confirms took effect, and only rows in use change.
LEMMA EndingReckons ==
  ASSUME IInv, Reckoned, Defer \/ GiveUp \/ Resume \/ Archive
  PROVE  Reckoned'
<1>1. /\ Concluded /\ rows' = Reconciled /\ facts' = NoFacts /\ mined' = mined /\ send' = send
      /\ task'.at # "inspect" /\ task.at = "inspect" /\ send'.at = "idle" /\ task.job \in Jobs
  BY DEF Defer, GiveUp, Resume, Archive, Concluded, chain, NoSend, Idle, IInv, TaskFacts, TypeOK
<1>2. FactsExplained'
  BY <1>1 DEF FactsExplained
<1>3. ASSUME NEW j \in Jobs, jobs'[j] = "completed" PROVE jobs[j] = "completed"
  BY <1>3 DEF Defer, GiveUp, Resume, Archive, IInv, TypeOK
<1>4. ASSUME NEW j \in Jobs, NEW s \in Steps
      PROVE  /\ rows'[j][s].hash = rows[j][s].hash
             /\ rows'[j][s].state = "confirmed" => rows[j][s].state = "confirmed" \/ Took(j, s)
             /\ rows'[j][s] # NoRow => rows[j][s] # NoRow
  <2>1. CASE j # task.job
    BY <1>1, <2>1 DEF Reconciled, IInv, TypeOK
  <2>2. CASE j = task.job
    <3>1. PICK r : r = rows[j][s]
      OBVIOUS
    <3>2. rows'[j][s] =
            CASE facts[s] = "confirmed" -> [r EXCEPT !.state = "confirmed"]
              [] facts[s] \in {"reverted", "absent"} -> [r EXCEPT !.state = "failed"]
              [] OTHER -> r
      BY <1>1, <2>2, <3>1 DEF Reconciled, IInv, TypeOK
    <3>3. r \in RowType
      BY <3>1 DEF IInv, TypeOK, RowType
    <3>4. /\ facts[s] = "confirmed" => Took(j, s)
          /\ facts[s] # "none" => r # NoRow
      BY <1>1, <2>2, <3>1 DEF Reckoned, FactsExplained
    <3>5. CASE facts[s] = "confirmed"
      <4>1. rows'[j][s].hash = r.hash
        BY <3>2, <3>3, <3>5 DEF RowType
      <4> QED
        BY <3>1, <3>4, <3>5, <4>1
    <3>6. CASE facts[s] \in {"reverted", "absent"}
      <4>1. rows'[j][s].hash = r.hash /\ rows'[j][s].state = "failed"
        BY <3>2, <3>3, <3>6 DEF RowType
      <4> QED
        BY <3>1, <3>4, <3>6, <4>1
    <3>7. CASE facts[s] \notin {"confirmed", "reverted", "absent"}
      BY <3>1, <3>2, <3>7
    <3> QED
      BY <3>5, <3>6, <3>7
  <2> QED
    BY <2>1, <2>2
<1>5. RowsExplained'
  <2>1. \A j, s : Explained(j, s) => Explained(j, s)'
    BY <1>1, ExplainedStays
  <2>2. \A j, s : Took(j, s) => Explained(j, s)
    BY DEF Explained
  <2>3. ASSUME NEW j \in Jobs, NEW s \in Steps
        PROVE  /\ rows'[j][s].hash # None => rows'[j][s].hash.job = j /\ rows'[j][s].hash.step = s
               /\ rows'[j][s].state = "confirmed" => Explained(j, s)'
               /\ rows'[j][s] # NoRow => \A q \in Steps : q < s => Explained(j, q)'
    <3>1. /\ rows[j][s].hash # None => rows[j][s].hash.job = j /\ rows[j][s].hash.step = s
          /\ rows[j][s].state = "confirmed" => Explained(j, s)
          /\ rows[j][s] # NoRow => \A q \in Steps : q < s => Explained(j, q)
      BY DEF Reckoned, RowsExplained
    <3> QED
      BY <1>4, <2>1, <2>2, <3>1
  <2> QED
    BY <2>3 DEF RowsExplained
<1> QED
  BY <1>1, <1>2, <1>3, <1>5, QuietReckons

\* sendTracked writes the row of its step.
LEMMA RowReckons ==
  ASSUME IInv, Reckoned, send.at # "idle", NEW r \in RowType, rows' = WithRow(r), UNCHANGED mined,
         r.hash = Row.hash \/ (r.hash.job = task.job /\ r.hash.step = send.step),
         r.state = "confirmed" => Explained(task.job, send.step)
  PROVE  RowsExplained'
<1>1. task.job \in Jobs /\ send.step \in Steps /\ rows \in [Jobs -> [Steps -> RowType]]
  BY SenderAt DEF IInv, TypeOK, RowType
<1>2. /\ rows'[task.job][send.step] = r
      /\ \A j \in Jobs, s \in Steps : j # task.job \/ s # send.step => rows'[j][s] = rows[j][s]
  BY <1>1 DEF WithRow
<1>3. \A j, s : Explained(j, s) => Explained(j, s)'
  BY ExplainedStays
<1>4. ASSUME NEW j \in Jobs, NEW s \in Steps
      PROVE  /\ rows'[j][s].hash # None => rows'[j][s].hash.job = j /\ rows'[j][s].hash.step = s
             /\ rows'[j][s].state = "confirmed" => Explained(j, s)'
             /\ rows'[j][s] # NoRow => \A q \in Steps : q < s => Explained(j, q)'
  <2>1. /\ rows[j][s].hash # None => rows[j][s].hash.job = j /\ rows[j][s].hash.step = s
        /\ rows[j][s].state = "confirmed" => Explained(j, s)
        /\ rows[j][s] # NoRow => \A q \in Steps : q < s => Explained(j, q)
    BY DEF Reckoned, RowsExplained
  <2>2. CASE j # task.job \/ s # send.step
    BY <1>2, <1>3, <2>1, <2>2
  <2>3. CASE j = task.job /\ s = send.step
    <3>1. \A q \in Steps : q < s => Explained(j, q)
      BY <2>3 DEF Reckoned, SenderExplained
    <3>2. r.hash # None => r.hash.job = j /\ r.hash.step = s
      BY <2>1, <2>3 DEF Row
    <3> QED
      BY <1>2, <1>3, <2>3, <3>1, <3>2
  <2> QED
    BY <2>2, <2>3
<1> QED
  BY <1>4 DEF RowsExplained

\* The attempt throws: its row is as it was, or failed.
LEMMA ThrowReckons ==
  ASSUME IInv, Reckoned,
         ThrowBeforeSend \/ RefuseSend \/ Unanswered \/ ReceiptTimeout \/ ReceiptReverted
  PROVE  Reckoned'
<1>1. send.at # "idle" /\ \E newRows : AfterThrow(newRows) /\ (newRows = rows \/ ReceiptReverted)
  BY DEF ThrowBeforeSend, RefuseSend, Unanswered, ReceiptTimeout, ReceiptReverted
<1>2. /\ mined' = mined /\ task' = Idle /\ send' = NoSend
      /\ \E state \in {"recovery", "failed"} : jobs' = [jobs EXCEPT ![task.job] = state]
  BY <1>1 DEF AfterThrow, StatesAfterThrow, chain
<1>3. RowsExplained'
  <2>1. CASE ReceiptReverted
    <3>1. PICK r : r = [Row EXCEPT !.state = "failed"]
      OBVIOUS
    <3>2. rows' = WithRow(r)
      BY <2>1, <3>1 DEF ReceiptReverted, AfterThrow
    <3>3. Row \in RowType
      BY <1>1, SenderAt
    <3>4. r \in RowType /\ r.hash = Row.hash /\ r.state = "failed"
      BY <3>1, <3>3 DEF RowType, RowStates
    <3> QED
      BY <1>1, <1>2, <3>2, <3>4, RowReckons
  <2>2. CASE ~ReceiptReverted
    <3>1. rows' = rows
      BY <1>1, <2>2 DEF AfterThrow
    <3> QED
      BY <1>2, <3>1, RowsStayExplained DEF Reckoned
  <2> QED
    BY <2>1, <2>2
<1>4. send'.at = "idle" /\ FactsExplained'
  BY <1>2 DEF FactsExplained, NoSend, Idle
<1>5. \A j \in Jobs : jobs'[j] = "completed" => jobs[j] = "completed"
  BY <1>2 DEF IInv, TypeOK
<1> QED
  BY <1>2, <1>3, <1>4, <1>5, QuietReckons

\* What sendTracked's steps have in common.
LEMMA SendingReckons ==
  ASSUME IInv, Reckoned, task.at = "execute", UNCHANGED <<mined, jobs, task>>,
         RowsExplained', send'.at # "idle",
         \A q \in Steps : q < send'.step => Explained(task.job, q),
         send'.at \in {"admitted", "sent"} =>
           /\ \A t \in pool' : t.nonce = send'.nonce => t = SendTx' \/ t.job = None
           /\ send'.nonce < Latest =>
                mined[send'.nonce + 1].tx = SendTx' \/ mined[send'.nonce + 1].tx.job = None
  PROVE  Reckoned'
<1>1. /\ \A j, s : Explained(j, s) => Explained(j, s)'
      /\ Latest' = Latest
  BY ExplainedStays DEF Latest
<1>2. SenderExplained'
  <2>1. ASSUME NEW q \in Steps, q < send'.step PROVE Explained(task.job, q)'
    <3>1. \A j : Explained(j, q) => Explained(j, q)'
      BY <1>1
    <3>2. task'.job = task.job
      OBVIOUS
    <3> QED
      BY <2>1, <3>1, <3>2
  <2> QED
    BY <1>1, <2>1 DEF SenderExplained, OwnOrOwners, MinedAt
<1>3. FactsExplained'
  BY DEF FactsExplained
<1> QED
  BY <1>1, <1>2, <1>3 DEF Reckoned

\* The next step is begun when those below it are explained.
LEMMA ReadNonceReckons ==
  ASSUME IInv, Reckoned, ReadNonce
  PROVE  Reckoned'
<1>1. PICK s : s = Min(Ahead(task.job))
  OBVIOUS
<1>2. /\ task.at = "execute" /\ send' = [NoSend EXCEPT !.at = "preflight", !.step = s, !.nonce = PendingNonce]
      /\ UNCHANGED <<mined, rows, jobs, task>> /\ task.job \in Jobs /\ Ahead(task.job) # {}
  BY <1>1 DEF ReadNonce, chain, IInv, TaskFacts
<1>3. send'.at = "preflight" /\ send'.step = s
  BY <1>2 DEF NoSend
<1>4. s \in Nat /\ \A q \in Ahead(task.job) : s <= q
  <2>1. Ahead(task.job) \subseteq Nat
    BY TxAssumption DEF Ahead
  <2> QED
    BY <1>1, <1>2, <2>1, MinOfNat
<1>5. ASSUME NEW q \in Steps, q < s PROVE Explained(task.job, q)
  <2>1. q \notin Ahead(task.job)
    <3>1. q \in Nat
      BY TxAssumption
    <3> QED
      BY <1>4, <1>5, <3>1
  <2> QED
    BY <1>2, <2>1, BehindExplained DEF Reckoned
<1>6. RowsExplained'
  BY <1>2, RowsStayExplained DEF Reckoned
<1> QED
  BY <1>2, <1>3, <1>5, <1>6, SendingReckons

\* Up to the broadcast only the row of the step is written.
LEMMA PreparingReckons ==
  ASSUME IInv, Reckoned,
         (\E d \in Payloads : Mark(d)) \/ (\E b \in 1 .. MaxBid : Sign(b)) \/ RefuseFee
  PROVE  Reckoned'
<1>1. /\ send.at \in {"preflight", "marked", "signed"} /\ UNCHANGED <<mined, jobs, task>>
      /\ send'.at \in {"marked", "signed"} /\ send'.step = send.step
  <2>1. send \in [at : {"idle", "preflight", "marked", "signed", "admitted", "sent"},
                  step : Steps \cup {0}, nonce : Nat, data : Payloads \cup {0}, bid : Nat]
    BY DEF IInv, TypeOK
  <2>2. CASE \E d \in Payloads : Mark(d)
    <3> PICK d \in Payloads : Mark(d)
      BY <2>2
    <3>1. send.at = "preflight" /\ send' = [send EXCEPT !.at = "marked", !.data = d]
          /\ UNCHANGED <<mined, jobs, task>>
      BY Zenon DEF Mark, chain
    <3> QED
      BY <2>1, <3>1
  <2>3. CASE \E b \in 1 .. MaxBid : Sign(b)
    <3> PICK b \in 1 .. MaxBid : Sign(b)
      BY <2>3
    <3>1. send.at = "marked" /\ send' = [send EXCEPT !.at = "signed", !.bid = b]
          /\ UNCHANGED <<mined, jobs, task>>
      BY Zenon DEF Sign, chain
    <3> QED
      BY <2>1, <3>1
  <2>4. CASE RefuseFee
    BY <2>1, <2>4 DEF RefuseFee, chain
  <2> QED
    BY <2>2, <2>3, <2>4
<1>2. task.at = "execute" /\ task.job \in Jobs /\ Row \in RowType /\ SendTx \in Tx
      /\ send.nonce \in Nat
  BY <1>1, SenderAt DEF IInv, TypeOK
<1>3. RowsExplained'
  <2>1. ASSUME NEW d \in Payloads, Mark(d) PROVE RowsExplained'
    <3>1. PICK r : r = [state |-> "sending", nonce |-> send.nonce, data |-> d, hash |-> Row.hash]
      OBVIOUS
    <3>2. r \in RowType /\ r.hash = Row.hash /\ r.state = "sending"
      BY <1>2, <3>1 DEF RowType, RowStates
    <3>3. rows' = WithRow(r)
      BY <2>1, <3>1, Zenon DEF Mark
    <3> QED
      BY <1>1, <3>2, <3>3, RowReckons
  <2>2. ASSUME NEW b \in 1 .. MaxBid, Sign(b) PROVE RowsExplained'
    <3>1. PICK h : h = [SendTx EXCEPT !.bid = b]
      OBVIOUS
    <3>2. PICK r : r = [Row EXCEPT !.hash = h]
      OBVIOUS
    <3>3. h \in Tx /\ h.job = task.job /\ h.step = send.step
      BY <1>2, <3>1 DEF SendTx, Tx
    <3>4. r \in RowType /\ r.hash = h /\ r.state = Row.state
      BY <1>2, <3>2, <3>3 DEF RowType
    <3>5. rows' = WithRow(r) /\ send.at = "marked"
      <4>1. rows' = WithRow([Row EXCEPT !.hash = [SendTx EXCEPT !.bid = b]]) /\ send.at = "marked"
        BY <2>2, Zenon DEF Sign
      <4>2. r = [Row EXCEPT !.hash = [SendTx EXCEPT !.bid = b]]
        BY <3>1, <3>2, Zenon
      <4> QED
        BY <4>1, <4>2, Zenon
    <3>6. r.state # "confirmed"
      BY <1>2, <3>4, <3>5 DEF IInv, ExecuteFacts, IsOpenRow
    <3> QED
      BY <1>1, <3>3, <3>4, <3>5, <3>6, RowReckons
  <2>3. CASE RefuseFee
    <3>1. rows' = rows
      BY <2>3 DEF RefuseFee
    <3> QED
      BY <1>1, <3>1, RowsStayExplained DEF Reckoned
  <2> QED
    BY <2>1, <2>2, <2>3
<1>4. \A q \in Steps : q < send'.step => Explained(task.job, q)
  BY <1>1 DEF Reckoned, SenderExplained
<1> QED
  BY <1>1, <1>2, <1>3, <1>4, SendingReckons

\* The broadcast takes the nonce for itself; marking it sent changes no chain.
LEMMA OnTheWayReckons ==
  ASSUME IInv, Reckoned, Broadcast \/ MarkSent
  PROVE  Reckoned'
<1>1. /\ send.at \in {"signed", "admitted"} /\ UNCHANGED <<mined, jobs, task>>
      /\ send'.at \in {"admitted", "sent"} /\ send'.step = send.step /\ send'.nonce = send.nonce
      /\ SendTx' = SendTx
  BY DEF Broadcast, MarkSent, chain, IInv, TypeOK, SendTx
<1>2. task.at = "execute" /\ task.job \in Jobs /\ Row \in RowType /\ SendTx.nonce = send.nonce
      /\ send.nonce \in Nat /\ Latest \in Nat
  BY <1>1, SenderAt, LenProperties DEF IInv, TypeOK, SendTx, Latest
<1>3. RowsExplained'
  <2>1. CASE Broadcast
    <3>1. rows' = rows
      BY <2>1 DEF Broadcast
    <3> QED
      BY <1>1, <3>1, RowsStayExplained DEF Reckoned
  <2>2. CASE MarkSent
    <3>1. PICK r : r = [Row EXCEPT !.state = "sent"]
      OBVIOUS
    <3>2. r \in RowType /\ r.hash = Row.hash /\ r.state = "sent" /\ rows' = WithRow(r)
      BY <1>2, <2>2, <3>1 DEF MarkSent, RowType, RowStates
    <3> QED
      BY <1>1, <3>2, RowReckons
  <2> QED
    BY <2>1, <2>2
<1>4. /\ \A t \in pool' : t.nonce = send.nonce => t = SendTx \/ t.job = None
      /\ send.nonce < Latest =>
           mined[send.nonce + 1].tx = SendTx \/ mined[send.nonce + 1].tx.job = None
  <2>1. CASE Broadcast
    <3>1. pool' = {o \in pool : o.nonce # send.nonce} \cup {SendTx} /\ send.nonce >= Latest
      BY <1>2, <2>1 DEF Broadcast, Admitted, Admissible
    <3> QED
      BY <1>2, <3>1
  <2>2. CASE MarkSent
    BY <2>2 DEF MarkSent, chain, Reckoned, SenderExplained, OwnOrOwners, MinedAt
  <2> QED
    BY <2>1, <2>2
<1>5. \A q \in Steps : q < send'.step => Explained(task.job, q)
  BY <1>1 DEF Reckoned, SenderExplained
<1> QED
  BY <1>1, <1>2, <1>3, <1>4, <1>5, SendingReckons

\* A successful receipt is of the step, or of a transaction of the owner.
LEMMA ReceiptSuccessReckons ==
  ASSUME IInv, Reckoned, ReceiptSuccess
  PROVE  Reckoned'
<1>1. PICK r : r = [Row EXCEPT !.state = "confirmed"]
  OBVIOUS
<1>2. /\ send.at = "sent" /\ send.nonce < Latest /\ mined[send.nonce + 1].ok
      /\ rows' = WithRow(r) /\ send' = NoSend /\ UNCHANGED <<mined, jobs, task, facts>>
  BY <1>1 DEF ReceiptSuccess, MinedAt, chain
<1>3. task.at = "execute" /\ Row \in RowType /\ send.nonce + 1 \in 1 .. Latest
      /\ SendTx.job = task.job /\ SendTx.step = send.step
  BY <1>2, SenderAt, LenProperties DEF IInv, TypeOK, SendTx, Latest
<1>4. r \in RowType /\ r.hash = Row.hash
  BY <1>1, <1>3 DEF RowType, RowStates
<1>5. Explained(task.job, send.step)
  <2>1. mined[send.nonce + 1].tx = SendTx \/ mined[send.nonce + 1].tx.job = None
    BY <1>2 DEF Reckoned, SenderExplained, OwnOrOwners, MinedAt
  <2> QED
    BY <1>2, <1>3, <2>1 DEF Explained, Took, OwnerTook
<1>6. RowsExplained'
  BY <1>2, <1>4, <1>5, RowReckons
<1>7. FactsExplained' /\ send'.at = "idle"
  BY <1>2, <1>3 DEF FactsExplained, NoSend
<1> QED
  BY <1>2, <1>6, <1>7, QuietReckons

\* Reckoned is kept by every step that keeps IInv.
LEMMA NextReckons ==
  ASSUME IInv, Reckoned, [Next]_vars
  PROVE  Reckoned'
<1>1. CASE Chain
  BY <1>1, ChainReckons
<1>2. CASE Sender
  <2>1. CASE ThrowBeforeSend \/ RefuseSend \/ Unanswered \/ ReceiptTimeout \/ ReceiptReverted
    BY <2>1, ThrowReckons
  <2>2. CASE (\E d \in Payloads : Mark(d)) \/ (\E b \in 1 .. MaxBid : Sign(b)) \/ RefuseFee
    BY <2>2, PreparingReckons
  <2>3. CASE ReadNonce \/ Broadcast \/ MarkSent \/ ReceiptSuccess
    BY <2>3, ReadNonceReckons, OnTheWayReckons, ReceiptSuccessReckons
  <2> QED
    BY <1>2, <2>1, <2>2, <2>3 DEF Sender
<1>3. CASE Inspector
  BY <1>3, ReadingReckons, EndingReckons DEF Inspector
<1>4. CASE (\E j \in Jobs : RunJob(j)) \/ Complete \/ Crash
  BY <1>4, LockReckons
<1>5. CASE UNCHANGED vars
  <2>1. UNCHANGED <<mined, pool, rows, jobs, task, send, facts>>
    BY <1>5 DEF vars, chain
  <2>2. RowsExplained' /\ \A j, s : /\ Explained(j, s) => Explained(j, s)'
                                    /\ Took(j, s) => Took(j, s)'
    BY <2>1, ExplainedStays, RowsStayExplained DEF Reckoned
  <2>3. SenderExplained' /\ FactsExplained'
    BY <2>1, <2>2 DEF Reckoned, SenderExplained, FactsExplained, OwnOrOwners, MinedAt, SendTx, Latest
  <2> QED
    BY <2>1, <2>2, <2>3 DEF Reckoned
<1> QED
  BY <1>1, <1>2, <1>3, <1>4, <1>5 DEF Next

-----------------------------------------------------------------------------
(* The theorems *)

LEMMA InitHolds == Init => IInv
<1> SUFFICES ASSUME Init PROVE IInv
  OBVIOUS
<1>1. /\ mined = <<>> /\ pool = {} /\ task = Idle /\ send = NoSend /\ facts = NoFacts
      /\ Latest = 0 /\ jobs = [j \in Jobs |-> "planned"]
  BY DEF Init, Latest
<1>2. TypeOK
  BY TxAssumption DEF Init, TypeOK, NoRow, Idle, NoSend, NoFacts, RowStates, FactStates
<1>3. ChainOrder /\ WayKnown /\ EffectKnown /\ OneAtATime /\ LandInOrder
  BY <1>1, TxAssumption DEF ChainOrder, WayKnown, EffectKnown, OneAtATime, LandInOrder
<1>4. JobFacts
  BY <1>1 DEF JobFacts, Clear, Took
<1>5. TaskFacts /\ ExecuteFacts /\ InspectFacts
  BY <1>1 DEF TaskFacts, ExecuteFacts, InspectFacts, Idle, NoSend
<1> QED
  BY <1>2, <1>3, <1>4, <1>5 DEF IInv

LEMMA StutterKeeps ==
  ASSUME IInv, UNCHANGED vars
  PROVE  IInv'
<1>1. UNCHANGED <<mined, pool, ownerTxs, rows, jobs, task, send, facts, crashes>>
  BY DEF vars, chain
<1>2. TypeOK'
  BY <1>1 DEF IInv, TypeOK
<1>3. JobFacts'
  BY <1>1, ChainStill DEF IInv, JobFacts
<1>4. TaskFacts' /\ ExecuteFacts' /\ InspectFacts'
  BY <1>1 DEF IInv, TaskFacts, ExecuteFacts, InspectFacts, Clear, Took, Latest, Ahead, Done, Row, SendTx, IsOpenRow
<1> QED
  BY <1>1, <1>2, <1>3, <1>4, ChainStill, RowsStill DEF IInv

LEMMA NextKeeps ==
  ASSUME IInv, [Next]_vars
  PROVE  IInv'
<1>1. CASE Chain
  BY <1>1, MineKeeps, EvictKeeps, OwnerSendsKeeps DEF Chain
<1>2. CASE Sender
  <2>1. CASE ThrowBeforeSend \/ RefuseSend \/ Unanswered \/ ReceiptTimeout
    BY <2>1, ThrowSameRows DEF ThrowBeforeSend, RefuseSend, Unanswered, ReceiptTimeout
  <2>2. CASE ReadNonce \/ (\E d \in Payloads : Mark(d)) \/ (\E b \in 1 .. MaxBid : Sign(b))
    BY <2>2, ReadNonceKeeps, MarkKeeps, SignKeeps
  <2>3. CASE Broadcast \/ RefuseFee \/ MarkSent \/ ReceiptSuccess \/ ReceiptReverted
    BY <2>3, BroadcastKeeps, RefuseFeeKeeps, MarkSentKeeps, ReceiptSuccessKeeps, ReceiptRevertedKeeps
  <2> QED
    BY <1>2, <2>1, <2>2, <2>3 DEF Sender
<1>3. CASE Inspector
  BY <1>3, BeginInspectionKeeps, LookUpKeeps, CountNoncesKeeps, DeferKeeps, GiveUpKeeps,
     ResumeKeeps, ArchiveKeeps DEF Inspector
<1>4. CASE (\E j \in Jobs : RunJob(j)) \/ Complete \/ Crash
  BY <1>4, RunJobKeeps, CompleteKeeps, CrashKeeps
<1>5. CASE UNCHANGED vars
  BY <1>5, StutterKeeps
<1> QED
  BY <1>1, <1>2, <1>3, <1>4, <1>5 DEF Next

LEMMA InitReckons == Init => Reckoned
<1> SUFFICES ASSUME Init PROVE Reckoned
  OBVIOUS
<1>1. \A j \in Jobs, s \in Steps : rows[j][s] = NoRow /\ jobs[j] = "planned"
  BY DEF Init
<1>2. NoRow.hash = None /\ NoRow.state = "none" /\ send.at = "idle" /\ task.at = "idle"
  BY DEF Init, NoRow, NoSend, Idle
<1> QED
  BY <1>1, <1>2 DEF Reckoned, RowsExplained, SenderExplained, FactsExplained

\* The state of rows, jobs, the sender and the inspection is what the code takes
\* it to be, at every step (the inductive invariant).
THEOREM Invariance == Spec => []IInv
<1>1. IInv /\ [Next]_vars => IInv'
  BY NextKeeps
<1> QED
  BY InitHolds, <1>1, PTL DEF Spec

\* Rows, jobs and the chain keep their types through every write.
THEOREM TypeCorrect == Spec => []TypeOK
<1>1. IInv => TypeOK
  BY DEF IInv
<1> QED
  BY <1>1, Invariance, PTL

\* Whatever of ours can still be mined is in a row that recovery reads, at any
\* moment of sendTracked the process dies.
THEOREM NothingIsOrphaned == Spec => []NoOrphan
<1>1. IInv => NoOrphan
  BY DEF IInv, WayKnown, NoOrphan
<1> QED
  BY <1>1, Invariance, PTL

\* Two nonces of one step would both be the transaction its row names.
LEMMA OneNonce ==
  ASSUME IInv, NEW j \in Jobs, NEW s \in Steps
  PROVE  Cardinality(LandedNonces(j, s)) <= 1
<1> USE DEF IInv
<1>1. j # None /\ Latest \in Nat
  BY TxAssumption, LenProperties DEF TypeOK, Latest
<1>2. ASSUME NEW m \in LandedNonces(j, s), NEW n \in LandedNonces(j, s) PROVE m = n
  <2>1. mined[m].tx = rows[j][s].hash /\ mined[n].tx = rows[j][s].hash
    BY <1>1 DEF LandedNonces, EffectKnown
  <2>2. m \in 1 .. Latest /\ n \in 1 .. Latest
    BY DEF LandedNonces
  <2>3. m \in Int /\ n \in Int
    BY <1>1, <2>2
  <2>4. m - 1 = n - 1
    BY <2>1, <2>2 DEF ChainOrder
  <2> QED
    BY <2>3, <2>4
<1>3. CASE LandedNonces(j, s) = {}
  BY <1>3, FS_EmptySet
<1>4. CASE LandedNonces(j, s) # {}
  <2>1. PICK n : n \in LandedNonces(j, s)
    BY <1>4
  <2>2. LandedNonces(j, s) = {n}
    BY <1>2, <2>1
  <2> QED
    BY <2>2, FS_Singleton
<1> QED
  BY <1>3, <1>4

\* A step of a job is never executed twice on the chain, whatever was lost,
\* repeated, replaced or interrupted.
THEOREM OneEffect == Spec => []EffectOnce
<1>1. IInv => EffectOnce
  BY OneNonce DEF EffectOnce
<1> QED
  BY <1>1, Invariance, PTL

\* abandonRecoveryJob and archiveStrategy leave no transaction behind that could
\* still move funds, and a job that is given up never moved any.
THEOREM GivenUpStaysDead == Spec => []GivenUpIsDead
<1>1. ASSUME IInv PROVE GivenUpIsDead
  <2> SUFFICES ASSUME NEW j \in Jobs
               PROVE  /\ jobs[j] \in {"failed", "cancelled"} => \A t \in pool : t.job # j
                      /\ jobs[j] = "failed" => \A s \in Steps : LandedNonces(j, s) = {}
    BY DEF GivenUpIsDead
  <2>1. j # None
    BY TxAssumption
  <2>2. jobs[j] \in {"failed", "cancelled"} => \A t \in pool : t.job # j
    BY <1>1, <2>1 DEF IInv, JobFacts, WayKnown, Clear
  <2>3. jobs[j] = "failed" => \A s \in Steps : LandedNonces(j, s) = {}
    BY <1>1 DEF IInv, JobFacts, Took, LandedNonces
  <2> QED
    BY <2>2, <2>3
<1> QED
  BY <1>1, Invariance, PTL

\* The steps of a job take effect in the order of the ladder, across recoveries.
THEOREM StepsInOrder == Spec => []LandInOrder
<1>1. IInv => LandInOrder
  BY DEF IInv
<1> QED
  BY <1>1, Invariance, PTL

\* A job is marked completed only when every step of it took effect, however many
\* crashes, retries and recoveries it went through; only a transaction of the
\* owner that replaced one of its own can stand for a step (Complete after
\* sendTracked and reconcileJobTransaction).
THEOREM CompletedStaysAccounted == Spec => []CompletedIsAccountedFor
<1>1. IInv /\ Reckoned /\ [Next]_vars => (IInv /\ Reckoned)'
  BY NextKeeps, NextReckons
<1>2. Reckoned => CompletedIsAccountedFor
  <2> SUFFICES ASSUME Reckoned, NEW j \in Jobs, NEW s \in Steps, jobs[j] = "completed"
               PROVE  LandedNonces(j, s) # {} \/ OwnerTook
    BY DEF CompletedIsAccountedFor, OwnerTook
  <2>1. Took(j, s) \/ OwnerTook
    BY DEF Reckoned, Explained
  <2>2. Took(j, s) => LandedNonces(j, s) # {}
    BY DEF Took, LandedNonces
  <2> QED
    BY <2>1, <2>2
<1> QED
  BY InitHolds, InitReckons, <1>1, <1>2, PTL DEF Spec

=============================================================================
