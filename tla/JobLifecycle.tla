----------------------------- MODULE JobLifecycle -----------------------------
(***************************************************************************)
(* What the executor promises about one job, whoever acts on it: the life  *)
(* of its row in table jobs together with the fate of its transactions.    *)
(* Monitor, runner, supervisor, API, wallet queue, config revisions and    *)
(* crashes do not appear; ExecutorJobs implements this module with its own *)
(* jState and jTxs.                                                        *)
(***************************************************************************)
EXTENDS FiniteSets

CONSTANTS Jobs, SameStrategy(_, _), SameWallet(_, _)

VARIABLES state, txs

jobVars == <<state, txs>>

Init ==
  /\ state = [j \in Jobs |-> "unused"]
  /\ txs = [j \in Jobs |-> {}]

IsOpen(st) == st \in {"planned", "running", "recovery"}

\* an uncertain transaction may be found confirmed, or failed, or stay so
Settles(t) ==
  IF "open" \notin t THEN {t}
  ELSE {t} \cup {(t \ {"open"}) \cup {r} : r \in {"confirmed", "failed"}}

Uncertain(t) == "open" \in t
Effective(t) == "confirmed" \in t

Goes(j, from, to) == state[j] \in from /\ state'[j] = to

\* planned once, from nothing
Create(j) == Goes(j, {"unused"}, "planned") /\ txs'[j] = txs[j]

Start(j) == Goes(j, {"planned"}, "running") /\ txs'[j] = txs[j]

\* only a running job sends, one transaction at a time
Send(j) ==
  /\ Goes(j, {"running"}, "running")
  /\ ~Uncertain(txs[j]) /\ txs'[j] = txs[j] \cup {"open"}

Settle(j) ==
  /\ state'[j] = state[j]
  /\ state[j] \in {"running", "recovery", "failed"}
  /\ txs'[j] \in Settles(txs[j])

\* committed once, with every transaction settled; an untouched chain only
\* after a dry run
Commit(j) ==
  /\ Goes(j, {"running"}, "completed")
  /\ ~Uncertain(txs[j]) /\ (Effective(txs[j]) \/ txs[j] = {})
  /\ txs'[j] = txs[j]

Interrupt(j) == Goes(j, {"running"}, "recovery") /\ txs'[j] \in Settles(txs[j])

\* resumed only once every transaction is settled and one took effect
Resume(j) ==
  /\ Goes(j, {"recovery"}, "running")
  /\ txs'[j] \in Settles(txs[j])
  /\ ~Uncertain(txs'[j]) /\ Effective(txs'[j])

\* given up only if nothing took, or can still take, effect
GiveUp(j) ==
  /\ Goes(j, {"running", "recovery", "failed"}, "failed")
  /\ txs'[j] \in Settles(txs[j])
  /\ ~Uncertain(txs'[j]) /\ ~Effective(txs'[j])

\* stopped by the operator: not while a transaction is uncertain
Cancel(j) ==
  /\ Goes(j, {"planned", "recovery"}, "cancelled")
  /\ ~Uncertain(txs[j]) /\ txs'[j] = txs[j]

Stays(j) == state'[j] = state[j] /\ txs'[j] = txs[j]

Step(j) ==
  \/ Create(j) \/ Start(j) \/ Send(j) \/ Settle(j) \/ Commit(j)
  \/ Interrupt(j) \/ Resume(j) \/ GiveUp(j) \/ Cancel(j) \/ Stays(j)

Exclusive ==
  \A j, k \in Jobs : j # k =>
    /\ ~(SameStrategy(j, k) /\ IsOpen(state[j]) /\ IsOpen(state[k]))
    /\ ~(SameWallet(j, k) /\ state[j] = "running" /\ state[k] = "running")

\* a restart moves several jobs at once, so a step moves any number of them
Next == (\A j \in Jobs : Step(j)) /\ Exclusive'

Spec == Init /\ [][Next]_jobVars
===============================================================================
