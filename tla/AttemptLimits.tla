---------------------------- MODULE AttemptLimits ----------------------------
(***************************************************************************)
(* How far automation goes without its operator: how often a job is tried  *)
(* (scheduleRecoveryRetry and the quarantine, executor/store.ts), how much *)
(* slippage a reverted swap may be sent with (swap-escalation.ts), and how *)
(* much a strategy may trade in a UTC day (daily_turnover_reservations).   *)
(*                                                                         *)
(* One strategy, whose jobs follow one another.  Abstractions: each swap   *)
(* trades one unit; the delay of a retry is any time; counters the code    *)
(* only compares with 3, or puts under min(.., 8), stop there.             *)
(***************************************************************************)
EXTENDS Integers, FiniteSets, FiniteSetsExt, Functions

CONSTANTS
  Swaps,       \* slots of step 5: what a job may have to swap
  Base,        \* the strategy's maxSlippageBps
  Limits,      \* values execution.maxDailyTurnoverQuote can take, from the least up
  MaxJobs,     \* bound: jobs of the strategy
  MaxDay,      \* bound: the days are 0 .. MaxDay
  MaxResumes,  \* bound: resumes by the operator
  MaxCrashes,  \* bound: crashes of the executor
  None

ASSUME LimitsAssumption ==
  /\ IsFiniteSet(Swaps) /\ Base \in Nat \ {0}
  /\ IsFiniteSet(Limits) /\ Limits # {} /\ Limits \subseteq Nat
  /\ {MaxJobs, MaxDay, MaxResumes, MaxCrashes} \subseteq Nat
  /\ None \notin Swaps

Jobs == 1 .. MaxJobs

VARIABLES
  job,       \* the latest job of the strategy, 0 before the first
  phase,     \* where that job is, see Phases
  landed,    \* which of its mutations are confirmed, see Marks
  done,      \* slots whose swap is confirmed
  plan,      \* swaps the present attempt still has to send, None before it knows
  reverts,   \* job_context swap_revert_streak: consecutive reverts per slot
  strikes,   \* the columns recovery_error_streak, _fail_streak, _last_error
  quarantined, \* recovery_quarantined_at is set
  queued,    \* a resume by the operator waits behind the present attempt
  rows,      \* daily_turnover_reservations, one row for each job
  limit,     \* execution.maxDailyTurnoverQuote
  today,
  traded,    \* history: units a job has swapped
  burnt,     \* history: reverted swaps since the operator last decided
  tries,     \* history: failed attempts since then, up to 3
  astray,    \* history: the last failure was a revert of no swap, put off
  resumes, crashes

open == <<landed, done, plan, reverts, strikes, quarantined>>
hist == <<burnt, tries, astray>>
vars == <<job, phase, open, queued, rows, limit, today, traded, hist, resumes, crashes>>

Phases == {"idle",      \* no open job
           "running",   \* runJob
           "recovery",  \* job in state 'recovery', no attempt under way
           "inspect",   \* an attempt reads the chain; still 'recovery'
           "resumed"}   \* an attempt goes on; state 'running'
Marks == {"exit", "mint"}

NoStrikes == [streak |-> 0, fails |-> 0, last |-> None]
NoRow == [day |-> 0, amount |-> 0, state |-> "none"]

AtMost(n, m) == IF n < m THEN n ELSE m
AtLeast(n, m) == IF n < m THEN m ELSE n

-----------------------------------------------------------------------------
(***************************************************************************)
(* Slippage: every consecutive revert of a swap doubles what the next send *)
(* tolerates, up to a cap.                                                 *)
(***************************************************************************)
SWAP_RECOVERY_MAX_SLIPPAGE_BPS == 1000

\* mutant: the doubling is not capped
EscalatedSlippage_Uncapped(n) == Base * 2 ^ AtMost(n, 8)

EscalatedSlippage(n) ==
  AtMost(AtLeast(Base, SWAP_RECOVERY_MAX_SLIPPAGE_BPS), Base * 2 ^ AtMost(n, 8))

\* mutant: only a tolerance above the cap counts as spent
AtSlippageCap_Strict(n) == EscalatedSlippage(n) > SWAP_RECOVERY_MAX_SLIPPAGE_BPS

AtSlippageCap(n) == EscalatedSlippage(n) >= SWAP_RECOVERY_MAX_SLIPPAGE_BPS

\* swapEscalationUncapped: some swap has reverted and the worst can be widened
EscalationUncapped(r) ==
  LET counts == {r[s] : s \in Swaps} \ {0}
  IN counts # {} /\ ~AtSlippageCap(Max(counts))

(***************************************************************************)
(* Strikes: nextRecoveryRetryState.                                        *)
(***************************************************************************)
Noise == {"E_KYBER_QUOTE"}                \* isTransientRecoveryFailure
Hard  == {"E_NONCE", "E_DAILY_LIMIT"}
Codes == Noise \cup Hard \cup {"E_TX_REVERTED"}

\* mutant: an error other than the last one starts the count afresh
NextStrikes_FreshOnNewCode(code) ==
  [streak |-> IF strikes.last = code THEN AtMost(strikes.streak + 1, 3) ELSE 1,
   fails  |-> IF code \in Noise THEN strikes.fails
              ELSE IF strikes.last = code THEN AtMost(strikes.fails + 1, 3) ELSE 1,
   last   |-> code]

NextStrikes(code) ==
  [streak |-> IF strikes.last = code THEN AtMost(strikes.streak + 1, 3) ELSE 1,
   fails  |-> IF code \in Noise THEN strikes.fails ELSE AtMost(strikes.fails + 1, 3),
   last   |-> code]

\* mutant: headroom of any swap puts the quarantine off
Deferred_AnyHeadroom(code, r) ==
  code = "E_TX_REVERTED" /\ \E s \in Swaps : ~AtSlippageCap(r[s])

Deferred(code, r) == code = "E_TX_REVERTED" /\ EscalationUncapped(r)

Quarantines(code, r) ==
  /\ ~Deferred(code, r)
  /\ \/ code \notin Noise /\ NextStrikes(code).streak >= 3
     \/ NextStrikes(code).fails >= 3

(***************************************************************************)
(* Turnover: reserveDailyTurnover checks the other rows of the day and     *)
(* puts the row of the job under the present day.                          *)
(***************************************************************************)
\* mutant: turnover of jobs that are committed is forgotten
UsedByOthers_OpenOnly ==
  SumFunction([j \in Jobs |->
    IF j # job /\ rows[j].day = today /\ rows[j].state = "reserved" THEN rows[j].amount ELSE 0])

Counts(row, day) == row.day = day /\ row.state \in {"reserved", "confirmed"}

UsedByOthers ==
  SumFunction([j \in Jobs |-> IF j # job /\ Counts(rows[j], today) THEN rows[j].amount ELSE 0])

Fits(n) == n = 0 \/ (rows[job].state \in {"none", "reserved"} /\ UsedByOthers + n <= limit)

Reserved(n) ==
  IF n = 0 THEN rows
  ELSE [rows EXCEPT ![job] = [day |-> today, amount |-> n, state |-> "reserved"]]

\* confirmDailyTurnover, releaseDailyTurnover
Settled(state) ==
  IF rows[job].state = "reserved" THEN [rows EXCEPT ![job].state = state] ELSE rows

-----------------------------------------------------------------------------
TypeOK ==
  /\ job \in 0 .. MaxJobs /\ phase \in Phases /\ landed \subseteq Marks
  /\ done \subseteq Swaps /\ (plan = None \/ plan \subseteq Swaps)
  /\ reverts \in [Swaps -> 0 .. 8]
  /\ \A s \in Swaps :
       EscalatedSlippage(reverts[s]) \in Base .. AtLeast(Base, SWAP_RECOVERY_MAX_SLIPPAGE_BPS)
  /\ strikes \in [streak : 0 .. 3, fails : 0 .. 3, last : Codes \cup {None}]
  /\ quarantined \in BOOLEAN /\ queued \in BOOLEAN /\ astray \in BOOLEAN
  /\ rows \in [Jobs -> [day : 0 .. MaxDay, amount : Nat,
                        state : {"none", "reserved", "confirmed", "released"}]]
  /\ limit \in Limits /\ today \in 0 .. MaxDay
  /\ traded \in [Jobs -> Nat] /\ burnt \in Nat /\ tries \in 0 .. 3

Init ==
  /\ job = 0 /\ phase = "idle"
  /\ landed = {} /\ done = {} /\ plan = None /\ reverts = [s \in Swaps |-> 0]
  /\ strikes = NoStrikes /\ quarantined = FALSE /\ queued = FALSE
  /\ rows = [j \in Jobs |-> NoRow] /\ limit = Min(Limits) /\ today = 0
  /\ traded = [j \in Jobs |-> 0] /\ burnt = 0 /\ tries = 0 /\ astray = FALSE
  /\ resumes = 0 /\ crashes = 0

\* a job that ends leaves nothing to the next one but its reservation
Ends(state) ==
  /\ phase' = "idle" /\ queued' = FALSE /\ rows' = Settled(state)
  /\ landed' = {} /\ done' = {} /\ plan' = None /\ reverts' = [s \in Swaps |-> 0]
  /\ strikes' = NoStrikes /\ quarantined' = FALSE
  /\ burnt' = 0 /\ tries' = 0 /\ astray' = FALSE

(***************************************************************************)
(* The run: reserve an estimate, take the position out, reserve what the   *)
(* plan needs, swap, mint, commit.                                         *)
(***************************************************************************)
StartJob ==
  /\ phase = "idle" /\ job < MaxJobs /\ job' = job + 1 /\ phase' = "running"
  /\ UNCHANGED <<open, queued, rows, limit, today, traded, hist, resumes, crashes>>

\* preflight projects the turnover of everything there may be to swap
ReserveEstimate ==
  /\ phase = "running" /\ landed = {} /\ rows[job] = NoRow
  /\ Fits(Cardinality(Swaps)) /\ rows' = Reserved(Cardinality(Swaps))
  /\ UNCHANGED <<job, phase, open, queued, limit, today, traded, hist, resumes, crashes>>

ExitLands ==
  /\ phase = "running" /\ landed = {} /\ rows[job] # NoRow
  /\ landed' = {"exit"}
  /\ UNCHANGED <<job, phase, done, plan, reverts, strikes, quarantined, queued, rows,
                 limit, today, traded, hist, resumes, crashes>>

\* recovery counts the swaps already done again, at the price of the day
PlanSwaps(todo) ==
  /\ phase \in {"running", "resumed"} /\ landed = {"exit"} /\ plan = None
  /\ Fits(Cardinality(done \cup todo)) /\ rows' = Reserved(Cardinality(done \cup todo))
  /\ plan' = todo
  /\ UNCHANGED <<job, phase, landed, done, reverts, strikes, quarantined, queued,
                 limit, today, traded, hist, resumes, crashes>>

\* only recovery keeps count of reverts
SwapLands(s) ==
  /\ phase \in {"running", "resumed"} /\ plan # None /\ s \in plan
  /\ plan' = plan \ {s} /\ done' = done \cup {s}
  /\ reverts' = [reverts EXCEPT ![s] = IF phase = "resumed" THEN 0 ELSE @]
  /\ traded' = [traded EXCEPT ![job] = @ + 1]
  /\ UNCHANGED <<job, phase, landed, strikes, quarantined, queued, rows,
                 limit, today, hist, resumes, crashes>>

MintLands ==
  /\ phase \in {"running", "resumed"} /\ landed = {"exit"} /\ plan = {}
  /\ landed' = Marks
  /\ UNCHANGED <<job, phase, done, plan, reverts, strikes, quarantined, queued, rows,
                 limit, today, traded, hist, resumes, crashes>>

\* the commit confirms the reservation; the supervisor clears the schedule
Commit ==
  /\ phase \in {"running", "resumed"} /\ landed = Marks
  /\ Ends("confirmed")
  /\ UNCHANGED <<job, limit, today, traded, resumes, crashes>>

\* the catch of runJob; what was never sent is given up at once
RunThrows ==
  /\ phase = "running" /\ phase' = "recovery" /\ plan' = None
  /\ UNCHANGED <<job, landed, done, reverts, strikes, quarantined, queued, rows,
                 limit, today, traded, hist, resumes, crashes>>

RunAbandons ==
  /\ phase = "running" /\ landed = {} /\ Ends("released")
  /\ UNCHANGED <<job, limit, today, traded, resumes, crashes>>

-----------------------------------------------------------------------------
(***************************************************************************)
(* Recovery attempts, by the supervisor or by the operator.                *)
(***************************************************************************)
Supervise ==
  /\ phase = "recovery" /\ ~quarantined /\ phase' = "inspect"
  /\ UNCHANGED <<job, open, queued, rows, limit, today, traded, hist, resumes, crashes>>

\* mutant: the resume forgets the last error but not the strikes
OperatorResumes_KeepsFails ==
  /\ phase \in {"recovery", "inspect"} /\ ~queued
  /\ resumes < MaxResumes /\ resumes' = resumes + 1
  /\ strikes' = [NoStrikes EXCEPT !.fails = strikes.fails] /\ quarantined' = FALSE
  /\ burnt' = 0 /\ tries' = 0 /\ astray' = FALSE
  /\ phase' = "inspect" /\ queued' = (phase = "inspect")
  /\ UNCHANGED <<job, landed, done, plan, reverts, rows, limit, today, traded, crashes>>

\* the resume request: counters first, then an attempt or a place in the queue
OperatorResumes ==
  /\ phase \in {"recovery", "inspect"} /\ ~queued
  /\ resumes < MaxResumes /\ resumes' = resumes + 1
  /\ strikes' = NoStrikes /\ quarantined' = FALSE
  /\ burnt' = 0 /\ tries' = 0 /\ astray' = FALSE
  /\ phase' = "inspect" /\ queued' = (phase = "inspect")
  /\ UNCHANGED <<job, landed, done, plan, reverts, rows, limit, today, traded, crashes>>

GoOn ==
  /\ phase = "inspect" /\ landed # {} /\ phase' = "resumed"
  /\ UNCHANGED <<job, open, queued, rows, limit, today, traded, hist, resumes, crashes>>

\* restart_safe: a limit that was in the way may be raised, the job is given up
GiveUp(newLimit) ==
  /\ phase = "inspect" /\ landed = {}
  /\ newLimit >= limit /\ limit' = newLimit /\ Ends("released")
  /\ UNCHANGED <<job, today, traded, resumes, crashes>>

\* the attempt ends with an error: scheduleRecoveryRetry, then who is queued
Fails(code, r) ==
  /\ strikes' = NextStrikes(code) /\ quarantined' = Quarantines(code, r) /\ reverts' = r
  /\ phase' = IF queued THEN "inspect" ELSE "recovery"
  /\ queued' = FALSE /\ plan' = None /\ tries' = AtMost(tries + 1, 3)
  /\ UNCHANGED <<job, landed, done, rows, limit, today, traded, resumes, crashes>>

SwapReverts(s) ==
  /\ phase = "resumed" /\ plan # None /\ s \in plan
  /\ Fails("E_TX_REVERTED", [reverts EXCEPT ![s] = AtMost(@ + 1, 8)])
  /\ burnt' = burnt + 1 /\ astray' = FALSE

\* an approval, the mint or a staking call reverts
OtherReverts ==
  /\ phase = "resumed"
  /\ Fails("E_TX_REVERTED", reverts)
  /\ burnt' = burnt /\ astray' = Deferred("E_TX_REVERTED", reverts)

OverLimit(todo) ==
  /\ phase = "resumed" /\ landed = {"exit"} /\ plan = None
  /\ ~Fits(Cardinality(done \cup todo))
  /\ Fails("E_DAILY_LIMIT", reverts) /\ burnt' = burnt /\ astray' = FALSE

AttemptThrows(code) ==
  /\ phase \in {"inspect", "resumed"}
  /\ Fails(code, reverts) /\ burnt' = burnt /\ astray' = FALSE

\* quarantineInterruptedJobs keeps the counters; an attempt leaves no strike
Crash ==
  /\ phase \in {"running", "inspect", "resumed"}
  /\ crashes < MaxCrashes /\ crashes' = crashes + 1
  /\ phase' = "recovery" /\ plan' = None /\ queued' = FALSE
  /\ UNCHANGED <<job, landed, done, reverts, strikes, quarantined, rows,
                 limit, today, traded, hist, resumes>>

Midnight ==
  /\ today < MaxDay /\ today' = today + 1
  /\ UNCHANGED <<job, phase, open, queued, rows, limit, traded, hist, resumes, crashes>>

-----------------------------------------------------------------------------
Run ==
  \/ StartJob \/ ReserveEstimate \/ ExitLands
  \/ RunThrows \/ RunAbandons

Steps ==
  \/ \E todo \in SUBSET (Swaps \ done) : PlanSwaps(todo) \/ OverLimit(todo)
  \/ \E s \in Swaps : SwapLands(s) \/ SwapReverts(s)
  \/ MintLands \/ Commit \/ GoOn \/ OtherReverts
  \/ \E newLimit \in Limits : GiveUp(newLimit)
  \/ \E code \in Noise \cup {"E_NONCE"} : AttemptThrows(code)

Next == Run \/ Steps \/ Supervise \/ OperatorResumes \/ Crash \/ Midnight

(***************************************************************************)
(* The supervisor's interval timer starts an attempt at a job that is due, *)
(* and every call of an attempt settles, with an answer or an error.       *)
(***************************************************************************)
Attempting == phase \in {"inspect", "resumed"} /\ Steps

Fairness == WF_vars(Supervise) /\ WF_vars(Attempting)

Spec == Init /\ [][Next]_vars /\ Fairness

-----------------------------------------------------------------------------
\* reverts after which the slippage of a swap can be widened no more
Rungs == CHOOSE n \in 0 .. 8 : AtSlippageCap(n) /\ \A m \in 0 .. n - 1 : ~AtSlippageCap(m)

(***************************************************************************)
(* Gas is not burnt for ever: between two decisions of the operator, the   *)
(* swaps of a job revert at most as often as their ladders have rungs (or  *)
(* three times, for short ladders), whatever other errors, crashes and     *)
(* swaps that land come in between.                                        *)
(***************************************************************************)
RevertsBounded == burnt <= AtLeast(3, Cardinality(Swaps) * Rungs)

(***************************************************************************)
(* A quarantine is put off only while there is something left to try: with *)
(* three failures on record and a swap whose tolerance another revert does *)
(* not widen, the job is quarantined, whichever failures they were.  That  *)
(* is what atSlippageCap says it decides: "the point where reverting stops *)
(* being an escalation ladder and becomes a stuck job".                    *)
(***************************************************************************)
SpentLadderQuarantines ==
  /\ strikes.fails = 3
  /\ \E s \in Swaps : EscalatedSlippage(reverts[s] + 1) = EscalatedSlippage(reverts[s])
  => quarantined

(***************************************************************************)
(* The swaps counted for a day never exceed the limit of the strategy: a   *)
(* reservation that recovery moves over midnight, one that is given up,    *)
(* and a job that starts while another day's is unfinished, all leave the  *)
(* sum of what the jobs of the day really traded within it.                *)
(***************************************************************************)
TurnoverWithinLimit ==
  \A day \in 0 .. MaxDay :
    SumFunction([j \in Jobs |-> IF rows[j].day = day THEN traded[j] ELSE 0]) <= limit

(***************************************************************************)
(* Old strikes never count against the operator's decision: a quarantine   *)
(* is earned by three failed attempts after the job was last resumed.      *)
(***************************************************************************)
QuarantineEarned == quarantined => tries = 3

(***************************************************************************)
(* A job that fails on every attempt reaches quarantine, even when its     *)
(* errors alternate.  Provider noise does not count; and a revert outside  *)
(* the swaps is put off as long as an old swap revert is on record, so     *)
(* nothing is said when one of these two never stops.                      *)
(***************************************************************************)
FailingIsNoticed ==
  <>[](strikes.last \notin Noise /\ ~astray) =>
    (phase = "recovery" ~> (quarantined \/ phase = "idle"))

=============================================================================
