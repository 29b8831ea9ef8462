----------------------------- MODULE WalletFunds -----------------------------
(***************************************************************************)
(* Whose money is in the wallet.  Strategies share one signing wallet; the *)
(* tables allocations and allocation_components (executor/store.ts) say    *)
(* how much of each token belongs to which strategy and how much of it is  *)
(* principal, held fees and retained profit.  The jobs that move tokens    *)
(* (runner.ts, recovery-runner.ts, profit-withdrawal.ts) rewrite these     *)
(* tables when they commit, which may be long after the transactions       *)
(* landed and after other jobs of the wallet ran.                          *)
(*                                                                         *)
(* One action is one landed transaction or one database commit.  Between   *)
(* two of them the job may throw or the process may die; another job of    *)
(* the wallet may then run before the job is recovered.  A transaction's   *)
(* outcome is definite here (TxRecovery models the uncertain ones).        *)
(* Abstractions: two tokens, swaps at rate one, no gas, fee tax, staking   *)
(* or allowances; the price range of a mint is left out.                   *)
(*                                                                         *)
(* own and free are what receipts prove: the balance of the wallet is the  *)
(* sum of them.  The code knows only the balance and its own tables.       *)
(***************************************************************************)
EXTENDS Integers, FiniteSets, Functions

CONSTANTS
  Strategies,  \* strategies of the wallet
  Convert,     \* those with fees.handling = 'convert_to_quote' at first
  MaxJobs,     \* bound: jobs created
  MaxOutside,  \* bound: units of fees and of the owner's deposits
  MaxFails,    \* bound: throws and crashes
  None

Ordinary == {"recenter", "collect", "hold"}
Profit   == {"keep", "ETH"}    \* targets of a profit withdrawal

ASSUME FundsAssumption ==
  /\ IsFiniteSet(Strategies) /\ Convert \subseteq Strategies
  /\ {MaxJobs, MaxOutside, MaxFails} \subseteq Nat
  /\ None \notin Strategies \cup Ordinary \cup Profit

\* riskToken and quoteToken; profit is settled in the quote token
Tokens == {"risk", "quote"}

VARIABLES
  pos,       \* chain: tokens of a strategy's position
  owed,      \* chain: fees the position has accrued
  own, free, \* chain: tokens in the wallet, per strategy and the owner's
  alloc,     \* SQLite: allocations
  comp,      \* SQLite: allocation_components
  paid,      \* SQLite: ledger_entries of kind profit_withdrawal
  paused,    \* SQLite: strategies in state 'paused_hold_quote'
  reinvest,  \* SQLite: strategies whose config says fees.handling = 'reinvest'
  job,       \* SQLite: the open job of a strategy, with its job_context
  holder,    \* the strategy whose job holds the wallet lock
  harvested, \* history: profit retained so far
  moved,     \* history: strategies whose job saw others move the wallet
  tainted,   \* history: strategies that committed after that from balances
  made, outside, fails

chain  == <<pos, owed, own, free>>
tables == <<alloc, comp, paid, paused, reinvest>>
hist   == <<harvested, moved, tainted>>
counts == <<made, outside, fails>>
vars   == <<chain, tables, job, holder, hist, counts>>

Zero == [t \in Tokens |-> 0]
Only(t, n) == [Zero EXCEPT ![t] = n]
Plus(f, g) == [t \in Tokens |-> f[t] + g[t]]
Minus(f, g) == [t \in Tokens |-> f[t] - g[t]]
Tot(f) == f["risk"] + f["quote"]
Leq(f, g) == \A t \in Tokens : f[t] <= g[t]

\* a classified amount of each token
NoParts == [principal |-> Zero, heldFee |-> Zero, heldProfit |-> Zero]
TotalOf(c) == Plus(c.principal, Plus(c.heldFee, c.heldProfit))

NoJob == [kind |-> None, at |-> None, again |-> FALSE, base |-> Zero,
          prior |-> NoParts, lp |-> Zero, held |-> Zero, profit |-> Zero]

Busy(s) == job[s] # NoJob
AtRest(s) == ~Busy(s)

\* readTokenBalances: what the chain answers for the wallet
Balance == [t \in Tokens |-> free[t] + SumFunction([s \in Strategies |-> own[s][t]])]

(***************************************************************************)
(* strategyAllocationComponents: a stored split that does not add up to    *)
(* the allocation counts as held fees.                                     *)
(***************************************************************************)
Parts(s) ==
  LET fits(t) == TotalOf(comp[s])[t] = alloc[s][t]
  IN [principal  |-> [t \in Tokens |-> IF fits(t) THEN comp[s].principal[t] ELSE 0],
      heldFee    |-> [t \in Tokens |-> IF fits(t) THEN comp[s].heldFee[t] ELSE alloc[s][t]],
      heldProfit |-> [t \in Tokens |-> IF fits(t) THEN comp[s].heldProfit[t] ELSE 0]]

\* assertWalletAllocationUpdate: the wallet covers everybody once s has next
Covers(s, next) ==
  \A t \in Tokens :
    next[t] + SumFunction([r \in Strategies \ {s} |-> alloc[r][t]]) <= Balance[t]

\* mutant: each allocation is compared with the balance, not their sum
Covered_OneByOne == \A s \in Strategies : Leq(alloc[s], Balance)

\* assertWalletAllocations
Covered ==
  \A t \in Tokens : SumFunction([r \in Strategies |-> alloc[r][t]]) <= Balance[t]

-----------------------------------------------------------------------------
Amounts == [Tokens -> Nat]
Classes == [principal : Amounts, heldFee : Amounts, heldProfit : Amounts]

\* ordinary jobs go through the first four; a withdrawal has its own
Stages == {"checked", "exited", "swapped", "minted",
           "bare", "created", "recorded", "priced", "unwrapped", "released"}

OpenJobs == [kind : Ordinary \cup Profit \cup {None}, at : Stages \cup {None}, again : BOOLEAN,
             base : Amounts, prior : Classes, lp : Amounts, held : Amounts, profit : Amounts]

TypeOK ==
  /\ pos \in [Strategies -> Amounts] /\ owed \in [Strategies -> Amounts]
  /\ own \in [Strategies -> [Tokens -> Int]] /\ free \in Amounts /\ Balance \in Amounts
  /\ alloc \in [Strategies -> Amounts] /\ comp \in [Strategies -> Classes]
  /\ paid \in [Strategies -> Nat] /\ harvested \in [Strategies -> Nat]
  /\ paused \subseteq Strategies /\ reinvest \subseteq Strategies
  /\ moved \subseteq Strategies /\ tainted \subseteq Strategies
  /\ job \in [Strategies -> OpenJobs] /\ holder \in Strategies \cup {None}
  /\ made \in 0 .. MaxJobs /\ outside \in 0 .. MaxOutside /\ fails \in 0 .. MaxFails

\* strategies with one unit deployed, and maybe retained profit or idle principal
Init ==
  /\ pos = [s \in Strategies |-> Only("risk", 1)]
  /\ owed = [s \in Strategies |-> Zero]
  /\ comp \in [Strategies -> {NoParts, [NoParts EXCEPT !.principal = Only("risk", 1)],
                              [NoParts EXCEPT !.heldProfit = Only("risk", 1)]}]
  /\ alloc = [s \in Strategies |-> TotalOf(comp[s])]
  /\ own = alloc /\ free = Zero
  /\ harvested = [s \in Strategies |-> Tot(comp[s].heldProfit)]
  /\ paid = [s \in Strategies |-> 0]
  /\ paused = {} /\ reinvest = {} /\ moved = {} /\ tainted = {}
  /\ job = [s \in Strategies |-> NoJob] /\ holder = None
  /\ made = 0 /\ outside = 0 /\ fails = 0

\* others whose open job compares balances see those of the wallet move
Moves(s) == moved' = moved \cup {r \in Strategies \ {s} : Busy(r)}

\* the job of s runs under the wallet lock and has reached one of the stages
Runs(s, kinds, stages) == holder = s /\ job[s].kind \in kinds /\ job[s].at \in stages

Reach(s, j) == job' = [job EXCEPT ![s] = j]

\* the job of s is closed and the lock is free again
Close(s) == job' = [job EXCEPT ![s] = NoJob] /\ holder' = None /\ moved' = moved \ {s}

(***************************************************************************)
(* Chain: a pool accrues fees (in the risk token); the owner sends tokens. *)
(***************************************************************************)
AccrueFee(s) ==
  /\ outside < MaxOutside /\ pos[s] # Zero
  /\ owed' = [owed EXCEPT ![s] = Plus(@, Only("risk", 1))]
  /\ outside' = outside + 1
  /\ UNCHANGED <<pos, own, free, tables, job, holder, hist, made, fails>>

Deposit(t) ==
  /\ outside < MaxOutside
  /\ free' = Plus(free, Only(t, 1)) /\ Moves(None)
  /\ outside' = outside + 1
  /\ UNCHANGED <<pos, owed, own, tables, job, holder, harvested, tainted, made, fails>>

(***************************************************************************)
(* Ordinary jobs.  The precheck reads the balance and the strategy's rows  *)
(* and keeps them in the job context for whatever later attempt commits.   *)
(***************************************************************************)
Start(s, kind) ==
  /\ holder = None /\ AtRest(s) /\ s \notin paused /\ made < MaxJobs
  /\ pos[s] # Zero /\ (kind = "collect" => owed[s] # Zero)
  /\ Covered /\ Leq(alloc[s], Balance)
  /\ Reach(s, [NoJob EXCEPT !.kind = kind, !.at = "checked", !.base = Balance, !.prior = Parts(s)])
  /\ holder' = s /\ made' = made + 1
  /\ UNCHANGED <<chain, tables, hist, outside, fails>>

\* decrease and collect: principal and fees come to the wallet; a hold sells both
Exit(s) ==
  /\ Runs(s, {"recenter", "hold"}, {"checked"})
  /\ LET deployed == Plus(pos[s], job[s].prior.principal)
         spends == IF job[s].kind = "hold" \/ s \in reinvest THEN owed[s] ELSE Zero
     IN Reach(s, [job[s] EXCEPT !.at = "exited", !.lp = Plus(deployed, spends),
                                !.held = Minus(owed[s], spends)])
  /\ own' = [own EXCEPT ![s] = Plus(@, Plus(pos[s], owed[s]))]
  /\ pos' = [pos EXCEPT ![s] = Zero] /\ owed' = [owed EXCEPT ![s] = Zero] /\ Moves(s)
  /\ UNCHANGED <<free, tables, holder, harvested, tainted, counts>>

Collect(s) ==
  /\ Runs(s, {"collect"}, {"checked"})
  /\ Reach(s, [job[s] EXCEPT !.at = "exited", !.held = owed[s]])
  /\ own' = [own EXCEPT ![s] = Plus(@, owed[s])]
  /\ owed' = [owed EXCEPT ![s] = Zero] /\ Moves(s)
  /\ UNCHANGED <<pos, free, tables, holder, harvested, tainted, counts>>

Exchange(f, n) == [f EXCEPT !["risk"] = @ - n, !["quote"] = @ + n]

\* a swap of n units in the wallet, accounted to s
Swaps(s, n) ==
  /\ n > 0 /\ n <= Balance["risk"]
  /\ own' = [own EXCEPT ![s] = Exchange(@, n)] /\ Moves(s)
  /\ UNCHANGED <<pos, owed, free, tables, holder, harvested, tainted, counts>>

FeesToConvert(s) == IF s \in Convert \ reinvest THEN job[s].held["risk"] ELSE 0

ConvertFees(s) ==
  /\ Runs(s, {"recenter", "collect"}, {"exited", "swapped"})
  /\ Swaps(s, FeesToConvert(s))
  /\ Reach(s, [job[s] EXCEPT !.held = Exchange(@, FeesToConvert(s))])

\* the part of the principal the new range needs in the other token
SwapForRange(s) ==
  /\ Runs(s, {"recenter"}, {"exited"})
  /\ \E n \in 1 .. job[s].lp["risk"] :
       /\ Swaps(s, n)
       /\ Reach(s, [job[s] EXCEPT !.at = "swapped", !.lp = Exchange(@, n)])

\* mutant: the carried principal is added to what lp holds of it already
HoldRisk_CarriedTwice(s) ==
  job[s].lp["risk"] + job[s].prior.principal["risk"]
    + job[s].prior.heldFee["risk"] + job[s].prior.heldProfit["risk"]

\* Exit put the carried principal into lp already
HoldRisk(s) ==
  job[s].lp["risk"] + job[s].prior.heldFee["risk"] + job[s].prior.heldProfit["risk"]

\* a hold sells what left the position and everything idle of the strategy
SellAll(s) ==
  /\ Runs(s, {"hold"}, {"exited"})
  /\ Swaps(s, HoldRisk(s))
  /\ Reach(s, [job[s] EXCEPT !.at = "swapped"])

(***************************************************************************)
(* The mint spends the deployable funds but the harvested profit; what the *)
(* pool does not take stays in the wallet as principal.                    *)
(***************************************************************************)
Mint(s, carry, profit) ==
  LET minted == Minus(job[s].lp, Plus(carry, profit))
  IN /\ Runs(s, {"recenter"}, {"exited", "swapped"}) /\ FeesToConvert(s) = 0
     /\ Leq(Zero, minted) /\ minted # Zero /\ Leq(minted, Balance)
     /\ Reach(s, [job[s] EXCEPT !.at = "minted", !.lp = carry, !.profit = profit])
     /\ own' = [own EXCEPT ![s] = Minus(@, minted)]
     /\ pos' = [pos EXCEPT ![s] = minted] /\ Moves(s)
     /\ UNCHANGED <<owed, free, tables, holder, harvested, tainted, counts>>

\* what the pool leaves, and what capital protection retains, is at most a unit
Leftovers == {Zero} \cup {Only(t, 1) : t \in Tokens}

-----------------------------------------------------------------------------
(***************************************************************************)
(* What the commits write.  A recenter adds up what its own receipts say.  *)
(* A fee collection and a hold take the wallet's balance now, less the     *)
(* balance of the precheck, as the change of the strategy's own allocation.*)
(***************************************************************************)
\* mutants: the fees, or the profit, held before the job are forgotten
RecenterParts_NoPriorFee(s) ==
  [principal |-> job[s].lp, heldFee |-> job[s].held,
   heldProfit |-> Plus(job[s].prior.heldProfit, job[s].profit)]

RecenterParts_NoPriorProfit(s) ==
  [principal |-> job[s].lp, heldFee |-> Plus(job[s].prior.heldFee, Plus(job[s].held, job[s].prior.heldProfit)),
   heldProfit |-> job[s].profit]

RecenterParts(s) ==
  [principal  |-> job[s].lp,
   heldFee    |-> Plus(job[s].prior.heldFee, job[s].held),
   heldProfit |-> Plus(job[s].prior.heldProfit, job[s].profit)]

NetOf(s) == Plus(Minus(Balance, job[s].base), TotalOf(job[s].prior))

CollectParts(s) ==
  LET prior == job[s].prior
      principal == IF s \in reinvest
                   THEN Minus(NetOf(s), Plus(prior.heldFee, prior.heldProfit))
                   ELSE prior.principal
  IN [principal  |-> principal,
      heldFee    |-> Minus(NetOf(s), Plus(principal, prior.heldProfit)),
      heldProfit |-> prior.heldProfit]

\* mutant: no check that a classified amount is not negative
Valid_Unchecked(c) == TRUE

Valid(c) == Leq(Zero, c.principal) /\ Leq(Zero, c.heldFee) /\ Leq(Zero, c.heldProfit)

RecenterCommits(s) == Covers(s, TotalOf(RecenterParts(s)))
CollectCommits(s)  == Valid(CollectParts(s)) /\ Covers(s, NetOf(s))
HoldCommits(s)     == Leq(Zero, NetOf(s)) /\ NetOf(s)["risk"] = 0

\* commitRebalance
CommitRecenter(s) ==
  /\ Runs(s, {"recenter"}, {"minted"}) /\ RecenterCommits(s)
  /\ comp' = [comp EXCEPT ![s] = RecenterParts(s)]
  /\ alloc' = [alloc EXCEPT ![s] = TotalOf(RecenterParts(s))]
  /\ harvested' = [harvested EXCEPT ![s] = @ + Tot(job[s].profit)]
  /\ Close(s)
  /\ UNCHANGED <<chain, paid, paused, reinvest, tainted, counts>>

\* commitFeeCollection
CommitCollect(s) ==
  /\ Runs(s, {"collect"}, {"exited", "swapped"}) /\ FeesToConvert(s) = 0
  /\ CollectCommits(s)
  /\ comp' = [comp EXCEPT ![s] = CollectParts(s)]
  /\ alloc' = [alloc EXCEPT ![s] = NetOf(s)]
  /\ tainted' = tainted \cup (moved \cap {s})
  /\ Close(s)
  /\ UNCHANGED <<chain, paid, paused, reinvest, harvested, counts>>

\* commitHoldQuote rewrites the totals only: the classes no longer add up
CommitHold(s) ==
  /\ Runs(s, {"hold"}, {"exited", "swapped"})
  /\ (job[s].at = "exited" => HoldRisk(s) = 0)
  /\ HoldCommits(s)
  /\ alloc' = [alloc EXCEPT ![s] = NetOf(s)]
  /\ paused' = paused \cup {s}
  /\ tainted' = tainted \cup (moved \cap {s})
  /\ Close(s)
  /\ UNCHANGED <<chain, comp, paid, reinvest, harvested, counts>>

(***************************************************************************)
(* Failures.  A job that has landed nothing is given up; any other job is  *)
(* left for recovery, which takes the lock again.                          *)
(***************************************************************************)
ToSell(s) == job[s].prior.heldProfit["risk"]

HasLanded(s) ==
  CASE job[s].kind \in Ordinary -> job[s].at # "checked"
    [] job[s].at \in {"swapped", "unwrapped"} -> TRUE
    [] OTHER -> \/ ToSell(s) > 0 /\ job[s].at \in {"recorded", "priced", "released"}
                \/ job[s].kind = "ETH" /\ job[s].at = "released"

\* the attempt at the job of s ends; the job stays for recovery, or not
EndAttempt(s, stays) ==
  /\ holder = s /\ fails < MaxFails /\ fails' = fails + 1
  /\ IF stays THEN /\ Reach(s, [job[s] EXCEPT !.again = TRUE])
                   /\ holder' = None /\ moved' = moved
              ELSE Close(s)
  /\ UNCHANGED <<chain, tables, harvested, tainted, made, outside>>

Throw(s) == job[s].at # "bare" /\ EndAttempt(s, HasLanded(s))

\* recovery gives an ordinary job up when nothing of it has landed
Crash(s) == EndAttempt(s, job[s].kind \in Profit \/ HasLanded(s))

\* mutant: recovery goes on from the wallet without the coverage proof
Redeployable_Unproved(s) == TRUE

\* finishFromWallet asks first whether the wallet covers what left the position
Redeployable(s) ==
  Covers(s, Plus(job[s].prior.heldFee, Plus(job[s].lp, job[s].held)))

Resume(s) ==
  /\ holder = None /\ Busy(s) /\ job[s].again /\ job[s].at # "bare"
  /\ (job[s].kind = "recenter" /\ job[s].at \in {"exited", "swapped"}) => Redeployable(s)
  /\ holder' = s
  /\ UNCHANGED <<chain, tables, job, hist, counts>>

-----------------------------------------------------------------------------
(***************************************************************************)
(* Profit withdrawal.  The retained profit is sold for the quote token and *)
(* released: "keep" leaves it in the wallet, "ETH" unwraps it first.  The  *)
(* rows change twice, after the swap and on release.                       *)
(***************************************************************************)
StartProfit(s, target) ==
  /\ holder = None /\ AtRest(s) /\ s \notin paused /\ made < MaxJobs
  /\ Tot(Parts(s).heldProfit) > 0
  /\ Covered /\ Leq(Parts(s).heldProfit, Balance)
  /\ Reach(s, [NoJob EXCEPT !.kind = target, !.at = "bare", !.prior = Parts(s)])
  /\ holder' = s /\ made' = made + 1
  /\ UNCHANGED <<chain, tables, hist, outside, fails>>

SaveContext(s) ==
  /\ Runs(s, Profit, {"bare"}) /\ Reach(s, [job[s] EXCEPT !.at = "created"])
  /\ UNCHANGED <<chain, tables, holder, hist, counts>>

ProfitSwap(s) ==
  /\ Runs(s, Profit, {"created"}) /\ ~job[s].again
  /\ Swaps(s, ToSell(s)) /\ Reach(s, [job[s] EXCEPT !.at = "swapped"])

Sold(s) == [Parts(s) EXCEPT !.heldProfit = Exchange(@, ToSell(s))]

\* commitProfitAllocationMutation writes what it proved the wallet covers
Classify(s, c) ==
  /\ Valid(c) /\ Covers(s, TotalOf(c))
  /\ comp' = [comp EXCEPT ![s] = c]
  /\ alloc' = [alloc EXCEPT ![s] = TotalOf(c)]

RecordSwap(s) ==
  /\ Runs(s, Profit, {"swapped"}) /\ Classify(s, Sold(s))
  /\ Reach(s, [job[s] EXCEPT !.at = "recorded"])
  /\ UNCHANGED <<chain, paid, paused, reinvest, holder, hist, counts>>

\* the amount to release is fixed before anything is unwrapped
SaveRelease(s) ==
  /\ Runs(s, Profit, {"created", "recorded"})
  /\ (job[s].at = "created" => ToSell(s) = 0)
  /\ Parts(s).heldProfit["quote"] > 0
  /\ Reach(s, [job[s] EXCEPT !.at = "priced", !.profit = Only("quote", Parts(s).heldProfit["quote"])])
  /\ UNCHANGED <<chain, tables, holder, hist, counts>>

Unwrap(s) ==
  /\ Runs(s, {"ETH"}, {"priced"}) /\ ~job[s].again
  /\ Leq(job[s].profit, Balance)
  /\ Reach(s, [job[s] EXCEPT !.at = "unwrapped"])
  /\ own' = [own EXCEPT ![s] = Minus(@, job[s].profit)] /\ Moves(s)
  /\ UNCHANGED <<pos, owed, free, tables, holder, harvested, tainted, counts>>

\* recovery sends no transaction: what is unsold or still wrapped stays retained
AbandonProfit(s) ==
  /\ job[s].again
  /\ \/ Runs(s, Profit, {"created"}) /\ ToSell(s) > 0
     \/ Runs(s, {"ETH"}, {"priced"})
  /\ Close(s)
  /\ UNCHANGED <<chain, tables, harvested, tainted, counts>>

Release(s) ==
  /\ \/ Runs(s, {"keep"}, {"priced"})
     \/ Runs(s, {"ETH"}, {"unwrapped"})
  /\ Parts(s).heldProfit["quote"] = job[s].profit["quote"]
  /\ Classify(s, [Parts(s) EXCEPT !.heldProfit["quote"] = 0])
  /\ paid' = [paid EXCEPT ![s] = @ + Tot(job[s].profit)]
  /\ IF job[s].kind = "keep"
     THEN /\ own' = [own EXCEPT ![s] = Minus(@, job[s].profit)]
          /\ free' = Plus(free, job[s].profit)
     ELSE UNCHANGED <<own, free>>
  /\ Reach(s, [job[s] EXCEPT !.at = "released"])
  /\ UNCHANGED <<pos, owed, paused, reinvest, holder, hist, counts>>

CompleteProfit(s) ==
  /\ Runs(s, Profit, {"released"}) /\ Close(s)
  /\ UNCHANGED <<chain, tables, harvested, tainted, counts>>

\* turning reinvest on makes idle fees principal (compoundHeldAllocations); the
\* request asks the strategy's state, which a profit withdrawal leaves alone
Compound(s) ==
  /\ AtRest(s) \/ (job[s].kind \in Profit /\ ~job[s].again)
  /\ s \notin reinvest
  /\ reinvest' = reinvest \cup {s}
  /\ comp' = [comp EXCEPT ![s].principal = Plus(@, comp[s].heldFee), ![s].heldFee = Zero]
  /\ UNCHANGED <<chain, alloc, paid, paused, job, holder, hist, counts>>

-----------------------------------------------------------------------------
Next ==
  \E s \in Strategies :
    \/ AccrueFee(s)
    \/ \E kind \in Ordinary : Start(s, kind)
    \/ Exit(s) \/ Collect(s) \/ ConvertFees(s) \/ SwapForRange(s) \/ SellAll(s)
    \/ \E carry, profit \in Leftovers : Mint(s, carry, profit)
    \/ CommitRecenter(s) \/ CommitCollect(s) \/ CommitHold(s)
    \/ Throw(s) \/ Crash(s) \/ Resume(s)
    \/ \E target \in Profit : StartProfit(s, target)
    \/ SaveContext(s) \/ ProfitSwap(s) \/ RecordSwap(s) \/ SaveRelease(s)
    \/ Unwrap(s) \/ AbandonProfit(s) \/ Release(s) \/ CompleteProfit(s)
    \/ Compound(s)
    \/ \E t \in Tokens : Deposit(t)

Spec == Init /\ [][Next]_vars

-----------------------------------------------------------------------------
(***************************************************************************)
(* Between jobs the tables say exactly what receipts prove, unless the     *)
(* last commit was one that compares balances and others moved the wallet  *)
(* meanwhile.  It must survive a throw or a crash after any transaction,   *)
(* with jobs of the other strategies run in between.                       *)
(***************************************************************************)
AllocationIsOwn == \A s \in Strategies \ tainted : AtRest(s) => alloc[s] = own[s]

(***************************************************************************)
(* Retained profit is never lost, doubled or paid twice: what capital      *)
(* protection retained is still classified as profit or has been paid out, *)
(* whatever rebalances, collections and interrupted withdrawals ran since. *)
(* (A hold does lose the class: commitHoldQuote writes the totals only.)   *)
(***************************************************************************)
ProfitAccounted ==
  \A s \in Strategies \ paused : harvested[s] = Tot(Parts(s).heldProfit) + paid[s]

(***************************************************************************)
(* A job spends from the wallet what its own strategy has there, never the *)
(* tokens of another strategy or the owner's: the code compares each       *)
(* amount with the balance of the whole wallet only.  The exception is     *)
(* that of AllocationIsOwn.                                                *)
(***************************************************************************)
SpendsItsOwn == \A s \in Strategies \ tainted : Leq(Zero, own[s])

\* the next steps of the job of s would pass the checks they make
CanFinish(s) ==
  LET at == job[s].at
      released == [Parts(s) EXCEPT !.heldProfit["quote"] = 0]
  IN CASE job[s].kind = "recenter" -> /\ at \in {"exited", "swapped"} => Redeployable(s)
                                      /\ at = "minted" => RecenterCommits(s)
       [] job[s].kind = "collect"  -> at = "exited" => CollectCommits(s)
       [] job[s].kind = "hold"     -> /\ at = "exited" => HoldRisk(s) <= Balance["risk"]
                                      /\ at = "swapped" \/ (at = "exited" /\ HoldRisk(s) = 0) =>
                                           HoldCommits(s)
       [] OTHER -> /\ at = "swapped" => Valid(Sold(s)) /\ Covers(s, TotalOf(Sold(s)))
                   /\ at = "recorded" \/ (at = "created" /\ ToSell(s) = 0) =>
                        Parts(s).heldProfit["quote"] > 0
                   /\ at = "unwrapped" \/ (at = "priced" /\ job[s].kind = "keep") =>
                        /\ Parts(s).heldProfit["quote"] = job[s].profit["quote"]
                        /\ Valid(released) /\ Covers(s, TotalOf(released))

\* a job that compares balances and saw others move the wallet: its comparison
\* may fail for ever
Misled(s) == s \in moved /\ job[s].kind \in {"collect", "hold"}

(***************************************************************************)
(* The first attempt at a job never meets E_ALLOCATION_MISMATCH halfway,   *)
(* with its tokens already moved: what the coverage proof of its start     *)
(* established carries it to its commit, in whatever state the interrupted *)
(* jobs of the other strategies have left the rows.                        *)
(***************************************************************************)
FirstAttemptPasses ==
  tainted = {} /\ holder # None =>
    job[holder].again \/ Misled(holder) \/ CanFinish(holder)

(***************************************************************************)
(* Two jobs of one wallet never block each other.  A job whose tokens have *)
(* moved but whose rows are old makes the coverage checks of the others    *)
(* fail; one of two interrupted jobs must get through, or recovery repeats *)
(* E_ALLOCATION_MISMATCH for both.  A withdrawal without its context is    *)
(* left out (it moved nothing and nothing resumes it), and nothing is said *)
(* when a job was misled, nor when a recovered recenter has minted:        *)
(* finishFromWallet left its retained profit out of the proof, and without *)
(* this exception two such jobs do block each other.  Three strategies can *)
(* leave two jobs blocked without any of that: see the README.             *)
(***************************************************************************)
SomeoneCanFinish ==
  LET open == {s \in Strategies : Busy(s) /\ job[s].at # "bare"}
      unproved(s) == /\ job[s].kind = "recenter" /\ job[s].again
                     /\ job[s].at = "minted" /\ job[s].prior.heldProfit # Zero
  IN /\ tainted = {} /\ open # {}
     /\ \A s \in open : ~Misled(s) /\ ~unproved(s)
     => \E s \in open : CanFinish(s)

=============================================================================
