--------------------------- MODULE WalletFundsProofs --------------------------
(***************************************************************************)
(* Theorems about WalletFunds, for any strategies, any of them converting  *)
(* their fees, and any bounds: the amounts keep their types, the rows of a *)
(* strategy at rest are what its receipts prove, and retained profit is    *)
(* accounted for to the unit.                                              *)
(*                                                                         *)
(* A job carries the difference between the rows and the receipts: BooksOf *)
(* says which at every stage, and Books adds what a job that compares      *)
(* balances relies on.  Each step concerns one strategy (Concerns); it     *)
(* keeps the books of that one, and what it does to the balance the others *)
(* are told about in moved.                                                *)
(***************************************************************************)
EXTENDS WalletFunds, SumLemmas, TLAPS

-----------------------------------------------------------------------------
(* Amounts of tokens *)

AllAmounts == [Tokens -> Int]

\* Sums and differences of amounts, token by token.
LEMMA Added ==
  ASSUME NEW f, NEW g, NEW t \in Tokens
  PROVE  Plus(f, g)[t] = f[t] + g[t] /\ Minus(f, g)[t] = f[t] - g[t] /\ Zero[t] = 0
BY DEF Plus, Minus, Zero

\* Their types; a difference stays natural when the one is within the other.
LEMMA AddedTypes ==
  /\ \A f, g \in Amounts : Plus(f, g) \in Amounts
  /\ \A f, g \in AllAmounts : Plus(f, g) \in AllAmounts /\ Minus(f, g) \in AllAmounts
  /\ Zero \in Amounts /\ Amounts \subseteq AllAmounts
  /\ \A f, g \in Amounts : Leq(f, g) => Minus(g, f) \in Amounts
BY DEF Plus, Minus, Zero, Amounts, AllAmounts, Leq

\* n units of one token.
LEMMA OnlyOne ==
  ASSUME NEW t \in Tokens, NEW n \in Nat
  PROVE  /\ Only(t, n) \in Amounts
         /\ \A u \in Tokens : Only(t, n)[u] = IF u = t THEN n ELSE 0
BY DEF Only, Zero, Amounts

\* A swap of n units.
LEMMA Exchanged ==
  ASSUME NEW f \in AllAmounts, NEW n \in Int
  PROVE  /\ Exchange(f, n) \in AllAmounts
         /\ Exchange(f, n)["risk"] = f["risk"] - n /\ Exchange(f, n)["quote"] = f["quote"] + n
         /\ f \in Amounts /\ n \in 0 .. f["risk"] => Exchange(f, n) \in Amounts
BY DEF Exchange, AllAmounts, Amounts, Tokens

\* Amounts that agree on every token are the same.
LEMMA SameAmounts ==
  ASSUME NEW f \in AllAmounts, NEW g \in AllAmounts, \A t \in Tokens : f[t] = g[t]
  PROVE  f = g
BY DEF AllAmounts

\* Nonnegative amounts.
LEMMA NonNegative ==
  ASSUME NEW f \in AllAmounts, Leq(Zero, f)
  PROVE  f \in Amounts
<1>1. ASSUME NEW t \in Tokens PROVE f[t] \in Nat
  <2>1. Zero[t] = 0 /\ Zero[t] <= f[t] /\ f[t] \in Int
    BY Added DEF Leq, AllAmounts
  <2> QED
    BY <2>1
<1> QED
  BY <1>1 DEF AllAmounts, Amounts

\* The classes of a strategy and their total.
LEMMA TotalTypes ==
  /\ \A c \in Classes : /\ TotalOf(c) \in Amounts
                        /\ c.principal \in Amounts /\ c.heldFee \in Amounts /\ c.heldProfit \in Amounts
  /\ \A c : \A t \in Tokens :
       TotalOf(c)[t] = c.principal[t] + (c.heldFee[t] + c.heldProfit[t])
  /\ NoParts \in Classes
<1>1. NoParts \in Classes
  BY AddedTypes DEF NoParts, Classes
<1>2. \A c \in Classes : /\ TotalOf(c) \in Amounts
                         /\ c.principal \in Amounts /\ c.heldFee \in Amounts /\ c.heldProfit \in Amounts
  BY AddedTypes DEF TotalOf, Classes
<1>3. ASSUME NEW c, NEW t \in Tokens
      PROVE  TotalOf(c)[t] = c.principal[t] + (c.heldFee[t] + c.heldProfit[t])
  BY Added DEF TotalOf
<1> QED
  BY <1>1, <1>2, <1>3

\* The classes a job sees are amounts, and add up to the allocation.
LEMMA PartsTypes ==
  ASSUME TypeOK, NEW s \in Strategies
  PROVE  /\ Parts(s) \in Classes
         /\ TotalOf(Parts(s)) = alloc[s]
<1>1. alloc[s] \in Amounts /\ comp[s] \in Classes
  BY DEF TypeOK
<1> DEFINE fits(t) == TotalOf(comp[s])[t] = alloc[s][t]
           p == [t \in Tokens |-> IF fits(t) THEN comp[s].principal[t] ELSE 0]
           f == [t \in Tokens |-> IF fits(t) THEN comp[s].heldFee[t] ELSE alloc[s][t]]
           h == [t \in Tokens |-> IF fits(t) THEN comp[s].heldProfit[t] ELSE 0]
<1>2. Parts(s) = [principal |-> p, heldFee |-> f, heldProfit |-> h]
  BY DEF Parts
<1>3. p \in Amounts /\ f \in Amounts /\ h \in Amounts
  <2>1. comp[s].principal \in Amounts /\ comp[s].heldFee \in Amounts /\ comp[s].heldProfit \in Amounts
    BY <1>1, TotalTypes
  <2> QED
    BY <1>1, <2>1 DEF Amounts
<1>4. \A t \in Tokens : p[t] + (f[t] + h[t]) = alloc[s][t]
  <2> SUFFICES ASSUME NEW t \in Tokens PROVE p[t] + (f[t] + h[t]) = alloc[s][t]
    OBVIOUS
  <2>1. alloc[s][t] \in Nat
    BY <1>1 DEF Amounts
  <2>2. CASE fits(t)
    BY <2>2, TotalTypes
  <2>3. CASE ~fits(t)
    BY <2>1, <2>3
  <2> QED
    BY <2>2, <2>3
<1> HIDE DEF p, f, h
<1>5. Parts(s) \in Classes
  BY <1>2, <1>3 DEF Classes
<1>6. TotalOf(Parts(s)) \in AllAmounts /\ alloc[s] \in AllAmounts
  BY <1>1, <1>5, TotalTypes, AddedTypes
<1>7. \A t \in Tokens : TotalOf(Parts(s))[t] = alloc[s][t]
  BY <1>2, <1>4, TotalTypes
<1> QED
  BY <1>5, <1>6, <1>7, SameAmounts

-----------------------------------------------------------------------------
(* The balance of the wallet *)

\* What the chain answers for a token.
LEMMA BalanceAt ==
  ASSUME NEW t \in Tokens
  PROVE  Balance[t] = free[t] + SumFunctionOnSet([s \in Strategies |-> own[s][t]], Strategies)
BY DEF Balance, SumFunction

\* When only s moves tokens, the balance moves with it.
LEMMA BalanceMoves ==
  ASSUME TypeOK, NEW s \in Strategies, NEW f \in AllAmounts, own' = [own EXCEPT ![s] = f],
         free' \in Amounts
  PROVE  /\ own' \in [Strategies -> AllAmounts]
         /\ \A t \in Tokens :
              /\ Balance'[t] = Balance[t] + (free'[t] - free[t]) + (f[t] - own[s][t])
              /\ Balance'[t] \in Int
         /\ (\A t \in Tokens : Balance'[t] >= 0) => Balance' \in Amounts
<1>1. own \in [Strategies -> AllAmounts] /\ free \in Amounts
  BY DEF TypeOK, AllAmounts
<1>2. own' \in [Strategies -> AllAmounts]
  BY <1>1
<1>3. ASSUME NEW t \in Tokens
      PROVE  /\ Balance'[t] = Balance[t] + (free'[t] - free[t]) + (f[t] - own[s][t])
             /\ Balance'[t] \in Int
  <2>1. PICK g, h : g = [r \in Strategies |-> own[r][t]] /\ h = [r \in Strategies |-> own'[r][t]]
    OBVIOUS
  <2>2. Balance[t] = free[t] + SumFunctionOnSet(g, Strategies)
    BY <2>1, BalanceAt
  <2>3. Balance'[t] = free'[t] + SumFunctionOnSet(h, Strategies)
    BY <2>1 DEF Balance, SumFunction
  <2>4. /\ IsFiniteSet(Strategies) /\ s \in Strategies
        /\ (\A r \in Strategies : g[r] \in Int) /\ h[s] \in Int
        /\ \A r \in Strategies \ {s} : h[r] = g[r]
    BY <1>1, <1>2, <2>1, FundsAssumption DEF AllAmounts
  <2>5. SumFunctionOnSet(h, Strategies) = SumFunctionOnSet(g, Strategies) + (h[s] - g[s])
    BY <2>4, SumUpdate
  <2>6. SumFunctionOnSet(g, Strategies) \in Int
    BY <2>4, SumInt
  <2>7. h[s] = f[t] /\ g[s] = own[s][t] /\ h[s] \in Int /\ g[s] \in Int
    BY <1>1, <2>1, <2>4
  <2>8. free[t] \in Int /\ free'[t] \in Int
    BY <1>1 DEF Amounts
  <2> QED
    BY <2>2, <2>3, <2>5, <2>6, <2>7, <2>8
<1>4. (\A t \in Tokens : Balance'[t] >= 0) => Balance' \in Amounts
  <2>1. Balance' = [t \in Tokens |-> Balance'[t]]
    BY DEF Balance
  <2> QED
    BY <1>3, <2>1 DEF Amounts
<1> QED
  BY <1>2, <1>3, <1>4

-----------------------------------------------------------------------------
(* Types, and the stages a job of each kind goes through *)

\* What job record j of a strategy looks like whose split is p.
ShapeOf(j, p) ==
  /\ j.kind = None => j = NoJob
  /\ j.kind = "recenter" => j.at \in {"checked", "exited", "swapped", "minted"}
  /\ j.kind = "collect" => j.at \in {"checked", "exited"}
  /\ j.kind = "hold" => j.at \in {"checked", "exited", "swapped"}
  /\ j.kind \in Profit => j.at \in {"bare", "created", "swapped", "recorded",
                                    "priced", "unwrapped", "released"}
  /\ j.kind \in Profit /\ j.at \in {"priced", "unwrapped"} => j.profit["risk"] = 0
  /\ j.kind \in Ordinary => j.prior = p

Shapes ==
  /\ \A s \in Strategies : ShapeOf(job[s], Parts(s))
  /\ holder # None => Busy(holder)

\* What a job record holds.
LEMMA JobTypes ==
  ASSUME TypeOK, NEW s \in Strategies
  PROVE  /\ job[s] \in OpenJobs /\ own[s] \in AllAmounts
         /\ job[s].base \in Amounts /\ job[s].prior \in Classes /\ job[s].lp \in Amounts
         /\ job[s].held \in Amounts /\ job[s].profit \in Amounts
         /\ job[s].prior.principal \in Amounts /\ job[s].prior.heldFee \in Amounts
         /\ job[s].prior.heldProfit \in Amounts
<1>1. job[s] \in OpenJobs /\ own[s] \in AllAmounts
  BY DEF TypeOK, AllAmounts
<1>2. /\ job[s].base \in Amounts /\ job[s].prior \in Classes /\ job[s].lp \in Amounts
      /\ job[s].held \in Amounts /\ job[s].profit \in Amounts
  BY <1>1 DEF OpenJobs
<1> QED
  BY <1>1, <1>2, TotalTypes

\* No job is a job record too.
LEMMA NoJobType == NoJob \in OpenJobs
BY AddedTypes, TotalTypes DEF NoJob, OpenJobs

\* Nobody's strategy is None, nor is any kind of job.
LEMMA NoneIsNone ==
  /\ None \notin Strategies /\ None \notin Ordinary /\ None \notin Profit
  /\ NoJob.kind = None
BY FundsAssumption DEF NoJob

\* One job changes.
LEMMA OneJob ==
  ASSUME TypeOK, Shapes, NEW s \in Strategies, NEW j \in OpenJobs, Reach(s, j),
         \A r \in Strategies \ {s} : alloc'[r] = alloc[r] /\ comp'[r] = comp[r],
         ShapeOf(j, Parts(s)'),
         \/ holder' = None
         \/ holder' = s /\ j # NoJob
         \/ holder' = holder /\ (holder = s => j # NoJob)
  PROVE  job' \in [Strategies -> OpenJobs] /\ job'[s] = j /\ Shapes'
<1>1. /\ job' \in [Strategies -> OpenJobs] /\ job'[s] = j
      /\ \A r \in Strategies \ {s} : job'[r] = job[r]
  BY DEF Reach, TypeOK
<1>2. ASSUME NEW r \in Strategies \ {s} PROVE ShapeOf(job[r], Parts(r))'
  <2>1. Parts(r)' = Parts(r)
    BY <1>2 DEF Parts
  <2>2. ShapeOf(job[r], Parts(r))
    BY DEF Shapes
  <2> QED
    BY <1>1, <2>1, <2>2 DEF ShapeOf
<1>3. ShapeOf(job[s], Parts(s))'
  BY <1>1 DEF ShapeOf
<1>4. holder' # None => Busy(holder)'
  <2> SUFFICES ASSUME holder' # None PROVE job'[holder'] # NoJob
    BY DEF Busy
  <2>1. CASE holder' = s
    BY <1>1, <2>1
  <2>2. CASE holder' # s
    BY <1>1, <2>2, NoneIsNone DEF Shapes, Busy, TypeOK
  <2> QED
    BY <2>1, <2>2
<1> QED
  BY <1>1, <1>2, <1>3, <1>4 DEF Shapes

\* Only the tables of money, the lock and the job of s change hands in a step
\* that leaves the split alone.
LEMMA SameParts ==
  ASSUME NEW s, UNCHANGED <<alloc, comp>>
  PROVE  Parts(s)' = Parts(s)
BY DEF Parts

\* The moves of a step are of strategies.
LEMMA MovesType ==
  ASSUME TypeOK, NEW s, Moves(s)
  PROVE  moved' \subseteq Strategies /\ moved \subseteq moved'
BY DEF Moves, TypeOK

WellFormed == TypeOK /\ Shapes

-----------------------------------------------------------------------------
(* Steps that move tokens *)

\* Jobs whose strategy has as much in the wallet as its row says.
SettledJob(j) ==
  \/ j.kind = None
  \/ j.kind \in Ordinary /\ j.at = "checked"
  \/ j.kind \in Profit /\ j.at \notin {"swapped", "unwrapped"}

\* What the receipts of job record j add up to: f is in the wallet for a
\* strategy whose row says a.
BooksOf(j, f, a) ==
  /\ SettledJob(j) => f = a
  /\ j.kind = "recenter" /\ j.at \in {"exited", "swapped"} =>
       \A t \in Tokens :
         f[t] = j.lp[t] + j.held[t] + j.prior.heldFee[t] + j.prior.heldProfit[t]
  /\ j.kind = "recenter" /\ j.at = "minted" =>
       \A t \in Tokens :
         f[t] = j.lp[t] + j.held[t] + j.prior.heldFee[t] + j.prior.heldProfit[t] + j.profit[t]
  /\ j.kind \in Profit /\ j.at = "swapped" =>
       /\ f["risk"] = a["risk"] - j.prior.heldProfit["risk"]
       /\ f["quote"] = a["quote"] + j.prior.heldProfit["risk"]
  /\ j.kind \in Profit /\ j.at = "unwrapped" => \A t \in Tokens : f[t] = a[t] - j.profit[t]

\* One transaction of the job of s: its tokens become f, its record j.
Moving(s, f, j) ==
  /\ own' = [own EXCEPT ![s] = f] /\ Reach(s, j) /\ Moves(s) /\ holder = s
  /\ f \in AllAmounts /\ j \in OpenJobs
  /\ j.kind = job[s].kind /\ j.kind # None /\ j.prior = job[s].prior /\ j.base = job[s].base
  /\ ShapeOf(j, Parts(s))
  /\ pos' \in [Strategies -> Amounts] /\ owed' \in [Strategies -> Amounts]
  /\ \A t \in Tokens : Balance[t] + (f[t] - own[s][t]) >= 0
  /\ BooksOf(job[s], own[s], alloc[s]) => BooksOf(j, f, alloc[s])
  /\ UNCHANGED <<free, tables, holder, harvested, tainted, counts>>

\* What a transaction leaves: the types and stages, and a balance that moves
\* with the tokens of s.
LEMMA MovingForms ==
  ASSUME WellFormed, NEW s \in Strategies, NEW f, NEW j, Moving(s, f, j)
  PROVE  /\ WellFormed' /\ job' \in [Strategies -> OpenJobs] /\ job'[s] = j
         /\ \A t \in Tokens : Balance'[t] - Balance[t] = f[t] - own[s][t]
<1> USE DEF WellFormed
<1>1. free \in Amounts /\ free' \in Amounts /\ own[s] \in AllAmounts /\ f \in AllAmounts
  BY DEF TypeOK, AllAmounts, Moving
<1>2. ASSUME NEW t \in Tokens
      PROVE  Balance'[t] >= 0 /\ Balance'[t] - Balance[t] = f[t] - own[s][t]
  <2>1. Balance'[t] = Balance[t] + (free'[t] - free[t]) + (f[t] - own[s][t])
    BY <1>1, BalanceMoves DEF Moving
  <2>2. free[t] \in Int /\ free'[t] = free[t] /\ f[t] \in Int /\ own[s][t] \in Int /\ Balance[t] \in Int
    BY <1>1 DEF Amounts, AllAmounts, TypeOK, Moving
  <2>3. Balance[t] + (f[t] - own[s][t]) >= 0
    BY DEF Moving
  <2> QED
    BY <2>1, <2>2, <2>3
<1>3. own' \in [Strategies -> AllAmounts] /\ Balance' \in Amounts
  BY <1>1, <1>2, BalanceMoves DEF Moving
<1>4. Parts(s)' = Parts(s) /\ UNCHANGED <<alloc, comp>>
  BY SameParts DEF tables, Moving
<1>5. j # NoJob
  BY NoneIsNone DEF Moving
<1>6. job' \in [Strategies -> OpenJobs] /\ job'[s] = j /\ Shapes'
  BY <1>4, <1>5, OneJob DEF Moving
<1>7. TypeOK'
  BY <1>1, <1>3, <1>6, MovesType DEF TypeOK, tables, counts, AllAmounts, Moving
<1> QED
  BY <1>2, <1>6, <1>7

\* Leaving the position (decrease and collect) is such a transaction: the job
\* accounts for all that came to the wallet.
LEMMA ExitMoves ==
  ASSUME WellFormed, NEW s \in Strategies, Exit(s)
  PROVE  \E f, j : Moving(s, f, j)
<1> DEFINE deployed == Plus(pos[s], job[s].prior.principal)
           spends == IF job[s].kind = "hold" \/ s \in reinvest THEN owed[s] ELSE Zero
           rest == Minus(owed[s], spends)
           gain == Plus(pos[s], owed[s])
<1>1. PICK f : f = Plus(own[s], gain)
  OBVIOUS
<1>2. PICK j : j = [job[s] EXCEPT !.at = "exited", !.lp = Plus(deployed, spends), !.held = rest]
  OBVIOUS
<1>3. /\ holder = s /\ job[s].kind \in {"recenter", "hold"} /\ job[s].at = "checked"
      /\ own' = [own EXCEPT ![s] = f] /\ Reach(s, j) /\ Moves(s)
      /\ pos' = [pos EXCEPT ![s] = Zero] /\ owed' = [owed EXCEPT ![s] = Zero]
      /\ UNCHANGED <<free, tables, holder, harvested, tainted, counts>>
  <2>1. own' = [own EXCEPT ![s] = Plus(own[s], Plus(pos[s], owed[s]))]
    BY DEF Exit
  <2>2. Reach(s, [job[s] EXCEPT !.at = "exited", !.lp = Plus(deployed, spends), !.held = rest])
    BY DEF Exit
  <2> QED
    BY <1>1, <1>2, <2>1, <2>2 DEF Exit, Runs
<1>4. /\ job[s] \in OpenJobs /\ own[s] \in AllAmounts /\ job[s].prior \in Classes
      /\ pos[s] \in Amounts /\ owed[s] \in Amounts /\ Balance \in Amounts
      /\ job[s].prior.principal \in Amounts
  BY JobTypes DEF WellFormed, TypeOK
<1>5. spends \in Amounts /\ rest \in Amounts /\ deployed \in Amounts /\ gain \in Amounts
      /\ Plus(deployed, spends) \in Amounts
  <2>1. spends \in Amounts
    BY <1>4, AddedTypes
  <2>2. Leq(spends, owed[s])
    <3>1. \A t \in Tokens : Zero[t] = 0 /\ owed[s][t] \in Nat
      BY <1>4, Added DEF Amounts
    <3>2. spends = owed[s] \/ spends = Zero
      OBVIOUS
    <3> QED
      BY <3>1, <3>2 DEF Leq
  <2> QED
    BY <1>4, <2>1, <2>2, AddedTypes
<1>6. f \in AllAmounts
  BY <1>1, <1>4, <1>5, AddedTypes
<1> HIDE DEF spends, rest, deployed, gain
<1>7. /\ j \in OpenJobs /\ j.kind = job[s].kind /\ j.at = "exited" /\ j.prior = job[s].prior
      /\ j.base = job[s].base /\ j.lp = Plus(deployed, spends) /\ j.held = rest
      /\ j.profit = job[s].profit
  BY <1>2, <1>4, <1>5 DEF OpenJobs, Stages
<1>8. ShapeOf(job[s], Parts(s))
  BY DEF WellFormed, Shapes
<1>9. ShapeOf(j, Parts(s))
  BY <1>3, <1>7, <1>8, NoneIsNone DEF ShapeOf, Ordinary, Profit
<1>10. pos' \in [Strategies -> Amounts] /\ owed' \in [Strategies -> Amounts]
  BY <1>3, AddedTypes DEF WellFormed, TypeOK
<1>11. ASSUME NEW t \in Tokens
       PROVE  /\ f[t] = own[s][t] + (pos[s][t] + owed[s][t])
              /\ own[s][t] \in Int /\ pos[s][t] \in Nat /\ owed[s][t] \in Nat /\ Balance[t] \in Nat
  BY <1>1, <1>4, Added DEF gain, Amounts, AllAmounts
<1>12. \A t \in Tokens : Balance[t] + (f[t] - own[s][t]) >= 0
  BY <1>11
<1>13. ASSUME BooksOf(job[s], own[s], alloc[s]) PROVE BooksOf(j, f, alloc[s])
  <2>1. own[s] = alloc[s] /\ (job[s].kind = "recenter" => alloc[s] = TotalOf(job[s].prior))
    BY <1>3, <1>8, <1>13, PartsTypes DEF BooksOf, SettledJob, Ordinary, ShapeOf, WellFormed
  <2>2. ASSUME NEW t \in Tokens, job[s].kind = "recenter"
        PROVE  f[t] = j.lp[t] + j.held[t] + j.prior.heldFee[t] + j.prior.heldProfit[t]
    <3>1. own[s][t] = job[s].prior.principal[t] + (job[s].prior.heldFee[t] + job[s].prior.heldProfit[t])
      BY <2>1, <2>2, TotalTypes
    <3>2. j.lp[t] = (pos[s][t] + job[s].prior.principal[t]) + spends[t]
      BY <1>7, Added DEF deployed
    <3>3. j.held[t] = owed[s][t] - spends[t]
      BY <1>7, Added DEF rest
    <3>4. /\ job[s].prior.principal[t] \in Nat /\ job[s].prior.heldFee[t] \in Nat
          /\ job[s].prior.heldProfit[t] \in Nat /\ spends[t] \in Nat
      BY <1>5, JobTypes DEF WellFormed, Amounts
    <3> QED
      BY <1>7, <1>11, <3>1, <3>2, <3>3, <3>4
  <2> QED
    BY <1>3, <1>7, <2>2, NoneIsNone DEF BooksOf, SettledJob, Ordinary, Profit
<1>14. job[s].kind # None
  BY <1>3, NoneIsNone DEF Ordinary
<1> QED
  BY <1>3, <1>6, <1>7, <1>9, <1>10, <1>12, <1>13, <1>14 DEF Moving

\* Collecting the fees is such a transaction.
LEMMA CollectMoves ==
  ASSUME WellFormed, NEW s \in Strategies, Collect(s)
  PROVE  \E f, j : Moving(s, f, j)
<1>1. PICK f : f = Plus(own[s], owed[s])
  OBVIOUS
<1>2. PICK j : j = [job[s] EXCEPT !.at = "exited", !.held = owed[s]]
  OBVIOUS
<1>3. /\ holder = s /\ job[s].kind = "collect" /\ job[s].at = "checked"
      /\ own' = [own EXCEPT ![s] = f] /\ Reach(s, j) /\ Moves(s)
      /\ pos' = pos /\ owed' = [owed EXCEPT ![s] = Zero]
      /\ UNCHANGED <<free, tables, holder, harvested, tainted, counts>>
  BY <1>1, <1>2 DEF Collect, Runs
<1>4. /\ job[s] \in OpenJobs /\ own[s] \in AllAmounts /\ owed[s] \in Amounts /\ Balance \in Amounts
  BY JobTypes DEF WellFormed, TypeOK
<1>5. f \in AllAmounts
  BY <1>1, <1>4, AddedTypes
<1>6. /\ j \in OpenJobs /\ j.kind = job[s].kind /\ j.at = "exited" /\ j.prior = job[s].prior
      /\ j.base = job[s].base
  BY <1>2, <1>4 DEF OpenJobs, Stages
<1>7. ShapeOf(j, Parts(s))
  BY <1>3, <1>6, NoneIsNone DEF ShapeOf, Ordinary, Profit, WellFormed, Shapes
<1>8. pos' \in [Strategies -> Amounts] /\ owed' \in [Strategies -> Amounts]
  BY <1>3, AddedTypes DEF WellFormed, TypeOK
<1>9. \A t \in Tokens : Balance[t] + (f[t] - own[s][t]) >= 0
  <2> SUFFICES ASSUME NEW t \in Tokens PROVE Balance[t] + (f[t] - own[s][t]) >= 0
    OBVIOUS
  <2>1. f[t] = own[s][t] + owed[s][t]
    BY <1>1, Added
  <2>2. own[s][t] \in Int /\ owed[s][t] \in Nat /\ Balance[t] \in Nat
    BY <1>4 DEF Amounts, AllAmounts
  <2> QED
    BY <2>1, <2>2
<1>10. BooksOf(j, f, alloc[s])
  BY <1>3, <1>6, NoneIsNone DEF BooksOf, SettledJob, Ordinary, Profit
<1>11. job[s].kind # None
  BY <1>3, NoneIsNone DEF Ordinary
<1> QED
  BY <1>3, <1>5, <1>6, <1>7, <1>8, <1>9, <1>10, <1>11 DEF Moving

\* What a swap does to the wallet and to the strategy.
LEMMA SwapsMove ==
  ASSUME WellFormed, NEW s \in Strategies, NEW n \in Nat, Swaps(s, n), NEW f,
         f = Exchange(own[s], n)
  PROVE  /\ own' = [own EXCEPT ![s] = f] /\ f \in AllAmounts /\ Moves(s) /\ n > 0
         /\ f["risk"] = own[s]["risk"] - n /\ f["quote"] = own[s]["quote"] + n
         /\ own[s]["risk"] \in Int /\ own[s]["quote"] \in Int
         /\ pos' \in [Strategies -> Amounts] /\ owed' \in [Strategies -> Amounts]
         /\ \A t \in Tokens : Balance[t] + (f[t] - own[s][t]) >= 0
         /\ UNCHANGED <<free, tables, holder, harvested, tainted, counts>>
<1>1. own[s] \in AllAmounts /\ Balance \in Amounts
  BY JobTypes DEF WellFormed, TypeOK
<1>2. /\ f \in AllAmounts /\ f["risk"] = own[s]["risk"] - n /\ f["quote"] = own[s]["quote"] + n
      /\ own[s]["risk"] \in Int /\ own[s]["quote"] \in Int
      /\ Balance["risk"] \in Nat /\ Balance["quote"] \in Nat
  BY <1>1, Exchanged DEF AllAmounts, Amounts, Tokens
<1>3. n > 0 /\ n <= Balance["risk"] /\ own' = [own EXCEPT ![s] = f] /\ Moves(s)
      /\ UNCHANGED <<pos, owed, free, tables, holder, harvested, tainted, counts>>
  BY DEF Swaps
<1>4. \A t \in Tokens : Balance[t] + (f[t] - own[s][t]) >= 0
  <2>1. Balance["risk"] + (f["risk"] - own[s]["risk"]) >= 0
    BY <1>2, <1>3
  <2>2. Balance["quote"] + (f["quote"] - own[s]["quote"]) >= 0
    BY <1>2, <1>3
  <2> QED
    BY <2>1, <2>2 DEF Tokens
<1> QED
  BY <1>2, <1>3, <1>4 DEF WellFormed, TypeOK

\* What is converted is among the fees held.
LEMMA FeesNat ==
  ASSUME WellFormed, NEW s \in Strategies
  PROVE  FeesToConvert(s) \in 0 .. job[s].held["risk"] /\ job[s].held["risk"] \in Nat
<1>1. job[s].held["risk"] \in Nat
  BY JobTypes DEF WellFormed, Amounts, Tokens
<1> QED
  BY <1>1 DEF FeesToConvert

\* Converting the fees is such a transaction.
LEMMA ConvertMoves ==
  ASSUME WellFormed, NEW s \in Strategies, ConvertFees(s)
  PROVE  \E f, j : Moving(s, f, j)
<1>1. PICK n \in Nat : n = FeesToConvert(s) /\ n <= job[s].held["risk"]
  BY FeesNat
<1>2. PICK f : f = Exchange(own[s], n)
  OBVIOUS
<1>3. PICK j : j = [job[s] EXCEPT !.held = Exchange(job[s].held, n)]
  OBVIOUS
<1>4. /\ holder = s /\ job[s].kind \in {"recenter", "collect"} /\ job[s].at \in {"exited", "swapped"}
      /\ Swaps(s, n) /\ Reach(s, j)
  BY <1>1, <1>3 DEF ConvertFees, Runs
<1>5. job[s] \in OpenJobs /\ job[s].held \in Amounts /\ job[s].held \in AllAmounts
  BY JobTypes, AddedTypes DEF WellFormed
<1>6. PICK h : h = Exchange(job[s].held, n)
  OBVIOUS
<1>7. /\ h \in Amounts /\ h["risk"] = job[s].held["risk"] - n
      /\ h["quote"] = job[s].held["quote"] + n
  <2>1. n \in 0 .. job[s].held["risk"] /\ n \in Int
    BY <1>1, FeesNat DEF WellFormed
  <2> QED
    BY <1>5, <1>6, <2>1, Exchanged
<1>8. /\ j \in OpenJobs /\ j.kind = job[s].kind /\ j.at = job[s].at /\ j.prior = job[s].prior
      /\ j.base = job[s].base /\ j.lp = job[s].lp /\ j.held = h /\ j.profit = job[s].profit
  BY <1>3, <1>5, <1>6, <1>7 DEF OpenJobs
<1>9. ShapeOf(j, Parts(s))
  <2>1. ShapeOf(job[s], Parts(s))
    BY DEF WellFormed, Shapes
  <2> QED
    BY <1>4, <1>8, <2>1, NoneIsNone DEF ShapeOf, Ordinary, Profit
<1>10. ASSUME BooksOf(job[s], own[s], alloc[s]) PROVE BooksOf(j, f, alloc[s])
  <2>1. ASSUME job[s].kind = "recenter", NEW t \in Tokens
        PROVE  f[t] = j.lp[t] + j.held[t] + j.prior.heldFee[t] + j.prior.heldProfit[t]
    <3>1. own[s][t] = job[s].lp[t] + job[s].held[t] + job[s].prior.heldFee[t] + job[s].prior.heldProfit[t]
      BY <1>4, <1>10, <2>1 DEF BooksOf
    <3>2. /\ job[s].lp[t] \in Nat /\ job[s].held[t] \in Nat /\ job[s].prior.heldFee[t] \in Nat
          /\ job[s].prior.heldProfit[t] \in Nat
      BY JobTypes DEF WellFormed, Amounts
    <3>3. f[t] - own[s][t] = h[t] - job[s].held[t] /\ f[t] \in Int /\ h[t] \in Int
      <4>1. f \in AllAmounts /\ f["risk"] = own[s]["risk"] - n /\ f["quote"] = own[s]["quote"] + n
            /\ own[s]["risk"] \in Int /\ own[s]["quote"] \in Int
        BY <1>2, <1>4, SwapsMove
      <4>2. /\ job[s].held["risk"] \in Nat /\ job[s].held["quote"] \in Nat
            /\ f["risk"] \in Int /\ f["quote"] \in Int
            /\ h["risk"] \in Int /\ h["quote"] \in Int
        BY <1>5, <1>7, <4>1 DEF Amounts, AllAmounts, Tokens
      <4>3. t = "risk" \/ t = "quote"
        BY DEF Tokens
      <4> QED
        BY <1>7, <4>1, <4>2, <4>3
    <3> QED
      BY <1>8, <3>1, <3>2, <3>3
  <2> QED
    BY <1>4, <1>8, <2>1, NoneIsNone DEF BooksOf, SettledJob, Ordinary, Profit
<1>11. job[s].kind # None
  BY <1>4, NoneIsNone DEF Ordinary
<1> QED
  BY <1>2, <1>4, <1>8, <1>9, <1>10, <1>11, SwapsMove DEF Moving

\* The swap for the new range is such a transaction.
LEMMA RangeMoves ==
  ASSUME WellFormed, NEW s \in Strategies, SwapForRange(s)
  PROVE  \E f, j : Moving(s, f, j)
<1>1. /\ holder = s /\ job[s].kind = "recenter" /\ job[s].at = "exited"
      /\ job[s] \in OpenJobs /\ job[s].lp \in Amounts /\ job[s].lp \in AllAmounts
  BY JobTypes, AddedTypes DEF SwapForRange, Runs, WellFormed
<1>2. PICK n \in 1 .. job[s].lp["risk"] :
        /\ Swaps(s, n)
        /\ Reach(s, [job[s] EXCEPT !.at = "swapped", !.lp = Exchange(job[s].lp, n)])
  BY DEF SwapForRange
<1>3. PICK f : f = Exchange(own[s], n)
  OBVIOUS
<1>4. PICK h : h = Exchange(job[s].lp, n)
  OBVIOUS
<1>5. PICK j : j = [job[s] EXCEPT !.at = "swapped", !.lp = h]
  OBVIOUS
<1>6. /\ n \in Nat /\ h \in Amounts /\ h["risk"] = job[s].lp["risk"] - n
      /\ h["quote"] = job[s].lp["quote"] + n
  <2>1. job[s].lp["risk"] \in Nat
    BY <1>1 DEF Amounts, Tokens
  <2>2. n \in Nat /\ n \in Int /\ n \in 0 .. job[s].lp["risk"]
    BY <2>1
  <2> QED
    BY <1>1, <1>4, <2>2, Exchanged
<1>7. /\ j \in OpenJobs /\ j.kind = job[s].kind /\ j.at = "swapped" /\ j.prior = job[s].prior
      /\ j.base = job[s].base /\ j.lp = h /\ j.held = job[s].held
  BY <1>1, <1>5, <1>6 DEF OpenJobs, Stages
<1>8. ShapeOf(j, Parts(s))
  <2>1. ShapeOf(job[s], Parts(s))
    BY DEF WellFormed, Shapes
  <2> QED
    BY <1>1, <1>7, <2>1, NoneIsNone DEF ShapeOf, Ordinary, Profit
<1>9. ASSUME BooksOf(job[s], own[s], alloc[s]) PROVE BooksOf(j, f, alloc[s])
  <2>1. ASSUME NEW t \in Tokens
        PROVE  f[t] = j.lp[t] + j.held[t] + j.prior.heldFee[t] + j.prior.heldProfit[t]
    <3>1. own[s][t] = job[s].lp[t] + job[s].held[t] + job[s].prior.heldFee[t] + job[s].prior.heldProfit[t]
      BY <1>1, <1>9 DEF BooksOf
    <3>2. /\ job[s].lp[t] \in Nat /\ job[s].held[t] \in Nat /\ job[s].prior.heldFee[t] \in Nat
          /\ job[s].prior.heldProfit[t] \in Nat
      BY JobTypes DEF WellFormed, Amounts
    <3>3. f[t] - own[s][t] = h[t] - job[s].lp[t] /\ f[t] \in Int /\ h[t] \in Int
      <4>1. f \in AllAmounts /\ f["risk"] = own[s]["risk"] - n /\ f["quote"] = own[s]["quote"] + n
            /\ own[s]["risk"] \in Int /\ own[s]["quote"] \in Int
        BY <1>2, <1>3, <1>6, SwapsMove
      <4>2. /\ job[s].lp["risk"] \in Nat /\ job[s].lp["quote"] \in Nat
            /\ f["risk"] \in Int /\ f["quote"] \in Int
            /\ h["risk"] \in Int /\ h["quote"] \in Int
        BY <1>1, <1>6, <4>1 DEF Amounts, AllAmounts, Tokens
      <4>3. t = "risk" \/ t = "quote"
        BY DEF Tokens
      <4> QED
        BY <1>6, <4>1, <4>2, <4>3
    <3>4. f[t] = h[t] + job[s].held[t] + job[s].prior.heldFee[t] + job[s].prior.heldProfit[t]
      BY <3>1, <3>2, <3>3
    <3> QED
      BY <1>7, <3>4
  <2> QED
    BY <1>1, <1>7, <2>1, NoneIsNone DEF BooksOf, SettledJob, Ordinary, Profit
<1>10. job[s].kind # None
  BY <1>1, NoneIsNone DEF Ordinary
<1>11. Reach(s, j)
  BY <1>2, <1>4, <1>5
<1> QED
  BY <1>1, <1>2, <1>3, <1>6, <1>7, <1>8, <1>9, <1>10, <1>11, SwapsMove DEF Moving

\* The sale before a hold is such a transaction.
LEMMA SellMoves ==
  ASSUME WellFormed, NEW s \in Strategies, SellAll(s)
  PROVE  \E f, j : Moving(s, f, j)
<1>1. PICK n : n = HoldRisk(s)
  OBVIOUS
<1>2. PICK f : f = Exchange(own[s], n)
  OBVIOUS
<1>3. PICK j : j = [job[s] EXCEPT !.at = "swapped"]
  OBVIOUS
<1>4. /\ holder = s /\ job[s].kind = "hold" /\ job[s].at = "exited" /\ Swaps(s, n) /\ Reach(s, j)
  BY <1>1, <1>3 DEF SellAll, Runs
<1>5. n \in Nat
  <2>1. /\ job[s].lp["risk"] \in Nat /\ job[s].prior.heldFee["risk"] \in Nat
        /\ job[s].prior.heldProfit["risk"] \in Nat
    BY JobTypes DEF WellFormed, Amounts, Tokens
  <2> QED
    BY <1>1, <2>1 DEF HoldRisk
<1>6. /\ j \in OpenJobs /\ j.kind = job[s].kind /\ j.at = "swapped" /\ j.prior = job[s].prior
      /\ j.base = job[s].base
  BY <1>3, JobTypes DEF OpenJobs, Stages, WellFormed
<1>7. ShapeOf(j, Parts(s))
  <2>1. ShapeOf(job[s], Parts(s))
    BY DEF WellFormed, Shapes
  <2> QED
    BY <1>4, <1>6, <2>1, NoneIsNone DEF ShapeOf, Ordinary, Profit
<1>8. BooksOf(j, f, alloc[s])
  BY <1>4, <1>6, NoneIsNone DEF BooksOf, SettledJob, Ordinary, Profit
<1>9. job[s].kind # None
  BY <1>4, NoneIsNone DEF Ordinary
<1> QED
  BY <1>2, <1>4, <1>5, <1>6, <1>7, <1>8, <1>9, SwapsMove DEF Moving

\* Leftovers are amounts.
LEMMA LeftoverTypes == Leftovers \subseteq Amounts
BY OnlyOne, AddedTypes DEF Leftovers

\* The mint is one: what is not minted stays, as carry or as retained profit.
LEMMA MintMoves ==
  ASSUME WellFormed, NEW s \in Strategies, NEW carry \in Leftovers, NEW profit \in Leftovers,
         Mint(s, carry, profit)
  PROVE  \E f, j : Moving(s, f, j)
<1>1. PICK minted : minted = Minus(job[s].lp, Plus(carry, profit))
  OBVIOUS
<1>2. PICK f : f = Minus(own[s], minted)
  OBVIOUS
<1>3. PICK j : j = [job[s] EXCEPT !.at = "minted", !.lp = carry, !.profit = profit]
  OBVIOUS
<1>4. /\ holder = s /\ job[s].kind = "recenter" /\ job[s].at \in {"exited", "swapped"}
      /\ Leq(Zero, minted) /\ Leq(minted, Balance) /\ Reach(s, j)
      /\ own' = [own EXCEPT ![s] = f] /\ pos' = [pos EXCEPT ![s] = minted] /\ owed' = owed
      /\ Moves(s) /\ UNCHANGED <<free, tables, holder, harvested, tainted, counts>>
  BY <1>1, <1>2, <1>3 DEF Mint, Runs
<1>5. /\ job[s] \in OpenJobs /\ job[s].lp \in Amounts /\ own[s] \in AllAmounts
      /\ carry \in Amounts /\ profit \in Amounts /\ Balance \in Amounts
  BY JobTypes, LeftoverTypes DEF WellFormed, TypeOK
<1>6. ASSUME NEW t \in Tokens
      PROVE  /\ minted[t] = job[s].lp[t] - (carry[t] + profit[t]) /\ minted[t] \in Nat
             /\ minted[t] <= Balance[t] /\ Balance[t] \in Nat
             /\ f[t] = own[s][t] - minted[t]
             /\ own[s][t] \in Int /\ carry[t] \in Nat /\ profit[t] \in Nat /\ job[s].lp[t] \in Nat
  <2>1. minted[t] = job[s].lp[t] - (carry[t] + profit[t]) /\ f[t] = own[s][t] - minted[t] /\ Zero[t] = 0
    BY <1>1, <1>2, Added
  <2>2. own[s][t] \in Int /\ carry[t] \in Nat /\ profit[t] \in Nat /\ job[s].lp[t] \in Nat
        /\ Balance[t] \in Nat
    BY <1>5 DEF Amounts, AllAmounts
  <2>3. Zero[t] <= minted[t] /\ minted[t] <= Balance[t]
    BY <1>4 DEF Leq
  <2> QED
    BY <2>1, <2>2, <2>3
<1>7. minted \in Amounts /\ f \in AllAmounts
  <2>1. minted = [t \in Tokens |-> minted[t]] /\ f = [t \in Tokens |-> f[t]]
    BY <1>1, <1>2 DEF Minus
  <2>2. \A t \in Tokens : minted[t] \in Nat /\ f[t] \in Int
    BY <1>6
  <2> QED
    BY <2>1, <2>2 DEF Amounts, AllAmounts
<1>8. /\ j \in OpenJobs /\ j.kind = job[s].kind /\ j.at = "minted" /\ j.prior = job[s].prior
      /\ j.base = job[s].base /\ j.lp = carry /\ j.held = job[s].held /\ j.profit = profit
  BY <1>3, <1>5 DEF OpenJobs, Stages
<1>9. ShapeOf(j, Parts(s))
  <2>1. ShapeOf(job[s], Parts(s))
    BY DEF WellFormed, Shapes
  <2> QED
    BY <1>4, <1>8, <2>1, NoneIsNone DEF ShapeOf, Ordinary, Profit
<1>10. \A t \in Tokens : Balance[t] + (f[t] - own[s][t]) >= 0
  BY <1>6
<1>11. ASSUME BooksOf(job[s], own[s], alloc[s]) PROVE BooksOf(j, f, alloc[s])
  <2>1. ASSUME NEW t \in Tokens
        PROVE  f[t] = j.lp[t] + j.held[t] + j.prior.heldFee[t] + j.prior.heldProfit[t] + j.profit[t]
    <3>1. own[s][t] = job[s].lp[t] + job[s].held[t] + job[s].prior.heldFee[t] + job[s].prior.heldProfit[t]
      BY <1>4, <1>11 DEF BooksOf
    <3>2. /\ job[s].held[t] \in Nat /\ job[s].prior.heldFee[t] \in Nat
          /\ job[s].prior.heldProfit[t] \in Nat
      BY JobTypes DEF WellFormed, Amounts
    <3> QED
      BY <1>6, <1>8, <3>1, <3>2
  <2> QED
    BY <1>4, <1>8, <2>1, NoneIsNone DEF BooksOf, SettledJob, Ordinary, Profit
<1>12. job[s].kind # None /\ pos' \in [Strategies -> Amounts] /\ owed' \in [Strategies -> Amounts]
  BY <1>4, <1>7, NoneIsNone DEF Ordinary, WellFormed, TypeOK
<1> QED
  BY <1>4, <1>7, <1>8, <1>9, <1>10, <1>11, <1>12 DEF Moving

\* The swap of a profit withdrawal is such a transaction.
LEMMA SellProfitMoves ==
  ASSUME WellFormed, NEW s \in Strategies, ProfitSwap(s)
  PROVE  \E f, j : Moving(s, f, j)
<1>1. PICK n : n = ToSell(s)
  OBVIOUS
<1>2. PICK f : f = Exchange(own[s], n)
  OBVIOUS
<1>3. PICK j : j = [job[s] EXCEPT !.at = "swapped"]
  OBVIOUS
<1>4. /\ holder = s /\ job[s].kind \in Profit /\ job[s].at = "created" /\ Swaps(s, n) /\ Reach(s, j)
  BY <1>1, <1>3 DEF ProfitSwap, Runs
<1>5. n \in Nat /\ n = job[s].prior.heldProfit["risk"]
  <2>1. job[s].prior.heldProfit["risk"] \in Nat
    BY JobTypes DEF WellFormed, Amounts, Tokens
  <2> QED
    BY <1>1, <2>1 DEF ToSell
<1>6. /\ j \in OpenJobs /\ j.kind = job[s].kind /\ j.at = "swapped" /\ j.prior = job[s].prior
      /\ j.base = job[s].base
  BY <1>3, JobTypes DEF OpenJobs, Stages, WellFormed
<1>7. ShapeOf(j, Parts(s))
  <2>1. ShapeOf(job[s], Parts(s))
    BY DEF WellFormed, Shapes
  <2> QED
    BY <1>4, <1>6, <2>1, NoneIsNone DEF ShapeOf, Ordinary, Profit
<1>8. ASSUME BooksOf(job[s], own[s], alloc[s]) PROVE BooksOf(j, f, alloc[s])
  <2>1. own[s] = alloc[s]
    BY <1>4, <1>8 DEF BooksOf, SettledJob
  <2>2. f["risk"] = own[s]["risk"] - n /\ f["quote"] = own[s]["quote"] + n
    BY <1>2, <1>4, <1>5, SwapsMove
  <2>3. /\ f["risk"] = alloc[s]["risk"] - j.prior.heldProfit["risk"]
        /\ f["quote"] = alloc[s]["quote"] + j.prior.heldProfit["risk"]
    BY <1>5, <1>6, <2>1, <2>2
  <2> QED
    BY <1>4, <1>6, <2>3, NoneIsNone DEF BooksOf, SettledJob, Ordinary, Profit
<1>9. job[s].kind # None
  BY <1>4, NoneIsNone
<1> QED
  BY <1>2, <1>4, <1>5, <1>6, <1>7, <1>8, <1>9, SwapsMove DEF Moving

\* The unwrapping of a profit withdrawal is such a transaction.
LEMMA UnwrapMoves ==
  ASSUME WellFormed, NEW s \in Strategies, Unwrap(s)
  PROVE  \E f, j : Moving(s, f, j)
<1>1. PICK f : f = Minus(own[s], job[s].profit)
  OBVIOUS
<1>2. PICK j : j = [job[s] EXCEPT !.at = "unwrapped"]
  OBVIOUS
<1>3. /\ holder = s /\ job[s].kind = "ETH" /\ job[s].at = "priced" /\ Reach(s, j)
      /\ Leq(job[s].profit, Balance) /\ own' = [own EXCEPT ![s] = f] /\ Moves(s)
      /\ UNCHANGED <<pos, owed, free, tables, holder, harvested, tainted, counts>>
  BY <1>1, <1>2 DEF Unwrap, Runs
<1>4. /\ job[s] \in OpenJobs /\ own[s] \in AllAmounts /\ job[s].profit \in Amounts
      /\ job[s].profit \in AllAmounts /\ Balance \in Amounts
  BY JobTypes, AddedTypes DEF WellFormed, TypeOK
<1>5. f \in AllAmounts
  BY <1>1, <1>4, AddedTypes
<1>6. /\ j \in OpenJobs /\ j.kind = job[s].kind /\ j.at = "unwrapped" /\ j.prior = job[s].prior
      /\ j.base = job[s].base /\ j.profit = job[s].profit
  BY <1>2, <1>4 DEF OpenJobs, Stages
<1>7. ShapeOf(j, Parts(s))
  <2>1. ShapeOf(job[s], Parts(s))
    BY DEF WellFormed, Shapes
  <2> QED
    BY <1>3, <1>6, <2>1, NoneIsNone DEF ShapeOf, Ordinary, Profit
<1>8. ASSUME NEW t \in Tokens
      PROVE  /\ Balance[t] + (f[t] - own[s][t]) >= 0
             /\ f[t] = own[s][t] - job[s].profit[t]
  <2>1. f[t] = own[s][t] - job[s].profit[t]
    BY <1>1, Added
  <2>2. own[s][t] \in Int /\ job[s].profit[t] \in Nat /\ Balance[t] \in Nat
    BY <1>4 DEF Amounts, AllAmounts
  <2>3. job[s].profit[t] <= Balance[t]
    BY <1>3 DEF Leq
  <2> QED
    BY <2>1, <2>2, <2>3
<1>9. ASSUME BooksOf(job[s], own[s], alloc[s]) PROVE BooksOf(j, f, alloc[s])
  <2>1. own[s] = alloc[s]
    BY <1>3, <1>9 DEF BooksOf, SettledJob, Profit
  <2> QED
    BY <1>3, <1>6, <1>8, <2>1, NoneIsNone DEF BooksOf, SettledJob, Ordinary, Profit
<1>10. job[s].kind # None
  BY <1>3, NoneIsNone DEF Profit
<1> QED
  BY <1>3, <1>4, <1>5, <1>6, <1>7, <1>8, <1>9, <1>10 DEF Moving, WellFormed, TypeOK

-----------------------------------------------------------------------------
(* One step concerns one strategy *)

\* What the tables say of s against what its receipts prove: at every stage of
\* its job, and for a job that compares balances as long as nobody else moves
\* the wallet.
Books(s) ==
  /\ BooksOf(job[s], own[s], alloc[s])
  /\ job[s].kind \in {"collect", "hold"} /\ s \notin moved =>
       \A t \in Tokens : Balance[t] - job[s].base[t] = own[s][t] - alloc[s][t]

\* ProfitAccounted, for one strategy
Accounted(s) == harvested[s] = Tot(Parts(s).heldProfit) + paid[s]

\* The step is of s or of its job: the others keep what they have, those with
\* an open job note that the wallet moved if it did, and the accounts of s stay
\* right.
Concerns(s) ==
  /\ WellFormed'
  /\ \A r \in Strategies \ {s} :
       /\ job'[r] = job[r] /\ own'[r] = own[r] /\ alloc'[r] = alloc[r] /\ comp'[r] = comp[r]
       /\ harvested'[r] = harvested[r] /\ paid'[r] = paid[r]
  /\ tainted \subseteq tainted' /\ paused \subseteq paused'
  /\ \/ \A r \in Strategies \ {s} : Busy(r) => r \in moved'
     \/ /\ \A t \in Tokens : Balance'[t] = Balance[t]
        /\ moved' = moved \/ moved' = moved \ {s}
  /\ s \notin tainted' /\ Books(s) => Books(s)'
  /\ s \notin paused' /\ Accounted(s) => Accounted(s)'

\* Such a step keeps everybody's accounts right.
LEMMA BooksKept ==
  ASSUME WellFormed, NEW s \in Strategies, Concerns(s),
         \A r \in Strategies \ tainted : Books(r)
  PROVE  \A r \in Strategies \ tainted' : Books(r)'
<1> SUFFICES ASSUME NEW r \in Strategies, r \notin tainted' PROVE Books(r)'
  OBVIOUS
<1>1. Books(r) /\ r \notin tainted
  BY DEF Concerns
<1>2. CASE r = s
  BY <1>1, <1>2 DEF Concerns
<1>3. CASE r # s
  <2>1. job'[r] = job[r] /\ own'[r] = own[r] /\ alloc'[r] = alloc[r]
    BY <1>3 DEF Concerns
  <2>2. BooksOf(job[r], own[r], alloc[r])'
    BY <1>1, <2>1 DEF Books, BooksOf, SettledJob
  <2>3. ASSUME job[r].kind \in {"collect", "hold"}, r \notin moved', NEW t \in Tokens
        PROVE  Balance'[t] - job[r].base[t] = own[r][t] - alloc[r][t]
    <3>1. Busy(r)
      <4>1. job[r].kind # None
        BY <2>3, NoneIsNone DEF Ordinary
      <4> QED
        BY <4>1, NoneIsNone DEF Busy
    <3>2. Balance'[t] = Balance[t] /\ (moved' = moved \/ moved' = moved \ {s})
      BY <1>3, <2>3, <3>1 DEF Concerns
    <3>3. r \notin moved
      BY <1>3, <2>3, <3>2
    <3> QED
      BY <1>1, <2>3, <3>2, <3>3 DEF Books
  <2> QED
    BY <2>1, <2>2, <2>3 DEF Books
<1> QED
  BY <1>2, <1>3

\* And everybody's profit.
LEMMA AccountsKept ==
  ASSUME WellFormed, NEW s \in Strategies, Concerns(s),
         \A r \in Strategies \ paused : Accounted(r)
  PROVE  \A r \in Strategies \ paused' : Accounted(r)'
<1> SUFFICES ASSUME NEW r \in Strategies, r \notin paused' PROVE Accounted(r)'
  OBVIOUS
<1>1. Accounted(r)
  BY DEF Concerns
<1>2. CASE r = s
  BY <1>1, <1>2 DEF Concerns
<1>3. CASE r # s
  <2>1. alloc'[r] = alloc[r] /\ comp'[r] = comp[r] /\ harvested'[r] = harvested[r] /\ paid'[r] = paid[r]
    BY <1>3 DEF Concerns
  <2>2. Parts(r)' = Parts(r)
    BY <2>1 DEF Parts
  <2> QED
    BY <1>1, <2>1, <2>2 DEF Accounted, Tot
<1> QED
  BY <1>2, <1>3

\* Every transaction of a job is such a step.
LEMMA MovingConcerns ==
  ASSUME WellFormed, NEW s \in Strategies, NEW f, NEW j, Moving(s, f, j)
  PROVE  Concerns(s)
<1>1. /\ WellFormed' /\ job'[s] = j /\ job' = [job EXCEPT ![s] = j]
      /\ \A t \in Tokens : Balance'[t] - Balance[t] = f[t] - own[s][t]
  BY MovingForms DEF Moving, Reach
<1>2. /\ own' = [own EXCEPT ![s] = f] /\ own \in [Strategies -> AllAmounts]
      /\ job \in [Strategies -> OpenJobs] /\ Moves(s)
      /\ UNCHANGED <<alloc, comp, paid, paused, reinvest, harvested, tainted>>
      /\ f \in AllAmounts /\ own'[s] = f
  BY DEF Moving, WellFormed, TypeOK, AllAmounts, tables
<1>3. ASSUME NEW r \in Strategies \ {s}
      PROVE  /\ job'[r] = job[r] /\ own'[r] = own[r] /\ (Busy(r) => r \in moved')
  BY <1>1, <1>2 DEF Moves
<1>4. ASSUME s \notin tainted', Books(s) PROVE Books(s)'
  <2>1. BooksOf(j, f, alloc[s])
    BY <1>4 DEF Books, Moving
  <2>2. BooksOf(job[s], own[s], alloc[s])'
    BY <1>1, <1>2, <2>1 DEF BooksOf, SettledJob
  <2>3. ASSUME j.kind \in {"collect", "hold"}, s \notin moved', NEW t \in Tokens
        PROVE  Balance'[t] - j.base[t] = f[t] - alloc[s][t]
    <3>1. s \notin moved /\ job[s].kind = j.kind /\ job[s].base = j.base
      BY <1>2, <2>3 DEF Moves, Moving
    <3>2. Balance[t] - j.base[t] = own[s][t] - alloc[s][t]
      BY <1>4, <2>3, <3>1 DEF Books
    <3>3. /\ j.base[t] \in Int /\ own[s][t] \in Int /\ f[t] \in Int /\ alloc[s][t] \in Int
          /\ Balance[t] \in Int /\ Balance'[t] \in Int
      <4>1. j.base \in Amounts /\ alloc[s] \in Amounts /\ Balance \in Amounts /\ Balance' \in Amounts
        BY <1>1, <3>1, JobTypes DEF WellFormed, TypeOK
      <4> QED
        BY <1>2, <4>1 DEF Amounts, AllAmounts
    <3>4. Balance'[t] - Balance[t] = f[t] - own[s][t]
      BY <1>1
    <3> QED
      BY <3>2, <3>3, <3>4
  <2> QED
    BY <1>1, <1>2, <2>2, <2>3 DEF Books
<1>5. Accounted(s) => Accounted(s)'
  <2>1. Parts(s)' = Parts(s)
    BY <1>2, SameParts
  <2> QED
    BY <1>2, <2>1 DEF Accounted, Tot
<1> QED
  BY <1>1, <1>2, <1>3, <1>4, <1>5 DEF Concerns

\* Record j keeps the base of the job of s, or takes the present balance.
KeepsBase(s, j) ==
  \/ j.base = job[s].base /\ (j.kind \in {"collect", "hold"} => j.kind = job[s].kind)
  \/ j.base = Balance /\ (j.kind \in {"collect", "hold"} => SettledJob(j))

\* The lock is kept or given back; a job that is closed has seen no moves.
KeepsLock(s, j) ==
  /\ holder' = None \/ (holder' = s /\ j # NoJob)
  /\ (moved' = moved /\ j # NoJob) \/ (moved' = moved \ {s} /\ j = NoJob)

\* A step that changes only the record of the job of s, or who holds the lock.
LEMMA RecordConcerns ==
  ASSUME WellFormed, NEW s \in Strategies, NEW j \in OpenJobs, Reach(s, j),
         UNCHANGED <<chain, tables, harvested, tainted, outside>>,
         KeepsLock(s, j), j # NoJob => KeepsBase(s, j),
         made' \in 0 .. MaxJobs, fails' \in 0 .. MaxFails,
         ShapeOf(j, Parts(s)),
         BooksOf(job[s], own[s], alloc[s]) => BooksOf(j, own[s], alloc[s])
  PROVE  Concerns(s)
<1>1. /\ UNCHANGED <<alloc, comp, paid, paused, reinvest, harvested, tainted, own, free, pos, owed>>
      /\ Balance' = Balance /\ Parts(s)' = Parts(s)
  BY SameParts DEF chain, tables, Balance
<1>2. job' \in [Strategies -> OpenJobs] /\ job'[s] = j /\ Shapes'
  BY <1>1, OneJob DEF WellFormed, KeepsLock
<1>3. \A r \in Strategies \ {s} : job'[r] = job[r]
  BY DEF Reach, WellFormed, TypeOK
<1>4. WellFormed'
  BY <1>1, <1>2, NoneIsNone DEF WellFormed, TypeOK, KeepsLock
<1>5. ASSUME Books(s) PROVE Books(s)'
  <2>1. BooksOf(j, own[s], alloc[s])
    BY <1>5 DEF Books
  <2>2. BooksOf(job[s], own[s], alloc[s])'
    BY <1>1, <1>2, <2>1 DEF BooksOf, SettledJob
  <2>3. ASSUME j.kind \in {"collect", "hold"}, s \notin moved', NEW t \in Tokens
        PROVE  Balance[t] - j.base[t] = own[s][t] - alloc[s][t]
    <3>1. j # NoJob /\ s \notin moved
      BY <2>3, NoneIsNone DEF Ordinary, KeepsLock
    <3>2. CASE j.base = job[s].base /\ j.kind = job[s].kind
      BY <1>5, <2>3, <3>1, <3>2 DEF Books
    <3>3. CASE j.base = Balance /\ SettledJob(j)
      <4>1. own[s] = alloc[s]
        BY <2>1, <3>3 DEF BooksOf
      <4>2. Balance[t] \in Int /\ alloc[s][t] \in Int
        BY DEF WellFormed, TypeOK, Amounts
      <4> QED
        BY <3>3, <4>1, <4>2
    <3> QED
      BY <2>3, <3>1, <3>2, <3>3 DEF KeepsBase
  <2> QED
    BY <1>1, <1>2, <2>2, <2>3 DEF Books
<1>6. Accounted(s) => Accounted(s)'
  BY <1>1 DEF Accounted, Tot
<1> QED
  BY <1>1, <1>3, <1>4, <1>5, <1>6 DEF Concerns, KeepsLock

-----------------------------------------------------------------------------
(* Steps that only rewrite the record of the job *)

\* A new job takes down the balance and the split as they are.
LEMMA StartConcerns ==
  ASSUME WellFormed, NEW s \in Strategies,
         \/ \E kind \in Ordinary : Start(s, kind)
         \/ \E target \in Profit : StartProfit(s, target)
  PROVE  Concerns(s)
<1>1. /\ Parts(s) \in Classes /\ Balance \in Amounts /\ AtRest(s) /\ job[s] = NoJob
      /\ holder' = s /\ UNCHANGED <<chain, tables, hist, outside, fails>>
      /\ made' \in 0 .. MaxJobs /\ fails' \in 0 .. MaxFails
  <2>1. /\ AtRest(s) /\ holder' = s /\ made' = made + 1 /\ made < MaxJobs
        /\ UNCHANGED <<chain, tables, hist, outside, fails>>
    BY DEF Start, StartProfit
  <2>2. made' \in 0 .. MaxJobs /\ fails' \in 0 .. MaxFails
    BY <2>1, FundsAssumption DEF WellFormed, TypeOK
  <2>3. Parts(s) \in Classes /\ Balance \in Amounts
    BY PartsTypes DEF WellFormed, TypeOK
  <2> QED
    BY <2>1, <2>2, <2>3 DEF AtRest, Busy
<1>2. ASSUME NEW j \in OpenJobs, Reach(s, j), j.prior = Parts(s),
             \/ j.kind \in Ordinary /\ j.at = "checked" /\ j.base = Balance
             \/ j.kind \in Profit /\ j.at = "bare" /\ j.base = Zero
      PROVE  Concerns(s)
  <2>1. j # NoJob /\ SettledJob(j)
    BY <1>2, NoneIsNone DEF SettledJob
  <2>2. ShapeOf(j, Parts(s))
    BY <1>2, <2>1, NoneIsNone DEF ShapeOf, Ordinary, Profit
  <2>3. BooksOf(job[s], own[s], alloc[s]) => BooksOf(j, own[s], alloc[s])
    <3>1. SettledJob(job[s])
      BY <1>1, NoneIsNone DEF SettledJob
    <3> QED
      BY <1>2, <3>1, NoneIsNone DEF BooksOf, Ordinary, Profit
  <2>4. KeepsBase(s, j)
    BY <1>1, <1>2, <2>1 DEF NoJob, Ordinary, Profit, KeepsBase
  <2>5. UNCHANGED <<harvested, tainted, moved>> /\ KeepsLock(s, j)
    BY <1>1, <2>1 DEF hist, KeepsLock
  <2> QED
    BY <1>1, <1>2, <2>1, <2>2, <2>3, <2>4, <2>5, RecordConcerns
<1>3. ASSUME NEW kind \in Ordinary, Start(s, kind) PROVE Concerns(s)
  <2>1. PICK j : j = [NoJob EXCEPT !.kind = kind, !.at = "checked", !.base = Balance, !.prior = Parts(s)]
    OBVIOUS
  <2>2. j \in OpenJobs /\ j.kind = kind /\ j.at = "checked" /\ j.prior = Parts(s) /\ j.base = Balance
    BY <1>1, <2>1, NoJobType DEF OpenJobs, NoJob, Stages
  <2>3. Reach(s, j)
    BY <1>3, <2>1 DEF Start
  <2> QED
    BY <1>2, <2>2, <2>3
<1>4. ASSUME NEW target \in Profit, StartProfit(s, target) PROVE Concerns(s)
  <2>1. PICK j : j = [NoJob EXCEPT !.kind = target, !.at = "bare", !.prior = Parts(s)]
    OBVIOUS
  <2>2. j \in OpenJobs /\ j.kind = target /\ j.at = "bare" /\ j.prior = Parts(s) /\ j.base = Zero
    BY <1>1, <2>1, NoJobType DEF OpenJobs, NoJob, Stages
  <2>3. Reach(s, j)
    BY <1>4, <2>1 DEF StartProfit
  <2> QED
    BY <1>2, <2>2, <2>3
<1> QED
  BY <1>3, <1>4

\* A job that is closed must have left its strategy as the row says.
LEMMA CloseConcerns ==
  ASSUME WellFormed, NEW s \in Strategies, Close(s), SettledJob(job[s]),
         UNCHANGED <<chain, tables, harvested, tainted, made, outside>>,
         fails' \in 0 .. MaxFails
  PROVE  Concerns(s)
<1>1. NoJob \in OpenJobs /\ Reach(s, NoJob) /\ KeepsLock(s, NoJob)
  BY NoJobType DEF Close, Reach, KeepsLock
<1>2. made' \in 0 .. MaxJobs
  BY DEF WellFormed, TypeOK
<1>3. ShapeOf(NoJob, Parts(s))
  BY NoneIsNone DEF ShapeOf, Ordinary, Profit
<1>4. BooksOf(job[s], own[s], alloc[s]) => BooksOf(NoJob, own[s], alloc[s])
  BY NoneIsNone DEF BooksOf, SettledJob, Ordinary, Profit
<1> QED
  BY <1>1, <1>2, <1>3, <1>4, RecordConcerns

\* The record of an open job changes, but for its kind, base and prior split.
LEMMA OnwardConcerns ==
  ASSUME WellFormed, NEW s \in Strategies, NEW j \in OpenJobs, Reach(s, j),
         UNCHANGED <<chain, tables, harvested, tainted, moved, made, outside>>,
         fails' \in 0 .. MaxFails, holder' = None \/ holder' = s,
         j.kind = job[s].kind, j.kind # None, j.base = job[s].base,
         ShapeOf(j, Parts(s)),
         BooksOf(job[s], own[s], alloc[s]) => BooksOf(j, own[s], alloc[s])
  PROVE  Concerns(s)
<1>1. j # NoJob
  BY NoneIsNone
<1>2. made' \in 0 .. MaxJobs
  BY DEF WellFormed, TypeOK
<1>3. KeepsBase(s, j) /\ KeepsLock(s, j)
  BY <1>1 DEF KeepsBase, KeepsLock
<1> QED
  BY <1>1, <1>2, <1>3, RecordConcerns

\* Whoever holds the lock has an open job.
LEMMA HolderBusy ==
  ASSUME WellFormed, NEW s \in Strategies, holder = s
  PROVE  job[s].kind # None /\ job[s] # NoJob /\ ShapeOf(job[s], Parts(s))
<1>1. holder # None
  BY NoneIsNone
<1>2. job[s] # NoJob /\ ShapeOf(job[s], Parts(s))
  BY <1>1 DEF WellFormed, Shapes, Busy
<1> QED
  BY <1>2 DEF ShapeOf

\* A throw or a crash closes the job only if nothing of it has landed.
LEMMA EndConcerns ==
  ASSUME WellFormed, NEW s \in Strategies, Throw(s) \/ Crash(s)
  PROVE  Concerns(s)
<1>1. PICK stays \in BOOLEAN :
        /\ EndAttempt(s, stays)
        /\ ~stays => ~HasLanded(s) /\ (job[s].kind \in Ordinary \/ job[s].at # "bare")
  <2>1. CASE Throw(s)
    <3>1. PICK stays : stays = HasLanded(s)
      OBVIOUS
    <3>2. HasLanded(s) \in BOOLEAN
      BY DEF HasLanded
    <3> QED
      BY <2>1, <3>2 DEF Throw
  <2>2. CASE Crash(s)
    <3>1. (job[s].kind \in Profit \/ HasLanded(s)) \in BOOLEAN
      OBVIOUS
    <3>2. holder = s
      BY <2>2 DEF Crash, EndAttempt
    <3>3. job[s].kind \in Ordinary \cup Profit
      BY <3>2, HolderBusy, JobTypes DEF OpenJobs, WellFormed
    <3> QED
      BY <2>2, <3>1, <3>3 DEF Crash
  <2> QED
    BY <2>1, <2>2
<1>2. /\ holder = s /\ fails' = fails + 1 /\ fails < MaxFails
      /\ UNCHANGED <<chain, tables, harvested, tainted, made, outside>>
  BY <1>1 DEF EndAttempt
<1>3. fails' \in 0 .. MaxFails
  BY <1>2, FundsAssumption DEF WellFormed, TypeOK
<1>4. job[s].kind # None /\ ShapeOf(job[s], Parts(s))
  BY <1>2, HolderBusy
<1>5. CASE stays
  <2>1. PICK j : j = [job[s] EXCEPT !.again = TRUE]
    OBVIOUS
  <2>2. /\ Reach(s, j) /\ holder' = None /\ moved' = moved
    BY <1>1, <1>5, <2>1 DEF EndAttempt
  <2>3. /\ j \in OpenJobs /\ j.kind = job[s].kind /\ j.at = job[s].at /\ j.base = job[s].base
        /\ j.prior = job[s].prior /\ j.lp = job[s].lp /\ j.held = job[s].held /\ j.profit = job[s].profit
    BY <2>1, JobTypes DEF WellFormed, OpenJobs
  <2>4. ShapeOf(j, Parts(s))
    BY <1>4, <2>3, NoneIsNone DEF ShapeOf
  <2>5. BooksOf(job[s], own[s], alloc[s]) => BooksOf(j, own[s], alloc[s])
    BY <2>3 DEF BooksOf, SettledJob
  <2> QED
    BY <1>2, <1>3, <1>4, <2>2, <2>3, <2>4, <2>5, OnwardConcerns
<1>6. CASE ~stays
  <2>1. SettledJob(job[s])
    <3>1. job[s].kind \in Ordinary \/ job[s].kind \in Profit
      BY <1>4, JobTypes DEF OpenJobs, WellFormed
    <3>2. CASE job[s].kind \in Ordinary
      BY <1>1, <1>6, <3>2 DEF HasLanded, SettledJob
    <3>3. CASE job[s].kind \in Profit
      <4>1. job[s].kind \notin Ordinary
        BY <3>3 DEF Ordinary, Profit
      <4>2. job[s].at \notin {"swapped", "unwrapped"}
        BY <1>1, <1>6, <4>1 DEF HasLanded
      <4> QED
        BY <3>3, <4>2 DEF SettledJob
    <3> QED
      BY <3>1, <3>2, <3>3
  <2>2. Close(s)
    BY <1>1, <1>6 DEF EndAttempt
  <2> QED
    BY <1>2, <1>3, <2>1, <2>2, CloseConcerns
<1> QED
  BY <1>5, <1>6

\* Recovery takes the lock for the job as it stands.
LEMMA ResumeConcerns ==
  ASSUME WellFormed, NEW s \in Strategies, Resume(s)
  PROVE  Concerns(s)
<1>1. /\ job[s] # NoJob /\ holder' = s /\ job' = job
      /\ UNCHANGED <<chain, tables, hist, made, outside, fails>>
  BY DEF Resume, Busy, counts
<1>2. job[s] \in OpenJobs /\ ShapeOf(job[s], Parts(s)) /\ job[s].kind # None
      /\ fails' \in 0 .. MaxFails
  <2>1. ShapeOf(job[s], Parts(s)) /\ job[s] \in OpenJobs /\ fails \in 0 .. MaxFails
    BY DEF WellFormed, TypeOK, Shapes
  <2> QED
    BY <1>1, <2>1 DEF ShapeOf
<1>3. Reach(s, job[s])
  <2>1. job \in [Strategies -> OpenJobs]
    BY DEF WellFormed, TypeOK
  <2>2. [job EXCEPT ![s] = job[s]] = job
    BY <2>1
  <2> QED
    BY <1>1, <2>2 DEF Reach
<1>4. UNCHANGED <<chain, tables, harvested, tainted, moved, made, outside>>
  BY <1>1 DEF hist
<1>5. PICK j \in OpenJobs : j = job[s]
  BY <1>2
<1>6. ShapeOf(j, Parts(s)) /\ (BooksOf(job[s], own[s], alloc[s]) => BooksOf(j, own[s], alloc[s]))
      /\ Reach(s, j) /\ j.kind = job[s].kind /\ j.kind # None /\ j.base = job[s].base
  BY <1>2, <1>3, <1>5
<1> QED
  BY <1>1, <1>2, <1>4, <1>6, OnwardConcerns

\* A withdrawal saves its context.
LEMMA SaveConcerns ==
  ASSUME WellFormed, NEW s \in Strategies, SaveContext(s) \/ SaveRelease(s)
  PROVE  Concerns(s)
<1>1. /\ holder = s /\ holder' = holder /\ job[s].kind \in Profit
      /\ job[s].at \in {"bare", "created", "recorded"}
      /\ UNCHANGED <<chain, tables, hist, made, outside, fails>>
  BY DEF SaveContext, SaveRelease, Runs, counts
<1>2. PICK n : n = Parts(s).heldProfit["quote"]
  OBVIOUS
<1>3. n \in Nat
  <2>1. Parts(s).heldProfit \in Amounts
    BY PartsTypes, TotalTypes DEF WellFormed
  <2> QED
    BY <1>2, <2>1 DEF Amounts, Tokens
<1>4. PICK p : p = Only("quote", n)
  OBVIOUS
<1>5. p \in Amounts /\ p["risk"] = 0
  <2>1. "quote" \in Tokens /\ "risk" \in Tokens
    BY DEF Tokens
  <2> QED
    BY <1>3, <1>4, <2>1, OnlyOne
<1>6. \/ Reach(s, [job[s] EXCEPT !.at = "created"])
      \/ Reach(s, [job[s] EXCEPT !.at = "priced", !.profit = p])
  <2>1. CASE SaveContext(s)
    BY <2>1 DEF SaveContext
  <2>2. CASE SaveRelease(s)
    <3>1. Reach(s, [job[s] EXCEPT !.at = "priced", !.profit = Only("quote", Parts(s).heldProfit["quote"])])
      BY <2>2 DEF SaveRelease
    <3> QED
      BY <1>2, <1>4, <3>1
  <2> QED
    BY <2>1, <2>2
<1>7. PICK j : Reach(s, j) /\ \/ j = [job[s] EXCEPT !.at = "created"]
                              \/ j = [job[s] EXCEPT !.at = "priced", !.profit = p]
  BY <1>6
<1>8. /\ j \in OpenJobs /\ j.kind = job[s].kind /\ j.base = job[s].base /\ j.prior = job[s].prior
      /\ \/ j.at = "created"
         \/ j.at = "priced" /\ j.profit["risk"] = 0
  <2>1. job[s] \in OpenJobs
    BY JobTypes DEF WellFormed
  <2> QED
    BY <1>5, <1>7, <2>1 DEF OpenJobs, Stages
<1>9. ShapeOf(j, Parts(s)) /\ j.kind # None
  <2>1. j.kind # None /\ j.kind \notin Ordinary
    BY <1>1, <1>8, NoneIsNone DEF Ordinary, Profit
  <2> QED
    BY <1>1, <1>8, <2>1 DEF ShapeOf, Ordinary, Profit
<1>10. BooksOf(job[s], own[s], alloc[s]) => BooksOf(j, own[s], alloc[s])
  BY <1>1, <1>8, <1>9 DEF BooksOf, SettledJob, Ordinary, Profit
<1>11. UNCHANGED <<chain, tables, harvested, tainted, moved, made, outside>>
       /\ fails' \in 0 .. MaxFails /\ holder' = s
  BY <1>1 DEF hist, WellFormed, TypeOK
<1> QED
  BY <1>7, <1>8, <1>9, <1>10, <1>11, OnwardConcerns

\* A withdrawal ends when its rows are as its receipts say.
LEMMA DoneConcerns ==
  ASSUME WellFormed, NEW s \in Strategies, AbandonProfit(s) \/ CompleteProfit(s)
  PROVE  Concerns(s)
<1>1. /\ job[s].kind \in Profit /\ job[s].at \in {"created", "priced", "released"} /\ Close(s)
      /\ UNCHANGED <<chain, tables, harvested, tainted, made, outside, fails>>
  BY DEF AbandonProfit, CompleteProfit, Runs, Profit, counts
<1>2. SettledJob(job[s]) /\ fails' \in 0 .. MaxFails
  BY <1>1 DEF SettledJob, WellFormed, TypeOK
<1> QED
  BY <1>1, <1>2, CloseConcerns

-----------------------------------------------------------------------------
(* Steps that rewrite the tables of money *)

\* The split that the next job sees is the one written, if it adds up.
LEMMA PartsWritten ==
  ASSUME NEW s, \A t \in Tokens : TotalOf(comp'[s])[t] = alloc'[s][t]
  PROVE  \A t \in Tokens : Parts(s)'.heldProfit[t] = comp'[s].heldProfit[t]
BY DEF Parts, TotalOf, Plus

\* A commit closes the job of s with split c, allocation a and profit n.
LEMMA CommitConcerns ==
  ASSUME WellFormed, NEW s \in Strategies, NEW c \in Classes, NEW a \in Amounts, NEW n \in Nat,
         Close(s), UNCHANGED <<chain, paid, reinvest, made, outside, fails>>,
         comp' = [comp EXCEPT ![s] = c], alloc' = [alloc EXCEPT ![s] = a],
         harvested' = [harvested EXCEPT ![s] = @ + n],
         paused \subseteq paused', paused' \subseteq Strategies,
         tainted \subseteq tainted', tainted' \subseteq Strategies,
         s \notin tainted' /\ Books(s) => \A t \in Tokens : own[s][t] = a[t],
         s \notin paused' =>
           /\ \A t \in Tokens : TotalOf(c)[t] = a[t]
           /\ Tot(c.heldProfit) = Tot(Parts(s).heldProfit) + n
  PROVE  Concerns(s)
<1>1. /\ NoJob \in OpenJobs /\ Reach(s, NoJob) /\ holder' = None /\ moved' = moved \ {s}
      /\ UNCHANGED <<pos, owed, own, free>> /\ Balance' = Balance
  BY NoJobType DEF Close, Reach, chain, Balance
<1>2. /\ comp' \in [Strategies -> Classes] /\ comp'[s] = c
      /\ alloc' \in [Strategies -> Amounts] /\ alloc'[s] = a
      /\ harvested' \in [Strategies -> Nat] /\ harvested'[s] = harvested[s] + n
      /\ \A r \in Strategies \ {s} : /\ comp'[r] = comp[r] /\ alloc'[r] = alloc[r]
                                     /\ harvested'[r] = harvested[r]
  BY DEF WellFormed, TypeOK
<1>3. ShapeOf(NoJob, Parts(s)')
  BY NoneIsNone DEF ShapeOf, Ordinary, Profit
<1>4. job' \in [Strategies -> OpenJobs] /\ job'[s] = NoJob /\ Shapes'
  BY <1>1, <1>2, <1>3, OneJob DEF WellFormed
<1>5. \A r \in Strategies \ {s} : job'[r] = job[r]
  BY <1>1 DEF Reach, WellFormed, TypeOK
<1>6. WellFormed'
  BY <1>1, <1>2, <1>4 DEF WellFormed, TypeOK
<1>7. ASSUME s \notin tainted', Books(s) PROVE Books(s)'
  <2>1. own[s] \in AllAmounts /\ a \in AllAmounts
    BY JobTypes, AddedTypes DEF WellFormed
  <2>2. own[s] = a
    BY <1>7, <2>1, SameAmounts
  <2>3. NoJob.kind \notin Ordinary /\ NoJob.kind \notin Profit /\ NoJob.kind = None
    BY NoneIsNone
  <2>4. BooksOf(job[s], own[s], alloc[s])'
    BY <1>1, <1>2, <1>4, <2>2, <2>3 DEF BooksOf, Ordinary
  <2> QED
    BY <1>4, <2>3, <2>4 DEF Books, Ordinary
<1>8. ASSUME s \notin paused', Accounted(s) PROVE Accounted(s)'
  <2>1. \A t \in Tokens : Parts(s)'.heldProfit[t] = c.heldProfit[t]
    BY <1>2, <1>8, PartsWritten
  <2>2. Tot(Parts(s)'.heldProfit) = Tot(c.heldProfit)
    BY <2>1 DEF Tot, Tokens
  <2>3. PICK k, m : k = Tot(Parts(s).heldProfit) /\ m = Tot(c.heldProfit)
    OBVIOUS
  <2>4. m = k + n /\ harvested[s] = k + paid[s]
    BY <1>8, <2>3 DEF Accounted
  <2>5. k \in Nat /\ paid[s] \in Nat /\ paid'[s] = paid[s]
    <3>1. Parts(s).heldProfit \in Amounts
      BY PartsTypes, TotalTypes DEF WellFormed
    <3> QED
      BY <2>3, <3>1 DEF Tot, Amounts, Tokens, WellFormed, TypeOK
  <2>6. harvested'[s] = m + paid'[s]
    BY <1>2, <2>4, <2>5
  <2> QED
    BY <2>2, <2>3, <2>6 DEF Accounted, Tot
<1> QED
  BY <1>1, <1>2, <1>5, <1>6, <1>7, <1>8 DEF Concerns

\* A recenter writes what its own receipts add up to.
LEMMA RecenterConcerns ==
  ASSUME WellFormed, NEW s \in Strategies, CommitRecenter(s)
  PROVE  Concerns(s)
<1>1. PICK c : c = RecenterParts(s)
  OBVIOUS
<1>2. PICK a : a = TotalOf(c)
  OBVIOUS
<1>3. PICK n : n = Tot(job[s].profit)
  OBVIOUS
<1>4. /\ holder = s /\ job[s].kind = "recenter" /\ job[s].at = "minted" /\ Close(s)
      /\ comp' = [comp EXCEPT ![s] = c] /\ alloc' = [alloc EXCEPT ![s] = a]
      /\ harvested' = [harvested EXCEPT ![s] = @ + n]
      /\ UNCHANGED <<chain, paid, paused, reinvest, tainted, made, outside, fails>>
  BY <1>1, <1>2, <1>3 DEF CommitRecenter, Runs, counts
<1>5. /\ job[s].lp \in Amounts /\ job[s].held \in Amounts /\ job[s].profit \in Amounts
      /\ job[s].prior.heldFee \in Amounts /\ job[s].prior.heldProfit \in Amounts
      /\ own[s] \in AllAmounts
  BY JobTypes DEF WellFormed
<1>6. job[s].prior = Parts(s)
  BY <1>4, HolderBusy DEF ShapeOf, Ordinary
<1>7. /\ c \in Classes /\ a \in Amounts /\ n \in Nat
      /\ c.principal = job[s].lp /\ c.heldFee = Plus(job[s].prior.heldFee, job[s].held)
      /\ c.heldProfit = Plus(job[s].prior.heldProfit, job[s].profit)
  <2>1. /\ Plus(job[s].prior.heldFee, job[s].held) \in Amounts
        /\ Plus(job[s].prior.heldProfit, job[s].profit) \in Amounts
    BY <1>5, AddedTypes
  <2>2. c \in Classes
    BY <1>1, <1>5, <2>1 DEF RecenterParts, Classes
  <2>3. n \in Nat
    BY <1>3, <1>5 DEF Tot, Amounts, Tokens
  <2> QED
    BY <1>1, <1>2, <2>2, <2>3, TotalTypes DEF RecenterParts
<1>8. ASSUME NEW t \in Tokens
      PROVE  /\ a[t] = job[s].lp[t] + ((job[s].prior.heldFee[t] + job[s].held[t])
                                        + (job[s].prior.heldProfit[t] + job[s].profit[t]))
             /\ c.heldProfit[t] = job[s].prior.heldProfit[t] + job[s].profit[t]
             /\ job[s].lp[t] \in Nat /\ job[s].prior.heldFee[t] \in Nat /\ job[s].held[t] \in Nat
             /\ job[s].prior.heldProfit[t] \in Nat /\ job[s].profit[t] \in Nat
  <2>1. a[t] = c.principal[t] + (c.heldFee[t] + c.heldProfit[t])
    BY <1>2, TotalTypes
  <2>2. c.heldFee[t] = job[s].prior.heldFee[t] + job[s].held[t]
    BY <1>7, Added
  <2>3. c.heldProfit[t] = job[s].prior.heldProfit[t] + job[s].profit[t]
    BY <1>7, Added
  <2> QED
    BY <1>5, <1>7, <2>1, <2>2, <2>3 DEF Amounts
<1>9. ASSUME Books(s), NEW t \in Tokens PROVE own[s][t] = a[t]
  <2>1. own[s][t] = job[s].lp[t] + job[s].held[t] + job[s].prior.heldFee[t]
                      + job[s].prior.heldProfit[t] + job[s].profit[t]
    BY <1>4, <1>9 DEF Books, BooksOf
  <2> QED
    BY <1>8, <2>1
<1>10. Tot(c.heldProfit) = Tot(Parts(s).heldProfit) + n
  <2>1. /\ c.heldProfit["risk"] = job[s].prior.heldProfit["risk"] + job[s].profit["risk"]
        /\ c.heldProfit["quote"] = job[s].prior.heldProfit["quote"] + job[s].profit["quote"]
        /\ job[s].prior.heldProfit["risk"] \in Nat /\ job[s].prior.heldProfit["quote"] \in Nat
        /\ job[s].profit["risk"] \in Nat /\ job[s].profit["quote"] \in Nat
    BY <1>8 DEF Tokens
  <2> QED
    BY <1>3, <1>6, <2>1 DEF Tot
<1>11. paused' = paused /\ tainted' = tainted /\ paused \subseteq Strategies
       /\ tainted \subseteq Strategies
  BY <1>4 DEF WellFormed, TypeOK
<1>12. \A t \in Tokens : TotalOf(c)[t] = a[t]
  BY <1>2
<1> QED
  BY <1>4, <1>7, <1>9, <1>10, <1>11, <1>12, CommitConcerns

\* What a commit that compares balances writes is what the receipts say.
LEMMA NetIs ==
  ASSUME WellFormed, NEW s \in Strategies, job[s].kind \in {"collect", "hold"}
  PROVE  /\ NetOf(s) \in AllAmounts
         /\ Books(s) /\ s \notin moved => \A t \in Tokens : own[s][t] = NetOf(s)[t]
<1>1. /\ Balance \in AllAmounts /\ job[s].base \in AllAmounts /\ job[s].prior \in Classes
      /\ alloc[s] \in AllAmounts /\ own[s] \in AllAmounts
  BY JobTypes, AddedTypes DEF WellFormed, TypeOK
<1>2. job[s].prior = Parts(s) /\ TotalOf(job[s].prior) = alloc[s]
  BY PartsTypes DEF Shapes, ShapeOf, Ordinary, WellFormed
<1>3. Minus(Balance, job[s].base) \in AllAmounts
  BY <1>1, AddedTypes
<1>4. NetOf(s) \in AllAmounts
  BY <1>1, <1>2, <1>3, AddedTypes DEF NetOf
<1>5. ASSUME Books(s), s \notin moved, NEW t \in Tokens PROVE own[s][t] = NetOf(s)[t]
  <2>1. Balance[t] - job[s].base[t] = own[s][t] - alloc[s][t]
    BY <1>5 DEF Books
  <2>2. NetOf(s)[t] = (Balance[t] - job[s].base[t]) + alloc[s][t]
    <3>1. NetOf(s)[t] = Minus(Balance, job[s].base)[t] + TotalOf(job[s].prior)[t]
      BY Added DEF NetOf
    <3>2. Minus(Balance, job[s].base)[t] = Balance[t] - job[s].base[t]
      BY Added
    <3> QED
      BY <1>2, <3>1, <3>2
  <2>3. Balance[t] \in Int /\ job[s].base[t] \in Int /\ own[s][t] \in Int /\ alloc[s][t] \in Int
    BY <1>1 DEF AllAmounts
  <2> QED
    BY <2>1, <2>2, <2>3
<1> QED
  BY <1>4, <1>5

\* A fee collection writes the change of the balance, and taints the strategy if
\* others moved the wallet.
LEMMA CollectConcerns ==
  ASSUME WellFormed, NEW s \in Strategies, CommitCollect(s)
  PROVE  Concerns(s)
<1>1. PICK c : c = CollectParts(s)
  OBVIOUS
<1>2. PICK a : a = NetOf(s)
  OBVIOUS
<1>3. /\ holder = s /\ job[s].kind = "collect" /\ Close(s) /\ Valid(c)
      /\ comp' = [comp EXCEPT ![s] = c] /\ alloc' = [alloc EXCEPT ![s] = a]
      /\ tainted' = tainted \cup (moved \cap {s})
      /\ UNCHANGED <<chain, paid, paused, reinvest, harvested, made, outside, fails>>
  BY <1>1, <1>2 DEF CommitCollect, CollectCommits, Runs, counts
<1>4. a \in AllAmounts /\ (Books(s) /\ s \notin moved => \A t \in Tokens : own[s][t] = a[t])
  BY <1>2, <1>3, NetIs
<1>5. /\ job[s].prior.principal \in Amounts /\ job[s].prior.heldFee \in Amounts
      /\ job[s].prior.heldProfit \in Amounts /\ job[s].prior = Parts(s)
  BY <1>3, JobTypes, HolderBusy DEF WellFormed, ShapeOf, Ordinary
<1>6. PICK p : p = IF s \in reinvest
                   THEN Minus(NetOf(s), Plus(job[s].prior.heldFee, job[s].prior.heldProfit))
                   ELSE job[s].prior.principal
  OBVIOUS
<1>7. /\ c.principal = p /\ c.heldFee = Minus(a, Plus(p, job[s].prior.heldProfit))
      /\ c.heldProfit = job[s].prior.heldProfit
      /\ c = [principal |-> c.principal, heldFee |-> c.heldFee, heldProfit |-> c.heldProfit]
  BY <1>1, <1>2, <1>6 DEF CollectParts
<1>8. p \in AllAmounts /\ c.heldFee \in AllAmounts
  <2>1. Plus(job[s].prior.heldFee, job[s].prior.heldProfit) \in AllAmounts
    BY <1>5, AddedTypes
  <2>2. p \in AllAmounts
    BY <1>2, <1>4, <1>5, <1>6, <2>1, AddedTypes
  <2>3. Plus(p, job[s].prior.heldProfit) \in AllAmounts
    BY <1>5, <2>2, AddedTypes
  <2> QED
    BY <1>4, <1>7, <2>2, <2>3, AddedTypes
<1>9. c \in Classes
  <2>1. c.principal \in Amounts /\ c.heldFee \in Amounts /\ c.heldProfit \in Amounts
    BY <1>3, <1>5, <1>7, <1>8, NonNegative DEF Valid
  <2> QED
    BY <1>7, <2>1 DEF Classes
<1>10. \A t \in Tokens : TotalOf(c)[t] = a[t]
  <2> SUFFICES ASSUME NEW t \in Tokens PROVE TotalOf(c)[t] = a[t]
    OBVIOUS
  <2>1. TotalOf(c)[t] = p[t] + (c.heldFee[t] + job[s].prior.heldProfit[t])
    BY <1>7, TotalTypes
  <2>2. c.heldFee[t] = a[t] - (p[t] + job[s].prior.heldProfit[t])
    <3>1. c.heldFee[t] = a[t] - Plus(p, job[s].prior.heldProfit)[t]
      BY <1>7, Added
    <3> QED
      BY <3>1, Added
  <2>3. p[t] \in Int /\ a[t] \in Int /\ job[s].prior.heldProfit[t] \in Int
    BY <1>4, <1>5, <1>8 DEF AllAmounts, Amounts
  <2> QED
    BY <2>1, <2>2, <2>3
<1>11. a \in Amounts
  <2>1. TotalOf(c) \in Amounts
    BY <1>9, TotalTypes
  <2>2. TotalOf(c) = a
    BY <1>4, <1>10, <2>1, AddedTypes, SameAmounts
  <2> QED
    BY <2>1, <2>2
<1>12. Tot(c.heldProfit) = Tot(Parts(s).heldProfit) + 0
  <2>1. job[s].prior.heldProfit["risk"] \in Nat /\ job[s].prior.heldProfit["quote"] \in Nat
    BY <1>5 DEF Amounts, Tokens
  <2> QED
    BY <1>5, <1>7, <2>1 DEF Tot
<1>13. harvested' = [harvested EXCEPT ![s] = @ + 0]
  <2>1. harvested \in [Strategies -> Nat]
    BY DEF WellFormed, TypeOK
  <2>2. [harvested EXCEPT ![s] = @ + 0] = harvested
    BY <2>1
  <2> QED
    BY <1>3, <2>2
<1>14. /\ paused' = paused /\ paused \subseteq Strategies
       /\ tainted \subseteq tainted' /\ tainted' \subseteq Strategies
       /\ s \notin tainted' => s \notin moved
  BY <1>3 DEF WellFormed, TypeOK
<1> QED
  BY <1>3, <1>4, <1>9, <1>10, <1>11, <1>12, <1>13, <1>14, CommitConcerns

\* A hold writes the change of the balance too, and pauses the strategy.
LEMMA HoldConcerns ==
  ASSUME WellFormed, NEW s \in Strategies, CommitHold(s)
  PROVE  Concerns(s)
<1>1. PICK a : a = NetOf(s)
  OBVIOUS
<1>2. /\ holder = s /\ job[s].kind = "hold" /\ Close(s) /\ Leq(Zero, a)
      /\ alloc' = [alloc EXCEPT ![s] = a] /\ paused' = paused \cup {s}
      /\ tainted' = tainted \cup (moved \cap {s})
      /\ UNCHANGED <<chain, comp, paid, reinvest, harvested, made, outside, fails>>
  BY <1>1 DEF CommitHold, HoldCommits, Runs, counts
<1>3. a \in AllAmounts /\ (Books(s) /\ s \notin moved => \A t \in Tokens : own[s][t] = a[t])
  BY <1>1, <1>2, NetIs
<1>4. a \in Amounts
  BY <1>2, <1>3, NonNegative
<1>5. PICK c \in Classes : c = comp[s]
  BY DEF WellFormed, TypeOK
<1>6. comp' = [comp EXCEPT ![s] = c] /\ harvested' = [harvested EXCEPT ![s] = @ + 0]
  <2>1. harvested \in [Strategies -> Nat] /\ comp \in [Strategies -> Classes]
    BY DEF WellFormed, TypeOK
  <2>2. [harvested EXCEPT ![s] = @ + 0] = harvested
    BY <2>1
  <2>3. [comp EXCEPT ![s] = comp[s]] = comp
    BY <2>1
  <2> QED
    BY <1>2, <1>5, <2>2, <2>3
<1>7. /\ s \in paused' /\ paused \subseteq paused' /\ paused' \subseteq Strategies
      /\ tainted \subseteq tainted' /\ tainted' \subseteq Strategies
      /\ s \notin tainted' => s \notin moved
  BY <1>2 DEF WellFormed, TypeOK
<1> QED
  BY <1>2, <1>3, <1>4, <1>6, <1>7, CommitConcerns

\* A profit withdrawal rewrites the split of s to c, its tokens are f
\* afterwards, and it pays n out.
LEMMA ClassifyConcerns ==
  ASSUME WellFormed, NEW s \in Strategies, NEW c \in Classes, NEW j \in OpenJobs,
         NEW f \in AllAmounts, NEW n \in Nat, Classify(s, c), Reach(s, j),
         own' = [own EXCEPT ![s] = f], free' \in Amounts, \A t \in Tokens : Balance'[t] = Balance[t],
         paid' = [paid EXCEPT ![s] = @ + n],
         UNCHANGED <<pos, owed, paused, reinvest, holder, hist, counts>>,
         j.kind \in Profit, SettledJob(j), ShapeOf(j, NoParts),
         Books(s) => \A t \in Tokens : f[t] = TotalOf(c)[t],
         Tot(Parts(s).heldProfit) = Tot(c.heldProfit) + n
  PROVE  Concerns(s)
<1>1. PICK a \in Amounts : a = TotalOf(c)
  BY TotalTypes
<1>2. /\ comp' \in [Strategies -> Classes] /\ comp'[s] = c
      /\ alloc' \in [Strategies -> Amounts] /\ alloc'[s] = a
      /\ paid' \in [Strategies -> Nat] /\ paid'[s] = paid[s] + n
      /\ own' \in [Strategies -> AllAmounts] /\ own'[s] = f
      /\ \A r \in Strategies \ {s} : /\ comp'[r] = comp[r] /\ alloc'[r] = alloc[r]
                                     /\ paid'[r] = paid[r] /\ own'[r] = own[r]
      /\ UNCHANGED <<harvested, moved, tainted, made, outside, fails>>
  BY <1>1 DEF WellFormed, TypeOK, Classify, AllAmounts, hist, counts
<1>3. j # NoJob /\ j.kind \notin Ordinary /\ j.kind # None
  BY NoneIsNone DEF Ordinary, Profit
<1>4. ShapeOf(j, Parts(s)')
  BY <1>3 DEF ShapeOf
<1>5. job' \in [Strategies -> OpenJobs] /\ job'[s] = j /\ Shapes'
  BY <1>2, <1>3, <1>4, OneJob DEF WellFormed
<1>6. Balance' \in Amounts
  <2>1. Balance \in Amounts
    BY DEF WellFormed, TypeOK
  <2>2. Balance' = [t \in Tokens |-> Balance'[t]]
    BY DEF Balance
  <2>3. \A t \in Tokens : Balance'[t] \in Nat
    BY <2>1 DEF Amounts
  <2> QED
    BY <2>2, <2>3 DEF Amounts
<1>7. WellFormed'
  BY <1>2, <1>5, <1>6 DEF WellFormed, TypeOK, AllAmounts
<1>8. \A r \in Strategies \ {s} : job'[r] = job[r]
  BY DEF Reach, WellFormed, TypeOK
<1>9. ASSUME Books(s) PROVE Books(s)'
  <2>1. f = a
    BY <1>1, <1>9, AddedTypes, SameAmounts
  <2>2. BooksOf(j, f, a)
    BY <1>3, <2>1 DEF BooksOf, SettledJob, Ordinary
  <2>3. BooksOf(job[s], own[s], alloc[s])'
    BY <1>2, <1>5, <2>2 DEF BooksOf, SettledJob
  <2> QED
    BY <1>3, <1>5, <2>3 DEF Books, Ordinary
<1>10. ASSUME s \notin paused', Accounted(s) PROVE Accounted(s)'
  <2>1. \A t \in Tokens : Parts(s)'.heldProfit[t] = c.heldProfit[t]
    BY <1>1, <1>2, PartsWritten
  <2>2. Tot(Parts(s)'.heldProfit) = Tot(c.heldProfit)
    BY <2>1 DEF Tot, Tokens
  <2>3. PICK k, m : k = Tot(Parts(s).heldProfit) /\ m = Tot(c.heldProfit)
    OBVIOUS
  <2>4. k = m + n /\ harvested'[s] = k + paid[s]
    BY <1>2, <1>10, <2>3 DEF Accounted
  <2>5. m \in Nat /\ paid[s] \in Nat
    <3>1. c.heldProfit \in Amounts
      BY TotalTypes
    <3> QED
      BY <2>3, <3>1 DEF Tot, Amounts, Tokens, WellFormed, TypeOK
  <2>6. harvested'[s] = m + paid'[s]
    BY <1>2, <2>4, <2>5
  <2> QED
    BY <2>2, <2>3, <2>6 DEF Accounted, Tot
<1> QED
  BY <1>2, <1>7, <1>8, <1>9, <1>10 DEF Concerns

\* The sale of the profit is recorded as an exchange within the profit.
LEMMA RecordSwapConcerns ==
  ASSUME WellFormed, NEW s \in Strategies, RecordSwap(s)
  PROVE  Concerns(s)
<1>1. PICK c : c = Sold(s)
  OBVIOUS
<1>2. PICK j : j = [job[s] EXCEPT !.at = "recorded"]
  OBVIOUS
<1>3. PICK n : n = ToSell(s)
  OBVIOUS
<1>4. /\ job[s].kind \in Profit /\ job[s].at = "swapped" /\ Classify(s, c) /\ Reach(s, j)
      /\ UNCHANGED <<chain, paid, paused, reinvest, holder, hist, counts>>
  BY <1>1, <1>2 DEF RecordSwap, Runs
<1>5. /\ Parts(s) \in Classes /\ TotalOf(Parts(s)) = alloc[s]
      /\ Parts(s).principal \in Amounts /\ Parts(s).heldFee \in Amounts
      /\ Parts(s).heldProfit \in AllAmounts /\ n \in Nat /\ own[s] \in AllAmounts
      /\ job[s] \in OpenJobs
  <2>1. n \in Nat
    BY <1>3, JobTypes DEF ToSell, WellFormed, Amounts, Tokens
  <2> QED
    BY <2>1, PartsTypes, TotalTypes, AddedTypes, JobTypes DEF WellFormed
<1>6. PICK h : h = Exchange(Parts(s).heldProfit, n)
  OBVIOUS
<1>7. /\ c.principal = Parts(s).principal /\ c.heldFee = Parts(s).heldFee /\ c.heldProfit = h
      /\ c = [principal |-> c.principal, heldFee |-> c.heldFee, heldProfit |-> c.heldProfit]
  BY <1>1, <1>3, <1>5, <1>6 DEF Sold, Classes
<1>8. h \in AllAmounts /\ h["risk"] = Parts(s).heldProfit["risk"] - n
      /\ h["quote"] = Parts(s).heldProfit["quote"] + n
  BY <1>5, <1>6, Exchanged
<1>9. c \in Classes
  <2>1. h \in Amounts
    BY <1>4, <1>7, <1>8, NonNegative DEF Classify, Valid
  <2> QED
    BY <1>5, <1>7, <2>1 DEF Classes
<1>10. j \in OpenJobs /\ j.kind = job[s].kind /\ j.at = "recorded"
  BY <1>2, <1>5 DEF OpenJobs, Stages
<1>11. SettledJob(j) /\ ShapeOf(j, NoParts) /\ j.kind \in Profit
  BY <1>4, <1>10, NoneIsNone DEF SettledJob, ShapeOf, Ordinary, Profit
<1>12. ASSUME Books(s), NEW t \in Tokens PROVE own[s][t] = TotalOf(c)[t]
  <2>1. own[s]["risk"] = alloc[s]["risk"] - n /\ own[s]["quote"] = alloc[s]["quote"] + n
    BY <1>3, <1>4, <1>12 DEF Books, BooksOf, ToSell
  <2>2. TotalOf(c)[t] = Parts(s).principal[t] + (Parts(s).heldFee[t] + h[t])
    BY <1>7, TotalTypes
  <2>3. alloc[s][t] = Parts(s).principal[t] + (Parts(s).heldFee[t] + Parts(s).heldProfit[t])
    BY <1>5, TotalTypes
  <2>4. /\ Parts(s).principal[t] \in Int /\ Parts(s).heldFee[t] \in Int
        /\ Parts(s).heldProfit[t] \in Int /\ h[t] \in Int
    BY <1>5, <1>8 DEF Amounts, AllAmounts
  <2>5. t = "risk" \/ t = "quote"
    BY DEF Tokens
  <2> QED
    BY <1>5, <1>8, <2>1, <2>2, <2>3, <2>4, <2>5
<1>13. Tot(Parts(s).heldProfit) = Tot(c.heldProfit) + 0
  BY <1>5, <1>7, <1>8 DEF Tot, AllAmounts, Tokens
<1>14. /\ own' = [own EXCEPT ![s] = own[s]] /\ paid' = [paid EXCEPT ![s] = @ + 0]
       /\ free' \in Amounts /\ \A t \in Tokens : Balance'[t] = Balance[t]
       /\ UNCHANGED <<pos, owed, paused, reinvest, holder, hist, counts>>
  <2>1. UNCHANGED <<pos, owed, own, free, paid, paused, reinvest, holder, hist, counts>>
        /\ Balance' = Balance
    BY <1>4 DEF chain, Balance
  <2>2. paid \in [Strategies -> Nat] /\ own \in [Strategies -> AllAmounts] /\ free \in Amounts
    BY DEF WellFormed, TypeOK, AllAmounts
  <2>3. [paid EXCEPT ![s] = @ + 0] = paid /\ [own EXCEPT ![s] = own[s]] = own
    BY <2>2
  <2> QED
    BY <2>1, <2>2, <2>3
<1> QED
  BY <1>4, <1>5, <1>9, <1>10, <1>11, <1>12, <1>13, <1>14, ClassifyConcerns

\* The release takes from the rows what it pays out; the wallet keeps it as the
\* owner's, or has unwrapped it before.
LEMMA ReleaseConcerns ==
  ASSUME WellFormed, NEW s \in Strategies, Release(s)
  PROVE  Concerns(s)
<1>1. PICK c : c = [Parts(s) EXCEPT !.heldProfit["quote"] = 0]
  OBVIOUS
<1>2. PICK j : j = [job[s] EXCEPT !.at = "released"]
  OBVIOUS
<1>3. PICK p : p = job[s].profit
  OBVIOUS
<1>4. PICK n : n = Tot(p)
  OBVIOUS
<1>5. /\ job[s].kind \in Profit /\ Classify(s, c) /\ Reach(s, j)
      /\ \/ job[s].kind = "keep" /\ job[s].at = "priced"
         \/ job[s].kind = "ETH" /\ job[s].at = "unwrapped"
      /\ Parts(s).heldProfit["quote"] = p["quote"]
      /\ paid' = [paid EXCEPT ![s] = @ + n]
      /\ IF job[s].kind = "keep"
         THEN own' = [own EXCEPT ![s] = Minus(@, p)] /\ free' = Plus(free, p)
         ELSE UNCHANGED <<own, free>>
      /\ UNCHANGED <<pos, owed, paused, reinvest, holder, hist, counts>> /\ holder = s
  BY <1>1, <1>2, <1>3, <1>4 DEF Release, Runs, Profit
<1>6. /\ Parts(s) \in Classes /\ TotalOf(Parts(s)) = alloc[s]
      /\ Parts(s).principal \in Amounts /\ Parts(s).heldFee \in Amounts
      /\ Parts(s).heldProfit \in Amounts /\ own[s] \in AllAmounts
      /\ job[s] \in OpenJobs /\ p \in Amounts /\ p \in AllAmounts /\ free \in Amounts
  BY <1>3, PartsTypes, TotalTypes, AddedTypes, JobTypes DEF WellFormed, TypeOK
<1>7. p["risk"] = 0 /\ n = p["quote"] /\ n \in Nat
  <2>1. ShapeOf(job[s], Parts(s))
    BY DEF WellFormed, Shapes
  <2>2. p["risk"] = 0
    BY <1>3, <1>5, <2>1 DEF ShapeOf
  <2> QED
    BY <1>4, <1>6, <2>2 DEF Tot, Amounts, Tokens
<1>8. PICK h : h = [Parts(s).heldProfit EXCEPT !["quote"] = 0]
  OBVIOUS
<1>9. /\ h \in Amounts /\ h["risk"] = Parts(s).heldProfit["risk"] /\ h["quote"] = 0
      /\ c.principal = Parts(s).principal /\ c.heldFee = Parts(s).heldFee /\ c.heldProfit = h
      /\ c \in Classes
  BY <1>1, <1>6, <1>8 DEF Classes, Amounts, Tokens
<1>10. j \in OpenJobs /\ j.kind = job[s].kind /\ j.at = "released"
  BY <1>2, <1>6 DEF OpenJobs, Stages
<1>11. SettledJob(j) /\ ShapeOf(j, NoParts) /\ j.kind \in Profit
  BY <1>5, <1>10, NoneIsNone DEF SettledJob, ShapeOf, Ordinary, Profit
\* what the strategy has after the release
<1>12. PICK f \in AllAmounts : f = IF job[s].kind = "keep" THEN Minus(own[s], p) ELSE own[s]
  BY <1>6, AddedTypes
<1>13. /\ own' = [own EXCEPT ![s] = f] /\ free' \in Amounts
       /\ \A t \in Tokens : Balance'[t] = Balance[t]
  <2>1. CASE job[s].kind = "keep"
    <3>1. own' = [own EXCEPT ![s] = f] /\ free' = Plus(free, p) /\ free' \in Amounts
      BY <1>5, <1>6, <1>12, <2>1, AddedTypes DEF WellFormed, TypeOK
    <3>2. ASSUME NEW t \in Tokens PROVE Balance'[t] = Balance[t]
      <4>1. Balance'[t] = Balance[t] + (free'[t] - free[t]) + (f[t] - own[s][t])
        BY <3>1, BalanceMoves DEF WellFormed
      <4>2. free'[t] = free[t] + p[t] /\ f[t] = own[s][t] - p[t]
        BY <1>12, <2>1, <3>1, Added
      <4>3. free[t] \in Int /\ p[t] \in Int /\ own[s][t] \in Int /\ Balance[t] \in Int
        BY <1>6 DEF Amounts, AllAmounts, WellFormed, TypeOK
      <4> QED
        BY <4>1, <4>2, <4>3
    <3> QED
      BY <3>1, <3>2
  <2>2. CASE job[s].kind # "keep"
    <3>1. own' = own /\ free' = free /\ Balance' = Balance /\ f = own[s]
      BY <1>5, <1>12, <2>2 DEF Balance
    <3>2. own = [own EXCEPT ![s] = own[s]]
      BY DEF WellFormed, TypeOK
    <3> QED
      BY <1>6, <3>1, <3>2
  <2> QED
    BY <2>1, <2>2
<1>14. ASSUME Books(s), NEW t \in Tokens PROVE f[t] = TotalOf(c)[t]
  <2>1. f[t] = alloc[s][t] - p[t]
    <3>1. CASE job[s].kind = "keep"
      <4>1. own[s] = alloc[s]
        BY <1>5, <1>14, <3>1 DEF Books, BooksOf, SettledJob
      <4> QED
        BY <1>12, <3>1, <4>1, Added
    <3>2. CASE job[s].kind # "keep"
      BY <1>3, <1>5, <1>12, <1>14, <3>2 DEF Books, BooksOf
    <3> QED
      BY <3>1, <3>2
  <2>2. TotalOf(c)[t] = Parts(s).principal[t] + (Parts(s).heldFee[t] + h[t])
    BY <1>9, TotalTypes
  <2>3. alloc[s][t] = Parts(s).principal[t] + (Parts(s).heldFee[t] + Parts(s).heldProfit[t])
    BY <1>6, TotalTypes
  <2>4. /\ Parts(s).principal[t] \in Int /\ Parts(s).heldFee[t] \in Int
        /\ Parts(s).heldProfit[t] \in Int /\ p[t] \in Int
    BY <1>6 DEF Amounts
  <2>5. t = "risk" \/ t = "quote"
    BY DEF Tokens
  <2> QED
    BY <1>5, <1>7, <1>9, <2>1, <2>2, <2>3, <2>4, <2>5
<1>15. Tot(Parts(s).heldProfit) = Tot(c.heldProfit) + n
  BY <1>5, <1>6, <1>7, <1>9 DEF Tot, Amounts, Tokens
<1> QED
  BY <1>5, <1>7, <1>9, <1>10, <1>11, <1>12, <1>13, <1>14, <1>15, ClassifyConcerns

\* Turning reinvest on moves held fees to the principal: no total changes, and
\* the profit is left alone.
LEMMA Compounded ==
  ASSUME WellFormed, NEW s \in Strategies, Compound(s)
  PROVE  /\ comp' \in [Strategies -> Classes]
         /\ \A r \in Strategies \ {s} : comp'[r] = comp[r]
         /\ reinvest' = reinvest \cup {s}
         /\ UNCHANGED <<chain, alloc, paid, paused, job, holder, hist, counts>>
         /\ Parts(s)'.heldProfit = Parts(s).heldProfit
<1>1. PICK c : c = [comp[s] EXCEPT !.principal = Plus(@, comp[s].heldFee), !.heldFee = Zero]
  OBVIOUS
<1>2. /\ comp[s] \in Classes /\ comp \in [Strategies -> Classes]
      /\ comp[s].principal \in Amounts /\ comp[s].heldFee \in Amounts
      /\ comp[s].heldProfit \in Amounts
  BY TotalTypes DEF WellFormed, TypeOK
<1>3. /\ Plus(comp[s].principal, comp[s].heldFee) \in Amounts /\ Zero \in Amounts
  BY <1>2, AddedTypes
<1>4. /\ c \in Classes /\ c.heldProfit = comp[s].heldProfit /\ c.heldFee = Zero
      /\ c.principal = Plus(comp[s].principal, comp[s].heldFee)
  BY <1>1, <1>2, <1>3 DEF Classes
<1>5. /\ comp' = [comp EXCEPT ![s] = c] /\ comp' \in [Strategies -> Classes] /\ comp'[s] = c
      /\ \A r \in Strategies \ {s} : comp'[r] = comp[r]
      /\ reinvest' = reinvest \cup {s}
      /\ UNCHANGED <<chain, alloc, paid, paused, job, holder, hist, counts>>
  <2>1. comp' = [comp EXCEPT ![s] = c]
    BY <1>1, <1>2 DEF Compound
  <2> QED
    BY <1>2, <1>4, <2>1 DEF Compound
<1>6. Parts(s)'.heldProfit = Parts(s).heldProfit
  <2>1. ASSUME NEW t \in Tokens PROVE TotalOf(c)[t] = TotalOf(comp[s])[t]
    <3>1. TotalOf(c)[t] = c.principal[t] + (c.heldFee[t] + c.heldProfit[t])
      BY TotalTypes
    <3>2. c.principal[t] = comp[s].principal[t] + comp[s].heldFee[t] /\ c.heldFee[t] = 0
      BY <1>4, Added
    <3>3. TotalOf(comp[s])[t] = comp[s].principal[t] + (comp[s].heldFee[t] + comp[s].heldProfit[t])
      BY TotalTypes
    <3>4. /\ comp[s].principal[t] \in Int /\ comp[s].heldFee[t] \in Int
          /\ comp[s].heldProfit[t] \in Int
      BY <1>2 DEF Amounts
    <3> QED
      BY <1>4, <3>1, <3>2, <3>3, <3>4
  <2>2. Parts(s)'.heldProfit =
          [t \in Tokens |-> IF TotalOf(c)[t] = alloc[s][t] THEN c.heldProfit[t] ELSE 0]
    BY <1>5 DEF Parts, TotalOf, Plus
  <2>3. Parts(s).heldProfit =
          [t \in Tokens |-> IF TotalOf(comp[s])[t] = alloc[s][t] THEN comp[s].heldProfit[t] ELSE 0]
    BY DEF Parts
  <2> QED
    BY <1>4, <2>1, <2>2, <2>3
<1> QED
  BY <1>5, <1>6

\* So it keeps the books and the accounts.
LEMMA CompoundConcerns ==
  ASSUME WellFormed, NEW s \in Strategies, Compound(s)
  PROVE  Concerns(s)
<1>1. /\ comp' \in [Strategies -> Classes]
      /\ \A r \in Strategies \ {s} : comp'[r] = comp[r]
      /\ reinvest' = reinvest \cup {s}
      /\ UNCHANGED <<chain, alloc, paid, paused, job, holder, hist, counts>>
      /\ Parts(s)'.heldProfit = Parts(s).heldProfit
  BY Compounded
<1>2. job[s].kind \notin Ordinary
  BY NoneIsNone DEF Compound, AtRest, Busy, Ordinary, Profit
<1>3. Shapes'
  <2>1. ASSUME NEW r \in Strategies PROVE ShapeOf(job[r], Parts(r))'
    <3>1. job' = job /\ ShapeOf(job[r], Parts(r))
      BY <1>1 DEF WellFormed, Shapes
    <3>2. CASE r = s
      BY <1>2, <3>1, <3>2 DEF ShapeOf
    <3>3. CASE r # s
      <4>1. Parts(r)' = Parts(r)
        BY <1>1, <3>3 DEF Parts
      <4> QED
        BY <3>1, <4>1 DEF ShapeOf
    <3> QED
      BY <3>2, <3>3
  <2>2. holder' # None => Busy(holder)'
    BY <1>1 DEF WellFormed, Shapes, Busy
  <2> QED
    BY <2>1, <2>2 DEF Shapes
<1>4. UNCHANGED <<pos, owed, own, free, alloc, paid, paused, job, holder, harvested, moved,
                  tainted, made, outside, fails>> /\ Balance' = Balance
  BY <1>1 DEF chain, hist, counts, Balance
<1>5. WellFormed'
  BY <1>1, <1>3, <1>4 DEF WellFormed, TypeOK
<1>6. Books(s) => Books(s)'
  BY <1>4 DEF Books, BooksOf, SettledJob
<1>7. Accounted(s) => Accounted(s)'
  BY <1>1, <1>4 DEF Accounted, Tot
<1> QED
  BY <1>1, <1>4, <1>5, <1>6, <1>7 DEF Concerns

\* Fees accrue in the pool, and the owner's tokens are nobody's: no job is told.
LEMMA OutsideConcerns ==
  ASSUME WellFormed, NEW s \in Strategies, AccrueFee(s) \/ \E t \in Tokens : Deposit(t)
  PROVE  Concerns(s)
<1>1. /\ UNCHANGED <<pos, own, tables, job, holder, harvested, tainted, made, fails>>
      /\ UNCHANGED <<alloc, comp, paid, paused, reinvest>>
      /\ outside' \in 0 .. MaxOutside
      /\ owed' \in [Strategies -> Amounts] /\ free' \in Amounts /\ free \in Amounts
      /\ moved' \subseteq Strategies
      /\ \A t \in Tokens : free'[t] >= free[t]
      /\ \/ free' = free /\ moved' = moved
         \/ Moves(None)
  <2>1. CASE AccrueFee(s)
    <3>1. Only("risk", 1) \in Amounts
      BY OnlyOne DEF Tokens
    <3>2. owed' \in [Strategies -> Amounts]
      BY <2>1, <3>1, AddedTypes DEF AccrueFee, WellFormed, TypeOK
    <3>3. outside' \in 0 .. MaxOutside /\ free \in Amounts /\ free' = free /\ moved' = moved
      BY <2>1, FundsAssumption DEF AccrueFee, WellFormed, TypeOK, hist
    <3>4. \A t \in Tokens : free'[t] >= free[t]
      BY <3>3 DEF Amounts
    <3> QED
      BY <2>1, <3>2, <3>3, <3>4 DEF AccrueFee, WellFormed, TypeOK, hist, tables
  <2>2. CASE \E t \in Tokens : Deposit(t)
    <3> PICK t \in Tokens : Deposit(t)
      BY <2>2
    <3>1. Only(t, 1) \in Amounts /\ free \in Amounts
      BY OnlyOne DEF WellFormed, TypeOK
    <3>2. free' = Plus(free, Only(t, 1)) /\ Moves(None)
      BY DEF Deposit
    <3>3. free' \in Amounts /\ moved' \subseteq Strategies
      BY <3>1, <3>2, AddedTypes, MovesType DEF WellFormed
    <3>4. ASSUME NEW u \in Tokens PROVE free'[u] >= free[u]
      <4>1. free'[u] = free[u] + Only(t, 1)[u] /\ Only(t, 1)[u] \in Nat /\ free[u] \in Nat
        BY <3>1, <3>2, Added DEF Amounts
      <4> QED
        BY <4>1
    <3>5. outside' \in 0 .. MaxOutside
      BY FundsAssumption DEF Deposit, WellFormed, TypeOK
    <3> QED
      BY <3>1, <3>2, <3>3, <3>4, <3>5 DEF Deposit, WellFormed, TypeOK, tables
  <2> QED
    BY <2>1, <2>2
<1> PICK f \in AllAmounts : f = own[s]
  BY DEF WellFormed, TypeOK, AllAmounts
<1>2. own' = [own EXCEPT ![s] = f] /\ free' \in Amounts /\ TypeOK
      /\ own' \in [Strategies -> AllAmounts]
  BY <1>1 DEF WellFormed, TypeOK, AllAmounts
<1>3. ASSUME NEW t \in Tokens PROVE Balance'[t] >= 0
  <2>1. Balance'[t] = Balance[t] + (free'[t] - free[t]) + (f[t] - own[s][t])
    BY <1>2, BalanceMoves
  <2>2. own[s][t] \in Int /\ f[t] = own[s][t]
    BY <1>2 DEF AllAmounts
  <2>3. Balance[t] \in Nat
    BY DEF WellFormed, TypeOK, Amounts
  <2>4. free[t] \in Nat
    BY DEF WellFormed, TypeOK, Amounts
  <2>5. free'[t] \in Nat /\ free'[t] >= free[t]
    BY <1>1 DEF Amounts
  <2> QED
    BY <2>1, <2>2, <2>3, <2>4, <2>5
<1>4. Balance' \in Amounts
  BY <1>2, <1>3, BalanceMoves
<1>5. WellFormed'
  <2>1. TypeOK'
    BY <1>1, <1>2, <1>4 DEF WellFormed, TypeOK, AllAmounts
  <2>2. Shapes'
    BY <1>1 DEF WellFormed, Shapes, Parts, Busy
  <2> QED
    BY <2>1, <2>2 DEF WellFormed
<1>6. CASE free' = free /\ moved' = moved
  <2>1. Balance' = Balance
    BY <1>1, <1>6 DEF Balance
  <2>2. (Books(s) => Books(s)') /\ (Accounted(s) => Accounted(s)')
    BY <1>1, <1>6, <2>1 DEF Books, BooksOf, SettledJob, Accounted, Tot, Parts
  <2> QED
    BY <1>1, <1>5, <1>6, <2>1, <2>2 DEF Concerns
<1>7. CASE Moves(None)
  <2>1. \A r \in Strategies : Busy(r) => r \in moved'
    BY <1>7, NoneIsNone DEF Moves
  <2>2. ASSUME Books(s) PROVE Books(s)'
    <3>1. job'[s].kind \in {"collect", "hold"} => s \in moved'
      BY <1>1, <2>1, NoneIsNone DEF Ordinary, Busy
    <3>2. BooksOf(job[s], own[s], alloc[s])'
      BY <1>1, <2>2 DEF Books, BooksOf, SettledJob
    <3> QED
      BY <3>1, <3>2 DEF Books
  <2>3. Accounted(s) => Accounted(s)'
    BY <1>1 DEF Accounted, Tot, Parts
  <2> QED
    BY <1>1, <1>5, <2>1, <2>2, <2>3 DEF Concerns
<1> QED
  BY <1>1, <1>6, <1>7

-----------------------------------------------------------------------------
(* The theorems *)

\* What the theorems rest on: the types and stages, the books and the accounts.
IInv ==
  /\ WellFormed
  /\ \A s \in Strategies \ tainted : Books(s)
  /\ \A s \in Strategies \ paused : Accounted(s)

\* The invariant holds at first.
LEMMA InitIsRight ==
  ASSUME Init
  PROVE  IInv
<1>1. PICK starts : /\ comp \in [Strategies -> starts] /\ starts \subseteq Classes
                    /\ \A c \in starts : c.heldFee = Zero
  <2>1. Only("risk", 1) \in Amounts /\ NoParts \in Classes /\ NoParts.heldFee = Zero
    BY OnlyOne, TotalTypes DEF Tokens, NoParts
  <2>2. /\ [NoParts EXCEPT !.principal = Only("risk", 1)] \in Classes
        /\ [NoParts EXCEPT !.heldProfit = Only("risk", 1)] \in Classes
    BY <2>1 DEF Classes
  <2>3. /\ [NoParts EXCEPT !.principal = Only("risk", 1)].heldFee = Zero
        /\ [NoParts EXCEPT !.heldProfit = Only("risk", 1)].heldFee = Zero
    BY DEF NoParts
  <2>4. PICK starts : starts = {NoParts, [NoParts EXCEPT !.principal = Only("risk", 1)],
                                [NoParts EXCEPT !.heldProfit = Only("risk", 1)]}
    OBVIOUS
  <2>5. comp \in [Strategies -> starts]
    BY <2>4 DEF Init
  <2>6. starts \subseteq Classes /\ \A c \in starts : c.heldFee = Zero
    BY <2>1, <2>2, <2>3, <2>4
  <2> QED
    BY <2>5, <2>6
<1>2. \A s \in Strategies : comp[s] \in Classes /\ TotalOf(comp[s]) \in Amounts
                            /\ comp[s].heldProfit \in Amounts
  BY <1>1, TotalTypes
<1>3. alloc \in [Strategies -> Amounts] /\ comp \in [Strategies -> Classes] /\ own = alloc
      /\ \A s \in Strategies : alloc[s] = TotalOf(comp[s])
  BY <1>1, <1>2 DEF Init
<1>4. free = Zero /\ Zero \in Amounts /\ own \in [Strategies -> AllAmounts]
  BY <1>3, AddedTypes DEF Init, Amounts, AllAmounts
<1>5. Balance \in Amounts
  <2>1. ASSUME NEW t \in Tokens PROVE Balance[t] \in Nat
    <3>1. PICK g : g = [s \in Strategies |-> own[s][t]]
      OBVIOUS
    <3>2. IsFiniteSet(Strategies) /\ \A s \in Strategies : g[s] \in Nat
      BY <1>3, <3>1, FundsAssumption DEF Amounts
    <3>3. SumFunctionOnSet(g, Strategies) \in Nat
      BY <3>2, SumNat
    <3>4. Balance[t] = free[t] + SumFunctionOnSet(g, Strategies) /\ free[t] \in Nat
      BY <1>4, <3>1, BalanceAt DEF Amounts
    <3> QED
      BY <3>3, <3>4
  <2>2. Balance = [t \in Tokens |-> Balance[t]]
    BY DEF Balance
  <2> QED
    BY <2>1, <2>2 DEF Amounts
<1>6. job \in [Strategies -> OpenJobs] /\ \A s \in Strategies : job[s] = NoJob
  BY NoJobType DEF Init
<1>7. harvested \in [Strategies -> Nat]
      /\ \A s \in Strategies : harvested[s] = Tot(comp[s].heldProfit)
  BY <1>2 DEF Init, Tot, Amounts, Tokens
<1>8. TypeOK
  <2>1. pos \in [Strategies -> Amounts] /\ owed \in [Strategies -> Amounts]
    BY OnlyOne, AddedTypes DEF Init, Tokens
  <2>2. /\ holder = None /\ paid \in [Strategies -> Nat]
        /\ paused = {} /\ reinvest = {} /\ moved = {} /\ tainted = {}
        /\ made \in 0 .. MaxJobs /\ outside \in 0 .. MaxOutside /\ fails \in 0 .. MaxFails
    BY FundsAssumption DEF Init
  <2> QED
    BY <1>3, <1>4, <1>5, <1>6, <1>7, <2>1, <2>2 DEF TypeOK, AllAmounts
<1>9. WellFormed
  <2>1. \A s \in Strategies : ShapeOf(job[s], Parts(s))
    BY <1>6, NoneIsNone DEF ShapeOf, Ordinary, Profit
  <2> QED
    BY <1>8, <2>1 DEF WellFormed, Shapes, Init
<1>10. ASSUME NEW s \in Strategies PROVE Books(s)
  BY <1>3, <1>6, NoneIsNone DEF Books, BooksOf, Ordinary, Profit
<1>11. ASSUME NEW s \in Strategies PROVE Accounted(s)
  <2>1. Parts(s).heldProfit = [t \in Tokens |-> comp[s].heldProfit[t]]
    BY <1>3 DEF Parts
  <2>2. Tot(Parts(s).heldProfit) = Tot(comp[s].heldProfit)
    BY <2>1 DEF Tot, Tokens
  <2>3. Tot(comp[s].heldProfit) \in Nat /\ paid[s] = 0
    BY <1>2 DEF Init, Tot, Amounts, Tokens
  <2> QED
    BY <1>7, <2>2, <2>3 DEF Accounted
<1> QED
  BY <1>9, <1>10, <1>11 DEF IInv

\* A step of s, of its job or of the world.
StepOf(s) ==
  \/ AccrueFee(s)
  \/ \E kind \in Ordinary : Start(s, kind)
  \/ Exit(s) \/ Collect(s) \/ ConvertFees(s) \/ SwapForRange(s) \/ SellAll(s)
  \/ \E carry, profit \in Leftovers : Mint(s, carry, profit)
  \/ CommitRecenter(s) \/ CommitCollect(s) \/ CommitHold(s)
  \/ Throw(s) \/ Crash(s) \/ Resume(s)
  \/ \E target \in Profit : StartProfit(s, target)
  \/ SaveContext(s) \/ ProfitSwap(s) \/ RecordSwap(s) \/ SaveRelease(s)
  \/ Unwrap(s) \/ AbandonProfit(s) \/ Release(s) \/ CompleteProfit(s)
  \/ Compound(s)
  \/ \E t \in Tokens : Deposit(t)

\* Every step is of one strategy.
LEMMA StepConcerns ==
  ASSUME WellFormed, NEW s \in Strategies, StepOf(s)
  PROVE  Concerns(s)
<1> USE DEF StepOf
<1>1. CASE \E f, j : Moving(s, f, j)
  BY <1>1, MovingConcerns
<1>2. CASE Exit(s) \/ Collect(s) \/ ConvertFees(s) \/ SwapForRange(s) \/ SellAll(s)
  <2>1. \E f, j : Moving(s, f, j)
    BY <1>2, ExitMoves, CollectMoves, ConvertMoves, RangeMoves, SellMoves
  <2> QED
    BY <1>1, <2>1
<1>3. CASE ProfitSwap(s) \/ Unwrap(s)
  <2>1. \E f, j : Moving(s, f, j)
    BY <1>3, SellProfitMoves, UnwrapMoves
  <2> QED
    BY <1>1, <2>1
<1>4. ASSUME NEW carry \in Leftovers, NEW profit \in Leftovers, Mint(s, carry, profit)
      PROVE  Concerns(s)
  <2>1. \E f, j : Moving(s, f, j)
    BY <1>4, MintMoves
  <2> QED
    BY <1>1, <2>1
<1>5. CASE \/ \E kind \in Ordinary : Start(s, kind)
           \/ \E target \in Profit : StartProfit(s, target)
  BY <1>5, StartConcerns
<1>6. CASE CommitRecenter(s) \/ CommitCollect(s) \/ CommitHold(s)
  BY <1>6, RecenterConcerns, CollectConcerns, HoldConcerns
<1>7. CASE Throw(s) \/ Crash(s) \/ Resume(s)
  BY <1>7, EndConcerns, ResumeConcerns
<1>8. CASE SaveContext(s) \/ SaveRelease(s) \/ AbandonProfit(s) \/ CompleteProfit(s)
  BY <1>8, SaveConcerns, DoneConcerns
<1>9. CASE RecordSwap(s) \/ Release(s) \/ Compound(s)
  BY <1>9, RecordSwapConcerns, ReleaseConcerns, CompoundConcerns
<1>10. CASE AccrueFee(s) \/ \E t \in Tokens : Deposit(t)
  BY <1>10, OutsideConcerns
<1> QED
  BY <1>2, <1>3, <1>4, <1>5, <1>6, <1>7, <1>8, <1>9, <1>10

\* Every step keeps the invariant.
LEMMA IInvIsKept ==
  ASSUME IInv, [Next]_vars
  PROVE  IInv'
<1>1. CASE Next
  <2>1. PICK s \in Strategies : Concerns(s)
    <3>1. PICK s \in Strategies : StepOf(s)
      BY <1>1 DEF Next, StepOf
    <3> QED
      BY <3>1, StepConcerns DEF IInv
  <2>2. WellFormed'
    BY <2>1 DEF Concerns
  <2>3. \A r \in Strategies \ tainted' : Books(r)'
    BY <2>1, BooksKept DEF IInv
  <2>4. \A r \in Strategies \ paused' : Accounted(r)'
    BY <2>1, AccountsKept DEF IInv
  <2> QED
    BY <2>2, <2>3, <2>4 DEF IInv
<1>2. CASE UNCHANGED vars
  <2>1. UNCHANGED <<pos, owed, own, free, alloc, comp, paid, paused, reinvest, job, holder,
                    harvested, moved, tainted, made, outside, fails>>
    BY <1>2 DEF vars, chain, tables, hist, counts
  <2>2. Balance' = Balance /\ \A s \in Strategies : Parts(s)' = Parts(s)
    BY <2>1 DEF Balance, Parts
  <2>3. WellFormed'
    BY <2>1, <2>2 DEF IInv, WellFormed, TypeOK, Shapes, ShapeOf, Busy
  <2>4. \A s \in Strategies \ tainted' : Books(s)'
    BY <2>1, <2>2 DEF IInv, Books, BooksOf, SettledJob
  <2>5. \A s \in Strategies \ paused' : Accounted(s)'
    BY <2>1, <2>2 DEF IInv, Accounted, Tot
  <2> QED
    BY <2>3, <2>4, <2>5 DEF IInv
<1> QED
  BY <1>1, <1>2

\* The invariant always holds.
LEMMA AlwaysIInv == Spec => []IInv
<1>1. Init => IInv
  BY InitIsRight
<1>2. IInv /\ [Next]_vars => IInv'
  BY IInvIsKept
<1> QED
  BY <1>1, <1>2, PTL DEF Spec

(***************************************************************************)
(* The rows, the chain and the job contexts have their types at all times: *)
(* no allocation, no classified amount, no amount of a job's context and   *)
(* no balance of the wallet is ever negative.                              *)
(***************************************************************************)
THEOREM TypesHold == Spec => []TypeOK
<1>1. IInv => TypeOK
  BY DEF IInv, WellFormed
<1> QED
  BY <1>1, AlwaysIInv, PTL

(***************************************************************************)
(* Between jobs the row in allocations is what the receipts of the         *)
(* strategy's jobs prove, for any number of strategies in the wallet,      *)
(* whatever jobs of the others ran, threw, crashed and were recovered in   *)
(* between; only a job that compared balances while others moved the       *)
(* wallet can have written something else (commitFeeCollection and         *)
(* commitHoldQuote).                                                       *)
(***************************************************************************)
THEOREM AllocationStaysOwn == Spec => []AllocationIsOwn
<1>1. ASSUME IInv PROVE AllocationIsOwn
  <2> SUFFICES ASSUME NEW s \in Strategies \ tainted, AtRest(s) PROVE alloc[s] = own[s]
    BY DEF AllocationIsOwn
  <2>1. SettledJob(job[s])
    BY NoneIsNone DEF AtRest, Busy, SettledJob
  <2> QED
    BY <1>1, <2>1 DEF IInv, Books, BooksOf
<1>2. IInv => AllocationIsOwn
  BY <1>1
<1> QED
  BY <1>2, AlwaysIInv, PTL

(***************************************************************************)
(* What capital protection retained is classified as profit or paid out,   *)
(* unit by unit, whatever rebalances, fee collections and interrupted      *)
(* profit withdrawals ran since, until a hold gives the classes up.        *)
(***************************************************************************)
THEOREM ProfitStaysAccounted == Spec => []ProfitAccounted
<1>1. IInv => ProfitAccounted
  BY DEF IInv, ProfitAccounted, Accounted
<1> QED
  BY <1>1, AlwaysIInv, PTL

=============================================================================
