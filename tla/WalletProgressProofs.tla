------------------------- MODULE WalletProgressProofs -------------------------
(***************************************************************************)
(* Theorems about WalletFunds: a job spends only what its strategy has in  *)
(* the wallet, the first attempt at a job never fails the coverage proof   *)
(* halfway, and two strategies never block each other for ever.            *)
(*                                                                         *)
(* Room(s) is what the others and the owner have in the wallet beyond the  *)
(* rows of the others: s passes a coverage proof if what it wants written  *)
(* exceeds its own tokens by no more than that.  Nobody but s moves tokens *)
(* or writes rows while s holds the lock, so what the proof at its start,  *)
(* or at its recovery, said of Room(s) stays true (LockCovers).  Of two    *)
(* jobs interrupted halfway the one that moved last has room (OneHasRoom). *)
(***************************************************************************)
EXTENDS WalletFundsProofs, FiniteSetTheorems

\* what the wallet holds of a token beyond the tokens of s and the rows of the others
Room(s, t) ==
  Balance[t] - own[s][t] - SumFunctionOnSet([r \in Strategies \ {s} |-> alloc[r][t]], Strategies \ {s})

\* what a coverage proof of record j leaves out of the claim of its strategy
Spare(j, t) ==
  IF j.kind = "recenter" /\ j.at \in {"exited", "swapped"} THEN j.prior.heldProfit[t] ELSE 0

HasRoom(s) == \A t \in Tokens : 0 <= Room(s, t) + Spare(job[s], t)

\* What the receipts of record j add up to where BooksOf is silent, and what
\* goes with the stages of a withdrawal; f and a as there, h is the profit the
\* tables say.
ReceiptsOf(j, f, a, h) ==
  /\ j.kind = "collect" /\ j.at = "exited" => \A t \in Tokens : f[t] = a[t] + j.held[t]
  /\ j.kind = "hold" /\ j.at = "exited" =>
       \A t \in Tokens : f[t] = j.lp[t] + j.prior.heldFee[t] + j.prior.heldProfit[t]
  /\ j.kind = "hold" /\ j.at = "swapped" => f["risk"] = 0 /\ f["quote"] >= 0
  /\ j.kind \in Profit /\ j.at \in {"bare", "created", "swapped"} =>
       /\ \A t \in Tokens : h[t] = j.prior.heldProfit[t]
       /\ Tot(h) > 0
  /\ j.kind \in Profit /\ j.at = "swapped" => h["risk"] > 0
  /\ j.kind \in Profit /\ j.at = "recorded" => h["quote"] > 0
  /\ j.kind \in Profit /\ j.at \in {"priced", "unwrapped"} => h["quote"] = j.profit["quote"]
  /\ j.kind \in Ordinary /\ j.at = "checked" => ~j.again

Receipts(s) == ReceiptsOf(job[s], own[s], alloc[s], Parts(s).heldProfit)

\* The job of s is under the lock and what it proved to take the lock covers it:
\* in its first attempt, or while it goes on from the wallet.
Covering(s) ==
  /\ holder = s
  /\ \/ ~job[s].again
     \/ job[s].kind = "recenter" /\ job[s].at \in {"exited", "swapped"}

\* in a first attempt the proof left nothing out
LockCovers ==
  \A s \in Strategies : Covering(s) =>
    \A t \in Tokens : 0 <= Room(s, t) + (IF job[s].again THEN Spare(job[s], t) ELSE 0)

\* jobs whose tokens may fall short of their rows; a hold always gets through
Exposed(s) ==
  \/ job[s].kind = "recenter" /\ job[s].at \in {"exited", "swapped", "minted"}
  \/ job[s].kind \in Profit /\ job[s].at \in {"swapped", "unwrapped"}

Unproved(s) ==
  /\ job[s].kind = "recenter" /\ job[s].again
  /\ job[s].at = "minted" /\ job[s].prior.heldProfit # Zero

OneHasRoom ==
  \A s, q \in Strategies :
    s # q /\ Exposed(s) /\ Exposed(q) /\ ~Unproved(s) /\ ~Unproved(q) => HasRoom(s) \/ HasRoom(q)

AtMostTwo == \A s, q, r \in Strategies : s = q \/ q = r \/ s = r

\* What the theorems of this module rest on, beside IInv
PInv ==
  /\ \A s \in Strategies \ tainted : Receipts(s)
  /\ tainted = {} => LockCovers
  /\ tainted = {} /\ AtMostTwo => OneHasRoom
-----------------------------------------------------------------------------
(* Room *)

\* The strategies are finitely many, without one of them too.
LEMMA FewStrategies ==
  IsFiniteSet(Strategies) /\ \A s : IsFiniteSet(Strategies \ {s})
BY FundsAssumption, FS_RemoveElement

\* Amounts of one token.
LEMMA TokenTypes ==
  ASSUME WellFormed, NEW t \in Tokens
  PROVE  /\ Balance[t] \in Nat /\ Balance[t] \in Int /\ free[t] \in Nat /\ free[t] \in Int
         /\ \A s \in Strategies : own[s][t] \in Int /\ alloc[s][t] \in Nat /\ alloc[s][t] \in Int
<1>1. /\ Balance \in Amounts /\ free \in Amounts
      /\ own \in [Strategies -> AllAmounts] /\ alloc \in [Strategies -> Amounts]
  BY DEF WellFormed, TypeOK, AllAmounts
<1> QED
  BY <1>1 DEF Amounts, AllAmounts

\* The parts of Room are integers.
LEMMA RoomIs ==
  ASSUME WellFormed, NEW s \in Strategies, NEW t \in Tokens
  PROVE  /\ SumFunctionOnSet([r \in Strategies \ {s} |-> alloc[r][t]], Strategies \ {s}) \in Int
         /\ Room(s, t) \in Int
<1>2. Balance[t] \in Int /\ own[s][t] \in Int /\ \A r \in Strategies : alloc[r][t] \in Int
  BY TokenTypes
<1>3. PICK g : g = [r \in Strategies \ {s} |-> alloc[r][t]]
  OBVIOUS
<1>4. IsFiniteSet(Strategies \ {s}) /\ \A r \in Strategies \ {s} : g[r] \in Int
  BY <1>2, <1>3, FewStrategies
<1>5. SumFunctionOnSet(g, Strategies \ {s}) \in Int
  BY <1>4, SumInt
<1> QED
  BY <1>2, <1>3, <1>5 DEF Room

\* What the coverage proof of an update asks of Room.
LEMMA CoversMeans ==
  ASSUME WellFormed, NEW s \in Strategies, NEW next \in AllAmounts
  PROVE  Covers(s, next) <=> \A t \in Tokens : next[t] <= own[s][t] + Room(s, t)
<1>1. ASSUME NEW t \in Tokens
      PROVE  next[t] + SumFunction([r \in Strategies \ {s} |-> alloc[r][t]]) <= Balance[t]
               <=> next[t] <= own[s][t] + Room(s, t)
  <2>1. PICK n : n = SumFunctionOnSet([r \in Strategies \ {s} |-> alloc[r][t]], Strategies \ {s})
    OBVIOUS
  <2>2. SumFunction([r \in Strategies \ {s} |-> alloc[r][t]]) = n
    BY <2>1 DEF SumFunction
  <2>3. Room(s, t) = Balance[t] - own[s][t] - n
    BY <2>1 DEF Room
  <2>4. n \in Int /\ Balance[t] \in Int /\ own[s][t] \in Int
    BY <2>1, RoomIs, TokenTypes
  <2>5. next[t] \in Int
    BY DEF AllAmounts
  <2> QED
    BY <2>2, <2>3, <2>4, <2>5
<1> QED
  BY <1>1 DEF Covers

\* What the coverage proof of the present rows says of Room.
LEMMA CoveredMeans ==
  ASSUME WellFormed, Covered, NEW s \in Strategies, NEW t \in Tokens
  PROVE  alloc[s][t] <= own[s][t] + Room(s, t)
<1>1. PICK f, g : f = [r \in Strategies |-> alloc[r][t]] /\ g = [r \in Strategies \ {s} |-> alloc[r][t]]
  OBVIOUS
<1>2. IsFiniteSet(Strategies) /\ IsFiniteSet(Strategies \ {s}) /\ \A r \in Strategies : f[r] \in Int
  BY <1>1, TokenTypes, FewStrategies
<1>3. SumFunctionOnSet(f, Strategies) = f[s] + SumFunctionOnSet(f, Strategies \ {s})
  BY <1>2, SumWithout
<1>4. SumFunctionOnSet(g, Strategies \ {s}) = SumFunctionOnSet(f, Strategies \ {s})
  <2>1. \A r \in Strategies \ {s} : g[r] = f[r] /\ f[r] \in Int
    BY <1>1, <1>2
  <2> QED
    BY <1>2, <2>1, SumSame
<1>5. PICK n : n = SumFunctionOnSet(g, Strategies \ {s})
  OBVIOUS
<1>6. f[s] + n <= Balance[t]
  BY <1>1, <1>3, <1>4, <1>5 DEF Covered, SumFunction
<1>7. Room(s, t) = Balance[t] - own[s][t] - n /\ n \in Int
  BY <1>1, <1>5, RoomIs DEF Room
<1>8. f[s] = alloc[s][t] /\ alloc[s][t] \in Int /\ Balance[t] \in Int /\ own[s][t] \in Int
  BY <1>1, TokenTypes
<1> QED
  BY <1>6, <1>7, <1>8

\* Room shrinks only when the rows of the others change or others spend.
LEMMA RoomKept ==
  ASSUME WellFormed, WellFormed', NEW s \in Strategies, NEW t \in Tokens,
         \A r \in Strategies \ {s} : alloc'[r] = alloc[r],
         Balance[t] - own[s][t] <= Balance'[t] - own'[s][t]
  PROVE  Room(s, t) \in Int /\ Room(s, t)' \in Int /\ Room(s, t) <= Room(s, t)'
<1>1. PICK f, g : /\ f = [r \in Strategies \ {s} |-> alloc[r][t]]
                  /\ g = [r \in Strategies \ {s} |-> alloc'[r][t]]
  OBVIOUS
<1>2. f = g
  BY <1>1
<1>3. PICK n : n = SumFunctionOnSet(f, Strategies \ {s})
  OBVIOUS
<1>4. Room(s, t) = Balance[t] - own[s][t] - n /\ Room(s, t)' = Balance'[t] - own'[s][t] - n
  BY <1>1, <1>2, <1>3 DEF Room
<1>5. n \in Int /\ Balance[t] \in Int /\ own[s][t] \in Int
  BY <1>1, <1>3, RoomIs, TokenTypes
<1>6. Balance'[t] \in Int /\ own'[s][t] \in Int
  BY DEF WellFormed, TypeOK, Amounts
<1> QED
  BY <1>4, <1>5, <1>6

\* If nobody has less than nothing, nobody has more than the wallet.
LEMMA OwnWithin ==
  ASSUME WellFormed, \A r \in Strategies : Leq(Zero, own[r]), NEW s \in Strategies, NEW t \in Tokens
  PROVE  own[s][t] <= Balance[t]
<1>1. PICK f : f = [r \in Strategies |-> own[r][t]]
  OBVIOUS
<1>2. \A r \in Strategies : f[r] \in Nat
  <2> SUFFICES ASSUME NEW r \in Strategies PROVE own[r][t] \in Nat
    BY <1>1
  <2>1. Zero[t] = 0 /\ Zero[t] <= own[r][t] /\ own[r][t] \in Int
    BY Added, TokenTypes DEF Leq
  <2> QED
    BY <2>1
<1>3. IsFiniteSet(Strategies) /\ IsFiniteSet(Strategies \ {s})
  BY FewStrategies
<1>4. PICK n : n = SumFunctionOnSet(f, Strategies \ {s})
  OBVIOUS
<1>5. n \in Nat
  BY <1>2, <1>3, <1>4, SumNat
<1>6. SumFunctionOnSet(f, Strategies) = f[s] + n
  BY <1>2, <1>3, <1>4, SumWithout
<1>7. Balance[t] = free[t] + (f[s] + n) /\ free[t] \in Nat
  BY <1>1, <1>6, BalanceAt, TokenTypes
<1> QED
  BY <1>1, <1>2, <1>5, <1>7

\* With one strategy all the room is the owner's tokens; a second one adds what
\* it has beyond its row.
LEMMA RoomOfTwo ==
  ASSUME WellFormed, NEW s \in Strategies, NEW t \in Tokens
  PROVE  /\ Strategies = {s} => Room(s, t) = free[t]
         /\ \A q \in Strategies : q # s /\ Strategies = {s, q} =>
              Room(s, t) = free[t] + (own[q][t] - alloc[q][t])
<1>1. PICK f, g : f = [r \in Strategies |-> own[r][t]] /\ g = [r \in Strategies \ {s} |-> alloc[r][t]]
  OBVIOUS
<1>2. /\ IsFiniteSet(Strategies) /\ IsFiniteSet(Strategies \ {s}) /\ free[t] \in Int
      /\ \A r \in Strategies : f[r] \in Int /\ f[r] = own[r][t]
      /\ \A r \in Strategies \ {s} : g[r] \in Int /\ g[r] = alloc[r][t]
  BY <1>1, TokenTypes, FewStrategies
<1>3. PICK m, n : m = SumFunctionOnSet(f, Strategies \ {s}) /\ n = SumFunctionOnSet(g, Strategies \ {s})
  OBVIOUS
<1>4. SumFunctionOnSet(f, Strategies) = f[s] + m
  BY <1>2, <1>3, SumWithout
<1>5. Balance[t] = free[t] + (f[s] + m)
  BY <1>1, <1>4, BalanceAt
<1>6. m \in Int /\ n \in Int
  <2>1. \A r \in Strategies \ {s} : f[r] \in Int
    BY <1>2
  <2> QED
    BY <1>2, <1>3, <2>1, SumInt
<1>7. Room(s, t) = Balance[t] - f[s] - n
  BY <1>1, <1>2, <1>3 DEF Room
<1>8. Room(s, t) = free[t] + (m - n)
  <2>1. f[s] \in Int
    BY <1>2
  <2> QED
    BY <1>2, <1>5, <1>6, <1>7, <2>1
<1>9. CASE Strategies = {s}
  <2>1. m = 0 /\ n = 0
    <3>1. Strategies \ {s} = {}
      BY <1>9
    <3> QED
      BY <1>3, <3>1, SumEmpty
  <2>2. \A q \in Strategies : q = s
    BY <1>9
  <2> QED
    BY <1>2, <1>8, <2>1, <2>2
<1>10. ASSUME NEW q \in Strategies, q # s, Strategies = {s, q}
       PROVE  Room(s, t) = free[t] + (own[q][t] - alloc[q][t]) /\ Strategies # {s}
  <2>1. Strategies \ {s} = {q} /\ {q} \ {q} = {} /\ IsFiniteSet({q})
    BY <1>2, <1>10
  <2>2. SumFunctionOnSet(f, {q}) = f[q] + SumFunctionOnSet(f, {})
    <3>1. \A r \in {q} : f[r] \in Int
      BY <1>2
    <3> QED
      BY <2>1, <3>1, SumWithout
  <2>3. SumFunctionOnSet(g, {q}) = g[q] + SumFunctionOnSet(g, {})
    <3>1. \A r \in {q} : g[r] \in Int
      BY <1>2, <2>1
    <3> QED
      BY <2>1, <3>1, SumWithout
  <2>4. f[q] = own[q][t] /\ g[q] = alloc[q][t] /\ f[q] \in Int /\ g[q] \in Int
    BY <1>2, <2>1
  <2>5. m = f[q] /\ n = g[q]
    <3>1. m = f[q] + 0 /\ n = g[q] + 0
      BY <1>3, <2>1, <2>2, <2>3, SumEmpty
    <3> QED
      BY <2>4, <3>1
  <2>6. Strategies # {s}
    BY <1>10
  <2> QED
    BY <1>8, <2>4, <2>5, <2>6
<1> QED
  BY <1>9, <1>10

-----------------------------------------------------------------------------
(* Receipts are kept by every step of a job *)

\* A step of s that leaves its tokens, its row and its profit as they are, and
\* its record but for the end of the attempt; the owner may get tokens.
Quiet(s) ==
  /\ UNCHANGED <<own, alloc>> /\ free' \in Amounts /\ Leq(free, free')
  /\ Parts(s)'.heldProfit = Parts(s).heldProfit
  /\ job'[s].kind = job[s].kind /\ job'[s].at = job[s].at /\ job'[s].prior = job[s].prior
  /\ job'[s].lp = job[s].lp /\ job'[s].held = job[s].held /\ job'[s].profit = job[s].profit
  /\ \/ job'[s].again = job[s].again
     \/ /\ job'[s].again /\ holder' = None
        /\ ~(job[s].kind \in Ordinary /\ job[s].at = "checked")

\* The step closes the job of s.
Closes(s) == job'[s] = NoJob /\ holder' = None /\ UNCHANGED <<own, free>>

\* What Reach writes.
LEMMA Reached ==
  ASSUME WellFormed, NEW s \in Strategies, NEW j, Reach(s, j)
  PROVE  job'[s] = j
BY DEF Reach, WellFormed, TypeOK

\* Amounts are within themselves.
LEMMA LeqSame == \A f \in Amounts : Leq(f, f)
BY DEF Leq, Amounts

\* The end of an attempt.
LEMMA EndsAttempt ==
  ASSUME WellFormed, NEW s \in Strategies, Throw(s) \/ Crash(s)
  PROVE  Quiet(s) \/ Closes(s)
<1>1. PICK stays \in BOOLEAN :
        EndAttempt(s, stays) /\ (stays => ~(job[s].kind \in Ordinary /\ job[s].at = "checked"))
  <2>1. HasLanded(s) \in BOOLEAN /\ (HasLanded(s) => ~(job[s].kind \in Ordinary /\ job[s].at = "checked"))
    BY DEF HasLanded
  <2>2. \A k \in Profit : k \notin Ordinary
    BY DEF Profit, Ordinary
  <2>3. CASE Throw(s)
    BY <2>1, <2>3 DEF Throw
  <2>4. CASE Crash(s)
    <3>1. PICK stays \in BOOLEAN : stays <=> job[s].kind \in Profit \/ HasLanded(s)
      OBVIOUS
    <3>2. EndAttempt(s, job[s].kind \in Profit \/ HasLanded(s))
      BY <2>4 DEF Crash
    <3>3. EndAttempt(s, stays)
      BY <3>1, <3>2 DEF EndAttempt
    <3> QED
      BY <2>1, <2>2, <3>1, <3>3
  <2> QED
    BY <2>3, <2>4
<1>2. UNCHANGED <<own, alloc, comp, free>>
  BY <1>1 DEF EndAttempt, chain, tables
<1>3. CASE stays
  <2>1. job'[s] = [job[s] EXCEPT !.again = TRUE] /\ holder' = None
    BY <1>1, <1>3, Reached DEF EndAttempt
  <2>2. /\ job'[s].kind = job[s].kind /\ job'[s].at = job[s].at /\ job'[s].prior = job[s].prior
        /\ job'[s].lp = job[s].lp /\ job'[s].held = job[s].held /\ job'[s].profit = job[s].profit
        /\ job'[s].again
    BY <2>1, JobTypes DEF WellFormed, OpenJobs
  <2>3. free' \in Amounts /\ Leq(free, free') /\ Parts(s)' = Parts(s)
    BY <1>2, LeqSame, SameParts DEF WellFormed, TypeOK
  <2> QED
    BY <1>1, <1>2, <1>3, <2>1, <2>2, <2>3 DEF Quiet
<1>4. CASE ~stays
  <2>1. Close(s)
    BY <1>1, <1>4 DEF EndAttempt
  <2> QED
    BY <1>2, <2>1 DEF Close, Closes, WellFormed, TypeOK
<1> QED
  BY <1>3, <1>4

\* The steps of the world, of the owner and of recovery.
LEMMA QuietSteps ==
  ASSUME WellFormed, NEW s \in Strategies,
         AccrueFee(s) \/ (\E t \in Tokens : Deposit(t)) \/ Compound(s) \/ Resume(s)
  PROVE  Quiet(s)
<1>1. UNCHANGED <<own, alloc, job>> /\ Parts(s)'.heldProfit = Parts(s).heldProfit
  <2>1. CASE Compound(s)
    BY <2>1, Compounded DEF chain
  <2>2. CASE AccrueFee(s) \/ (\E t \in Tokens : Deposit(t)) \/ Resume(s)
    <3>1. UNCHANGED <<own, alloc, comp, job>>
      BY <2>2 DEF AccrueFee, Deposit, Resume, chain, tables
    <3> QED
      BY <3>1, SameParts
  <2> QED
    BY <2>1, <2>2
<1>2. free' \in Amounts /\ Leq(free, free')
  <2>1. free \in Amounts
    BY DEF WellFormed, TypeOK
  <2>2. CASE AccrueFee(s) \/ Compound(s) \/ Resume(s)
    <3>1. free' = free
      BY <2>2 DEF AccrueFee, Compound, Resume, chain
    <3> QED
      BY <2>1, <3>1, LeqSame
  <2>3. ASSUME NEW t \in Tokens, Deposit(t) PROVE free' \in Amounts /\ Leq(free, free')
    <3>1. Only(t, 1) \in Amounts /\ free' = Plus(free, Only(t, 1))
      BY <2>3, OnlyOne DEF Deposit
    <3>2. ASSUME NEW u \in Tokens PROVE free[u] <= free'[u]
      <4>1. free'[u] = free[u] + Only(t, 1)[u] /\ Only(t, 1)[u] \in Nat /\ free[u] \in Nat
        BY <2>1, <3>1, Added DEF Amounts
      <4> QED
        BY <4>1
    <3> QED
      BY <2>1, <3>1, <3>2, AddedTypes DEF Leq
  <2> QED
    BY <2>2, <2>3
<1> QED
  BY <1>1, <1>2 DEF Quiet

\* The steps that close a job when all is done, or when nothing is.
LEMMA ClosingSteps ==
  ASSUME WellFormed, NEW s \in Strategies,
         \/ CommitRecenter(s) \/ CommitCollect(s) \/ CommitHold(s)
         \/ AbandonProfit(s) \/ CompleteProfit(s)
  PROVE  Closes(s)
<1>1. Close(s) /\ UNCHANGED <<own, free>>
  BY DEF CommitRecenter, CommitCollect, CommitHold, AbandonProfit, CompleteProfit, chain
<1> QED
  BY <1>1 DEF Close, Closes, WellFormed, TypeOK

\* Neither disturbs the receipts.
LEMMA QuietReceipts ==
  ASSUME WellFormed, NEW s \in Strategies, Quiet(s) \/ Closes(s), Receipts(s)
  PROVE  Receipts(s)'
<1>1. CASE Quiet(s)
  BY <1>1 DEF Quiet, Receipts, ReceiptsOf, Tot
<1>2. CASE Closes(s)
  <2>1. job'[s].kind = None /\ None \notin Ordinary /\ None \notin Profit
    BY <1>2, NoneIsNone DEF Closes
  <2> QED
    BY <2>1 DEF Receipts, ReceiptsOf, Ordinary
<1> QED
  BY <1>1, <1>2

\* A kind of ordinary job is none of a withdrawal, and the three differ.
LEMMA Kinds ==
  /\ \A k \in Profit : k \notin Ordinary /\ k \notin {"recenter", "collect", "hold"}
  /\ {"recenter", "collect", "hold"} \subseteq Ordinary
BY DEF Profit, Ordinary

\* A new job of a withdrawal takes the split down; an ordinary one is new.
LEMMA StartReceipts ==
  ASSUME WellFormed, NEW s \in Strategies,
         \/ \E kind \in Ordinary : Start(s, kind)
         \/ \E target \in Profit : StartProfit(s, target)
  PROVE  Receipts(s)' /\ UNCHANGED <<own, alloc, comp, free>>
<1>1. ASSUME NEW kind \in Ordinary, Start(s, kind)
      PROVE  Receipts(s)' /\ UNCHANGED <<own, alloc, comp, free>>
  <2>1. /\ job'[s] = [NoJob EXCEPT !.kind = kind, !.at = "checked", !.base = Balance, !.prior = Parts(s)]
        /\ UNCHANGED <<own, alloc, comp, free>>
    BY <1>1, Reached DEF Start, chain, tables
  <2>2. job'[s].kind = kind /\ job'[s].at = "checked" /\ job'[s].again = FALSE
    BY <2>1 DEF NoJob
  <2> QED
    BY <2>1, <2>2, Kinds DEF Receipts, ReceiptsOf
<1>2. ASSUME NEW target \in Profit, StartProfit(s, target)
      PROVE  Receipts(s)' /\ UNCHANGED <<own, alloc, comp, free>>
  <2>1. /\ job'[s] = [NoJob EXCEPT !.kind = target, !.at = "bare", !.prior = Parts(s)]
        /\ UNCHANGED <<own, alloc, comp, free>> /\ Tot(Parts(s).heldProfit) > 0
    BY <1>2, Reached DEF StartProfit, chain, tables
  <2>2. job'[s].kind = target /\ job'[s].at = "bare" /\ job'[s].prior = Parts(s)
    BY <2>1 DEF NoJob
  <2>3. Parts(s)' = Parts(s)
    BY <2>1, SameParts
  <2> QED
    BY <2>1, <2>2, <2>3, Kinds DEF Receipts, ReceiptsOf
<1> QED
  BY <1>1, <1>2

\* A withdrawal that saves its context, or the amount to release.
LEMMA SaveReceipts ==
  ASSUME WellFormed, NEW s \in Strategies, SaveContext(s) \/ SaveRelease(s), Receipts(s)
  PROVE  /\ Receipts(s)' /\ UNCHANGED <<own, alloc, comp, free>>
         /\ job'[s].kind \in Profit /\ job'[s].at \in {"created", "priced"}
<1>1. job[s] \in OpenJobs /\ job[s].kind \in Profit /\ UNCHANGED <<own, alloc, comp, free>>
  BY JobTypes DEF SaveContext, SaveRelease, Runs, WellFormed, chain, tables
<1>2. Parts(s)' = Parts(s)
  BY <1>1, SameParts
<1>3. CASE SaveContext(s)
  <2>1. job[s].at = "bare" /\ job'[s] = [job[s] EXCEPT !.at = "created"]
    BY <1>3, Reached DEF SaveContext, Runs
  <2>2. job'[s].kind = job[s].kind /\ job'[s].at = "created" /\ job'[s].prior = job[s].prior
    BY <1>1, <2>1 DEF OpenJobs
  <2> QED
    BY <1>1, <1>2, <2>1, <2>2, Kinds DEF Receipts, ReceiptsOf
<1>4. CASE SaveRelease(s)
  <2>1. PICK n : n = Parts(s).heldProfit["quote"]
    OBVIOUS
  <2>2. PICK p : p = Only("quote", n)
    OBVIOUS
  <2>3. p["quote"] = n
    <3>1. Parts(s).heldProfit \in Amounts /\ "quote" \in Tokens
      BY PartsTypes, TotalTypes DEF WellFormed, Tokens
    <3>2. n \in Nat
      BY <2>1, <3>1 DEF Amounts
    <3> QED
      BY <2>2, <3>1, <3>2, OnlyOne
  <2>4. job'[s] = [job[s] EXCEPT !.at = "priced", !.profit = p]
    <3>1. Reach(s, [job[s] EXCEPT !.at = "priced", !.profit = Only("quote", Parts(s).heldProfit["quote"])])
      BY <1>4 DEF SaveRelease
    <3> QED
      BY <2>1, <2>2, <3>1, Reached
  <2>5. job'[s].kind = job[s].kind /\ job'[s].at = "priced" /\ job'[s].profit = p
    BY <1>1, <2>4 DEF OpenJobs
  <2> QED
    BY <1>1, <1>2, <2>1, <2>3, <2>5, Kinds DEF Receipts, ReceiptsOf
<1> QED
  BY <1>3, <1>4

\* A fee collection and a hold leave the chain's amounts in the wallet.
LEMMA ExitReceipts ==
  ASSUME WellFormed, NEW s \in Strategies, Exit(s) \/ Collect(s), Books(s)
  PROVE  Receipts(s)'
<1>1. /\ job[s] \in OpenJobs /\ own[s] \in AllAmounts /\ pos[s] \in Amounts /\ owed[s] \in Amounts
      /\ own \in [Strategies -> AllAmounts] /\ alloc' = alloc /\ alloc[s] \in Amounts
      /\ job[s].prior.principal \in Amounts
  BY JobTypes DEF WellFormed, TypeOK, Exit, Collect, tables, AllAmounts
<1>2. job[s].kind \in Ordinary /\ job[s].at = "checked"
  BY DEF Exit, Collect, Runs, Ordinary
<1>3. own[s] = alloc[s] /\ TotalOf(job[s].prior) = alloc[s]
  <2>1. SettledJob(job[s]) /\ job[s].prior = Parts(s)
    BY <1>2 DEF SettledJob, WellFormed, Shapes, ShapeOf
  <2> QED
    BY <2>1, PartsTypes DEF Books, BooksOf, WellFormed
<1>4. CASE Exit(s)
  <2>1. PICK d : d = Plus(pos[s], job[s].prior.principal)
    OBVIOUS
  <2>2. PICK g : g = IF job[s].kind = "hold" \/ s \in reinvest THEN owed[s] ELSE Zero
    OBVIOUS
  <2>3. PICK l : l = Plus(d, g)
    OBVIOUS
  <2>4. PICK m : m = Minus(owed[s], g)
    OBVIOUS
  <2>5. /\ own'[s] = Plus(own[s], Plus(pos[s], owed[s])) /\ job[s].kind \in {"recenter", "hold"}
        /\ job'[s] = [job[s] EXCEPT !.at = "exited", !.lp = l, !.held = m]
    <3>1. own' = [own EXCEPT ![s] = Plus(own[s], Plus(pos[s], owed[s]))]
      BY <1>4 DEF Exit
    <3>2. Reach(s, [job[s] EXCEPT !.at = "exited", !.lp = l, !.held = m])
      BY <1>4, <2>1, <2>2, <2>3, <2>4 DEF Exit
    <3> QED
      BY <1>1, <1>4, <3>1, <3>2, Reached DEF Exit, Runs
  <2>6. /\ job'[s].kind = job[s].kind /\ job'[s].at = "exited" /\ job'[s].lp = l
        /\ job'[s].prior = job[s].prior
    BY <1>1, <2>5 DEF OpenJobs
  <2>7. ASSUME NEW t \in Tokens, job[s].kind = "hold"
        PROVE  own'[s][t] = l[t] + job[s].prior.heldFee[t] + job[s].prior.heldProfit[t]
    <3>1. own'[s][t] = own[s][t] + (pos[s][t] + owed[s][t])
      <4>1. own'[s][t] = own[s][t] + Plus(pos[s], owed[s])[t]
        BY <2>5, Added
      <4> QED
        BY <4>1, Added
    <3>2. l[t] = (pos[s][t] + job[s].prior.principal[t]) + owed[s][t]
      BY <2>1, <2>2, <2>3, <2>7, Added
    <3>3. own[s][t] = job[s].prior.principal[t] + (job[s].prior.heldFee[t] + job[s].prior.heldProfit[t])
      BY <1>3, TotalTypes
    <3>4. /\ job[s].prior.principal[t] \in Nat /\ job[s].prior.heldFee[t] \in Nat
          /\ job[s].prior.heldProfit[t] \in Nat /\ pos[s][t] \in Nat /\ owed[s][t] \in Nat
      BY <1>1, JobTypes DEF WellFormed, Amounts
    <3> QED
      BY <3>1, <3>2, <3>3, <3>4
  <2> QED
    BY <2>5, <2>6, <2>7, Kinds DEF Receipts, ReceiptsOf
<1>5. CASE Collect(s)
  <2>1. /\ own'[s] = Plus(own[s], owed[s]) /\ job[s].kind = "collect"
        /\ job'[s] = [job[s] EXCEPT !.at = "exited", !.held = owed[s]]
    BY <1>1, <1>5, Reached DEF Collect, Runs
  <2>2. job'[s].kind = "collect" /\ job'[s].at = "exited" /\ job'[s].held = owed[s]
    BY <1>1, <2>1 DEF OpenJobs
  <2>3. \A t \in Tokens : own'[s][t] = alloc'[s][t] + owed[s][t]
    BY <1>1, <1>3, <2>1, Added
  <2> QED
    BY <2>2, <2>3, Kinds DEF Receipts, ReceiptsOf
<1> QED
  BY <1>4, <1>5

\* What a swap does to the tokens of the strategy.
LEMMA SwapChanges ==
  ASSUME WellFormed, NEW s \in Strategies, NEW n \in Nat, Swaps(s, n)
  PROVE  /\ own'[s]["risk"] = own[s]["risk"] - n /\ own'[s]["quote"] = own[s]["quote"] + n
         /\ own[s]["risk"] \in Int /\ own[s]["quote"] \in Int
         /\ alloc' = alloc /\ Parts(s)' = Parts(s)
<1>1. PICK f : f = Exchange(own[s], n)
  OBVIOUS
<1>2. /\ own' = [own EXCEPT ![s] = f]
      /\ f["risk"] = own[s]["risk"] - n /\ f["quote"] = own[s]["quote"] + n
      /\ own[s]["risk"] \in Int /\ own[s]["quote"] \in Int /\ UNCHANGED tables
  BY <1>1, SwapsMove
<1> QED
  BY <1>2, SameParts DEF tables, WellFormed, TypeOK

\* The swaps: of fees, for the new range, of all before a hold, of the profit.
LEMMA SwapReceipts ==
  ASSUME WellFormed, NEW s \in Strategies,
         ConvertFees(s) \/ SwapForRange(s) \/ SellAll(s) \/ ProfitSwap(s), Receipts(s), Books(s)
  PROVE  Receipts(s)'
<1>1. job[s] \in OpenJobs /\ job[s].held \in AllAmounts
  BY JobTypes, AddedTypes DEF WellFormed
<1>2. CASE ConvertFees(s)
  <2>1. PICK n \in Nat : n = FeesToConvert(s)
    BY FeesNat
  <2>2. PICK h : h = Exchange(job[s].held, n)
    OBVIOUS
  <2>3. /\ job[s].kind \in {"recenter", "collect"} /\ job[s].at \in {"exited", "swapped"} /\ Swaps(s, n)
        /\ job'[s] = [job[s] EXCEPT !.held = h]
    BY <1>2, <2>1, <2>2, Reached DEF ConvertFees, Runs
  <2>4. job'[s].kind = job[s].kind /\ job'[s].at = job[s].at /\ job'[s].held = h
    BY <1>1, <2>3 DEF OpenJobs
  <2>5. /\ h["risk"] = job[s].held["risk"] - n /\ h["quote"] = job[s].held["quote"] + n
        /\ job[s].held["risk"] \in Int /\ job[s].held["quote"] \in Int
        /\ alloc[s]["risk"] \in Int /\ alloc[s]["quote"] \in Int
    <3>1. alloc[s] \in Amounts /\ n \in Int
      BY DEF WellFormed, TypeOK
    <3>2. h["risk"] = job[s].held["risk"] - n /\ h["quote"] = job[s].held["quote"] + n
      BY <1>1, <2>2, <3>1, Exchanged
    <3> QED
      BY <1>1, <3>1, <3>2 DEF AllAmounts, Amounts, Tokens
  <2>6. ASSUME job[s].kind = "collect", job[s].at = "exited", NEW t \in Tokens
        PROVE  own'[s][t] = alloc[s][t] + h[t]
    <3>1. \A u \in Tokens : own[s][u] = alloc[s][u] + job[s].held[u]
      BY <2>6 DEF Receipts, ReceiptsOf
    <3>2. /\ own[s]["risk"] = alloc[s]["risk"] + job[s].held["risk"]
          /\ own[s]["quote"] = alloc[s]["quote"] + job[s].held["quote"]
      BY <3>1 DEF Tokens
    <3>3. own'[s]["risk"] = own[s]["risk"] - n /\ own'[s]["quote"] = own[s]["quote"] + n
      BY <2>3, SwapChanges
    <3>4. own'[s]["risk"] = alloc[s]["risk"] + h["risk"]
      BY <2>5, <3>2, <3>3
    <3>5. own'[s]["quote"] = alloc[s]["quote"] + h["quote"]
      BY <2>5, <3>2, <3>3
    <3> QED
      BY <3>4, <3>5 DEF Tokens
  <2>7. alloc' = alloc
    BY <2>3, SwapChanges
  <2> QED
    BY <2>3, <2>4, <2>6, <2>7, Kinds DEF Receipts, ReceiptsOf
<1>3. CASE SwapForRange(s)
  <2>1. PICK l : job'[s] = [job[s] EXCEPT !.at = "swapped", !.lp = l] /\ job[s].kind = "recenter"
    BY <1>3, Reached DEF SwapForRange, Runs
  <2>2. job'[s].kind = "recenter" /\ job'[s].at = "swapped"
    BY <1>1, <2>1 DEF OpenJobs
  <2> QED
    BY <2>2, Kinds DEF Receipts, ReceiptsOf
<1>4. CASE SellAll(s)
  <2>1. /\ job[s].kind = "hold" /\ job[s].at = "exited" /\ Swaps(s, HoldRisk(s))
        /\ job'[s] = [job[s] EXCEPT !.at = "swapped"]
    BY <1>4, Reached DEF SellAll, Runs
  <2>2. job'[s].kind = "hold" /\ job'[s].at = "swapped"
    BY <1>1, <2>1 DEF OpenJobs
  <2>3. \A u \in Tokens : own[s][u] = job[s].lp[u] + job[s].prior.heldFee[u] + job[s].prior.heldProfit[u]
    BY <2>1 DEF Receipts, ReceiptsOf
  <2>4. \A u \in Tokens : /\ job[s].lp[u] \in Nat /\ job[s].prior.heldFee[u] \in Nat
                          /\ job[s].prior.heldProfit[u] \in Nat
    BY JobTypes DEF WellFormed, Amounts
  <2>5. "risk" \in Tokens /\ "quote" \in Tokens
    BY DEF Tokens
  <2>6. PICK n : n = HoldRisk(s)
    OBVIOUS
  <2>7. n = own[s]["risk"] /\ n \in Nat /\ own[s]["quote"] \in Nat
    BY <2>3, <2>4, <2>5, <2>6 DEF HoldRisk
  <2>8. own'[s]["risk"] = own[s]["risk"] - n /\ own'[s]["quote"] = own[s]["quote"] + n
    BY <2>1, <2>6, <2>7, SwapChanges
  <2>9. own'[s]["risk"] = 0 /\ own'[s]["quote"] >= 0
    BY <2>7, <2>8
  <2> QED
    BY <2>2, <2>9, Kinds DEF Receipts, ReceiptsOf
<1>5. CASE ProfitSwap(s)
  <2>1. /\ job[s].kind \in Profit /\ job[s].at = "created" /\ Swaps(s, ToSell(s))
        /\ job'[s] = [job[s] EXCEPT !.at = "swapped"]
    BY <1>5, Reached DEF ProfitSwap, Runs
  <2>2. job'[s].kind = job[s].kind /\ job'[s].at = "swapped" /\ job'[s].prior = job[s].prior
    BY <1>1, <2>1 DEF OpenJobs
  <2>3. ToSell(s) > 0 /\ ToSell(s) \in Nat
    BY <2>1, JobTypes DEF Swaps, ToSell, WellFormed, Amounts, Tokens
  <2>4. Parts(s)' = Parts(s)
    BY <2>1, <2>3, SwapChanges
  <2>5. "risk" \in Tokens
    BY DEF Tokens
  <2> QED
    BY <2>1, <2>2, <2>3, <2>4, <2>5, Kinds DEF Receipts, ReceiptsOf, ToSell
<1> QED
  BY <1>2, <1>3, <1>4, <1>5

\* The mint, and the unwrapping of the profit.
LEMMA SpendReceipts ==
  ASSUME WellFormed, NEW s \in Strategies,
         (\E carry, profit \in Leftovers : Mint(s, carry, profit)) \/ Unwrap(s), Receipts(s)
  PROVE  Receipts(s)'
<1>1. job[s] \in OpenJobs
  BY JobTypes DEF WellFormed
<1>2. ASSUME NEW carry \in Leftovers, NEW profit \in Leftovers, Mint(s, carry, profit)
      PROVE  Receipts(s)'
  <2>1. job'[s] = [job[s] EXCEPT !.at = "minted", !.lp = carry, !.profit = profit] /\ job[s].kind = "recenter"
    BY <1>2, Reached DEF Mint, Runs
  <2>2. job'[s].kind = "recenter" /\ job'[s].at = "minted"
    BY <1>1, <2>1 DEF OpenJobs
  <2> QED
    BY <2>2, Kinds DEF Receipts, ReceiptsOf
<1>3. CASE Unwrap(s)
  <2>1. /\ job[s].kind = "ETH" /\ job[s].at = "priced" /\ UNCHANGED <<alloc, comp>>
        /\ job'[s] = [job[s] EXCEPT !.at = "unwrapped"]
    BY <1>3, Reached DEF Unwrap, Runs, tables
  <2>2. job'[s].kind = "ETH" /\ job'[s].at = "unwrapped" /\ job'[s].profit = job[s].profit
    BY <1>1, <2>1 DEF OpenJobs
  <2>3. Parts(s)' = Parts(s) /\ "ETH" \in Profit
    BY <2>1, SameParts DEF Profit
  <2> QED
    BY <2>1, <2>2, <2>3, Kinds DEF Receipts, ReceiptsOf
<1> QED
  BY <1>2, <1>3

\* The rows of a withdrawal: after the sale there is something to release.
LEMMA ClassifyReceipts ==
  ASSUME WellFormed, NEW s \in Strategies, RecordSwap(s) \/ Release(s), Receipts(s)
  PROVE  /\ Receipts(s)' /\ job'[s].kind \in Profit /\ job'[s].at \in {"recorded", "released"}
<1>1. job[s] \in OpenJobs
  BY JobTypes DEF WellFormed
<1>2. CASE Release(s)
  <2>1. job'[s] = [job[s] EXCEPT !.at = "released"] /\ job[s].kind \in Profit
    BY <1>2, Reached DEF Release, Runs, Profit
  <2>2. job'[s].kind = job[s].kind /\ job'[s].at = "released"
    BY <1>1, <2>1 DEF OpenJobs
  <2> QED
    BY <2>1, <2>2, Kinds DEF Receipts, ReceiptsOf
<1>3. CASE RecordSwap(s)
  <2>1. PICK c : c = Sold(s)
    OBVIOUS
  <2>2. /\ job[s].kind \in Profit /\ job[s].at = "swapped" /\ Classify(s, c)
        /\ job'[s] = [job[s] EXCEPT !.at = "recorded"]
    BY <1>3, <2>1, Reached DEF RecordSwap, Runs
  <2>3. job'[s].kind = job[s].kind /\ job'[s].at = "recorded"
    BY <1>1, <2>2 DEF OpenJobs
  <2>4. PICK n : n = ToSell(s)
    OBVIOUS
  <2>5. PICK h : h = Exchange(Parts(s).heldProfit, n)
    OBVIOUS
  <2>6. Parts(s).heldProfit \in Amounts /\ Parts(s).heldProfit \in AllAmounts /\ Parts(s) \in Classes
        /\ "quote" \in Tokens /\ "risk" \in Tokens
    BY PartsTypes, TotalTypes, AddedTypes DEF WellFormed, Tokens
  <2>7. c.heldProfit = h
    BY <2>1, <2>4, <2>5, <2>6 DEF Sold, Classes
  <2>8. n > 0 /\ n \in Int /\ Parts(s).heldProfit["quote"] \in Nat
    <3>1. Parts(s).heldProfit["risk"] = job[s].prior.heldProfit["risk"] /\ Parts(s).heldProfit["risk"] > 0
      BY <2>2, <2>6 DEF Receipts, ReceiptsOf
    <3> QED
      BY <2>4, <2>6, <3>1 DEF ToSell, Amounts
  <2>9. h["quote"] > 0
    <3>1. h["quote"] = Parts(s).heldProfit["quote"] + n
      BY <2>5, <2>6, <2>8, Exchanged
    <3> QED
      BY <2>8, <3>1
  <2>10. Parts(s)'.heldProfit["quote"] = h["quote"]
    <3>1. comp'[s] = c /\ alloc'[s] = TotalOf(c)
      BY <2>2 DEF Classify, WellFormed, TypeOK
    <3> QED
      BY <2>6, <2>7, <3>1, PartsWritten
  <2> QED
    BY <2>2, <2>3, <2>9, <2>10, Kinds DEF Receipts, ReceiptsOf
<1> QED
  BY <1>2, <1>3

\* So every step of s keeps them.
LEMMA StepReceipts ==
  ASSUME WellFormed, NEW s \in Strategies, StepOf(s), Receipts(s), Books(s)
  PROVE  Receipts(s)'
<1>1. CASE AccrueFee(s) \/ (\E t \in Tokens : Deposit(t)) \/ Compound(s) \/ Resume(s)
  BY <1>1, QuietSteps, QuietReceipts
<1>2. CASE Throw(s) \/ Crash(s)
  BY <1>2, EndsAttempt, QuietReceipts
<1>3. CASE \/ CommitRecenter(s) \/ CommitCollect(s) \/ CommitHold(s)
           \/ AbandonProfit(s) \/ CompleteProfit(s)
  BY <1>3, ClosingSteps, QuietReceipts
<1>4. CASE \/ \E kind \in Ordinary : Start(s, kind)
           \/ \E target \in Profit : StartProfit(s, target)
  BY <1>4, StartReceipts
<1>5. CASE SaveContext(s) \/ SaveRelease(s)
  BY <1>5, SaveReceipts
<1>6. CASE Exit(s) \/ Collect(s)
  BY <1>6, ExitReceipts
<1>7. CASE ConvertFees(s) \/ SwapForRange(s) \/ SellAll(s) \/ ProfitSwap(s)
  BY <1>7, SwapReceipts
<1>8. CASE (\E carry, profit \in Leftovers : Mint(s, carry, profit)) \/ Unwrap(s)
  BY <1>8, SpendReceipts
<1>9. CASE RecordSwap(s) \/ Release(s)
  BY <1>9, ClassifyReceipts
<1> QED
  BY <1>1, <1>2, <1>3, <1>4, <1>5, <1>6, <1>7, <1>8, <1>9 DEF StepOf

\* And the receipts of the others are none of its business.
LEMMA ReceiptsKept ==
  ASSUME WellFormed, NEW s \in Strategies, StepOf(s),
         \A r \in Strategies \ tainted : Books(r) /\ Receipts(r)
  PROVE  \A r \in Strategies \ tainted' : Receipts(r)'
<1> SUFFICES ASSUME NEW r \in Strategies, r \notin tainted' PROVE Receipts(r)'
  OBVIOUS
<1>1. Concerns(s)
  BY StepConcerns
<1>2. Books(r) /\ Receipts(r)
  BY <1>1 DEF Concerns
<1>3. CASE r = s
  BY <1>2, <1>3, StepReceipts
<1>4. CASE r # s
  <2>1. job'[r] = job[r] /\ own'[r] = own[r] /\ alloc'[r] = alloc[r] /\ comp'[r] = comp[r]
    BY <1>1, <1>4 DEF Concerns
  <2>2. Parts(r)' = Parts(r)
    BY <2>1 DEF Parts
  <2> QED
    BY <1>2, <2>1, <2>2 DEF Receipts, ReceiptsOf, Tot
<1> QED
  BY <1>3, <1>4

-----------------------------------------------------------------------------
(* What a job spends is its own *)

\* Retained profit is within the row.
LEMMA ProfitWithin ==
  ASSUME WellFormed, NEW s \in Strategies, NEW t \in Tokens
  PROVE  Parts(s).heldProfit[t] \in Nat /\ Parts(s).heldProfit[t] <= alloc[s][t] /\ alloc[s][t] \in Nat
<1>1. /\ Parts(s) \in Classes /\ TotalOf(Parts(s)) = alloc[s]
      /\ Parts(s).principal \in Amounts /\ Parts(s).heldFee \in Amounts /\ Parts(s).heldProfit \in Amounts
  BY PartsTypes, TotalTypes DEF WellFormed
<1>2. alloc[s][t] = Parts(s).principal[t] + (Parts(s).heldFee[t] + Parts(s).heldProfit[t])
  BY <1>1, TotalTypes
<1>3. /\ Parts(s).principal[t] \in Nat /\ Parts(s).heldFee[t] \in Nat /\ Parts(s).heldProfit[t] \in Nat
  BY <1>1 DEF Amounts
<1> QED
  BY <1>2, <1>3

\* What a job record of a strategy counts, token by token.
LEMMA RecordCounts ==
  ASSUME WellFormed, NEW s \in Strategies, NEW t \in Tokens
  PROVE  /\ job[s].lp[t] \in Nat /\ job[s].held[t] \in Nat /\ job[s].profit[t] \in Nat
         /\ job[s].prior.principal[t] \in Nat /\ job[s].prior.heldFee[t] \in Nat
         /\ job[s].prior.heldProfit[t] \in Nat
BY JobTypes DEF WellFormed, Amounts

\* The amount a withdrawal releases is the profit its rows say.
LEMMA ReleasesProfit ==
  ASSUME WellFormed, NEW s \in Strategies, Receipts(s), NEW t \in Tokens,
         job[s].kind \in Profit, job[s].at \in {"priced", "unwrapped"}
  PROVE  job[s].profit[t] = IF t = "quote" THEN Parts(s).heldProfit["quote"] ELSE 0
<1>1. ShapeOf(job[s], Parts(s))
  BY DEF WellFormed, Shapes
<1>2. job[s].profit["risk"] = 0
  BY <1>1 DEF ShapeOf
<1>3. Parts(s).heldProfit["quote"] = job[s].profit["quote"]
  BY DEF Receipts, ReceiptsOf
<1> QED
  BY <1>2, <1>3 DEF Tokens

\* Nobody has less than nothing.
LEMMA OwnIsNatural ==
  ASSUME WellFormed, NEW s \in Strategies, Books(s), Receipts(s)
  PROVE  Leq(Zero, own[s])
<1> SUFFICES ASSUME NEW t \in Tokens PROVE 0 <= own[s][t]
  BY Added DEF Leq
<1>1. own[s][t] \in Int /\ alloc[s][t] \in Nat /\ Parts(s).heldProfit[t] <= alloc[s][t]
      /\ Parts(s).heldProfit[t] \in Nat
  BY TokenTypes, ProfitWithin
<1>2. /\ job[s].lp[t] \in Nat /\ job[s].held[t] \in Nat /\ job[s].profit[t] \in Nat
      /\ job[s].prior.heldFee[t] \in Nat /\ job[s].prior.heldProfit[t] \in Nat
  BY RecordCounts
<1>3. ShapeOf(job[s], Parts(s)) /\ BooksOf(job[s], own[s], alloc[s])
      /\ job[s].kind \in Ordinary \cup Profit \cup {None}
  BY JobTypes DEF WellFormed, Shapes, Books, OpenJobs
<1>4. CASE SettledJob(job[s])
  BY <1>1, <1>3, <1>4 DEF BooksOf
<1>5. CASE job[s].kind = "recenter" /\ ~SettledJob(job[s])
  <2>1. job[s].at \in {"exited", "swapped", "minted"}
    BY <1>3, <1>5, Kinds DEF SettledJob, ShapeOf
  <2>2. CASE job[s].at = "minted"
    <3>1. own[s][t] = job[s].lp[t] + job[s].held[t] + job[s].prior.heldFee[t]
                        + job[s].prior.heldProfit[t] + job[s].profit[t]
      BY <1>3, <1>5, <2>2 DEF BooksOf
    <3> QED
      BY <1>2, <3>1
  <2>3. CASE job[s].at # "minted"
    <3>1. own[s][t] = job[s].lp[t] + job[s].held[t] + job[s].prior.heldFee[t] + job[s].prior.heldProfit[t]
      BY <1>3, <1>5, <2>1, <2>3 DEF BooksOf
    <3> QED
      BY <1>2, <3>1
  <2> QED
    BY <2>2, <2>3
<1>6. CASE job[s].kind = "collect" /\ ~SettledJob(job[s])
  <2>1. job[s].at = "exited"
    BY <1>3, <1>6, Kinds DEF SettledJob, ShapeOf
  <2>2. own[s][t] = alloc[s][t] + job[s].held[t]
    BY <1>6, <2>1 DEF Receipts, ReceiptsOf
  <2> QED
    BY <1>1, <1>2, <2>2
<1>7. CASE job[s].kind = "hold" /\ ~SettledJob(job[s])
  <2>1. job[s].at \in {"exited", "swapped"}
    BY <1>3, <1>7, Kinds DEF SettledJob, ShapeOf
  <2>2. CASE job[s].at = "exited"
    <3>1. own[s][t] = job[s].lp[t] + job[s].prior.heldFee[t] + job[s].prior.heldProfit[t]
      BY <1>7, <2>2 DEF Receipts, ReceiptsOf
    <3> QED
      BY <1>2, <3>1
  <2>3. CASE job[s].at = "swapped"
    <3>1. own[s]["risk"] = 0 /\ own[s]["quote"] >= 0
      BY <1>7, <2>3 DEF Receipts, ReceiptsOf
    <3> QED
      BY <3>1 DEF Tokens
  <2> QED
    BY <2>1, <2>2, <2>3
<1>8. CASE job[s].kind \in Profit /\ ~SettledJob(job[s])
  <2>1. job[s].at \in {"swapped", "unwrapped"}
    BY <1>8 DEF SettledJob
  <2>2. CASE job[s].at = "swapped"
    <3>1. /\ own[s]["risk"] = alloc[s]["risk"] - job[s].prior.heldProfit["risk"]
          /\ own[s]["quote"] = alloc[s]["quote"] + job[s].prior.heldProfit["risk"]
      BY <1>3, <1>8, <2>2 DEF BooksOf
    <3>2. \A u \in Tokens : Parts(s).heldProfit[u] = job[s].prior.heldProfit[u]
      BY <1>8, <2>2 DEF Receipts, ReceiptsOf
    <3>3. "risk" \in Tokens /\ "quote" \in Tokens /\ (t = "risk" \/ t = "quote")
      BY DEF Tokens
    <3>4. /\ job[s].prior.heldProfit["risk"] <= alloc[s]["risk"] /\ alloc[s]["risk"] \in Nat
          /\ job[s].prior.heldProfit["risk"] \in Nat /\ alloc[s]["quote"] \in Nat
      BY <3>2, <3>3, ProfitWithin
    <3> QED
      BY <3>1, <3>3, <3>4
  <2>3. CASE job[s].at = "unwrapped"
    <3>1. own[s][t] = alloc[s][t] - job[s].profit[t]
      BY <1>3, <1>8, <2>3 DEF BooksOf
    <3>2. job[s].profit[t] = IF t = "quote" THEN Parts(s).heldProfit["quote"] ELSE 0
      BY <1>8, <2>3, ReleasesProfit
    <3> QED
      BY <1>1, <3>1, <3>2
  <2> QED
    BY <2>1, <2>2, <2>3
<1>9. job[s].kind = None => SettledJob(job[s])
  BY DEF SettledJob
<1> QED
  BY <1>3, <1>4, <1>5, <1>6, <1>7, <1>8, <1>9 DEF Ordinary

-----------------------------------------------------------------------------
(* What the steps of a job do to the room *)

\* A new job, proved to be covered.
Starts(s) ==
  /\ AtRest(s) /\ Covered /\ UNCHANGED <<own, alloc, free>> /\ holder' = s
  /\ ~job'[s].again /\ job'[s].kind # None
  /\ job'[s].at \in {"checked", "bare"}

\* The job goes on under the lock: a recovered recenter from the wallet only,
\* and a recovered withdrawal sends no transaction.
Onward(s) ==
  /\ holder = s /\ holder' = s
  /\ job'[s].kind = job[s].kind /\ job'[s].again = job[s].again /\ job'[s].prior = job[s].prior
  /\ job[s].kind = "recenter" /\ job[s].again => job[s].at \in {"exited", "swapped"}
  /\ job[s].kind \in Profit /\ job[s].again => job'[s].at \notin {"swapped", "unwrapped"}

\* Every step is one of five kinds.
LEMMA StepForms ==
  ASSUME WellFormed, NEW s \in Strategies, StepOf(s), Receipts(s)
  PROVE  \/ Quiet(s) /\ (holder' = holder \/ holder' = None)
         \/ Quiet(s) /\ Resume(s)
         \/ Closes(s)
         \/ Starts(s)
         \/ Onward(s)
<1>1. job[s] \in OpenJobs
  BY JobTypes DEF WellFormed
<1>2. CASE AccrueFee(s) \/ (\E t \in Tokens : Deposit(t)) \/ Compound(s)
  <2>1. holder' = holder
    BY <1>2 DEF AccrueFee, Deposit, Compound
  <2> QED
    BY <1>2, <2>1, QuietSteps
<1>3. CASE Resume(s)
  BY <1>3, QuietSteps
<1>4. CASE Throw(s) \/ Crash(s)
  <2>1. holder' = None
    BY <1>4 DEF Throw, Crash, EndAttempt, Close
  <2> QED
    BY <1>4, <2>1, EndsAttempt
<1>5. CASE \/ CommitRecenter(s) \/ CommitCollect(s) \/ CommitHold(s)
           \/ AbandonProfit(s) \/ CompleteProfit(s)
  BY <1>5, ClosingSteps
<1>6. ASSUME NEW kind \in Ordinary, Start(s, kind) PROVE Starts(s)
  <2>1. /\ job'[s] = [NoJob EXCEPT !.kind = kind, !.at = "checked", !.base = Balance, !.prior = Parts(s)]
        /\ UNCHANGED <<own, alloc, free>> /\ AtRest(s) /\ Covered /\ holder' = s
    BY <1>6, Reached DEF Start, chain, tables
  <2>2. job'[s].kind = kind /\ job'[s].at = "checked" /\ job'[s].again = FALSE
    BY <2>1 DEF NoJob
  <2> QED
    BY <2>1, <2>2, NoneIsNone DEF Starts
<1>7. ASSUME NEW target \in Profit, StartProfit(s, target) PROVE Starts(s)
  <2>1. /\ job'[s] = [NoJob EXCEPT !.kind = target, !.at = "bare", !.prior = Parts(s)]
        /\ UNCHANGED <<own, alloc, free>> /\ AtRest(s) /\ Covered /\ holder' = s
    BY <1>7, Reached DEF StartProfit, chain, tables
  <2>2. job'[s].kind = target /\ job'[s].at = "bare" /\ job'[s].again = FALSE
    BY <2>1 DEF NoJob
  <2> QED
    BY <2>1, <2>2, NoneIsNone DEF Starts
<1>8. ASSUME holder = s, holder' = s, NEW j, Reach(s, j), j.kind = job[s].kind, j.again = job[s].again,
             j.prior = job[s].prior,
             \/ job[s].kind = "recenter" /\ (job[s].again => job[s].at \in {"exited", "swapped"})
             \/ job[s].kind \in {"collect", "hold"}
             \/ job[s].kind \in Profit /\ (job[s].again => j.at \notin {"swapped", "unwrapped"})
      PROVE  Onward(s)
  BY <1>8, Kinds, Reached DEF Onward
<1>9. CASE Exit(s) \/ Collect(s)
  <2>1. PICK l, h : \/ Reach(s, [job[s] EXCEPT !.at = "exited", !.lp = l, !.held = h])
                    \/ Reach(s, [job[s] EXCEPT !.at = "exited", !.held = h])
    BY <1>9 DEF Exit, Collect
  <2>2. PICK j : Reach(s, j) /\ \/ j = [job[s] EXCEPT !.at = "exited", !.lp = l, !.held = h]
                                \/ j = [job[s] EXCEPT !.at = "exited", !.held = h]
    BY <2>1
  <2>3. j.kind = job[s].kind /\ j.again = job[s].again /\ j.prior = job[s].prior
    BY <1>1, <2>2 DEF OpenJobs
  <2>4. /\ holder = s /\ holder' = s /\ job[s].kind \in {"recenter", "collect", "hold"}
        /\ job[s].at = "checked"
    BY <1>9 DEF Exit, Collect, Runs
  <2>5. ~job[s].again
    BY <2>4, Kinds DEF Receipts, ReceiptsOf
  <2> QED
    BY <1>8, <2>2, <2>3, <2>4, <2>5
<1>10. CASE ConvertFees(s) \/ SwapForRange(s) \/ SellAll(s)
  <2>1. PICK l : \/ Reach(s, [job[s] EXCEPT !.held = l])
                 \/ Reach(s, [job[s] EXCEPT !.at = "swapped", !.lp = l])
                 \/ Reach(s, [job[s] EXCEPT !.at = "swapped"])
    BY <1>10 DEF ConvertFees, SwapForRange, SellAll
  <2>2. PICK j : Reach(s, j) /\ \/ j = [job[s] EXCEPT !.held = l]
                                \/ j = [job[s] EXCEPT !.at = "swapped", !.lp = l]
                                \/ j = [job[s] EXCEPT !.at = "swapped"]
    BY <2>1
  <2>3. j.kind = job[s].kind /\ j.again = job[s].again /\ j.prior = job[s].prior
    BY <1>1, <2>2 DEF OpenJobs
  <2>4. /\ holder = s /\ holder' = s /\ job[s].kind \in {"recenter", "collect", "hold"}
        /\ job[s].at \in {"exited", "swapped"}
    BY <1>10 DEF ConvertFees, SwapForRange, SellAll, Swaps, Runs
  <2> QED
    BY <1>8, <2>2, <2>3, <2>4
<1>11. ASSUME NEW carry \in Leftovers, NEW profit \in Leftovers, Mint(s, carry, profit)
       PROVE  Onward(s)
  <2>1. PICK j : j = [job[s] EXCEPT !.at = "minted", !.lp = carry, !.profit = profit]
    OBVIOUS
  <2>2. j.kind = job[s].kind /\ j.again = job[s].again /\ j.prior = job[s].prior
    BY <1>1, <2>1 DEF OpenJobs
  <2>3. /\ holder = s /\ holder' = s /\ job[s].kind = "recenter" /\ job[s].at \in {"exited", "swapped"}
        /\ Reach(s, j)
    BY <1>11, <2>1 DEF Mint, Runs
  <2> QED
    BY <1>8, <2>2, <2>3
<1>12. CASE ProfitSwap(s) \/ Unwrap(s) \/ RecordSwap(s) \/ Release(s) \/ SaveContext(s)
  <2>1. PICK a : /\ Reach(s, [job[s] EXCEPT !.at = a])
                 /\ job[s].again => a \notin {"swapped", "unwrapped"}
    <3>1. PICK a : \/ a \in {"swapped", "unwrapped"} /\ ~job[s].again /\ Reach(s, [job[s] EXCEPT !.at = a])
                   \/ a \in {"recorded", "released", "created"} /\ Reach(s, [job[s] EXCEPT !.at = a])
      BY <1>12 DEF ProfitSwap, Unwrap, RecordSwap, Release, SaveContext
    <3> QED
      BY <3>1
  <2>2. PICK j : j = [job[s] EXCEPT !.at = a]
    OBVIOUS
  <2>3. j.kind = job[s].kind /\ j.again = job[s].again /\ j.prior = job[s].prior /\ j.at = a
    BY <1>1, <2>2 DEF OpenJobs
  <2>4. holder = s /\ holder' = s /\ job[s].kind \in Profit
    BY <1>12 DEF ProfitSwap, Unwrap, RecordSwap, Release, SaveContext, Swaps, Runs, Profit
  <2> QED
    BY <1>8, <2>1, <2>2, <2>3, <2>4
<1>13. CASE SaveRelease(s)
  <2>1. PICK p : Reach(s, [job[s] EXCEPT !.at = "priced", !.profit = p])
    BY <1>13 DEF SaveRelease
  <2>2. PICK j : j = [job[s] EXCEPT !.at = "priced", !.profit = p]
    OBVIOUS
  <2>3. j.kind = job[s].kind /\ j.again = job[s].again /\ j.prior = job[s].prior /\ j.at = "priced"
    BY <1>1, <2>2 DEF OpenJobs
  <2>4. holder = s /\ holder' = s /\ job[s].kind \in Profit
    BY <1>13 DEF SaveRelease, Runs
  <2> QED
    BY <1>8, <2>1, <2>2, <2>3, <2>4
<1> QED
  BY <1>2, <1>3, <1>4, <1>5, <1>6, <1>7, <1>9, <1>10, <1>11, <1>12, <1>13 DEF StepOf

\* A step of s moves the tokens of s and gives the owner some, never takes any.
LEMMA StepSpends ==
  ASSUME WellFormed, NEW s \in Strategies, StepOf(s), Receipts(s)
  PROVE  \E f \in AllAmounts : own' = [own EXCEPT ![s] = f] /\ free' \in Amounts /\ Leq(free, free')
<1>1. /\ own[s] \in AllAmounts /\ free \in Amounts /\ Leq(free, free)
      /\ own = [own EXCEPT ![s] = own[s]]
  BY JobTypes, LeqSame DEF WellFormed, TypeOK
<1>2. CASE Quiet(s) \/ Closes(s) \/ Starts(s) \/ UNCHANGED <<own, free>>
  BY <1>1, <1>2 DEF Quiet, Closes, Starts
<1>3. ASSUME NEW f, NEW j, Moving(s, f, j)
      PROVE  \E g \in AllAmounts : own' = [own EXCEPT ![s] = g] /\ free' \in Amounts /\ Leq(free, free')
  <2>1. f \in AllAmounts /\ own' = [own EXCEPT ![s] = f] /\ free' = free
    BY <1>3 DEF Moving
  <2> QED
    BY <1>1, <2>1
<1>4. CASE Release(s)
  <2>1. job[s].profit \in Amounts
    BY JobTypes DEF WellFormed
  <2>2. CASE job[s].kind = "keep"
    <3>1. PICK f : f = Minus(own[s], job[s].profit)
      OBVIOUS
    <3>2. own' = [own EXCEPT ![s] = f] /\ free' = Plus(free, job[s].profit)
      BY <1>4, <2>2, <3>1 DEF Release
    <3>3. f \in AllAmounts /\ free' \in Amounts
      BY <1>1, <2>1, <3>1, <3>2, AddedTypes
    <3>4. ASSUME NEW t \in Tokens PROVE free[t] <= free'[t]
      <4>1. free'[t] = free[t] + job[s].profit[t] /\ free[t] \in Nat /\ job[s].profit[t] \in Nat
        BY <1>1, <2>1, <3>2, Added DEF Amounts
      <4> QED
        BY <4>1
    <3> QED
      BY <3>2, <3>3, <3>4 DEF Leq
  <2>3. CASE job[s].kind # "keep"
    BY <1>2, <1>4, <2>3 DEF Release
  <2> QED
    BY <2>2, <2>3
<1>5. CASE RecordSwap(s) \/ SaveContext(s) \/ SaveRelease(s)
  BY <1>2, <1>5 DEF RecordSwap, SaveContext, SaveRelease, chain
<1>6. CASE Exit(s) \/ Collect(s) \/ ConvertFees(s) \/ SwapForRange(s) \/ SellAll(s)
  <2>1. PICK f, j : Moving(s, f, j)
    BY <1>6, ExitMoves, CollectMoves, ConvertMoves, RangeMoves, SellMoves
  <2> QED
    BY <1>3, <2>1
<1>7. CASE ProfitSwap(s) \/ Unwrap(s)
  <2>1. PICK f, j : Moving(s, f, j)
    BY <1>7, SellProfitMoves, UnwrapMoves
  <2> QED
    BY <1>3, <2>1
<1>8. ASSUME NEW carry \in Leftovers, NEW profit \in Leftovers, Mint(s, carry, profit)
      PROVE  \E g \in AllAmounts : own' = [own EXCEPT ![s] = g] /\ free' \in Amounts /\ Leq(free, free')
  <2>1. PICK f, j : Moving(s, f, j)
    BY <1>8, MintMoves
  <2> QED
    BY <1>3, <2>1
<1>9. CASE (\E kind \in Ordinary : Start(s, kind)) \/ \E target \in Profit : StartProfit(s, target)
  BY <1>2, <1>9, StartReceipts
<1>10. CASE \/ AccrueFee(s) \/ (\E t \in Tokens : Deposit(t)) \/ Compound(s) \/ Resume(s)
            \/ Throw(s) \/ Crash(s)
            \/ CommitRecenter(s) \/ CommitCollect(s) \/ CommitHold(s)
            \/ AbandonProfit(s) \/ CompleteProfit(s)
  BY <1>2, <1>10, QuietSteps, EndsAttempt, ClosingSteps
<1> QED
  BY <1>4, <1>5, <1>6, <1>7, <1>8, <1>9, <1>10 DEF StepOf

\* So no step of s makes its own room smaller.
LEMMA RoomGrows ==
  ASSUME WellFormed, NEW s \in Strategies, StepOf(s), Receipts(s), NEW t \in Tokens
  PROVE  Room(s, t) \in Int /\ Room(s, t)' \in Int /\ Room(s, t) <= Room(s, t)'
<1>1. WellFormed' /\ \A r \in Strategies \ {s} : alloc'[r] = alloc[r]
  BY StepConcerns DEF Concerns
<1>2. PICK f \in AllAmounts : own' = [own EXCEPT ![s] = f] /\ free' \in Amounts /\ Leq(free, free')
  BY StepSpends
<1>3. Balance'[t] = Balance[t] + (free'[t] - free[t]) + (f[t] - own[s][t])
  BY <1>2, BalanceMoves DEF WellFormed
<1>4. own'[s][t] = f[t] /\ f[t] \in Int /\ free[t] <= free'[t] /\ free'[t] \in Int
      /\ own[s][t] \in Int /\ free[t] \in Int /\ Balance[t] \in Int
  BY <1>2, TokenTypes DEF WellFormed, TypeOK, Leq, Amounts, AllAmounts
<1>5. Balance[t] - own[s][t] <= Balance'[t] - own'[s][t]
  BY <1>3, <1>4
<1> QED
  BY <1>1, <1>5, RoomKept

\* A quiet step of anybody leaves everybody as much room, or more.
LEMMA QuietRoom ==
  ASSUME WellFormed, WellFormed', NEW x \in Strategies, Quiet(x), NEW s \in Strategies, NEW t \in Tokens
  PROVE  Room(s, t) \in Int /\ Room(s, t)' \in Int /\ Room(s, t) <= Room(s, t)'
<1>1. own[x] \in AllAmounts /\ own' = [own EXCEPT ![x] = own[x]] /\ UNCHANGED <<own, alloc>>
      /\ free' \in Amounts /\ Leq(free, free')
  BY JobTypes DEF WellFormed, TypeOK, Quiet
<1>2. Balance'[t] = Balance[t] + (free'[t] - free[t]) + (own[x][t] - own[x][t])
  BY <1>1, BalanceMoves DEF WellFormed
<1>3. own'[s][t] = own[s][t] /\ own[x][t] \in Int /\ own[s][t] \in Int /\ Balance[t] \in Int
      /\ free[t] \in Int /\ free'[t] \in Int /\ free[t] <= free'[t]
  BY <1>1, TokenTypes DEF Leq, Amounts
<1>4. Balance[t] - own[s][t] <= Balance'[t] - own'[s][t]
  BY <1>2, <1>3
<1> QED
  BY <1>1, <1>4, RoomKept

\* What a recovery asks of the wallet before it goes on from there is room for
\* all but the retained profit.
LEMMA ResumeProves ==
  ASSUME WellFormed, NEW s \in Strategies, Books(s),
         job[s].kind = "recenter", job[s].at \in {"exited", "swapped"}
  PROVE  Redeployable(s) <=> \A t \in Tokens : 0 <= Room(s, t) + Spare(job[s], t)
<1>1. PICK f : f = Plus(job[s].prior.heldFee, Plus(job[s].lp, job[s].held))
  OBVIOUS
<1>2. f \in AllAmounts
  BY <1>1, JobTypes, AddedTypes DEF WellFormed
<1>3. Redeployable(s) <=> \A t \in Tokens : f[t] <= own[s][t] + Room(s, t)
  BY <1>1, <1>2, CoversMeans DEF Redeployable
<1>4. ASSUME NEW t \in Tokens
      PROVE  f[t] <= own[s][t] + Room(s, t) <=> 0 <= Room(s, t) + Spare(job[s], t)
  <2>1. f[t] = job[s].prior.heldFee[t] + (job[s].lp[t] + job[s].held[t])
    <3>1. f[t] = job[s].prior.heldFee[t] + Plus(job[s].lp, job[s].held)[t]
      BY <1>1, Added
    <3> QED
      BY <3>1, Added
  <2>2. own[s][t] = job[s].lp[t] + job[s].held[t] + job[s].prior.heldFee[t] + job[s].prior.heldProfit[t]
    BY DEF Books, BooksOf
  <2>3. Spare(job[s], t) = job[s].prior.heldProfit[t]
    BY DEF Spare
  <2>4. /\ job[s].lp[t] \in Nat /\ job[s].held[t] \in Nat /\ job[s].prior.heldFee[t] \in Nat
        /\ job[s].prior.heldProfit[t] \in Nat /\ Room(s, t) \in Int
    BY RecordCounts, RoomIs
  <2> QED
    BY <2>1, <2>2, <2>3, <2>4
<1> QED
  BY <1>3, <1>4

\* What is left out of a proof is an amount.
LEMMA SpareIs ==
  ASSUME WellFormed, NEW s \in Strategies, NEW t \in Tokens
  PROVE  Spare(job[s], t) \in Nat
BY RecordCounts DEF Spare

\* What a job proved to take the lock stays true as long as it holds it.
LEMMA LockKept ==
  ASSUME WellFormed, NEW x \in Strategies, StepOf(x), LockCovers,
         \A r \in Strategies : Books(r) /\ Receipts(r)
  PROVE  LockCovers'
<1> SUFFICES ASSUME NEW s \in Strategies, Covering(s)', NEW t \in Tokens
             PROVE  0 <= Room(s, t)' + (IF job'[s].again THEN Spare(job'[s], t) ELSE 0)
  BY DEF LockCovers
<1>1. Concerns(x) /\ WellFormed'
  BY StepConcerns DEF Concerns
<1>2. holder' = s /\ s # None
  BY NoneIsNone DEF Covering
<1>3. \/ Quiet(x) /\ holder' = holder
      \/ Quiet(x) /\ Resume(x)
      \/ Starts(x)
      \/ Onward(x)
  BY <1>2, StepForms DEF Closes
<1>4. Room(s, t) \in Int /\ (s = x => Room(s, t)' \in Int /\ Room(s, t) <= Room(s, t)')
  BY RoomIs, RoomGrows
\* what was proved before, and is still asked
<1>5. ASSUME Covering(s), Room(s, t)' \in Int, Room(s, t) <= Room(s, t)',
             job'[s].again = job[s].again,
             job'[s].again => Spare(job'[s], t) = Spare(job[s], t)
      PROVE  0 <= Room(s, t)' + (IF job'[s].again THEN Spare(job'[s], t) ELSE 0)
  <2>1. 0 <= Room(s, t) + (IF job[s].again THEN Spare(job[s], t) ELSE 0)
    BY <1>5 DEF LockCovers
  <2>2. Spare(job[s], t) \in Int
    BY SpareIs
  <2>3. CASE job[s].again
    BY <1>4, <1>5, <2>1, <2>2, <2>3
  <2>4. CASE ~job[s].again
    BY <1>4, <1>5, <2>1, <2>4
  <2> QED
    BY <2>3, <2>4
<1>6. CASE s # x
  <2>1. Quiet(x) /\ holder' = holder
    BY <1>2, <1>3, <1>6 DEF Resume, Starts, Onward
  <2>2. job'[s] = job[s]
    BY <1>1, <1>6 DEF Concerns
  <2>3. Covering(s)
    BY <2>1, <2>2 DEF Covering
  <2>4. Room(s, t)' \in Int /\ Room(s, t) <= Room(s, t)'
    BY <1>1, <2>1, QuietRoom
  <2> QED
    BY <1>5, <2>2, <2>3, <2>4
<1>7. CASE s = x
  <2>1. Room(s, t)' \in Int /\ Room(s, t) <= Room(s, t)'
    BY <1>4, <1>7
  <2>2. CASE Quiet(s) /\ holder' = holder
    <3>1. job'[s].again = job[s].again /\ job'[s].kind = job[s].kind /\ job'[s].at = job[s].at
          /\ job'[s].prior = job[s].prior
      BY <1>2, <2>2 DEF Quiet
    <3>2. Covering(s) /\ Spare(job'[s], t) = Spare(job[s], t)
      BY <2>2, <3>1 DEF Covering, Spare
    <3> QED
      BY <1>5, <2>1, <3>1, <3>2
  <2>3. CASE Quiet(s) /\ Resume(s)
    <3>1. job[s].again /\ job' = job
      BY <2>3 DEF Resume
    <3>2. job[s].kind = "recenter" /\ job[s].at \in {"exited", "swapped"} /\ Redeployable(s)
      BY <2>3, <3>1 DEF Covering, Resume
    <3>3. 0 <= Room(s, t) + Spare(job[s], t) /\ Spare(job[s], t) \in Int
      BY <3>2, ResumeProves, SpareIs
    <3> QED
      BY <1>4, <2>1, <3>1, <3>3
  <2>4. CASE Starts(s)
    <3>1. Covered /\ ~job'[s].again /\ job[s] = NoJob
      BY <2>4 DEF Starts, AtRest, Busy
    <3>2. alloc[s][t] <= own[s][t] + Room(s, t)
      BY <3>1, CoveredMeans
    <3>3. own[s] = alloc[s]
      BY <3>1, NoneIsNone DEF Books, BooksOf, SettledJob
    <3>4. own[s][t] \in Int
      BY TokenTypes
    <3> QED
      BY <1>4, <2>1, <3>1, <3>2, <3>3, <3>4
  <2>5. CASE Onward(s)
    <3>1. holder = s /\ job'[s].again = job[s].again /\ job'[s].kind = job[s].kind
          /\ job'[s].prior = job[s].prior
      BY <2>5 DEF Onward
    <3>2. CASE ~job[s].again
      BY <1>5, <2>1, <3>1, <3>2 DEF Covering
    <3>3. CASE job[s].again
      <4>1. job'[s].kind = "recenter" /\ job'[s].at \in {"exited", "swapped"}
        BY <3>1, <3>3 DEF Covering
      <4>2. job[s].kind = "recenter" /\ job[s].at \in {"exited", "swapped"}
        BY <2>5, <3>1, <3>3, <4>1 DEF Onward
      <4>3. Covering(s) /\ Spare(job'[s], t) = Spare(job[s], t)
        BY <3>1, <4>1, <4>2 DEF Covering, Spare
      <4> QED
        BY <1>5, <2>1, <3>1, <4>3
    <3> QED
      BY <3>2, <3>3
  <2> QED
    BY <1>3, <1>7, <2>2, <2>3, <2>4, <2>5
<1> QED
  BY <1>6, <1>7

-----------------------------------------------------------------------------
(* A job that has room gets through *)

\* An update within what the strategy has, or within the room beyond it, passes.
LEMMA FitsIn ==
  ASSUME WellFormed, NEW s \in Strategies, NEW next \in AllAmounts,
         \A t \in Tokens : next[t] <= own[s][t] /\ 0 <= Room(s, t)
  PROVE  Covers(s, next)
<1>1. ASSUME NEW t \in Tokens PROVE next[t] <= own[s][t] + Room(s, t)
  <2>1. next[t] \in Int /\ own[s][t] \in Int /\ Room(s, t) \in Int
    BY TokenTypes, RoomIs DEF AllAmounts
  <2> QED
    BY <2>1
<1> QED
  BY <1>1, CoversMeans

\* Where no proof leaves anything out, room is room.
LEMMA PlainRoom ==
  ASSUME WellFormed, NEW s \in Strategies, HasRoom(s),
         ~(job[s].kind = "recenter" /\ job[s].at \in {"exited", "swapped"})
  PROVE  \A t \in Tokens : 0 <= Room(s, t)
<1> SUFFICES ASSUME NEW t \in Tokens PROVE 0 <= Room(s, t)
  OBVIOUS
<1>1. 0 <= Room(s, t) + Spare(job[s], t) /\ Spare(job[s], t) = 0 /\ Room(s, t) \in Int
  BY RoomIs DEF HasRoom, Spare
<1> QED
  BY <1>1

\* A recenter.
LEMMA RecenterFinishes ==
  ASSUME WellFormed, NEW s \in Strategies, Books(s), HasRoom(s), job[s].kind = "recenter"
  PROVE  CanFinish(s)
<1>1. ASSUME job[s].at \in {"exited", "swapped"} PROVE Redeployable(s)
  BY <1>1, ResumeProves DEF HasRoom
<1>2. ASSUME job[s].at = "minted" PROVE RecenterCommits(s)
  <2>1. PICK c : c = RecenterParts(s)
    OBVIOUS
  <2>2. PICK h, p : /\ h = Plus(job[s].prior.heldFee, job[s].held)
                    /\ p = Plus(job[s].prior.heldProfit, job[s].profit)
    OBVIOUS
  <2>3. c.principal = job[s].lp /\ c.heldFee = h /\ c.heldProfit = p
    BY <2>1, <2>2 DEF RecenterParts
  <2>4. PICK a : a = TotalOf(c)
    OBVIOUS
  <2>5. a \in AllAmounts
    <3>1. job[s].lp \in AllAmounts /\ h \in AllAmounts /\ p \in AllAmounts
      BY <2>2, JobTypes, AddedTypes DEF WellFormed
    <3> QED
      BY <2>3, <2>4, <3>1, AddedTypes DEF TotalOf
  <2>6. ASSUME NEW t \in Tokens PROVE a[t] <= own[s][t]
    <3>1. a[t] = job[s].lp[t] + (h[t] + p[t])
      BY <2>3, <2>4, TotalTypes
    <3>2. h[t] = job[s].prior.heldFee[t] + job[s].held[t] /\ p[t] = job[s].prior.heldProfit[t] + job[s].profit[t]
      BY <2>2, Added
    <3>3. own[s][t] = job[s].lp[t] + job[s].held[t] + job[s].prior.heldFee[t]
                        + job[s].prior.heldProfit[t] + job[s].profit[t]
      BY <1>2 DEF Books, BooksOf
    <3>4. /\ job[s].lp[t] \in Nat /\ job[s].held[t] \in Nat /\ job[s].profit[t] \in Nat
          /\ job[s].prior.heldFee[t] \in Nat /\ job[s].prior.heldProfit[t] \in Nat
      BY RecordCounts
    <3> QED
      BY <3>1, <3>2, <3>3, <3>4
  <2>7. \A t \in Tokens : 0 <= Room(s, t)
    BY <1>2, PlainRoom
  <2>8. Covers(s, a)
    BY <2>5, <2>6, <2>7, FitsIn
  <2> QED
    BY <2>1, <2>4, <2>8 DEF RecenterCommits
<1> QED
  BY <1>1, <1>2 DEF CanFinish

\* A fee collection that saw nobody move the wallet.
LEMMA CollectFinishes ==
  ASSUME WellFormed, NEW s \in Strategies, Books(s), Receipts(s), HasRoom(s),
         job[s].kind = "collect", ~Misled(s)
  PROVE  CanFinish(s)
<1>1. SUFFICES ASSUME job[s].at = "exited" PROVE Valid(CollectParts(s)) /\ Covers(s, NetOf(s))
  BY DEF CanFinish, CollectCommits
<1>2. PICK a : a = NetOf(s)
  OBVIOUS
<1>3. a \in AllAmounts /\ \A t \in Tokens : own[s][t] = a[t]
  BY <1>2, NetIs DEF Misled
<1>4. Covers(s, a)
  <2>1. \A t \in Tokens : a[t] <= own[s][t] /\ 0 <= Room(s, t)
    <3>1. \A t \in Tokens : own[s][t] \in Int /\ 0 <= Room(s, t)
      BY TokenTypes, PlainRoom
    <3> QED
      BY <1>3, <3>1
  <2> QED
    BY <1>3, <2>1, FitsIn
<1>5. TotalOf(job[s].prior) = alloc[s]
  BY PartsTypes DEF WellFormed, Shapes, ShapeOf, Ordinary
<1>6. ASSUME NEW t \in Tokens
      PROVE  /\ CollectParts(s).principal[t] >= 0 /\ CollectParts(s).heldFee[t] >= 0
             /\ CollectParts(s).heldProfit[t] >= 0
  <2>1. PICK p : p = IF s \in reinvest
                     THEN Minus(a, Plus(job[s].prior.heldFee, job[s].prior.heldProfit))
                     ELSE job[s].prior.principal
    OBVIOUS
  <2>2. /\ CollectParts(s).principal = p
        /\ CollectParts(s).heldFee = Minus(a, Plus(p, job[s].prior.heldProfit))
        /\ CollectParts(s).heldProfit = job[s].prior.heldProfit
    BY <1>2, <2>1 DEF CollectParts
  <2>3. a[t] = job[s].prior.principal[t] + (job[s].prior.heldFee[t] + job[s].prior.heldProfit[t])
                 + job[s].held[t]
    <3>1. own[s][t] = alloc[s][t] + job[s].held[t]
      BY <1>1 DEF Receipts, ReceiptsOf
    <3>2. alloc[s][t] = job[s].prior.principal[t] + (job[s].prior.heldFee[t] + job[s].prior.heldProfit[t])
      BY <1>5, TotalTypes
    <3> QED
      BY <1>3, <3>1, <3>2
  <2>4. /\ job[s].prior.principal[t] \in Nat /\ job[s].prior.heldFee[t] \in Nat
        /\ job[s].prior.heldProfit[t] \in Nat /\ job[s].held[t] \in Nat
    BY RecordCounts
  <2>5. p[t] = IF s \in reinvest
               THEN a[t] - (job[s].prior.heldFee[t] + job[s].prior.heldProfit[t])
               ELSE job[s].prior.principal[t]
    <3>1. ASSUME s \in reinvest
          PROVE  p[t] = a[t] - (job[s].prior.heldFee[t] + job[s].prior.heldProfit[t])
      <4>1. p[t] = a[t] - Plus(job[s].prior.heldFee, job[s].prior.heldProfit)[t]
        BY <2>1, <3>1, Added
      <4> QED
        BY <4>1, Added
    <3> QED
      BY <2>1, <3>1
  <2>6. CollectParts(s).heldFee[t] = a[t] - (p[t] + job[s].prior.heldProfit[t])
    <3>1. CollectParts(s).heldFee[t] = a[t] - Plus(p, job[s].prior.heldProfit)[t]
      BY <2>2, Added
    <3> QED
      BY <3>1, Added
  <2> QED
    BY <2>2, <2>3, <2>4, <2>5, <2>6
<1>7. \A t \in Tokens : Zero[t] = 0
  BY Added
<1> QED
  BY <1>2, <1>4, <1>6, <1>7 DEF Valid, Leq

\* A hold that saw nobody move the wallet: it asks for no proof of coverage.
LEMMA HoldFinishes ==
  ASSUME WellFormed, NEW s \in Strategies, Books(s), Receipts(s), Leq(Zero, own[s]),
         own[s]["risk"] <= Balance["risk"], job[s].kind = "hold", ~Misled(s)
  PROVE  CanFinish(s)
<1>1. "risk" \in Tokens /\ "quote" \in Tokens
  BY DEF Tokens
<1>2. job[s].at = "exited" => own[s]["risk"] = HoldRisk(s)
  BY <1>1 DEF Receipts, ReceiptsOf, HoldRisk
<1>3. PICK a : a = NetOf(s)
  OBVIOUS
<1>4. \A t \in Tokens : own[s][t] = a[t]
  BY <1>3, NetIs DEF Misled
<1>5. job[s].at = "swapped" => own[s]["risk"] = 0
  BY DEF Receipts, ReceiptsOf
<1>6. Leq(Zero, a)
  BY <1>4 DEF Leq
<1>7. job[s].at = "swapped" \/ (job[s].at = "exited" /\ HoldRisk(s) = 0) => HoldCommits(s)
  BY <1>1, <1>2, <1>3, <1>4, <1>5, <1>6 DEF HoldCommits
<1> QED
  BY <1>2, <1>7 DEF CanFinish

\* A withdrawal.
LEMMA ProfitFinishes ==
  ASSUME WellFormed, NEW s \in Strategies, Books(s), Receipts(s), HasRoom(s), job[s].kind \in Profit
  PROVE  CanFinish(s)
<1>1. /\ Parts(s) \in Classes /\ TotalOf(Parts(s)) = alloc[s]
      /\ Parts(s).principal \in Amounts /\ Parts(s).heldFee \in Amounts /\ Parts(s).heldProfit \in Amounts
      /\ Parts(s).heldProfit \in AllAmounts /\ alloc[s] \in Amounts
  BY PartsTypes, TotalTypes, AddedTypes DEF WellFormed, TypeOK
<1>2. "risk" \in Tokens /\ "quote" \in Tokens /\ \A t \in Tokens : t = "risk" \/ t = "quote"
  BY DEF Tokens
<1>3. \A t \in Tokens : 0 <= Room(s, t)
  BY PlainRoom, Kinds
<1>4. \A t \in Tokens : Zero[t] = 0
  BY Added
\* a split that differs in the profit, h, is valid and fits
<1>5. ASSUME NEW h \in Amounts, NEW c, c = [Parts(s) EXCEPT !.heldProfit = h],
             \A t \in Tokens : alloc[s][t] - Parts(s).heldProfit[t] + h[t] <= own[s][t]
      PROVE  Valid(c) /\ Covers(s, TotalOf(c))
  <2>1. c.principal = Parts(s).principal /\ c.heldFee = Parts(s).heldFee /\ c.heldProfit = h
        /\ c \in Classes
    BY <1>1, <1>5 DEF Classes
  <2>2. Valid(c)
    <3>1. \A f \in Amounts : Leq(Zero, f)
      BY <1>4 DEF Leq, Amounts
    <3> QED
      BY <1>1, <2>1, <3>1 DEF Valid
  <2>3. PICK a : a = TotalOf(c)
    OBVIOUS
  <2>4. a \in AllAmounts
    BY <2>1, <2>3, TotalTypes, AddedTypes
  <2>5. ASSUME NEW t \in Tokens PROVE a[t] <= own[s][t]
    <3>1. a[t] = Parts(s).principal[t] + (Parts(s).heldFee[t] + h[t])
      BY <2>1, <2>3, TotalTypes
    <3>2. alloc[s][t] = Parts(s).principal[t] + (Parts(s).heldFee[t] + Parts(s).heldProfit[t])
      BY <1>1, TotalTypes
    <3>3. /\ Parts(s).principal[t] \in Nat /\ Parts(s).heldFee[t] \in Nat
          /\ Parts(s).heldProfit[t] \in Nat /\ h[t] \in Nat /\ own[s][t] \in Int
      BY <1>1, TokenTypes DEF Amounts
    <3>4. alloc[s][t] - Parts(s).heldProfit[t] + h[t] <= own[s][t]
      BY <1>5
    <3> QED
      BY <3>1, <3>2, <3>3, <3>4
  <2>6. Covers(s, a)
    BY <1>3, <2>4, <2>5, FitsIn
  <2> QED
    BY <2>2, <2>3, <2>6
<1>6. ASSUME job[s].at = "swapped" PROVE Valid(Sold(s)) /\ Covers(s, TotalOf(Sold(s)))
  <2>1. PICK n : n = ToSell(s)
    OBVIOUS
  <2>2. \A t \in Tokens : Parts(s).heldProfit[t] = job[s].prior.heldProfit[t]
    BY <1>6 DEF Receipts, ReceiptsOf
  <2>3. n = Parts(s).heldProfit["risk"] /\ n = job[s].prior.heldProfit["risk"] /\ n \in Nat
        /\ Parts(s).heldProfit["quote"] \in Nat
    BY <1>1, <1>2, <2>1, <2>2 DEF ToSell, Amounts
  <2>4. PICK h : h = Exchange(Parts(s).heldProfit, n)
    OBVIOUS
  <2>5. /\ h \in Amounts /\ h["risk"] = Parts(s).heldProfit["risk"] - n
        /\ h["quote"] = Parts(s).heldProfit["quote"] + n
    <3>1. n \in Int /\ n \in 0 .. Parts(s).heldProfit["risk"]
      BY <2>3
    <3> QED
      BY <1>1, <2>4, <3>1, Exchanged
  <2>6. /\ own[s]["risk"] = alloc[s]["risk"] - n /\ own[s]["quote"] = alloc[s]["quote"] + n
    BY <1>6, <2>3 DEF Books, BooksOf
  <2>7. alloc[s]["risk"] \in Nat /\ alloc[s]["quote"] \in Nat
    BY <1>1, <1>2 DEF Amounts
  <2>8. alloc[s]["risk"] - Parts(s).heldProfit["risk"] + h["risk"] <= own[s]["risk"]
    <3>1. h["risk"] = 0
      <4>1. h["risk"] = n - n
        BY <2>3, <2>5
      <4> QED
        BY <2>3, <4>1
    <3>2. PICK x, y : x = alloc[s]["risk"] /\ y = own[s]["risk"]
      OBVIOUS
    <3>3. x \in Nat /\ y = x - n /\ n \in Nat
      BY <2>3, <2>6, <2>7, <3>2
    <3>4. x - n + 0 <= y
      BY <3>3
    <3> QED
      BY <2>3, <3>1, <3>2, <3>4
  <2>9. alloc[s]["quote"] - Parts(s).heldProfit["quote"] + h["quote"] <= own[s]["quote"]
    BY <2>3, <2>5, <2>6, <2>7
  <2>10. \A t \in Tokens : alloc[s][t] - Parts(s).heldProfit[t] + h[t] <= own[s][t]
    BY <1>2, <2>8, <2>9
  <2>11. PICK c : c = [Parts(s) EXCEPT !.heldProfit = h]
    OBVIOUS
  <2>12. Sold(s) = c
    BY <2>1, <2>4, <2>11 DEF Sold
  <2>13. Valid(c) /\ Covers(s, TotalOf(c))
    BY <1>5, <2>5, <2>10, <2>11
  <2> QED
    BY <2>12, <2>13
<1>7. ASSUME job[s].at = "recorded" \/ (job[s].at = "created" /\ ToSell(s) = 0)
      PROVE  Parts(s).heldProfit["quote"] > 0
  <2>1. CASE job[s].at = "recorded"
    BY <2>1 DEF Receipts, ReceiptsOf
  <2>2. CASE job[s].at = "created" /\ ToSell(s) = 0
    <3>1. /\ Parts(s).heldProfit["risk"] = job[s].prior.heldProfit["risk"]
          /\ Tot(Parts(s).heldProfit) > 0
      BY <1>2, <2>2 DEF Receipts, ReceiptsOf
    <3>2. Parts(s).heldProfit["risk"] = 0 /\ Parts(s).heldProfit["quote"] \in Nat
      BY <1>1, <1>2, <2>2, <3>1 DEF ToSell, Amounts
    <3> QED
      BY <3>1, <3>2 DEF Tot
  <2> QED
    BY <1>7, <2>1, <2>2
<1>8. ASSUME job[s].at = "unwrapped" \/ (job[s].at = "priced" /\ job[s].kind = "keep"),
             NEW c, c = [Parts(s) EXCEPT !.heldProfit["quote"] = 0]
      PROVE  /\ Parts(s).heldProfit["quote"] = job[s].profit["quote"]
             /\ Valid(c) /\ Covers(s, TotalOf(c))
  <2>1. Parts(s).heldProfit["quote"] = job[s].profit["quote"]
    BY <1>8 DEF Receipts, ReceiptsOf
  <2>2. PICK h : h = [Parts(s).heldProfit EXCEPT !["quote"] = 0]
    OBVIOUS
  <2>3. h \in Amounts /\ h["quote"] = 0 /\ h["risk"] = Parts(s).heldProfit["risk"]
    BY <1>1, <1>2, <2>2 DEF Amounts, Tokens
  <2>4. c = [Parts(s) EXCEPT !.heldProfit = h]
    BY <1>8, <2>2
  <2>5. ASSUME NEW t \in Tokens PROVE alloc[s][t] - Parts(s).heldProfit[t] + h[t] <= own[s][t]
    <3>1. job[s].profit[t] = IF t = "quote" THEN Parts(s).heldProfit["quote"] ELSE 0
      BY <1>8, ReleasesProfit
    <3>2. CASE job[s].at = "unwrapped"
      <4>1. own[s][t] = alloc[s][t] - job[s].profit[t]
        BY <3>2 DEF Books, BooksOf
      <4>2. alloc[s][t] \in Nat /\ Parts(s).heldProfit[t] \in Nat
        BY ProfitWithin
      <4> QED
        BY <1>2, <2>3, <3>1, <4>1, <4>2
    <3>3. CASE job[s].at = "priced"
      <4>1. own[s] = alloc[s]
        BY <3>3 DEF Books, BooksOf, SettledJob
      <4>2. alloc[s][t] \in Nat /\ Parts(s).heldProfit[t] \in Nat
        BY ProfitWithin
      <4>3. h[t] <= Parts(s).heldProfit[t] /\ h[t] \in Nat
        BY <1>2, <2>3, <4>2 DEF Amounts
      <4> QED
        BY <4>1, <4>2, <4>3
    <3> QED
      BY <1>8, <3>2, <3>3
  <2>6. Valid(c) /\ Covers(s, TotalOf(c))
    BY <1>5, <2>3, <2>4, <2>5
  <2> QED
    BY <2>1, <2>6
<1>9. PICK released : released = [Parts(s) EXCEPT !.heldProfit["quote"] = 0]
  OBVIOUS
<1>10. job[s].at = "unwrapped" \/ (job[s].at = "priced" /\ job[s].kind = "keep") =>
         /\ Parts(s).heldProfit["quote"] = job[s].profit["quote"]
         /\ Valid(released) /\ Covers(s, TotalOf(released))
  BY <1>8, <1>9
<1> QED
  BY <1>6, <1>7, <1>9, <1>10, Kinds DEF CanFinish

-----------------------------------------------------------------------------
(* Of two interrupted jobs one has room *)

\* After a step of x, x has room or what was true of the two before still is.
LEMMA PairKept ==
  ASSUME WellFormed, NEW x \in Strategies, StepOf(x), Receipts(x), LockCovers, OneHasRoom,
         NEW q \in Strategies \ {x}, Exposed(x)', Exposed(q)', ~Unproved(x)', ~Unproved(q)'
  PROVE  HasRoom(x)' \/ HasRoom(q)'
<1>1. WellFormed' /\ job'[q] = job[q]
  BY StepConcerns DEF Concerns
<1>2. Exposed(q) /\ ~Unproved(q)
  BY <1>1 DEF Exposed, Unproved
<1>3. CASE Quiet(x)
  <2>1. Exposed(x) /\ ~Unproved(x)
    BY <1>3 DEF Quiet, Exposed, Unproved
  <2>2. HasRoom(x) \/ HasRoom(q)
    BY <1>2, <2>1 DEF OneHasRoom
  <2>3. ASSUME NEW s \in {x, q}, HasRoom(s) PROVE HasRoom(s)'
    <3> SUFFICES ASSUME NEW t \in Tokens PROVE 0 <= Room(s, t)' + Spare(job'[s], t)
      BY DEF HasRoom
    <3>1. job'[s].kind = job[s].kind /\ job'[s].at = job[s].at /\ job'[s].prior = job[s].prior
      BY <1>1, <1>3 DEF Quiet
    <3>2. Spare(job'[s], t) = Spare(job[s], t) /\ Spare(job[s], t) \in Int
      BY <3>1, SpareIs DEF Spare
    <3>3. Room(s, t) \in Int /\ Room(s, t)' \in Int /\ Room(s, t) <= Room(s, t)'
      BY <1>1, <1>3, QuietRoom
    <3>4. 0 <= Room(s, t) + Spare(job[s], t)
      BY <2>3 DEF HasRoom
    <3> QED
      BY <3>2, <3>3, <3>4
  <2> QED
    BY <2>2, <2>3
<1>4. CASE Closes(x)
  BY <1>4, NoneIsNone, Kinds DEF Closes, Exposed
<1>5. CASE Starts(x)
  BY <1>5 DEF Starts, Exposed
<1>6. CASE Onward(x)
  <2> SUFFICES ASSUME NEW t \in Tokens PROVE 0 <= Room(x, t)' + Spare(job'[x], t)
    BY DEF HasRoom
  <2>1. /\ holder = x /\ job'[x].again = job[x].again /\ job'[x].kind = job[x].kind
        /\ job'[x].prior = job[x].prior
    BY <1>6 DEF Onward
  <2>2. Room(x, t) \in Int /\ Room(x, t)' \in Int /\ Room(x, t) <= Room(x, t)'
    BY RoomGrows
  <2>3. job[x].prior.heldProfit[t] \in Nat
    BY RecordCounts
  <2>4. CASE ~job[x].again
    <3>1. 0 <= Room(x, t) + 0
      BY <2>1, <2>4 DEF LockCovers, Covering
    <3>2. Spare(job'[x], t) \in Nat
      BY <2>1, <2>3 DEF Spare
    <3> QED
      BY <2>2, <3>1, <3>2
  <2>5. CASE job[x].again
    <3>1. job'[x].kind \notin Profit \/ job'[x].at \notin {"swapped", "unwrapped"}
      BY <1>6, <2>1, <2>5 DEF Onward
    <3>2. job[x].kind = "recenter" /\ job'[x].at \in {"exited", "swapped", "minted"}
      BY <2>1, <3>1 DEF Exposed
    <3>3. job[x].at \in {"exited", "swapped"}
      BY <1>6, <2>5, <3>2 DEF Onward
    <3>4. 0 <= Room(x, t) + job[x].prior.heldProfit[t]
      BY <2>1, <2>5, <3>2, <3>3 DEF LockCovers, Covering, Spare
    <3>5. CASE job'[x].at \in {"exited", "swapped"}
      <4>1. Spare(job'[x], t) = job[x].prior.heldProfit[t]
        BY <2>1, <3>2, <3>5 DEF Spare
      <4> QED
        BY <2>2, <2>3, <3>4, <4>1
    <3>6. CASE job'[x].at = "minted"
      <4>1. job[x].prior.heldProfit = Zero
        BY <2>1, <2>5, <3>2, <3>6 DEF Unproved
      <4>2. job[x].prior.heldProfit[t] = 0 /\ Spare(job'[x], t) = 0
        BY <3>6, <4>1, Added DEF Spare
      <4> QED
        BY <2>2, <3>4, <4>2
    <3> QED
      BY <3>2, <3>5, <3>6
  <2> QED
    BY <2>4, <2>5
<1> QED
  BY <1>3, <1>4, <1>5, <1>6, StepForms

\* With two strategies there is nobody else to take it away.
LEMMA OneHasRoomKept ==
  ASSUME WellFormed, NEW x \in Strategies, StepOf(x), LockCovers, OneHasRoom, AtMostTwo,
         \A r \in Strategies : Receipts(r)
  PROVE  OneHasRoom'
<1> SUFFICES ASSUME NEW s \in Strategies, NEW q \in Strategies, s # q, Exposed(s)', Exposed(q)',
                    ~Unproved(s)', ~Unproved(q)'
             PROVE  HasRoom(s)' \/ HasRoom(q)'
  BY DEF OneHasRoom
<1>1. x = s \/ x = q
  BY DEF AtMostTwo
<1>2. CASE x = s
  BY <1>2, PairKept
<1>3. CASE x = q
  BY <1>3, PairKept
<1> QED
  BY <1>1, <1>2, <1>3

-----------------------------------------------------------------------------
(* The theorems *)

\* It holds at first: there is no job.
LEMMA PInvAtFirst ==
  ASSUME Init
  PROVE  PInv
<1>1. ASSUME NEW s \in Strategies PROVE Receipts(s) /\ ~Exposed(s) /\ holder # s
  <2>1. job[s].kind = None
    BY NoneIsNone DEF Init
  <2> QED
    BY <2>1, NoneIsNone, Kinds DEF Init, Receipts, ReceiptsOf, Exposed
<1> QED
  BY <1>1 DEF PInv, LockCovers, Covering, OneHasRoom

\* And every step keeps it.
LEMMA PInvIsKept ==
  ASSUME IInv, PInv, [Next]_vars
  PROVE  PInv'
<1>1. CASE Next
  <2>1. PICK x \in Strategies : StepOf(x)
    BY <1>1 DEF Next, StepOf
  <2>2. WellFormed /\ \A r \in Strategies \ tainted : Books(r) /\ Receipts(r)
    BY DEF IInv, PInv
  <2>3. \A r \in Strategies \ tainted' : Receipts(r)'
    BY <2>1, <2>2, ReceiptsKept
  <2>4. ASSUME tainted' = {} PROVE LockCovers' /\ (AtMostTwo => OneHasRoom')
    <3>1. tainted = {}
      BY <2>1, <2>2, <2>4, StepConcerns DEF Concerns
    <3>2. /\ LockCovers /\ (AtMostTwo => OneHasRoom)
          /\ \A r \in Strategies : Books(r) /\ Receipts(r)
      BY <2>2, <3>1 DEF PInv
    <3> QED
      BY <2>1, <2>2, <3>2, LockKept, OneHasRoomKept
  <2> QED
    BY <2>3, <2>4 DEF PInv, AtMostTwo
<1>2. CASE UNCHANGED vars
  <2>1. UNCHANGED <<own, free, alloc, comp, job, holder, tainted>>
    BY <1>2 DEF vars, chain, tables, hist
  <2>2. Balance' = Balance /\ \A s : Parts(s)' = Parts(s)
    BY <2>1 DEF Balance, Parts
  <2>3. \A s, t : Room(s, t)' = Room(s, t)
    BY <2>1, <2>2 DEF Room
  <2>4. \A s : HasRoom(s)' = HasRoom(s) /\ Exposed(s)' = Exposed(s) /\ Unproved(s)' = Unproved(s)
    BY <2>1, <2>3 DEF HasRoom, Exposed, Unproved
  <2>5. \A s : Receipts(s)' = Receipts(s)
    BY <2>1, <2>2 DEF Receipts
  <2>6. LockCovers' = LockCovers
    BY <2>1, <2>3 DEF LockCovers, Covering
  <2>7. OneHasRoom' = OneHasRoom
    BY <2>4 DEF OneHasRoom
  <2> QED
    BY <2>1, <2>5, <2>6, <2>7 DEF PInv, AtMostTwo
<1> QED
  BY <1>1, <1>2

\* So it always holds.
LEMMA AlwaysPInv == Spec => [](IInv /\ PInv)
<1>1. Init => IInv /\ PInv
  BY InitIsRight, PInvAtFirst
<1>2. (IInv /\ PInv) /\ [Next]_vars => (IInv /\ PInv)'
  BY IInvIsKept, PInvIsKept
<1> QED
  BY <1>1, <1>2, PTL DEF Spec

\* A job with room gets through unless it was misled; a hold needs no room.
LEMMA Finishes ==
  ASSUME WellFormed, \A r \in Strategies : Books(r) /\ Receipts(r), NEW s \in Strategies,
         Busy(s), ~Misled(s), job[s].kind = "hold" \/ HasRoom(s)
  PROVE  CanFinish(s)
<1>1. job[s].kind \in {"recenter", "collect", "hold"} \cup Profit
  <2>1. job[s] \in OpenJobs /\ job[s].kind # None
    BY JobTypes DEF WellFormed, Shapes, ShapeOf, Busy
  <2> QED
    BY <2>1 DEF OpenJobs, Ordinary
<1>2. CASE job[s].kind = "hold"
  <2>1. \A r \in Strategies : Leq(Zero, own[r])
    BY OwnIsNatural
  <2>2. own[s]["risk"] <= Balance["risk"]
    BY <2>1, OwnWithin DEF Tokens
  <2> QED
    BY <1>2, <2>1, <2>2, HoldFinishes
<1>3. CASE job[s].kind # "hold"
  BY <1>1, <1>3, RecenterFinishes, CollectFinishes, ProfitFinishes
<1> QED
  BY <1>2, <1>3

(***************************************************************************)
(* A job spends what its own strategy has in the wallet, never the tokens  *)
(* of another strategy or of the owner, although the code compares amounts *)
(* with the whole wallet's balance: for any number of strategies, whatever *)
(* throws, crashes and is recovered, until a job that compares balances    *)
(* commits after others moved the wallet.                                  *)
(***************************************************************************)
THEOREM OnlyItsOwnIsSpent == Spec => []SpendsItsOwn
<1>1. IInv /\ PInv => SpendsItsOwn
  BY OwnIsNatural DEF IInv, PInv, SpendsItsOwn
<1> QED
  BY <1>1, AlwaysPInv, PTL

(***************************************************************************)
(* The first attempt at a job never fails its coverage checks halfway, for *)
(* any number of strategies: assertWalletAllocations at its start covers   *)
(* it until it commits, because nobody else moves tokens or writes rows    *)
(* while it holds the wallet lock.                                         *)
(***************************************************************************)
THEOREM FirstAttemptsPass == Spec => []FirstAttemptPasses
<1>1. ASSUME IInv, PInv PROVE FirstAttemptPasses
  <2> SUFFICES ASSUME tainted = {}, holder # None, ~job[holder].again, ~Misled(holder)
               PROVE  CanFinish(holder)
    BY DEF FirstAttemptPasses
  <2>1. PICK s \in Strategies : s = holder
    BY <1>1 DEF IInv, WellFormed, TypeOK
  <2>2. WellFormed /\ Busy(s) /\ LockCovers /\ \A r \in Strategies : Books(r) /\ Receipts(r)
    BY <1>1, <2>1 DEF IInv, PInv, WellFormed, Shapes
  <2>3. ASSUME NEW t \in Tokens PROVE 0 <= Room(s, t) + Spare(job[s], t)
    <3>1. 0 <= Room(s, t) + 0
      BY <2>1, <2>2 DEF LockCovers, Covering
    <3>2. Room(s, t) \in Int /\ Spare(job[s], t) \in Nat
      BY <2>2, RoomIs, SpareIs
    <3> QED
      BY <3>1, <3>2
  <2>4. HasRoom(s)
    BY <2>3 DEF HasRoom
  <2> QED
    BY <2>1, <2>2, <2>4, Finishes
<1>2. IInv /\ PInv => FirstAttemptPasses
  BY <1>1
<1> QED
  BY <1>2, AlwaysPInv, PTL

-----------------------------------------------------------------------------
(* Two strategies never block each other *)

\* Three strategies are more than two.
LEMMA TwoAtMost ==
  ASSUME Cardinality(Strategies) <= 2
  PROVE  AtMostTwo
<1> SUFFICES ASSUME NEW s \in Strategies, NEW q \in Strategies, NEW r \in Strategies,
                    s # q, q # r, s # r
             PROVE  FALSE
  BY DEF AtMostTwo
<1>1. IsFiniteSet({s}) /\ Cardinality({s}) = 1
  BY FS_Singleton
<1>2. IsFiniteSet({s} \cup {q}) /\ Cardinality({s} \cup {q}) = 2
  BY <1>1, FS_AddElement
<1>3. Cardinality(({s} \cup {q}) \cup {r}) = 3
  BY <1>1, <1>2, FS_AddElement
<1>4. ({s} \cup {q}) \cup {r} \in SUBSET Strategies
  OBVIOUS
<1>5. Cardinality(({s} \cup {q}) \cup {r}) <= Cardinality(Strategies)
  BY <1>4, FewStrategies, FS_Subset
<1>6. Cardinality(Strategies) \in Nat
  BY FewStrategies, FS_CardinalityType
<1> QED
  BY <1>3, <1>5, <1>6

\* A strategy whose job is not exposed has what its row says, or is on hold.
LEMMA UnexposedHas ==
  ASSUME WellFormed, NEW s \in Strategies, Books(s), Receipts(s), ~Exposed(s)
  PROVE  \/ job[s].kind = "hold" /\ job[s].at \in {"exited", "swapped"}
         \/ \A t \in Tokens : alloc[s][t] <= own[s][t]
<1>1. ShapeOf(job[s], Parts(s)) /\ job[s].kind \in Ordinary \cup Profit \cup {None}
  BY JobTypes DEF WellFormed, Shapes, OpenJobs
<1>2. CASE SettledJob(job[s])
  <2>1. own[s] = alloc[s] /\ \A t \in Tokens : alloc[s][t] \in Int
    BY <1>2, TokenTypes DEF Books, BooksOf
  <2> QED
    BY <2>1
<1>3. CASE job[s].kind = "collect" /\ job[s].at = "exited"
  <2>1. ASSUME NEW t \in Tokens PROVE alloc[s][t] <= own[s][t]
    <3>1. own[s][t] = alloc[s][t] + job[s].held[t]
      BY <1>3 DEF Receipts, ReceiptsOf
    <3>2. alloc[s][t] \in Nat /\ job[s].held[t] \in Nat
      BY TokenTypes, RecordCounts
    <3> QED
      BY <3>1, <3>2
  <2> QED
    BY <2>1
<1> QED
  BY <1>1, <1>2, <1>3 DEF SettledJob, ShapeOf, Exposed, Ordinary

\* If the other has what its row says, there is room.
LEMMA OtherLeavesRoom ==
  ASSUME WellFormed, NEW s \in Strategies,
         \A r \in Strategies : r = s \/ \A q \in Strategies : q = s \/ q = r,
         \A q \in Strategies \ {s} : \A t \in Tokens : alloc[q][t] <= own[q][t]
  PROVE  HasRoom(s)
<1> SUFFICES ASSUME NEW t \in Tokens PROVE 0 <= Room(s, t) + Spare(job[s], t)
  BY DEF HasRoom
<1>1. free[t] \in Nat /\ Spare(job[s], t) \in Nat
  BY TokenTypes, SpareIs
<1>2. CASE Strategies = {s}
  BY <1>1, <1>2, RoomOfTwo
<1>3. ASSUME NEW q \in Strategies \ {s} PROVE 0 <= Room(s, t) + Spare(job[s], t)
  <2>1. Strategies = {s, q} /\ q # s
    BY <1>3
  <2>2. Room(s, t) = free[t] + (own[q][t] - alloc[q][t])
    BY <2>1, RoomOfTwo
  <2>3. alloc[q][t] <= own[q][t] /\ alloc[q][t] \in Int /\ own[q][t] \in Int
    BY TokenTypes
  <2> QED
    BY <1>1, <2>2, <2>3
<1>4. Strategies = {s} \/ \E q \in Strategies : q # s
  OBVIOUS
<1> QED
  BY <1>2, <1>3, <1>4

\* One of two open jobs gets through.
LEMMA SomeoneFinishes ==
  ASSUME IInv, PInv, AtMostTwo
  PROVE  SomeoneCanFinish
<1> DEFINE open == {s \in Strategies : Busy(s) /\ job[s].at # "bare"}
<1> SUFFICES ASSUME tainted = {}, open # {}, \A s \in open : ~Misled(s) /\ ~Unproved(s)
             PROVE  \E s \in open : CanFinish(s)
  BY DEF SomeoneCanFinish, Unproved
<1>1. WellFormed /\ OneHasRoom /\ \A r \in Strategies : Books(r) /\ Receipts(r)
  BY DEF IInv, PInv
<1>2. ASSUME NEW s \in open, job[s].kind = "hold" \/ HasRoom(s)
      PROVE  \E r \in open : CanFinish(r)
  BY <1>1, <1>2, Finishes
<1>3. \A s \in Strategies : Exposed(s) => s \in open
  BY NoneIsNone, Kinds DEF Exposed, Busy
<1>4. PICK s \in open : TRUE
  OBVIOUS
\* the other, if there is one, has what its row says
<1>5. ASSUME NEW r \in open, \A q \in Strategies \ {r} : \A t \in Tokens : alloc[q][t] <= own[q][t]
      PROVE  \E z \in open : CanFinish(z)
  <2>1. \A x \in Strategies : x = r \/ \A q \in Strategies : q = r \/ q = x
    BY DEF AtMostTwo
  <2>2. HasRoom(r)
    BY <1>1, <1>5, <2>1, OtherLeavesRoom
  <2> QED
    BY <1>2, <2>2
\* a hold under way
<1>6. ASSUME NEW q \in Strategies, job[q].kind = "hold", job[q].at \in {"exited", "swapped"}
      PROVE  \E z \in open : CanFinish(z)
  <2>1. q \in open
    BY <1>6, NoneIsNone, Kinds DEF Busy
  <2> QED
    BY <1>2, <1>6, <2>1
<1>7. ASSUME NEW q \in Strategies \ {s}
      PROVE  \E z \in open : CanFinish(z)
  <2>1. \A x \in Strategies : x = s \/ x = q
    BY DEF AtMostTwo
  <2>2. CASE Exposed(s) /\ Exposed(q)
    <3>1. q \in open
      BY <1>3, <2>2
    <3>2. HasRoom(s) \/ HasRoom(q)
      BY <1>1, <2>2, <3>1 DEF OneHasRoom
    <3> QED
      BY <1>2, <3>1, <3>2
  <2>3. CASE ~Exposed(q)
    <3>1. CASE \A t \in Tokens : alloc[q][t] <= own[q][t]
      BY <1>5, <2>1, <3>1
    <3> QED
      BY <1>1, <1>6, <2>3, <3>1, UnexposedHas
  <2>4. CASE Exposed(q) /\ ~Exposed(s)
    <3>1. CASE \A t \in Tokens : alloc[s][t] <= own[s][t]
      <4>1. q \in open
        BY <1>3, <2>4
      <4> QED
        BY <1>5, <2>1, <3>1, <4>1
    <3> QED
      BY <1>1, <1>6, <2>4, <3>1, UnexposedHas
  <2> QED
    BY <2>2, <2>3, <2>4
<1>8. CASE Strategies \ {s} = {}
  BY <1>5, <1>8
<1> QED
  BY <1>7, <1>8

(***************************************************************************)
(* Two strategies of one wallet never block each other: of the jobs that   *)
(* recovery finds interrupted one passes the coverage checks it meets      *)
(* next.  With three strategies it can fail (see the README).              *)
(***************************************************************************)
THEOREM TwoNeverBlock ==
  ASSUME Cardinality(Strategies) <= 2
  PROVE  Spec => []SomeoneCanFinish
<1>1. AtMostTwo
  BY TwoAtMost
<1>2. IInv /\ PInv => SomeoneCanFinish
  BY <1>1, SomeoneFinishes
<1> QED
  BY <1>2, AlwaysPInv, PTL

=============================================================================
