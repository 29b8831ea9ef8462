-------------------------- MODULE AttemptLimitsProofs -------------------------
(***************************************************************************)
(* Theorems about AttemptLimits, for any swaps, limits and bounds: a job   *)
(* is put out of the supervisor's reach only after three failed attempts   *)
(* that the operator has not answered; no day's trades exceed the limit;   *)
(* the reverts of a job's swaps are bounded.                               *)
(***************************************************************************)
EXTENDS AttemptLimits, SumLemmas, TLAPS

-----------------------------------------------------------------------------
(* Quarantine *)

\* The columns of the schedule never count more failures than there were since
\* the operator last decided.
StrikesCounted ==
  /\ strikes \in [streak : 0 .. 3, fails : 0 .. 3, last : Codes \cup {None}]
  /\ tries \in 0 .. 3
  /\ strikes.streak <= tries /\ strikes.fails <= tries
  /\ QuarantineEarned

\* What a failed attempt adds.
LEMMA FailsCount ==
  ASSUME StrikesCounted, NEW code \in Codes, NEW r, Fails(code, r)
  PROVE  StrikesCounted'
<1> USE DEF StrikesCounted
<1> DEFINE n == NextStrikes(code)
<1>1. /\ strikes' = n /\ quarantined' = Quarantines(code, r)
      /\ tries' = IF tries + 1 < 3 THEN tries + 1 ELSE 3
  BY DEF Fails, AtMost
<1>2. /\ n.streak \in 0 .. 3 /\ n.fails \in 0 .. 3 /\ n.streak <= tries' /\ n.fails <= tries'
      /\ n \in [streak : 0 .. 3, fails : 0 .. 3, last : Codes \cup {None}]
  <2>1. strikes.streak \in 0 .. 3 /\ strikes.fails \in 0 .. 3 /\ tries \in 0 .. 3
    OBVIOUS
  <2>2. n = [streak |-> IF strikes.last = code THEN AtMost(strikes.streak + 1, 3) ELSE 1,
             fails  |-> IF code \in Noise THEN strikes.fails ELSE AtMost(strikes.fails + 1, 3),
             last   |-> code]
    BY DEF NextStrikes
  <2> HIDE DEF n
  <2>3. n.streak \in 0 .. 3 /\ n.streak <= tries'
    BY <1>1, <2>1, <2>2 DEF AtMost
  <2>4. n.fails \in 0 .. 3 /\ n.fails <= tries'
    BY <1>1, <2>1, <2>2 DEF AtMost
  <2> QED
    BY <2>2, <2>3, <2>4
<1>3. Quarantines(code, r) => n.streak >= 3 \/ n.fails >= 3
  BY DEF Quarantines
<1> HIDE DEF n
<1>4. tries' \in 0 .. 3
  BY <1>1
<1>5. QuarantineEarned'
  BY <1>1, <1>2, <1>3, <1>4 DEF QuarantineEarned
<1> QED
  BY <1>1, <1>2, <1>4, <1>5

\* A new schedule, as a job's end and the operator's resume leave it.
LEMMA FreshSchedule ==
  ASSUME strikes' = NoStrikes, quarantined' = FALSE, tries' = 0
  PROVE  StrikesCounted'
BY DEF StrikesCounted, NoStrikes, QuarantineEarned

LEMMA StepsCount ==
  ASSUME StrikesCounted, [Next]_vars
  PROVE  StrikesCounted'
<1>1. CASE UNCHANGED <<strikes, quarantined, tries>>
  BY <1>1 DEF StrikesCounted, QuarantineEarned
<1>2. CASE \E state \in {"confirmed", "released"} : Ends(state)
  BY <1>2, FreshSchedule DEF Ends
<1>3. CASE OperatorResumes
  BY <1>3, FreshSchedule DEF OperatorResumes
<1>4. ASSUME NEW code \in Codes, NEW r, Fails(code, r) PROVE StrikesCounted'
  BY <1>4, FailsCount
<1>5. CASE Run
  <2>1. CASE RunAbandons
    BY <1>2, <2>1 DEF RunAbandons
  <2>2. CASE StartJob \/ ReserveEstimate \/ ExitLands \/ RunThrows
    BY <1>1, <2>2 DEF StartJob, ReserveEstimate, ExitLands, RunThrows, open, hist
  <2> QED
    BY <1>5, <2>1, <2>2 DEF Run
<1>6. CASE Steps
  <2>1. ASSUME NEW todo \in SUBSET (Swaps \ done), PlanSwaps(todo) PROVE StrikesCounted'
    BY <1>1, <2>1 DEF PlanSwaps, hist
  <2>2. ASSUME NEW todo \in SUBSET (Swaps \ done), OverLimit(todo) PROVE StrikesCounted'
    BY <1>4, <2>2 DEF OverLimit, Codes, Hard
  <2>3. ASSUME NEW s \in Swaps, SwapLands(s) PROVE StrikesCounted'
    BY <1>1, <2>3 DEF SwapLands, hist
  <2>4. ASSUME NEW s \in Swaps, SwapReverts(s) PROVE StrikesCounted'
    BY <1>4, <2>4 DEF SwapReverts, Codes
  <2>5. CASE MintLands \/ GoOn
    BY <1>1, <2>5 DEF MintLands, GoOn, open, hist
  <2>6. CASE Commit
    BY <1>2, <2>6 DEF Commit
  <2>7. CASE OtherReverts
    BY <1>4, <2>7 DEF OtherReverts, Codes
  <2>8. ASSUME NEW newLimit \in Limits, GiveUp(newLimit) PROVE StrikesCounted'
    BY <1>2, <2>8 DEF GiveUp
  <2>9. ASSUME NEW code \in Noise \cup {"E_NONCE"}, AttemptThrows(code) PROVE StrikesCounted'
    BY <1>4, <2>9 DEF AttemptThrows, Codes, Hard
  <2> QED
    BY <1>6, <2>1, <2>2, <2>3, <2>4, <2>5, <2>6, <2>7, <2>8, <2>9 DEF Steps
<1>7. CASE Supervise \/ Crash \/ Midnight
  BY <1>1, <1>7 DEF Supervise, Crash, Midnight, open, hist
<1>8. CASE UNCHANGED vars
  BY <1>1, <1>8 DEF vars, open, hist
<1> QED
  BY <1>3, <1>5, <1>6, <1>7, <1>8 DEF Next

\* Quarantine is earned by three failed attempts after the operator's last resume,
\* also when that resume met an attempt of the supervisor half-way
\* (nextRecoveryRetryState, clearRecoverySchedule).
THEOREM QuarantineIsEarned == Spec => []QuarantineEarned
<1>1. Init => StrikesCounted
  BY DEF Init, StrikesCounted, NoStrikes, QuarantineEarned
<1>2. StrikesCounted /\ [Next]_vars => StrikesCounted'
  BY StepsCount
<1>3. StrikesCounted => QuarantineEarned
  BY DEF StrikesCounted
<1> QED
  BY <1>1, <1>2, <1>3, PTL DEF Spec

-----------------------------------------------------------------------------
(* The slippage ladder *)

\* the factor of rung n
Doubled(n) == 2 ^ n

\* The factor doubles from rung to rung.
LEMMA Doubling ==
  /\ \A n \in 0 .. 8 : Doubled(n) \in Nat /\ Doubled(n) >= 1
  /\ \A n \in 0 .. 7 : Doubled(n + 1) = 2 * Doubled(n)
  /\ Doubled(8) = 256
<1>1. /\ Doubled(0) = 1 /\ Doubled(1) = 2 /\ Doubled(2) = 4 /\ Doubled(3) = 8
      /\ Doubled(4) = 16 /\ Doubled(5) = 32 /\ Doubled(6) = 64 /\ Doubled(7) = 128
      /\ Doubled(8) = 256
  BY DEF Doubled
<1>2. ASSUME NEW n \in 0 .. 7
      PROVE  /\ Doubled(n) \in Nat /\ Doubled(n) >= 1
             /\ Doubled(n + 1) = 2 * Doubled(n)
  <2>1. n = 0 \/ n = 1 \/ n = 2 \/ n = 3 \/ n = 4 \/ n = 5 \/ n = 6 \/ n = 7
    OBVIOUS
  <2> QED
    BY <1>1, <2>1
<1>3. \A n \in 0 .. 8 : n \in 0 .. 7 \/ n = 8
  OBVIOUS
<1> QED
  BY <1>1, <1>2, <1>3

\* What each rung of the ladder tolerates.
LEMMA Ladder ==
  ASSUME NEW n \in 0 .. 8
  PROVE  /\ EscalatedSlippage(n) \in Base .. AtLeast(Base, SWAP_RECOVERY_MAX_SLIPPAGE_BPS)
         /\ AtSlippageCap(n) <=> Base * Doubled(n) >= SWAP_RECOVERY_MAX_SLIPPAGE_BPS
<1>1. Base \in Nat /\ Base >= 1
  BY LimitsAssumption
<1>2. AtMost(n, 8) = n
  BY DEF AtMost
<1>3. Doubled(n) \in Nat /\ Doubled(n) >= 1
  BY Doubling
<1> DEFINE wide == Base * Doubled(n)
<1>4. wide \in Nat /\ wide >= Base
  BY <1>1, <1>3
<1>5. EscalatedSlippage(n) = AtMost(AtLeast(Base, SWAP_RECOVERY_MAX_SLIPPAGE_BPS), wide)
  BY <1>2 DEF EscalatedSlippage, Doubled
<1> HIDE DEF wide
<1>6. /\ EscalatedSlippage(n) \in Base .. AtLeast(Base, SWAP_RECOVERY_MAX_SLIPPAGE_BPS)
      /\ AtSlippageCap(n) <=> wide >= SWAP_RECOVERY_MAX_SLIPPAGE_BPS
  BY <1>1, <1>4, <1>5 DEF AtMost, AtLeast, AtSlippageCap, SWAP_RECOVERY_MAX_SLIPPAGE_BPS
<1> QED
  BY <1>6 DEF wide

\* Higher rungs tolerate no less, and the ladder ends if the base is 4 at least.
LEMMA LadderRises ==
  /\ \A m, n \in 0 .. 8 : m <= n /\ AtSlippageCap(m) => AtSlippageCap(n)
  /\ Base >= 4 => AtSlippageCap(8)
<1>1. Base \in Nat
  BY LimitsAssumption
<1>3. ASSUME NEW n \in 0 .. 7, AtSlippageCap(n) PROVE AtSlippageCap(n + 1)
  <2>1. Base * Doubled(n) >= SWAP_RECOVERY_MAX_SLIPPAGE_BPS
    BY <1>3, Ladder
  <2> DEFINE p == Doubled(n)  q == Base * p
  <2>2. p \in Nat /\ Doubled(n + 1) = 2 * p
    BY Doubling
  <2>3. q \in Nat /\ Base * (2 * p) = 2 * q
    BY <1>1, <2>2
  <2>4. Base * Doubled(n + 1) >= SWAP_RECOVERY_MAX_SLIPPAGE_BPS
    <3> HIDE DEF p, q
    <3>1. 2 * q >= SWAP_RECOVERY_MAX_SLIPPAGE_BPS
      BY <2>1, <2>3 DEF SWAP_RECOVERY_MAX_SLIPPAGE_BPS, p, q
    <3> QED
      BY <2>2, <2>3, <3>1
  <2> QED
    BY <2>4, Ladder
<1>4. \A m, n \in 0 .. 8 : m <= n /\ AtSlippageCap(m) => AtSlippageCap(n)
  <2> DEFINE N == {d \in Nat : \A m, n \in 0 .. 8 : n = m + d /\ AtSlippageCap(m) => AtSlippageCap(n)}
  <2>1. 0 \in N
    OBVIOUS
  <2>2. ASSUME NEW d \in N PROVE d + 1 \in N
    <3>1. ASSUME NEW m \in 0 .. 8, NEW n \in 0 .. 8, n = m + (d + 1), AtSlippageCap(m)
          PROVE  AtSlippageCap(n)
      <4>1. n - 1 \in 0 .. 7 /\ n - 1 \in 0 .. 8 /\ n - 1 = m + d /\ (n - 1) + 1 = n
        BY <3>1
      <4>2. AtSlippageCap(n - 1)
        BY <3>1, <4>1
      <4> QED
        BY <1>3, <4>1, <4>2
    <3> QED
      BY <3>1
  <2>3. N = Nat
    <3> HIDE DEF N
    <3>1. N \subseteq Nat
      BY DEF N
    <3> QED
      BY <2>1, <2>2, <3>1, NaturalSteps
  <2>4. ASSUME NEW m \in 0 .. 8, NEW n \in 0 .. 8, m <= n, AtSlippageCap(m) PROVE AtSlippageCap(n)
    <3>1. n - m \in N /\ n = m + (n - m)
      BY <2>3, <2>4
    <3> QED
      BY <2>4, <3>1
  <2> QED
    BY <2>4
<1>5. ASSUME Base >= 4 PROVE AtSlippageCap(8)
  <2>1. Base * Doubled(8) = Base * 256
    BY Doubling
  <2>2. Base * 256 >= 1000
    BY <1>1, <1>5
  <2> QED
    BY <2>1, <2>2, Ladder DEF SWAP_RECOVERY_MAX_SLIPPAGE_BPS
<1> QED
  BY <1>4, <1>5

\* The least of some natural numbers, and the greatest of some small ones.
LEMMA LeastOf ==
  ASSUME NEW S, S \subseteq Nat, S # {}
  PROVE  \E x \in S : \A y \in S : x <= y
<1>1. PICK x \in S : \A y \in S : ~(<<y, x>> \in OpToRel(<, Nat))
  BY NatLessThanWellFounded, WFMin
<1>2. ASSUME NEW y \in S, y < x PROVE FALSE
  <2>1. <<y, x>> \in Nat \X Nat /\ <<y, x>>[1] < <<y, x>>[2]
    BY <1>2
  <2>2. <<y, x>> \in OpToRel(<, Nat)
    BY <2>1, Zenon DEF OpToRel
  <2> QED
    BY <1>1, <2>2
<1>3. \A y \in S : x <= y
  BY <1>2
<1> QED
  BY <1>3

LEMMA MaxOf ==
  ASSUME NEW S, S \subseteq 0 .. 8, S # {}
  PROVE  Max(S) \in S /\ \A y \in S : Max(S) >= y
<1> DEFINE T == {8 - x : x \in S}
<1>1. (\A x \in S : 8 - x \in Nat) /\ T # {}
  <2>1. ASSUME NEW x \in S PROVE 8 - x \in Nat
    OBVIOUS
  <2>2. PICK x \in S : TRUE
    OBVIOUS
  <2>3. 8 - x \in T
    OBVIOUS
  <2> QED
    BY <2>1, <2>3
<1>2. PICK t \in T : \A u \in T : t <= u
  <2>1. T \subseteq Nat
    BY <1>1
  <2> HIDE DEF T
  <2> QED
    BY <1>1, <2>1, LeastOf
<1>3. PICK x \in S : t = 8 - x
  OBVIOUS
<1>4. ASSUME NEW y \in S PROVE x >= y
  <2>1. 8 - x <= 8 - y
    BY <1>2, <1>3
  <2>2. x \in 0 .. 8 /\ y \in 0 .. 8
    OBVIOUS
  <2> HIDE DEF T
  <2> QED
    BY <2>1, <2>2
<1> QED
  BY <1>4 DEF Max

\* Below the cap, one more revert widens what a swap tolerates.
LEMMA LadderWidens ==
  ASSUME NEW n \in 0 .. 7, ~AtSlippageCap(n)
  PROVE  EscalatedSlippage(n + 1) > EscalatedSlippage(n)
<1> DEFINE wide == Base * Doubled(n)
<1>1. Base \in Nat /\ Base >= 1 /\ Doubled(n) \in Nat /\ Doubled(n) >= 1
  BY LimitsAssumption, Doubling
<1>2. wide \in Nat /\ wide >= 1
  BY <1>1
<1>3. Base * Doubled(n + 1) = 2 * wide
  <2>1. Doubled(n + 1) = 2 * Doubled(n)
    BY Doubling
  <2>2. Base * (2 * Doubled(n)) = 2 * (Base * Doubled(n))
    BY <1>1
  <2> QED
    BY <2>1, <2>2
<1>4. wide < SWAP_RECOVERY_MAX_SLIPPAGE_BPS
  BY <1>2, Ladder DEF SWAP_RECOVERY_MAX_SLIPPAGE_BPS
<1>5. /\ EscalatedSlippage(n) = AtMost(AtLeast(Base, SWAP_RECOVERY_MAX_SLIPPAGE_BPS), wide)
      /\ EscalatedSlippage(n + 1) = AtMost(AtLeast(Base, SWAP_RECOVERY_MAX_SLIPPAGE_BPS), 2 * wide)
  <2>1. AtMost(n, 8) = n /\ AtMost(n + 1, 8) = n + 1
    BY DEF AtMost
  <2> QED
    BY <1>3, <2>1 DEF EscalatedSlippage, Doubled
<1> HIDE DEF wide
<1> QED
  BY <1>1, <1>2, <1>4, <1>5 DEF AtMost, AtLeast, SWAP_RECOVERY_MAX_SLIPPAGE_BPS

\* With a base of 4 or more, Rungs tells which reverts are at the cap.
LEMMA RungsAre ==
  ASSUME Base >= 4
  PROVE  Rungs \in 0 .. 8 /\ \A n \in 0 .. 8 : AtSlippageCap(n) <=> n >= Rungs
<1> DEFINE S == {n \in 0 .. 8 : AtSlippageCap(n)}
<1>1. 8 \in S /\ S \subseteq Nat
  BY LadderRises
<1>2. PICK x \in S : \A y \in S : x <= y
  BY <1>1, LeastOf
<1>3. x \in 0 .. 8 /\ AtSlippageCap(x) /\ \A m \in 0 .. x - 1 : ~AtSlippageCap(m)
  BY <1>2
<1>4. Rungs \in 0 .. 8 /\ AtSlippageCap(Rungs) /\ \A m \in 0 .. Rungs - 1 : ~AtSlippageCap(m)
  BY <1>3 DEF Rungs
<1> QED
  BY <1>4, LadderRises

\* While a revert is put off, no swap is at the cap.
LEMMA DeferredBelowCap ==
  ASSUME Base >= 4, NEW r \in [Swaps -> 0 .. 8], EscalationUncapped(r)
  PROVE  Rungs >= 2 /\ \A s \in Swaps : r[s] < Rungs
<1> DEFINE counts == {r[s] : s \in Swaps} \ {0}
<1>1. counts # {} /\ ~AtSlippageCap(Max(counts)) /\ counts \subseteq 0 .. 8 /\ 0 \notin counts
  BY DEF EscalationUncapped
<1>2. Max(counts) \in counts /\ \A y \in counts : Max(counts) >= y
  BY <1>1, MaxOf
<1>3. Max(counts) \in 1 .. 8 /\ Max(counts) < Rungs /\ Rungs \in 0 .. 8
  BY <1>1, <1>2, RungsAre
<1>4. ASSUME NEW s \in Swaps PROVE r[s] < Rungs
  <2>1. r[s] \in 0 .. 8
    OBVIOUS
  <2>2. CASE r[s] = 0
    BY <1>3, <2>2
  <2>3. CASE r[s] # 0
    <3>1. r[s] \in counts
      BY <2>3
    <3>2. Max(counts) >= r[s]
      BY <1>2, <3>1
    <3> HIDE DEF counts
    <3> QED
      BY <1>3, <2>1, <3>2
  <2> QED
    BY <2>2, <2>3
<1>5. Rungs >= 2
  <2> HIDE DEF counts
  <2> QED
    BY <1>3
<1> QED
  BY <1>4, <1>5

-----------------------------------------------------------------------------
(* Types, and what goes with the phases of a job *)

\* What a job has done so far goes with the phase it is in.
PhaseFacts ==
  /\ phase # "idle" => job \in Jobs
  /\ phase \in {"idle", "running"} => burnt = 0 /\ strikes.fails = 0
  /\ phase # "recovery" => ~quarantined
  /\ queued => phase \in {"inspect", "resumed"} /\ strikes = NoStrikes
  /\ phase = "idle" => landed = {}
  /\ landed = {} => done = {} /\ plan = None
  /\ plan # None => plan \cap done = {}

\* Subsets of Swaps can be counted.
LEMMA Countable ==
  ASSUME NEW A \in SUBSET Swaps
  PROVE  IsFiniteSet(A) /\ Cardinality(A) \in Nat
BY LimitsAssumption, FS_Subset, FS_CardinalityType

\* The bounds are numbers.
LEMMA Bounds ==
  /\ MaxJobs \in Nat /\ MaxDay \in Nat /\ MaxResumes \in Nat /\ MaxCrashes \in Nat
  /\ Limits \subseteq Nat /\ IsFiniteSet(Jobs) /\ Jobs \subseteq Nat
<1>1. /\ MaxJobs \in Nat /\ MaxDay \in Nat /\ MaxResumes \in Nat /\ MaxCrashes \in Nat
      /\ Limits \subseteq Nat
  BY LimitsAssumption
<1> QED
  BY <1>1, FS_Interval DEF Jobs

\* The least limit is one of them.
LEMMA FirstLimit == Min(Limits) \in Limits
<1>1. PICK x \in Limits : \A y \in Limits : x <= y
  BY LeastOf, LimitsAssumption
<1> QED
  BY <1>1 DEF Min

\* Slippage stays on the ladder.
LEMMA OnLadder ==
  \A r \in [Swaps -> 0 .. 8] : \A s \in Swaps :
    EscalatedSlippage(r[s]) \in Base .. AtLeast(Base, SWAP_RECOVERY_MAX_SLIPPAGE_BPS)
BY Ladder

\* A failed attempt.
LEMMA FailsTypes ==
  ASSUME TypeOK, PhaseFacts, NEW code \in Codes, NEW r \in [Swaps -> 0 .. 8],
         phase \in {"inspect", "resumed"}, Fails(code, r), burnt' \in Nat, astray' \in BOOLEAN
  PROVE  TypeOK' /\ PhaseFacts'
<1>1. strikes' \in [streak : 0 .. 3, fails : 0 .. 3, last : Codes \cup {None}]
  <2>1. strikes.streak \in 0 .. 3 /\ strikes.fails \in 0 .. 3
    BY DEF TypeOK
  <2>2. AtMost(strikes.streak + 1, 3) \in 0 .. 3 /\ AtMost(strikes.fails + 1, 3) \in 0 .. 3
    BY <2>1 DEF AtMost
  <2>3. strikes' = NextStrikes(code)
    BY DEF Fails
  <2> QED
    BY <2>1, <2>2, <2>3 DEF NextStrikes
<1>2. /\ quarantined' \in BOOLEAN /\ queued' = FALSE /\ plan' = None /\ reverts' = r
      /\ phase' \in {"inspect", "recovery"} /\ (phase' = "inspect" <=> queued)
      /\ tries' \in 0 .. 3
      /\ UNCHANGED <<job, landed, done, rows, limit, today, traded, resumes, crashes>>
  BY DEF Fails, TypeOK, AtMost, Quarantines
<1>3. queued => ~quarantined'
  <2>1. CASE queued
    <3>1. strikes.streak = 0 /\ strikes.fails = 0
      BY <2>1 DEF PhaseFacts, NoStrikes
    <3>2. NextStrikes(code).streak = 1 /\ NextStrikes(code).fails \in {0, 1}
      BY <3>1 DEF NextStrikes, AtMost
    <3>3. ~Quarantines(code, r)
      BY <3>2 DEF Quarantines
    <3> QED
      BY <3>3 DEF Fails
  <2> QED
    BY <2>1
<1>4. TypeOK'
  BY <1>1, <1>2, OnLadder DEF TypeOK, Phases
<1>5. PhaseFacts'
  BY <1>2, <1>3 DEF PhaseFacts
<1> QED
  BY <1>4, <1>5

\* The end of a job.
LEMMA EndsTypes ==
  ASSUME TypeOK, PhaseFacts, NEW state \in {"confirmed", "released"}, Ends(state),
         UNCHANGED <<job, today, traded, resumes, crashes>>, limit' \in Limits
  PROVE  TypeOK' /\ PhaseFacts'
<1>1. rows' \in [Jobs -> [day : 0 .. MaxDay, amount : Nat,
                         state : {"none", "reserved", "confirmed", "released"}]]
  BY DEF Ends, Settled, TypeOK
<1>2. reverts' \in [Swaps -> 0 .. 8]
  BY DEF Ends
<1>3. strikes' \in [streak : 0 .. 3, fails : 0 .. 3, last : Codes \cup {None}]
  BY DEF Ends, NoStrikes
<1>4. \A s \in Swaps : EscalatedSlippage(reverts'[s])
                           \in Base .. AtLeast(Base, SWAP_RECOVERY_MAX_SLIPPAGE_BPS)
  BY <1>2, OnLadder
<1>5. /\ phase' = "idle" /\ landed' = {} /\ done' = {} /\ plan' = None
      /\ burnt' = 0 /\ tries' = 0
      /\ quarantined' = FALSE /\ queued' = FALSE /\ astray' = FALSE
  BY DEF Ends
<1>6. quarantined' \in BOOLEAN /\ queued' \in BOOLEAN /\ astray' \in BOOLEAN
  BY <1>5, Zenon
<1>7. TypeOK'
  BY <1>1, <1>2, <1>3, <1>4, <1>5, <1>6 DEF TypeOK, Phases, Marks
<1>8. PhaseFacts'
  BY DEF Ends, PhaseFacts, NoStrikes
<1> QED
  BY <1>7, <1>8

\* A new reservation.
LEMMA ReservedType ==
  ASSUME TypeOK, NEW n \in Nat
  PROVE  Reserved(n) \in [Jobs -> [day : 0 .. MaxDay, amount : Nat,
                                  state : {"none", "reserved", "confirmed", "released"}]]
BY DEF TypeOK, Reserved

LEMMA TypeStep ==
  ASSUME TypeOK, PhaseFacts, [Next]_vars
  PROVE  TypeOK' /\ PhaseFacts'
<1> USE DEF TypeOK, PhaseFacts
<1>1. CASE Run
  <2>1. CASE StartJob
    BY <2>1, Bounds DEF StartJob, open, hist, Jobs, Phases
  <2>2. CASE ReserveEstimate
    <3>1. Cardinality(Swaps) \in Nat
      BY Countable
    <3> QED
      BY <2>2, <3>1, ReservedType DEF ReserveEstimate, open, hist
  <2>3. CASE ExitLands
    BY <2>3 DEF ExitLands, hist, Marks
  <2>4. CASE RunThrows
    BY <2>4 DEF RunThrows, hist, Phases
  <2>5. CASE RunAbandons
    BY <2>5, EndsTypes DEF RunAbandons
  <2> QED
    BY <1>1, <2>1, <2>2, <2>3, <2>4, <2>5 DEF Run
<1>2. CASE Steps
  <2>1. ASSUME NEW todo \in SUBSET (Swaps \ done), PlanSwaps(todo) PROVE TypeOK' /\ PhaseFacts'
    <3>1. done \cup todo \in SUBSET Swaps
      OBVIOUS
    <3>2. Cardinality(done \cup todo) \in Nat
      BY <3>1, Countable
    <3> QED
      BY <2>1, <3>2, ReservedType DEF PlanSwaps, hist
  <2>2. ASSUME NEW todo \in SUBSET (Swaps \ done), OverLimit(todo) PROVE TypeOK' /\ PhaseFacts'
    BY <2>2, FailsTypes DEF OverLimit, Codes, Hard
  <2>3. ASSUME NEW s \in Swaps, SwapLands(s) PROVE TypeOK' /\ PhaseFacts'
    <3>1. reverts' \in [Swaps -> 0 .. 8]
      BY <2>3 DEF SwapLands
    <3>2. traded' \in [Jobs -> Nat]
      BY <2>3 DEF SwapLands
    <3>3. UNCHANGED <<job, phase, landed, strikes, quarantined, queued, rows, limit, today,
                      hist, resumes, crashes>>
      BY <2>3 DEF SwapLands
    <3>4. /\ plan # None /\ plan' = plan \ {s} /\ done' = done \cup {s}
      BY <2>3 DEF SwapLands
    <3>5. TypeOK'
      BY <3>1, <3>2, <3>3, <3>4, OnLadder DEF hist
    <3>6. PhaseFacts'
      BY <3>3, <3>4 DEF hist
    <3> QED
      BY <3>5, <3>6
  <2>4. ASSUME NEW s \in Swaps, SwapReverts(s) PROVE TypeOK' /\ PhaseFacts'
    <3> DEFINE r == [reverts EXCEPT ![s] = AtMost(@ + 1, 8)]
    <3>1. r \in [Swaps -> 0 .. 8]
      BY DEF AtMost
    <3>2. Fails("E_TX_REVERTED", r)
      BY <2>4, Zenon DEF SwapReverts
    <3>3. phase = "resumed" /\ burnt' = burnt + 1 /\ astray' = FALSE
      BY <2>4 DEF SwapReverts
    <3> HIDE DEF r
    <3>4. burnt' \in Nat
      BY <3>3
    <3>5. astray' \in BOOLEAN
      BY <3>3, Zenon
    <3> QED
      BY <3>1, <3>2, <3>3, <3>4, <3>5, FailsTypes DEF Codes
  <2>5. CASE MintLands
    BY <2>5 DEF MintLands, hist, Marks
  <2>6. CASE Commit
    BY <2>6, EndsTypes DEF Commit
  <2>7. CASE GoOn
    BY <2>7 DEF GoOn, open, hist, Phases
  <2>8. CASE OtherReverts
    BY <2>8, FailsTypes DEF OtherReverts, Codes, Deferred, EscalationUncapped
  <2>9. ASSUME NEW newLimit \in Limits, GiveUp(newLimit) PROVE TypeOK' /\ PhaseFacts'
    BY <2>9, EndsTypes DEF GiveUp
  <2>10. ASSUME NEW code \in Noise \cup {"E_NONCE"}, AttemptThrows(code)
         PROVE  TypeOK' /\ PhaseFacts'
    BY <2>10, FailsTypes DEF AttemptThrows, Codes, Hard
  <2> QED
    BY <1>2, <2>1, <2>2, <2>3, <2>4, <2>5, <2>6, <2>7, <2>8, <2>9, <2>10 DEF Steps
<1>3. CASE Supervise
  BY <1>3 DEF Supervise, open, hist, Phases
<1>4. CASE OperatorResumes
  <2>1. strikes' \in [streak : 0 .. 3, fails : 0 .. 3, last : Codes \cup {None}]
    BY <1>4 DEF OperatorResumes, NoStrikes
  <2>2. /\ phase' = "inspect" /\ phase \in {"recovery", "inspect"}
        /\ strikes' = NoStrikes /\ NoStrikes.fails = 0
        /\ quarantined' = FALSE /\ queued' \in BOOLEAN /\ burnt' = 0 /\ tries' = 0 /\ astray' = FALSE
        /\ UNCHANGED <<job, landed, done, plan, reverts, rows, limit, today, traded, crashes>>
    BY <1>4 DEF OperatorResumes, NoStrikes
  <2>3. TypeOK'
    BY <2>1, <2>2 DEF Phases
  <2>4. PhaseFacts'
    BY <2>2
  <2> QED
    BY <2>3, <2>4
<1>5. CASE Crash
  BY <1>5 DEF Crash, hist, Phases
<1>6. CASE Midnight
  BY <1>6, Bounds DEF Midnight, open, hist
<1>7. CASE UNCHANGED vars
  BY <1>7 DEF vars, open, hist
<1> QED
  BY <1>1, <1>2, <1>3, <1>4, <1>5, <1>6, <1>7 DEF Next

LEMMA TypeStart ==
  ASSUME Init
  PROVE  TypeOK /\ PhaseFacts
<1>1. reverts \in [Swaps -> 0 .. 8]
  BY DEF Init
<1>2. \A s \in Swaps : EscalatedSlippage(reverts[s])
                           \in Base .. AtLeast(Base, SWAP_RECOVERY_MAX_SLIPPAGE_BPS)
  BY <1>1, OnLadder
<1>3. rows \in [Jobs -> [day : 0 .. MaxDay, amount : Nat,
                        state : {"none", "reserved", "confirmed", "released"}]]
  BY Bounds DEF Init, NoRow
<1>4. job \in 0 .. MaxJobs /\ today \in 0 .. MaxDay /\ limit \in Limits
  BY FirstLimit, Bounds DEF Init
<1>5. strikes \in [streak : 0 .. 3, fails : 0 .. 3, last : Codes \cup {None}]
  BY DEF Init, NoStrikes
<1>6. /\ phase = "idle" /\ landed = {} /\ done = {} /\ plan = None
      /\ burnt = 0 /\ tries = 0 /\ traded \in [Jobs -> Nat]
      /\ quarantined = FALSE /\ queued = FALSE /\ astray = FALSE
  BY DEF Init
<1>7. quarantined \in BOOLEAN /\ queued \in BOOLEAN /\ astray \in BOOLEAN
  BY <1>6, Zenon
<1>8. TypeOK
  BY <1>1, <1>2, <1>3, <1>4, <1>5, <1>6, <1>7 DEF TypeOK, Phases, Marks
<1> QED
  BY <1>8 DEF Init, PhaseFacts, NoStrikes

\* Types, the slippage of every swap between the strategy's own and the cap
\* (escalatedSlippageBps) among them.
THEOREM TypesHold == Spec => []TypeOK
<1>1. Init => TypeOK /\ PhaseFacts
  BY TypeStart
<1>2. (TypeOK /\ PhaseFacts) /\ [Next]_vars => (TypeOK /\ PhaseFacts)'
  BY TypeStep
<1> QED
  BY <1>1, <1>2, PTL DEF Spec

-----------------------------------------------------------------------------
(* Turnover *)

RowTables == [Jobs -> [day : 0 .. MaxDay, amount : Nat,
                       state : {"none", "reserved", "confirmed", "released"}]]

\* what each row of table r counts on a day, and their sum
DayRows(r, day) == [j \in Jobs |-> IF Counts(r[j], day) THEN r[j].amount ELSE 0]
TurnoverIn(r, day) == SumFunction(DayRows(r, day))

\* What the rows are good for: those of jobs to come are empty, a job never
\* trades more than its row holds, and what is planned is reserved.
RowFacts ==
  /\ \A j \in Jobs : j > job => rows[j] = NoRow /\ traded[j] = 0
  /\ \A j \in Jobs :
       traded[j] <= IF rows[j].state \in {"reserved", "confirmed"} THEN rows[j].amount ELSE 0
  /\ phase # "idle" => traded[job] = Cardinality(done)
  /\ phase # "idle" /\ plan # None /\ done \cup plan # {} =>
       rows[job].state = "reserved" /\ Cardinality(done \cup plan) <= rows[job].amount
  /\ \A day \in 0 .. MaxDay : TurnoverIn(rows, day) <= limit

\* The sum of a day is a number, and does not grow when rows are taken out.
LEMMA TurnoverNat ==
  ASSUME NEW r \in RowTables, NEW day
  PROVE  /\ TurnoverIn(r, day) = SumFunctionOnSet(DayRows(r, day), Jobs)
         /\ TurnoverIn(r, day) \in Nat
         /\ \A j \in Jobs : DayRows(r, day)[j] \in Nat
<1>1. \A j \in Jobs : DayRows(r, day)[j] \in Nat
  BY DEF RowTables, DayRows
<1>2. TurnoverIn(r, day) = SumFunctionOnSet(DayRows(r, day), Jobs)
  BY DEF TurnoverIn, SumFunction, DayRows
<1> QED
  BY <1>1, <1>2, SumNat, Bounds

LEMMA TurnoverShrinks ==
  ASSUME NEW r \in RowTables, NEW q \in RowTables, NEW day,
         \A j \in Jobs : Counts(q[j], day) => Counts(r[j], day) /\ q[j].amount = r[j].amount
  PROVE  TurnoverIn(q, day) <= TurnoverIn(r, day)
<1>1. \A j \in Jobs : DayRows(q, day)[j] <= DayRows(r, day)[j]
  BY DEF DayRows, RowTables
<1>2. /\ \A j \in Jobs : DayRows(q, day)[j] \in Int
      /\ \A j \in Jobs : DayRows(r, day)[j] \in Int
  BY TurnoverNat
<1>3. PICK f, g : f = DayRows(q, day) /\ g = DayRows(r, day)
  OBVIOUS
<1>4. SumFunctionOnSet(f, Jobs) <= SumFunctionOnSet(g, Jobs)
  BY <1>1, <1>2, <1>3, SumMonotonic, Bounds
<1> QED
  BY <1>3, <1>4, TurnoverNat

\* A reservation that fits keeps every day within the limit.
LEMMA ReservationFits ==
  ASSUME TypeOK, RowFacts, job \in Jobs, NEW n \in Nat, Fits(n)
  PROVE  \A day \in 0 .. MaxDay : TurnoverIn(Reserved(n), day) <= limit
<1> SUFFICES ASSUME NEW day \in 0 .. MaxDay PROVE TurnoverIn(Reserved(n), day) <= limit
  OBVIOUS
<1>1. TurnoverIn(rows, day) <= limit /\ rows \in RowTables /\ Reserved(n) \in RowTables
  BY ReservedType DEF RowFacts, TypeOK, RowTables
<1>2. limit \in Nat
  BY Bounds DEF TypeOK
<1>3. CASE n = 0
  BY <1>1, <1>3 DEF Reserved
<1>4. CASE n # 0 /\ day # today
  <2>1. \A j \in Jobs : Counts(Reserved(n)[j], day) =>
          Counts(rows[j], day) /\ Reserved(n)[j].amount = rows[j].amount
    BY <1>1, <1>4 DEF Reserved, Counts, RowTables
  <2>2. PICK q \in RowTables : q = Reserved(n)
    BY <1>1
  <2>3. TurnoverIn(q, day) <= TurnoverIn(rows, day)
    BY <1>1, <2>1, <2>2, TurnoverShrinks
  <2> QED
    BY <1>1, <1>2, <2>2, <2>3, TurnoverNat
<1>5. CASE n # 0 /\ day = today
  <2>1. PICK f : f = [j \in Jobs |-> IF j # job /\ Counts(rows[j], today) THEN rows[j].amount ELSE 0]
    OBVIOUS
  <2>2. UsedByOthers = SumFunctionOnSet(f, Jobs)
    BY <2>1 DEF UsedByOthers, SumFunction
  <2>3. PICK g : g = DayRows(Reserved(n), today)
    OBVIOUS
  <2>4. /\ \A j \in Jobs : f[j] \in Int
        /\ f[job] = 0
    BY <1>1, <2>1 DEF RowTables
  <2>5. /\ g[job] = n
        /\ \A j \in Jobs \ {job} : g[j] = f[j]
    BY <1>1, <1>5, <2>1, <2>3 DEF RowTables, DayRows, Reserved, Counts
  <2>6. SumFunctionOnSet(g, Jobs) = SumFunctionOnSet(f, Jobs) + (n - 0)
    <3>1. IsFiniteSet(Jobs) /\ (\A y \in Jobs : f[y] \in Int) /\ g[job] \in Int
          /\ (\A y \in Jobs \ {job} : g[y] = f[y])
      BY <2>4, <2>5, Bounds
    <3>2. SumFunctionOnSet(g, Jobs) = SumFunctionOnSet(f, Jobs) + (g[job] - f[job])
      BY <3>1, SumUpdate, Zenon
    <3> QED
      BY <2>4, <2>5, <3>2
  <2>7. UsedByOthers + n <= limit
    BY <1>5 DEF Fits
  <2>8. TurnoverIn(Reserved(n), today) = SumFunctionOnSet(g, Jobs)
    BY <2>3 DEF TurnoverIn, SumFunction, DayRows
  <2>9. SumFunctionOnSet(f, Jobs) \in Int
    BY <2>4, SumInt, Bounds
  <2> QED
    BY <1>2, <1>5, <2>2, <2>6, <2>7, <2>8, <2>9
<1> QED
  BY <1>3, <1>4, <1>5

\* A row that is confirmed or released adds to no day.
LEMMA SettlingFits ==
  ASSUME TypeOK, RowFacts, NEW state \in {"confirmed", "released"}
  PROVE  \A day \in 0 .. MaxDay : TurnoverIn(Settled(state), day) <= limit
<1> SUFFICES ASSUME NEW day \in 0 .. MaxDay PROVE TurnoverIn(Settled(state), day) <= limit
  OBVIOUS
<1>1. TurnoverIn(rows, day) <= limit /\ rows \in RowTables /\ Settled(state) \in RowTables
  BY DEF RowFacts, TypeOK, RowTables, Settled
<1>2. limit \in Nat
  BY Bounds DEF TypeOK
<1>3. \A j \in Jobs : Counts(Settled(state)[j], day) =>
        Counts(rows[j], day) /\ Settled(state)[j].amount = rows[j].amount
  BY <1>1 DEF Settled, Counts, RowTables
<1>4. PICK q \in RowTables : q = Settled(state)
  BY <1>1
<1>5. TurnoverIn(q, day) <= TurnoverIn(rows, day)
  BY <1>1, <1>3, <1>4, TurnoverShrinks
<1> QED
  BY <1>1, <1>2, <1>4, <1>5, TurnoverNat

\* Nothing the rows speak of changes, and the plan is kept or dropped.
LEMMA RowsKept ==
  ASSUME TypeOK, RowFacts, UNCHANGED <<job, done, rows, limit, traded>>,
         plan' = None \/ UNCHANGED plan, phase # "idle", phase' # "idle"
  PROVE  RowFacts'
BY DEF RowFacts, NoRow, TurnoverIn, DayRows

\* A failed attempt leaves rows and trades alone.
LEMMA FailsRows ==
  ASSUME TypeOK, RowFacts, NEW code \in Codes, NEW r \in [Swaps -> 0 .. 8],
         phase \in {"inspect", "resumed"}, Fails(code, r)
  PROVE  RowFacts'
<1>1. /\ UNCHANGED <<job, done, rows, limit, traded>> /\ plan' = None
      /\ phase # "idle" /\ phase' # "idle"
  BY DEF Fails
<1> QED
  BY <1>1, RowsKept

\* A job ends: with its reservation confirmed, or without having traded.
LEMMA EndsRows ==
  ASSUME TypeOK, PhaseFacts, RowFacts, job \in Jobs, phase # "idle",
         NEW state \in {"confirmed", "released"}, Ends(state),
         state = "released" => landed = {},
         UNCHANGED <<job, traded>>, limit' \in Limits, limit' >= limit
  PROVE  RowFacts'
<1>1. rows' = Settled(state) /\ phase' = "idle" /\ UNCHANGED <<job, traded>>
  BY DEF Ends
<1>2. rows \in RowTables /\ traded \in [Jobs -> Nat] /\ job \in Jobs
  BY DEF TypeOK, RowTables
<1>3. ASSUME NEW j \in Jobs, j > job PROVE rows'[j] = NoRow /\ traded'[j] = 0
  <2>1. j # job
    BY <1>2, <1>3, Bounds
  <2>2. rows'[j] = rows[j]
    BY <1>1, <1>2, <2>1 DEF Settled, RowTables
  <2> QED
    BY <1>1, <1>3, <2>2 DEF RowFacts
<1>4. ASSUME NEW j \in Jobs
      PROVE  traded'[j] <= IF rows'[j].state \in {"reserved", "confirmed"} THEN rows'[j].amount ELSE 0
  <2>1. traded[j] <= IF rows[j].state \in {"reserved", "confirmed"} THEN rows[j].amount ELSE 0
    BY DEF RowFacts
  <2>2. CASE state = "released" /\ j = job
    <3>1. traded[job] = 0
      BY <2>2, FS_EmptySet DEF PhaseFacts, RowFacts
    <3> QED
      BY <1>1, <1>2, <2>2, <3>1 DEF Settled, RowTables
  <2>3. CASE state = "confirmed" \/ j # job
    BY <1>1, <1>2, <2>1, <2>3 DEF Settled, RowTables
  <2> QED
    BY <2>2, <2>3
<1>5. ASSUME NEW day \in 0 .. MaxDay PROVE TurnoverIn(rows', day) <= limit'
  <2>1. TurnoverIn(Settled(state), day) <= limit
    BY SettlingFits
  <2>2. Settled(state) \in RowTables
    BY <1>2 DEF Settled, RowTables
  <2>3. PICK t : t = TurnoverIn(Settled(state), day)
    OBVIOUS
  <2>4. t \in Nat /\ limit \in Nat /\ limit' \in Nat
    BY <2>2, <2>3, TurnoverNat, Bounds DEF TypeOK
  <2>5. t <= limit'
    BY <2>1, <2>3, <2>4
  <2> QED
    BY <1>1, <2>3, <2>5
<1> QED
  BY <1>1, <1>3, <1>4, <1>5 DEF RowFacts, TurnoverIn, DayRows

\* A job reserves n, which covers what it has traded and what it plans to.
LEMMA ReserveRows ==
  ASSUME TypeOK, PhaseFacts, RowFacts, job \in Jobs, phase # "idle", phase' # "idle",
         NEW n \in Nat, Fits(n), rows' = Reserved(n), Cardinality(done) <= n,
         UNCHANGED <<job, done, limit, traded>>,
         \/ plan' = None
         \/ n = Cardinality(done \cup plan') /\ IsFiniteSet(done \cup plan')
  PROVE  RowFacts'
<1>1. rows \in RowTables /\ traded \in [Jobs -> Nat] /\ job \in Jobs
  BY DEF TypeOK, RowTables
<1>2. ASSUME NEW j \in Jobs, j > job PROVE rows'[j] = NoRow /\ traded'[j] = 0
  <2>1. j # job
    BY <1>1, <1>2, Bounds
  <2>2. rows'[j] = rows[j]
    BY <1>1, <2>1 DEF Reserved, RowTables
  <2> QED
    BY <1>2, <2>2 DEF RowFacts
<1>3. ASSUME NEW j \in Jobs
      PROVE  traded'[j] <= IF rows'[j].state \in {"reserved", "confirmed"} THEN rows'[j].amount ELSE 0
  <2>1. traded[j] <= IF rows[j].state \in {"reserved", "confirmed"} THEN rows[j].amount ELSE 0
    BY DEF RowFacts
  <2>2. traded[job] <= n
    BY DEF RowFacts
  <2>3. CASE n # 0 /\ j = job
    BY <1>1, <2>2, <2>3 DEF Reserved, RowTables
  <2>4. CASE n = 0 \/ j # job
    BY <1>1, <2>1, <2>4 DEF Reserved, RowTables
  <2> QED
    BY <2>3, <2>4
<1>4. phase' # "idle" /\ plan' # None /\ done' \cup plan' # {} =>
        rows'[job'].state = "reserved" /\ Cardinality(done' \cup plan') <= rows'[job'].amount
  <2>1. ASSUME plan' # None, done \cup plan' # {}
        PROVE  rows'[job].state = "reserved" /\ Cardinality(done \cup plan') <= rows'[job].amount
    <3>1. n = Cardinality(done \cup plan') /\ n # 0
      BY <2>1, FS_EmptySet
    <3> QED
      BY <1>1, <3>1 DEF Reserved, RowTables
  <2> QED
    BY <2>1
<1>5. \A day \in 0 .. MaxDay : TurnoverIn(rows', day) <= limit'
  BY ReservationFits
<1> QED
  BY <1>2, <1>3, <1>4, <1>5 DEF RowFacts, TurnoverIn, DayRows

\* A swap lands, of those planned.
LEMMA SwapRows ==
  ASSUME TypeOK, PhaseFacts, RowFacts, NEW s \in Swaps, SwapLands(s)
  PROVE  RowFacts'
<1>1. /\ phase # "idle" /\ phase' # "idle" /\ job \in Jobs
      /\ plan # None /\ s \in plan /\ s \notin done
      /\ plan' = plan \ {s} /\ done' = done \cup {s}
      /\ done' \cup plan' = done \cup plan
      /\ UNCHANGED <<job, rows, limit>>
  BY DEF SwapLands, PhaseFacts
<1>2. traded' = [traded EXCEPT ![job] = traded[job] + 1] /\ traded \in [Jobs -> Nat]
  BY DEF SwapLands, TypeOK
<1>3. /\ IsFiniteSet(done) /\ IsFiniteSet(done \cup plan) /\ done' \in SUBSET (done \cup plan)
      /\ Cardinality(done) \in Nat /\ Cardinality(done') = Cardinality(done) + 1
      /\ Cardinality(done \cup plan) \in Nat
  <2>1. done \in SUBSET Swaps /\ plan \in SUBSET Swaps
    BY <1>1 DEF TypeOK
  <2>2. done \cup plan \in SUBSET Swaps
    BY <2>1
  <2>3. Cardinality(done \cup {s}) = Cardinality(done) + 1
    BY <1>1, <2>1, Countable, FS_AddElement
  <2> QED
    BY <1>1, <2>1, <2>2, <2>3, Countable
<1>4. Cardinality(done') <= Cardinality(done \cup plan)
  BY <1>3, FS_Subset
<1>5. traded'[job] = Cardinality(done')
  BY <1>1, <1>2, <1>3 DEF RowFacts
<1>6. rows[job].state = "reserved" /\ Cardinality(done \cup plan) <= rows[job].amount
  BY <1>1 DEF RowFacts
<1>7. rows[job].amount \in Nat
  BY <1>1 DEF TypeOK
<1>8. ASSUME NEW j \in Jobs
      PROVE  /\ traded'[j] <= IF rows[j].state \in {"reserved", "confirmed"} THEN rows[j].amount ELSE 0
             /\ j > job => traded'[j] = 0
  <2>1. CASE j = job
    BY <1>1, <1>3, <1>4, <1>5, <1>6, <1>7, <2>1, Bounds
  <2>2. CASE j # job
    BY <1>1, <1>2, <2>2 DEF RowFacts
  <2> QED
    BY <2>1, <2>2
<1> QED
  BY <1>1, <1>5, <1>6, <1>8 DEF RowFacts, TurnoverIn, DayRows

LEMMA RowStep ==
  ASSUME TypeOK, PhaseFacts, RowFacts, [Next]_vars
  PROVE  RowFacts'
<1>1. CASE Run
  <2>1. CASE StartJob
    <3>1. /\ phase = "idle" /\ phase' # "idle" /\ job' = job + 1 /\ job' \in Jobs
          /\ job \in Nat /\ done = {} /\ plan = None
          /\ UNCHANGED <<done, plan, rows, limit, traded>>
      BY <2>1, Bounds DEF StartJob, open, TypeOK, PhaseFacts, Jobs
    <3>2. \A j \in Jobs : j > job' => j > job
      BY <3>1, Bounds
    <3>3. job' > job
      BY <3>1
    <3>4. traded[job'] = 0
      BY <3>1, <3>3 DEF RowFacts
    <3> QED
      BY <3>1, <3>2, <3>4, FS_EmptySet DEF RowFacts, TurnoverIn, DayRows
  <2>2. CASE ReserveEstimate
    <3>1. /\ landed = {} /\ phase = "running" /\ UNCHANGED <<job, phase, done, plan, limit, traded>>
          /\ Fits(Cardinality(Swaps)) /\ rows' = Reserved(Cardinality(Swaps))
      BY <2>2 DEF ReserveEstimate, open
    <3>2. done = {} /\ plan' = None /\ job \in Jobs
      BY <3>1 DEF PhaseFacts
    <3>3. Cardinality(Swaps) \in Nat /\ Cardinality(done) <= Cardinality(Swaps)
      BY <3>2, Countable, FS_EmptySet
    <3> QED
      BY <3>1, <3>2, <3>3, ReserveRows
  <2>3. CASE ExitLands
    BY <2>3 DEF ExitLands, RowFacts, TurnoverIn, DayRows
  <2>4. CASE RunThrows
    BY <2>4, RowsKept DEF RunThrows
  <2>5. CASE RunAbandons
    <3>1. phase = "running" /\ landed = {} /\ Ends("released") /\ UNCHANGED <<job, limit, traded>>
      BY <2>5 DEF RunAbandons
    <3>2. job \in Jobs /\ limit' \in Limits /\ limit' >= limit
      BY <3>1, Bounds DEF PhaseFacts, TypeOK
    <3> QED
      BY <3>1, <3>2, EndsRows
  <2> QED
    BY <1>1, <2>1, <2>2, <2>3, <2>4, <2>5 DEF Run
<1>2. CASE Steps
  <2>1. ASSUME NEW todo \in SUBSET (Swaps \ done), PlanSwaps(todo) PROVE RowFacts'
    <3> DEFINE n == Cardinality(done \cup todo)
    <3>1. /\ phase # "idle" /\ phase' # "idle" /\ Fits(n) /\ rows' = Reserved(n) /\ plan' = todo
          /\ UNCHANGED <<job, done, limit, traded>>
      BY <2>1 DEF PlanSwaps
    <3>2. done \cup todo \in SUBSET Swaps /\ job \in Jobs
      BY <3>1 DEF TypeOK, PhaseFacts
    <3>3. IsFiniteSet(done \cup todo) /\ n \in Nat
      BY <3>2, Countable
    <3>4. Cardinality(done) <= n
      BY <3>3, FS_Subset
    <3> HIDE DEF n
    <3>5. n = Cardinality(done \cup plan') /\ IsFiniteSet(done \cup plan')
      BY <3>1, <3>3 DEF n
    <3> QED
      BY <3>1, <3>2, <3>3, <3>4, <3>5, ReserveRows
  <2>2. ASSUME NEW todo \in SUBSET (Swaps \ done), OverLimit(todo) PROVE RowFacts'
    BY <2>2, FailsRows DEF OverLimit, Codes, Hard, TypeOK
  <2>3. ASSUME NEW s \in Swaps, SwapLands(s) PROVE RowFacts'
    BY <2>3, SwapRows
  <2>4. ASSUME NEW s \in Swaps, SwapReverts(s) PROVE RowFacts'
    <3> DEFINE r == [reverts EXCEPT ![s] = AtMost(@ + 1, 8)]
    <3>1. r \in [Swaps -> 0 .. 8]
      BY DEF AtMost, TypeOK
    <3>2. Fails("E_TX_REVERTED", r)
      BY <2>4, Zenon DEF SwapReverts
    <3>3. phase = "resumed"
      BY <2>4 DEF SwapReverts
    <3> HIDE DEF r
    <3> QED
      BY <3>1, <3>2, <3>3, FailsRows DEF Codes
  <2>5. CASE MintLands
    BY <2>5 DEF MintLands, RowFacts, TurnoverIn, DayRows
  <2>6. CASE Commit
    <3>1. phase # "idle" /\ Ends("confirmed") /\ UNCHANGED <<job, limit, traded>>
      BY <2>6 DEF Commit
    <3>2. job \in Jobs /\ limit' \in Limits /\ limit' >= limit
      BY <3>1, Bounds DEF PhaseFacts, TypeOK
    <3> QED
      BY <3>1, <3>2, EndsRows
  <2>7. CASE GoOn
    BY <2>7 DEF GoOn, open, RowFacts, TurnoverIn, DayRows
  <2>8. CASE OtherReverts
    BY <2>8, FailsRows DEF OtherReverts, Codes, TypeOK
  <2>9. ASSUME NEW newLimit \in Limits, GiveUp(newLimit) PROVE RowFacts'
    <3>1. /\ phase = "inspect" /\ landed = {} /\ Ends("released") /\ UNCHANGED <<job, traded>>
          /\ limit' \in Limits /\ limit' >= limit
      BY <2>9 DEF GiveUp
    <3>2. job \in Jobs
      BY <3>1 DEF PhaseFacts
    <3> QED
      BY <3>1, <3>2, EndsRows
  <2>10. ASSUME NEW code \in Noise \cup {"E_NONCE"}, AttemptThrows(code) PROVE RowFacts'
    BY <2>10, FailsRows DEF AttemptThrows, Codes, Hard, TypeOK
  <2> QED
    BY <1>2, <2>1, <2>2, <2>3, <2>4, <2>5, <2>6, <2>7, <2>8, <2>9, <2>10 DEF Steps
<1>3. CASE Supervise
  BY <1>3 DEF Supervise, open, RowFacts, TurnoverIn, DayRows
<1>4. CASE OperatorResumes
  BY <1>4 DEF OperatorResumes, RowFacts, TurnoverIn, DayRows
<1>5. CASE Crash
  BY <1>5, RowsKept DEF Crash
<1>6. CASE Midnight
  BY <1>6 DEF Midnight, open, RowFacts, TurnoverIn, DayRows
<1>7. CASE UNCHANGED vars
  BY <1>7 DEF vars, open, RowFacts, TurnoverIn, DayRows
<1> QED
  BY <1>1, <1>2, <1>3, <1>4, <1>5, <1>6, <1>7 DEF Next

LEMMA RowStart ==
  ASSUME Init
  PROVE  RowFacts
<1>1. TypeOK /\ rows \in RowTables
  BY TypeStart DEF TypeOK, RowTables
<1>2. limit \in Nat
  BY <1>1, Bounds DEF TypeOK
<1>3. ASSUME NEW day \in 0 .. MaxDay PROVE TurnoverIn(rows, day) <= limit
  <2>1. \A j \in Jobs : DayRows(rows, day)[j] = 0
    BY DEF Init, NoRow, Counts, DayRows
  <2>2. PICK f : f = DayRows(rows, day)
    OBVIOUS
  <2>3. Cardinality(Jobs) \in Nat
    BY Bounds, FS_CardinalityType
  <2>4. SumFunctionOnSet(f, Jobs) = Cardinality(Jobs) * 0
    <3>1. IsFiniteSet(Jobs) /\ 0 \in Int /\ \A j \in Jobs : f[j] = 0
      BY <2>1, <2>2, Bounds
    <3> QED
      BY <3>1, SumOfEquals, Zenon
  <2> QED
    BY <1>1, <1>2, <2>2, <2>3, <2>4, TurnoverNat
<1>4. \A j \in Jobs : rows[j] = NoRow /\ traded[j] = 0
  BY DEF Init
<1> QED
  BY <1>3, <1>4 DEF Init, RowFacts, NoRow

\* What the jobs of a day trade stays within the limit (reserveDailyTurnover,
\* confirmDailyTurnover, releaseDailyTurnover): the rows of a day add up to no
\* more than the limit, and no job trades more than its row holds.
THEOREM TurnoverStaysWithinLimit == Spec => []TurnoverWithinLimit
<1>1. Init => TypeOK /\ PhaseFacts /\ RowFacts
  BY TypeStart, RowStart
<1>2. TypeOK /\ PhaseFacts /\ RowFacts /\ [Next]_vars => (TypeOK /\ PhaseFacts /\ RowFacts)'
  BY TypeStep, RowStep
<1>3. TypeOK /\ RowFacts => TurnoverWithinLimit
  <2> SUFFICES ASSUME TypeOK, RowFacts, NEW day \in 0 .. MaxDay
               PROVE  SumFunction([j \in Jobs |-> IF rows[j].day = day THEN traded[j] ELSE 0]) <= limit
    BY DEF TurnoverWithinLimit
  <2>1. rows \in RowTables /\ traded \in [Jobs -> Nat] /\ limit \in Nat
    BY Bounds DEF TypeOK, RowTables
  <2>2. PICK f : f = [j \in Jobs |-> IF rows[j].day = day THEN traded[j] ELSE 0]
    OBVIOUS
  <2>3. PICK g : g = DayRows(rows, day)
    OBVIOUS
  <2>4. ASSUME NEW j \in Jobs PROVE f[j] \in Nat /\ g[j] \in Nat /\ f[j] <= g[j]
    <3>1. traded[j] \in Nat /\ rows[j].amount \in Nat
      BY <2>1 DEF RowTables
    <3>2. traded[j] <= IF rows[j].state \in {"reserved", "confirmed"} THEN rows[j].amount ELSE 0
      BY DEF RowFacts
    <3> QED
      BY <2>2, <2>3, <3>1, <3>2 DEF DayRows, Counts
  <2>5. SumFunctionOnSet(f, Jobs) <= SumFunctionOnSet(g, Jobs)
    <3>1. /\ IsFiniteSet(Jobs) /\ (\A j \in Jobs : f[j] \in Int) /\ (\A j \in Jobs : g[j] \in Int)
          /\ \A j \in Jobs : f[j] <= g[j]
      BY <2>4, Bounds
    <3> QED
      BY <3>1, SumMonotonic, Zenon
  <2>6. SumFunctionOnSet(f, Jobs) \in Nat
    BY <2>4, SumNat, Bounds
  <2>7. TurnoverIn(rows, day) = SumFunctionOnSet(g, Jobs) /\ TurnoverIn(rows, day) \in Nat
    BY <2>1, <2>3, TurnoverNat
  <2>8. TurnoverIn(rows, day) <= limit
    BY DEF RowFacts
  <2> QED
    BY <2>1, <2>2, <2>5, <2>6, <2>7, <2>8 DEF SumFunction
<1> QED
  BY <1>1, <1>2, <1>3, PTL DEF Spec

-----------------------------------------------------------------------------
(* Reverted swaps *)

\* how far up its ladder each swap has come, one that is done all the way
Climbs(d, r) == [s \in Swaps |-> IF s \in d THEN Rungs ELSE AtMost(r[s], Rungs)]
Climbed(d, r) == SumFunction(Climbs(d, r))

\* Reverts are paid for by strikes, or by rungs that swaps have climbed.
LadderFacts ==
  /\ strikes.fails < 3 => burnt <= strikes.fails
  /\ strikes.fails = 3 /\ ~quarantined => Rungs >= 2 /\ \A s \in Swaps : reverts[s] < Rungs
  /\ ~quarantined /\ Rungs >= 2 => burnt <= Climbed(done, reverts)
  /\ burnt <= 3 \/ burnt <= Climbed(done, reverts)

LEMMA ClimbedNat ==
  ASSUME Base >= 4, NEW d, NEW r \in [Swaps -> 0 .. 8]
  PROVE  /\ Climbed(d, r) = SumFunctionOnSet(Climbs(d, r), Swaps)
         /\ Climbed(d, r) \in Nat
         /\ \A s \in Swaps : Climbs(d, r)[s] \in 0 .. Rungs
<1>1. Rungs \in 0 .. 8
  BY RungsAre
<1>2. \A s \in Swaps : Climbs(d, r)[s] \in 0 .. Rungs
  BY <1>1 DEF Climbs, AtMost
<1>3. Climbed(d, r) = SumFunctionOnSet(Climbs(d, r), Swaps)
  BY DEF Climbed, SumFunction, Climbs
<1>4. \A s \in Swaps : Climbs(d, r)[s] \in Nat
  BY <1>1, <1>2
<1>5. SumFunctionOnSet(Climbs(d, r), Swaps) \in Nat
  BY <1>4, SumNat, LimitsAssumption
<1> QED
  BY <1>2, <1>3, <1>5

\* All swaps together climb no further than their ladders go.
LEMMA ClimbedBounded ==
  ASSUME Base >= 4, NEW d, NEW r \in [Swaps -> 0 .. 8]
  PROVE  Climbed(d, r) <= Cardinality(Swaps) * Rungs
<1>1. Rungs \in 0 .. 8
  BY RungsAre
<1>2. PICK f : f = Climbs(d, r)
  OBVIOUS
<1>3. PICK g : g = [s \in Swaps |-> Rungs]
  OBVIOUS
<1>4. /\ IsFiniteSet(Swaps) /\ (\A s \in Swaps : f[s] \in Int) /\ (\A s \in Swaps : g[s] \in Int)
      /\ \A s \in Swaps : f[s] <= g[s]
  BY <1>1, <1>2, <1>3, ClimbedNat, LimitsAssumption
<1>5. SumFunctionOnSet(f, Swaps) <= SumFunctionOnSet(g, Swaps)
  BY <1>4, SumMonotonic, Zenon
<1>6. Rungs \in Int /\ \A s \in Swaps : g[s] = Rungs
  BY <1>1, <1>3
<1>7. SumFunctionOnSet(g, Swaps) = Cardinality(Swaps) * Rungs
  BY <1>4, <1>6, SumOfEquals, Zenon
<1> QED
  BY <1>2, <1>5, <1>7, ClimbedNat

\* Swaps that land, and counters that grow, only take the sum up.
LEMMA ClimbedRises ==
  ASSUME Base >= 4, NEW d, NEW e, NEW r \in [Swaps -> 0 .. 8], NEW q \in [Swaps -> 0 .. 8],
         \A s \in Swaps : s \in e \/ (s \notin d /\ r[s] <= q[s])
  PROVE  Climbed(d, r) <= Climbed(e, q)
<1>1. Rungs \in 0 .. 8
  BY RungsAre
<1>2. PICK f : f = Climbs(d, r)
  OBVIOUS
<1>3. PICK g : g = Climbs(e, q)
  OBVIOUS
<1>4. IsFiniteSet(Swaps) /\ (\A s \in Swaps : f[s] \in Int) /\ (\A s \in Swaps : g[s] \in Int)
  BY <1>1, <1>2, <1>3, ClimbedNat, LimitsAssumption
<1>5. \A s \in Swaps : f[s] <= g[s]
  BY <1>1, <1>2, <1>3 DEF Climbs, AtMost
<1>6. SumFunctionOnSet(f, Swaps) <= SumFunctionOnSet(g, Swaps)
  BY <1>4, <1>5, SumMonotonic, Zenon
<1> QED
  BY <1>2, <1>3, <1>6, ClimbedNat

\* A revert below the cap is one rung more; at the cap the swap alone has
\* climbed all of them.
LEMMA ClimbOne ==
  ASSUME Base >= 4, NEW d, NEW s \in Swaps \ d, NEW r \in [Swaps -> 0 .. 8]
  PROVE  LET q == [r EXCEPT ![s] = AtMost(r[s] + 1, 8)]
         IN  /\ q \in [Swaps -> 0 .. 8]
             /\ r[s] < Rungs => Climbed(d, q) = Climbed(d, r) + 1
             /\ r[s] >= Rungs => /\ Climbed(d, q) = Climbed(d, r) /\ Climbed(d, r) >= Rungs
                                 /\ q[s] >= Rungs
<1>1. Rungs \in 0 .. 8
  BY RungsAre
<1>2. PICK q : q = [r EXCEPT ![s] = AtMost(r[s] + 1, 8)]
  OBVIOUS
<1>3. /\ q \in [Swaps -> 0 .. 8] /\ r[s] \in 0 .. 8
      /\ q[s] = AtMost(r[s] + 1, 8) /\ \A t \in Swaps \ {s} : q[t] = r[t]
  BY <1>2 DEF AtMost
<1>4. PICK f : f = Climbs(d, r)
  OBVIOUS
<1>5. PICK g : g = Climbs(d, q)
  OBVIOUS
<1>6. /\ f[s] = AtMost(r[s], Rungs) /\ g[s] = AtMost(q[s], Rungs)
      /\ \A t \in Swaps \ {s} : g[t] = f[t]
  BY <1>3, <1>4, <1>5 DEF Climbs
<1>7. /\ s \in Swaps /\ IsFiniteSet(Swaps) /\ (\A t \in Swaps : f[t] \in Int) /\ g[s] \in Int
      /\ \A t \in Swaps : f[t] \in 0 .. Rungs
  BY <1>1, <1>3, <1>4, <1>5, ClimbedNat, LimitsAssumption
<1>8. SumFunctionOnSet(g, Swaps) = SumFunctionOnSet(f, Swaps) + (g[s] - f[s])
  <2>1. /\ IsFiniteSet(Swaps) /\ s \in Swaps /\ (\A t \in Swaps : f[t] \in Int) /\ g[s] \in Int
        /\ \A t \in Swaps \ {s} : g[t] = f[t]
    BY <1>6, <1>7
  <2> QED
    BY <2>1, SumUpdate
<1>9. /\ Climbed(d, r) = SumFunctionOnSet(f, Swaps) /\ Climbed(d, q) = SumFunctionOnSet(g, Swaps)
      /\ Climbed(d, r) \in Nat /\ Climbed(d, q) \in Nat
  BY <1>3, <1>4, <1>5, ClimbedNat
<1>10. r[s] < Rungs => Climbed(d, q) = Climbed(d, r) + 1
  <2>1. r[s] < Rungs => g[s] - f[s] = 1
    BY <1>1, <1>3, <1>6 DEF AtMost
  <2> QED
    BY <1>8, <1>9, <2>1
<1>11. ASSUME r[s] >= Rungs
       PROVE  Climbed(d, q) = Climbed(d, r) /\ Climbed(d, r) >= Rungs /\ q[s] >= Rungs
  <2>1. q[s] >= Rungs /\ f[s] = Rungs /\ g[s] - f[s] = 0
    BY <1>1, <1>3, <1>6, <1>11 DEF AtMost
  <2>2. PICK z : z = [t \in Swaps |-> 0]
    OBVIOUS
  <2>3. PICK y : y = [t \in Swaps |-> IF t = s THEN Rungs ELSE 0]
    OBVIOUS
  <2>4. 0 \in Int /\ (\A t \in Swaps : z[t] = 0) /\ (\A t \in Swaps : z[t] \in Int)
    BY <2>2
  <2>5. SumFunctionOnSet(z, Swaps) = Cardinality(Swaps) * 0
    BY <1>7, <2>4, SumOfEquals, Zenon
  <2>6. Cardinality(Swaps) \in Nat
    BY <1>7, FS_CardinalityType
  <2>7. /\ y[s] = Rungs /\ z[s] = 0 /\ y[s] \in Int /\ \A t \in Swaps \ {s} : y[t] = z[t]
    BY <1>1, <2>2, <2>3
  <2>8. SumFunctionOnSet(y, Swaps) = SumFunctionOnSet(z, Swaps) + (y[s] - z[s])
    <3>1. /\ IsFiniteSet(Swaps) /\ s \in Swaps /\ (\A t \in Swaps : z[t] \in Int) /\ y[s] \in Int
          /\ \A t \in Swaps \ {s} : y[t] = z[t]
      BY <1>7, <2>4, <2>7
    <3> QED
      BY <3>1, SumUpdate
  <2>9. (\A t \in Swaps : y[t] \in Int) /\ \A t \in Swaps : y[t] <= f[t]
    <3>1. ASSUME NEW t \in Swaps PROVE y[t] \in Int /\ y[t] <= f[t]
      <4>1. f[t] \in Int /\ 0 <= f[t]
        BY <1>1, <1>7
      <4>2. y[t] = IF t = s THEN Rungs ELSE 0
        BY <2>3
      <4> QED
        BY <1>1, <2>1, <4>1, <4>2
    <3> QED
      BY <3>1
  <2>10. SumFunctionOnSet(y, Swaps) <= SumFunctionOnSet(f, Swaps)
    BY <1>7, <2>9, SumMonotonic, Zenon
  <2>11. SumFunctionOnSet(y, Swaps) = Rungs
    BY <1>1, <2>5, <2>6, <2>7, <2>8
  <2> QED
    BY <1>1, <1>8, <1>9, <2>1, <2>10, <2>11
<1> QED
  BY <1>2, <1>3, <1>10, <1>11

\* A failed attempt other than a reverted swap.
LEMMA FailsLadder ==
  ASSUME Base >= 4, TypeOK, PhaseFacts, LadderFacts, NEW code \in Codes, Fails(code, reverts),
         phase \in {"inspect", "resumed"}, UNCHANGED burnt
  PROVE  LadderFacts'
<1> DEFINE n == NextStrikes(code)
<1>1. strikes' = n /\ quarantined' = Quarantines(code, reverts) /\ UNCHANGED <<reverts, done, burnt>>
  BY DEF Fails
<1>2. strikes.fails \in 0 .. 3 /\ n.fails \in 0 .. 3 /\ n.fails >= strikes.fails /\ ~quarantined
  <2>1. strikes.fails \in 0 .. 3 /\ strikes.streak \in 0 .. 3 /\ ~quarantined
    BY DEF TypeOK, PhaseFacts
  <2> QED
    BY <2>1 DEF NextStrikes, AtMost
<1>3. burnt \in Nat /\ reverts \in [Swaps -> 0 .. 8]
  BY DEF TypeOK
<1> HIDE DEF n
<1>4. n.fails < 3 => burnt' <= n.fails
  BY <1>1, <1>2, <1>3 DEF LadderFacts
<1>5. ASSUME n.fails = 3, ~quarantined' PROVE Rungs >= 2 /\ \A s \in Swaps : reverts[s] < Rungs
  <2>1. EscalationUncapped(reverts)
    BY <1>1, <1>5 DEF Quarantines, Deferred, n
  <2> QED
    BY <1>3, <2>1, DeferredBelowCap
<1>6. Climbed(done, reverts)' = Climbed(done, reverts)
  BY <1>1 DEF Climbed, Climbs
<1> QED
  BY <1>1, <1>2, <1>4, <1>5, <1>6 DEF LadderFacts

\* A swap reverts in recovery.
LEMMA RevertLadder ==
  ASSUME Base >= 4, TypeOK, PhaseFacts, LadderFacts, NEW s \in Swaps, SwapReverts(s)
  PROVE  LadderFacts'
<1>1. PICK q : q = [reverts EXCEPT ![s] = AtMost(reverts[s] + 1, 8)]
  OBVIOUS
<1>2. Fails("E_TX_REVERTED", q)
  BY <1>1, Zenon DEF SwapReverts
<1>3. /\ s \notin done /\ ~quarantined /\ burnt' = burnt + 1 /\ UNCHANGED done
      /\ reverts' = q /\ strikes' = NextStrikes("E_TX_REVERTED")
      /\ quarantined' = Quarantines("E_TX_REVERTED", q)
  BY <1>2 DEF SwapReverts, Fails, PhaseFacts
<1>4. /\ burnt \in Nat /\ reverts \in [Swaps -> 0 .. 8] /\ strikes.fails \in 0 .. 3
      /\ Rungs \in 0 .. 8
  BY RungsAre DEF TypeOK
<1>5. /\ q \in [Swaps -> 0 .. 8]
      /\ reverts[s] < Rungs => Climbed(done, q) = Climbed(done, reverts) + 1
      /\ reverts[s] >= Rungs => /\ Climbed(done, q) = Climbed(done, reverts)
                                /\ Climbed(done, reverts) >= Rungs /\ q[s] >= Rungs
  <2>1. s \in Swaps \ done
    BY <1>3
  <2> QED
    BY <1>1, <1>4, <2>1, ClimbOne
<1>6. Climbed(done, reverts) \in Nat /\ Climbed(done, q) \in Nat
  BY <1>4, <1>5, ClimbedNat
<1>7. strikes'.fails = AtMost(strikes.fails + 1, 3)
  BY <1>3 DEF NextStrikes, Noise
<1>8. ASSUME strikes'.fails = 3, ~quarantined' PROVE Rungs >= 2 /\ \A t \in Swaps : q[t] < Rungs
  <2>1. EscalationUncapped(q)
    BY <1>3, <1>8 DEF Quarantines, Deferred
  <2> QED
    BY <1>5, <2>1, DeferredBelowCap
<1>9. Climbed(done, reverts)' = Climbed(done, q)
  BY <1>3 DEF Climbed, Climbs
<1>10. PICK c, e : c = Climbed(done, reverts) /\ e = Climbed(done, q)
  OBVIOUS
<1>11. /\ strikes.fails < 3 => burnt <= strikes.fails
       /\ strikes.fails = 3 => Rungs >= 2 /\ reverts[s] < Rungs
       /\ Rungs >= 2 => burnt <= c
  BY <1>3, <1>10 DEF LadderFacts
<1>12. /\ c \in Nat /\ e \in Nat /\ reverts[s] \in 0 .. 8 /\ q[s] \in 0 .. 8
       /\ reverts[s] < Rungs => e = c + 1
       /\ reverts[s] >= Rungs => e = c /\ c >= Rungs /\ q[s] >= Rungs
  BY <1>4, <1>5, <1>6, <1>10
<1>13. strikes'.fails < 3 => burnt' <= strikes'.fails
  BY <1>3, <1>4, <1>7, <1>11 DEF AtMost
<1>14. ASSUME ~quarantined', Rungs >= 2 PROVE burnt' <= e
  <2>1. CASE reverts[s] < Rungs
    BY <1>3, <1>4, <1>11, <1>12, <1>14, <2>1
  <2>2. CASE reverts[s] >= Rungs
    <3>1. strikes.fails # 3
      BY <1>4, <1>11, <1>12, <2>2
    <3>2. strikes'.fails # 3
      BY <1>4, <1>8, <1>12, <1>14, <2>2
    <3>3. strikes.fails <= 1
      BY <1>4, <1>7, <3>1, <3>2 DEF AtMost
    <3> QED
      BY <1>3, <1>4, <1>11, <1>12, <1>14, <2>2, <3>3
  <2> QED
    BY <1>4, <1>12, <2>1, <2>2
<1>15. burnt' <= 3 \/ burnt' <= e
  <2>1. CASE Rungs >= 2 /\ reverts[s] < Rungs
    BY <1>3, <1>4, <1>11, <1>12, <2>1
  <2>2. CASE Rungs < 2 \/ reverts[s] >= Rungs
    <3>1. strikes.fails < 3
      BY <1>4, <1>11, <1>12, <2>2
    <3> QED
      BY <1>3, <1>4, <1>11, <3>1
  <2> QED
    BY <1>4, <1>12, <2>1, <2>2
<1> QED
  BY <1>3, <1>8, <1>9, <1>10, <1>13, <1>14, <1>15 DEF LadderFacts

\* Nothing has reverted since the operator decided, or since the job began.
LEMMA FreshLadder ==
  ASSUME Base >= 4, TypeOK', burnt' = 0, strikes' = NoStrikes
  PROVE  LadderFacts'
<1>1. PICK d, r : d = done' /\ r = reverts'
  OBVIOUS
<1>2. r \in [Swaps -> 0 .. 8]
  BY <1>1 DEF TypeOK
<1>3. Climbed(d, r) \in Nat
  BY <1>2, ClimbedNat
<1>4. Climbed(done, reverts)' = Climbed(d, r)
  BY <1>1 DEF Climbed, Climbs
<1>5. strikes'.fails = 0
  BY DEF NoStrikes
<1> QED
  BY <1>3, <1>4, <1>5 DEF LadderFacts

LEMMA LadderStep ==
  ASSUME Base >= 4, TypeOK, PhaseFacts, LadderFacts, [Next]_vars
  PROVE  LadderFacts'
<1>1. TypeOK'
  BY TypeStep
<1>2. ASSUME UNCHANGED <<done, reverts, strikes, quarantined, burnt>> PROVE LadderFacts'
  BY <1>2 DEF LadderFacts, Climbed, Climbs
<1>3. CASE Run
  <2>1. CASE RunAbandons
    BY <1>1, <2>1, FreshLadder DEF RunAbandons, Ends
  <2>2. CASE StartJob \/ ReserveEstimate \/ ExitLands \/ RunThrows
    BY <1>2, <2>2 DEF StartJob, ReserveEstimate, ExitLands, RunThrows, open, hist
  <2> QED
    BY <1>3, <2>1, <2>2 DEF Run
<1>4. CASE Steps
  <2>1. ASSUME NEW todo \in SUBSET (Swaps \ done), PlanSwaps(todo) PROVE LadderFacts'
    BY <1>2, <2>1 DEF PlanSwaps, hist
  <2>2. ASSUME NEW todo \in SUBSET (Swaps \ done), OverLimit(todo) PROVE LadderFacts'
    BY <2>2, FailsLadder DEF OverLimit, Codes, Hard
  <2>3. ASSUME NEW s \in Swaps, SwapLands(s) PROVE LadderFacts'
    <3>1. PICK d, q : d = done' /\ q = reverts'
      OBVIOUS
    <3>2. /\ d = done \cup {s}
          /\ \/ q = [reverts EXCEPT ![s] = 0]
             \/ q = [reverts EXCEPT ![s] = reverts[s]]
          /\ s \in plan /\ plan # None /\ UNCHANGED <<strikes, quarantined, burnt>>
      BY <2>3, <3>1 DEF SwapLands, hist
    <3>3. reverts \in [Swaps -> 0 .. 8] /\ q \in [Swaps -> 0 .. 8] /\ burnt \in Nat
      BY <1>1, <3>1 DEF TypeOK
    <3>4. \A t \in Swaps : t \in d \/ (t \notin done /\ reverts[t] <= q[t])
      <4> SUFFICES ASSUME NEW t \in Swaps, t \notin d PROVE t \notin done /\ reverts[t] <= q[t]
        OBVIOUS
      <4>1. t # s /\ t \notin done /\ q[t] = reverts[t] /\ reverts[t] \in 0 .. 8
        BY <3>2, <3>3
      <4> QED
        BY <4>1
    <3>5. Climbed(done, reverts) <= Climbed(d, q)
      BY <3>3, <3>4, ClimbedRises
    <3>6. Climbed(done, reverts) \in Nat /\ Climbed(d, q) \in Nat
      BY <3>3, ClimbedNat
    <3>7. PICK c, e : c = Climbed(done, reverts) /\ e = Climbed(d, q)
      OBVIOUS
    <3>8. Climbed(done, reverts)' = e
      BY <3>1, <3>7 DEF Climbed, Climbs
    <3>9. \A t \in Swaps : q[t] <= reverts[t]
      <4> SUFFICES ASSUME NEW t \in Swaps PROVE q[t] <= reverts[t]
        OBVIOUS
      <4>1. reverts[t] \in 0 .. 8 /\ (q[t] = reverts[t] \/ q[t] = 0)
        BY <3>2, <3>3
      <4> QED
        BY <4>1
    <3>10. strikes.fails = 3 /\ ~quarantined => Rungs >= 2 /\ \A t \in Swaps : q[t] < Rungs
      BY <3>3, <3>9, RungsAre DEF LadderFacts
    <3>11. /\ strikes.fails < 3 => burnt <= strikes.fails
           /\ ~quarantined /\ Rungs >= 2 => burnt <= c
           /\ burnt <= 3 \/ burnt <= c
      BY <3>7 DEF LadderFacts
    <3>12. /\ ~quarantined /\ Rungs >= 2 => burnt <= e
           /\ burnt <= 3 \/ burnt <= e
      BY <3>3, <3>5, <3>6, <3>7, <3>11
    <3> QED
      BY <3>1, <3>2, <3>8, <3>10, <3>11, <3>12 DEF LadderFacts
  <2>4. ASSUME NEW s \in Swaps, SwapReverts(s) PROVE LadderFacts'
    BY <2>4, RevertLadder
  <2>5. CASE MintLands \/ GoOn
    BY <1>2, <2>5 DEF MintLands, GoOn, open, hist
  <2>6. CASE Commit
    BY <1>1, <2>6, FreshLadder DEF Commit, Ends
  <2>7. CASE OtherReverts
    BY <2>7, FailsLadder DEF OtherReverts, Codes
  <2>8. ASSUME NEW newLimit \in Limits, GiveUp(newLimit) PROVE LadderFacts'
    BY <1>1, <2>8, FreshLadder DEF GiveUp, Ends
  <2>9. ASSUME NEW code \in Noise \cup {"E_NONCE"}, AttemptThrows(code) PROVE LadderFacts'
    BY <2>9, FailsLadder DEF AttemptThrows, Codes, Hard
  <2> QED
    BY <1>4, <2>1, <2>2, <2>3, <2>4, <2>5, <2>6, <2>7, <2>8, <2>9 DEF Steps
<1>5. CASE OperatorResumes
  BY <1>1, <1>5, FreshLadder DEF OperatorResumes
<1>6. CASE Supervise \/ Crash \/ Midnight
  BY <1>2, <1>6 DEF Supervise, Crash, Midnight, open, hist
<1>7. CASE UNCHANGED vars
  BY <1>2, <1>7 DEF vars, open, hist
<1> QED
  BY <1>3, <1>4, <1>5, <1>6, <1>7 DEF Next

LEMMA LadderStart ==
  ASSUME Base >= 4, Init
  PROVE  LadderFacts
<1>1. reverts \in [Swaps -> 0 .. 8] /\ burnt = 0 /\ strikes.fails = 0
  BY DEF Init, NoStrikes
<1>2. Climbed(done, reverts) \in Nat
  BY <1>1, ClimbedNat
<1> QED
  BY <1>1, <1>2 DEF LadderFacts

\* Gas is not burnt for ever (scheduleRecoveryRetry with swapEscalationUncapped):
\* for a strategy whose maxSlippageBps is 4 at least, the swaps of a job revert
\* at most three times between two decisions of the operator, or once for each
\* rung of their ladders.  A base of 1 to 3 never reaches the cap in the 8
\* doublings there are.
THEOREM RevertsStayBounded == Base >= 4 => (Spec => []RevertsBounded)
<1> SUFFICES ASSUME Base >= 4 PROVE Spec => []RevertsBounded
  OBVIOUS
<1>1. Init => TypeOK /\ PhaseFacts /\ LadderFacts
  BY TypeStart, LadderStart
<1>2. TypeOK /\ PhaseFacts /\ LadderFacts /\ [Next]_vars => (TypeOK /\ PhaseFacts /\ LadderFacts)'
  BY TypeStep, LadderStep
<1>3. TypeOK /\ LadderFacts => RevertsBounded
  <2> SUFFICES ASSUME TypeOK, LadderFacts PROVE RevertsBounded
    OBVIOUS
  <2>1. burnt \in Nat /\ reverts \in [Swaps -> 0 .. 8]
    BY DEF TypeOK
  <2>2. PICK c, n : c = Climbed(done, reverts) /\ n = Cardinality(Swaps) * Rungs
    OBVIOUS
  <2>3. c <= n /\ c \in Nat
    BY <2>1, <2>2, ClimbedBounded, ClimbedNat
  <2>4. n \in Nat
    <3>1. Cardinality(Swaps) \in Nat /\ Rungs \in Nat
      BY RungsAre, FS_CardinalityType, LimitsAssumption
    <3> QED
      BY <2>2, <3>1
  <2>5. burnt <= 3 \/ burnt <= c
    BY <2>2 DEF LadderFacts
  <2>6. burnt <= AtLeast(3, n)
    BY <2>1, <2>3, <2>4, <2>5 DEF AtLeast
  <2> QED
    BY <2>2, <2>6 DEF RevertsBounded
<1> QED
  BY <1>1, <1>2, <1>3, PTL DEF Spec

\* A quarantine is put off only while a revert still widens something (Deferred,
\* atSlippageCap): true from a maxSlippageBps of 4 on.  Below it the ladder stops
\* short of the cap and is never seen to be spent.
THEOREM SpentLadderIsSeen == Base >= 4 => (Spec => []SpentLadderQuarantines)
<1> SUFFICES ASSUME Base >= 4 PROVE Spec => []SpentLadderQuarantines
  OBVIOUS
<1>1. Init => TypeOK /\ PhaseFacts /\ LadderFacts
  BY TypeStart, LadderStart
<1>2. TypeOK /\ PhaseFacts /\ LadderFacts /\ [Next]_vars => (TypeOK /\ PhaseFacts /\ LadderFacts)'
  BY TypeStep, LadderStep
<1>3. TypeOK /\ LadderFacts => SpentLadderQuarantines
  <2> SUFFICES ASSUME TypeOK, LadderFacts, strikes.fails = 3, ~quarantined, NEW s \in Swaps
               PROVE  EscalatedSlippage(reverts[s] + 1) # EscalatedSlippage(reverts[s])
    BY DEF SpentLadderQuarantines
  <2>1. Rungs \in 0 .. 8 /\ reverts[s] \in 0 .. 8 /\ reverts[s] < Rungs
    BY RungsAre DEF LadderFacts, TypeOK
  <2>2. reverts[s] \in 0 .. 7 /\ ~AtSlippageCap(reverts[s])
    BY <2>1, RungsAre
  <2>3. EscalatedSlippage(reverts[s] + 1) > EscalatedSlippage(reverts[s])
    BY <2>2, LadderWidens
  <2>4. EscalatedSlippage(reverts[s]) \in Int
    BY <2>1, Ladder, LimitsAssumption DEF AtLeast, SWAP_RECOVERY_MAX_SLIPPAGE_BPS
  <2> QED
    BY <2>3, <2>4
<1> QED
  BY <1>1, <1>2, <1>3, PTL DEF Spec

=============================================================================
