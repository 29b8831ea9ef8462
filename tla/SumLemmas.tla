------------------------------ MODULE SumLemmas -------------------------------
(***************************************************************************)
(* Facts about sums over finite sets, for the modules that account for     *)
(* turnover and tokens.  Induction is done by sets: a set of natural       *)
(* numbers, or of subsets of a finite set, that is closed under the step   *)
(* holds them all.                                                         *)
(***************************************************************************)
EXTENDS Integers, FiniteSets, Functions, FiniteSetTheorems,
        WellFoundedInduction, TLAPS

\* the element a fold takes out of a set
Pick(s) == CHOOSE x \in s : TRUE

\* g is the recursive function that sums f over the subsets in D
Sums(f, D, g) ==
  g = [s \in D |-> IF s = {} THEN 0 ELSE f[Pick(s)] + g[s \ {Pick(s)}]]

\* the subsets of S that have no more than n elements
UpTo(S, n) == {s \in SUBSET S : Cardinality(s) <= n}

-----------------------------------------------------------------------------
(* Induction *)

\* A set of naturals that has zero and the successor of each of its members.
LEMMA NaturalSteps ==
  ASSUME NEW P, P \subseteq Nat, 0 \in P, \A n \in P : n + 1 \in P
  PROVE  P = Nat
<1> DEFINE Bad == Nat \ P
<1>1. SUFFICES ASSUME Bad # {} PROVE FALSE
  OBVIOUS
<1>2. PICK x \in Bad : \A y \in Bad : ~(<<y, x>> \in OpToRel(<, Nat))
  BY <1>1, NatLessThanWellFounded, WFMin
<1>3. x \in Nat /\ x # 0 /\ x \notin P
  OBVIOUS
<1>4. x - 1 \in Nat /\ x - 1 < x /\ (x - 1) + 1 = x
  BY <1>3
<1>5. <<x - 1, x>> \in OpToRel(<, Nat)
  <2>1. <<x - 1, x>> \in Nat \X Nat /\ <<x - 1, x>>[1] < <<x - 1, x>>[2]
    BY <1>3, <1>4
  <2> QED
    BY <2>1, Zenon DEF OpToRel
<1>6. x - 1 \in P
  BY <1>2, <1>4, <1>5
<1> QED
  BY <1>3, <1>4, <1>6

\* What a fold takes out of a set was in it.
LEMMA PickIn ==
  ASSUME NEW s, s # {}
  PROVE  Pick(s) \in s
BY DEF Pick

\* A finite set is reached from the empty set by the steps of a fold.
LEMMA SubsetSteps ==
  ASSUME NEW S, IsFiniteSet(S), NEW P, {} \in P,
         \A T \in SUBSET S : T # {} /\ T \ {Pick(T)} \in P => T \in P
  PROVE  S \in P
<1> DEFINE N == {n \in Nat : \A T \in SUBSET S : Cardinality(T) = n => T \in P}
<1>1. \A T \in SUBSET S : IsFiniteSet(T) /\ Cardinality(T) \in Nat
  BY FS_Subset, FS_CardinalityType
<1>2. 0 \in N
  BY <1>1, FS_EmptySet
<1>3. ASSUME NEW n \in N PROVE n + 1 \in N
  <2>1. ASSUME NEW T \in SUBSET S, Cardinality(T) = n + 1 PROVE T \in P
    <3>1. T # {}
      BY <2>1, FS_EmptySet
    <3>2. T \ {Pick(T)} \in SUBSET S /\ Cardinality(T \ {Pick(T)}) = n
      BY <1>1, <2>1, <3>1, PickIn, FS_RemoveElement
    <3> QED
      BY <3>1, <3>2
  <2> QED
    BY <2>1
<1>4. N = Nat
  <2> HIDE DEF N
  <2>1. N \subseteq Nat
    BY DEF N
  <2> QED
    BY <1>2, <1>3, <2>1, NaturalSteps
<1> QED
  BY <1>1, <1>4

-----------------------------------------------------------------------------
(* The defining equation *)

\* There is a function that sums over the subsets of a finite set.
LEMMA SumsExist ==
  ASSUME NEW f, NEW S, IsFiniteSet(S)
  PROVE  \E g : Sums(f, SUBSET S, g)
<1> DEFINE N == {n \in Nat : \E g : Sums(f, UpTo(S, n), g)}
<1>1. \A T \in SUBSET S : IsFiniteSet(T) /\ Cardinality(T) \in Nat
  BY FS_Subset, FS_CardinalityType
<1>2. 0 \in N
  <2>1. UpTo(S, 0) = {{}}
    BY <1>1, FS_EmptySet DEF UpTo
  <2>2. Sums(f, UpTo(S, 0), [s \in UpTo(S, 0) |-> 0])
    BY <2>1 DEF Sums
  <2> QED
    BY <2>2
<1>3. ASSUME NEW n \in N PROVE n + 1 \in N
  <2>1. PICK h : Sums(f, UpTo(S, n), h)
    OBVIOUS
  <2> DEFINE g == [s \in UpTo(S, n + 1) |->
                     IF s = {} THEN 0 ELSE f[Pick(s)] + h[s \ {Pick(s)}]]
  <2>2. ASSUME NEW s \in UpTo(S, n + 1), s # {} PROVE g[s \ {Pick(s)}] = h[s \ {Pick(s)}]
    <3> DEFINE t == s \ {Pick(s)}
    <3>1. Pick(s) \in s /\ s \in SUBSET S /\ Cardinality(s) <= n + 1
      BY <2>2, PickIn DEF UpTo
    <3>2. Cardinality(t) = Cardinality(s) - 1 /\ t \in SUBSET S
      BY <1>1, <3>1, FS_RemoveElement
    <3>3. t \in UpTo(S, n) /\ t \in UpTo(S, n + 1)
      BY <1>1, <3>1, <3>2 DEF UpTo
    <3>4. h[t] = IF t = {} THEN 0 ELSE f[Pick(t)] + h[t \ {Pick(t)}]
      BY <2>1, <3>3 DEF Sums
    <3> QED
      BY <3>3, <3>4
  <2>3. Sums(f, UpTo(S, n + 1), g)
    BY <2>2 DEF Sums
  <2> QED
    BY <2>3
<1>4. N = Nat
  <2> HIDE DEF N
  <2>1. N \subseteq Nat
    BY DEF N
  <2> QED
    BY <1>2, <1>3, <2>1, NaturalSteps
<1>5. UpTo(S, Cardinality(S)) = SUBSET S
  BY <1>1, FS_Subset DEF UpTo
<1>6. Cardinality(S) \in N
  BY <1>4, FS_CardinalityType
<1> QED
  BY <1>5, <1>6

\* What SumFunctionOnSet is.
LEMMA SumIs ==
  ASSUME NEW f, NEW S
  PROVE  SumFunctionOnSet(f, S) = (CHOOSE g : Sums(f, SUBSET S, g))[S]
BY DEF SumFunctionOnSet, FoldFunctionOnSet, MapThenFoldSet, Sums, Pick

\* The sum of T does not depend on the set T is part of.
LEMMA SumsAgree ==
  ASSUME NEW f, NEW S, IsFiniteSet(S), NEW g, Sums(f, SUBSET S, g),
         NEW T \in SUBSET S
  PROVE  g[T] = SumFunctionOnSet(f, T)
<1> DEFINE h == CHOOSE h : Sums(f, SUBSET T, h)
<1>1. IsFiniteSet(T)
  BY FS_Subset
<1>2. Sums(f, SUBSET T, h) /\ SumFunctionOnSet(f, T) = h[T]
  BY <1>1, SumsExist, SumIs
<1> HIDE DEF h
<1> DEFINE P == {U \in SUBSET T : g[U] = h[U]}
<1>3. \A U \in SUBSET T :
        /\ g[U] = IF U = {} THEN 0 ELSE f[Pick(U)] + g[U \ {Pick(U)}]
        /\ h[U] = IF U = {} THEN 0 ELSE f[Pick(U)] + h[U \ {Pick(U)}]
  <2>1. \A U \in SUBSET T : U \in SUBSET S
    OBVIOUS
  <2>2. ASSUME NEW U \in SUBSET T
        PROVE  g[U] = IF U = {} THEN 0 ELSE f[Pick(U)] + g[U \ {Pick(U)}]
    BY <2>1 DEF Sums
  <2>3. ASSUME NEW U \in SUBSET T
        PROVE  h[U] = IF U = {} THEN 0 ELSE f[Pick(U)] + h[U \ {Pick(U)}]
    BY <1>2 DEF Sums
  <2> QED
    BY <2>2, <2>3
<1>4. {} \in P
  BY <1>3
<1>5. \A U \in SUBSET T : U # {} /\ U \ {Pick(U)} \in P => U \in P
  BY <1>3
<1>6. T \in P
  <2> HIDE DEF P
  <2> QED
    BY <1>1, <1>4, <1>5, SubsetSteps
<1> QED
  BY <1>2, <1>6

\* SumFunctionOnSet obeys the equation it is defined by.
LEMMA SumEquation ==
  ASSUME NEW f, NEW S, IsFiniteSet(S)
  PROVE  SumFunctionOnSet(f, S) =
           IF S = {} THEN 0 ELSE f[Pick(S)] + SumFunctionOnSet(f, S \ {Pick(S)})
<1>1. PICK g : Sums(f, SUBSET S, g)
  BY SumsExist
<1>2. \A T \in SUBSET S : g[T] = SumFunctionOnSet(f, T)
  BY <1>1, SumsAgree
<1>3. g[S] = IF S = {} THEN 0 ELSE f[Pick(S)] + g[S \ {Pick(S)}]
  BY <1>1 DEF Sums
<1> QED
  BY <1>2, <1>3

\* Nothing sums up to zero.
LEMMA SumEmpty == \A f : SumFunctionOnSet(f, {}) = 0
BY SumEquation, FS_EmptySet

-----------------------------------------------------------------------------
(* What the sums of the models need *)

\* Sums of integers are integers.
LEMMA SumInt ==
  ASSUME NEW S, IsFiniteSet(S), NEW f, \A x \in S : f[x] \in Int
  PROVE  SumFunctionOnSet(f, S) \in Int
<1> DEFINE P == {T \in SUBSET S : SumFunctionOnSet(f, T) \in Int}
<1>1. \A T \in SUBSET S : IsFiniteSet(T)
  BY FS_Subset
<1>2. {} \in P
  BY SumEmpty, FS_EmptySet
<1>3. ASSUME NEW T \in SUBSET S, T # {}, T \ {Pick(T)} \in P PROVE T \in P
  BY <1>1, <1>3, SumEquation, PickIn
<1> HIDE DEF P
<1>4. S \in P
  BY <1>2, <1>3, SubsetSteps
<1> QED
  BY <1>4 DEF P

\* A greater summand makes no sum smaller.
LEMMA SumMonotonic ==
  ASSUME NEW S, IsFiniteSet(S),
         NEW f, \A x \in S : f[x] \in Int, NEW g, \A x \in S : g[x] \in Int,
         \A x \in S : f[x] <= g[x]
  PROVE  SumFunctionOnSet(f, S) <= SumFunctionOnSet(g, S)
<1> DEFINE P == {T \in SUBSET S : SumFunctionOnSet(f, T) <= SumFunctionOnSet(g, T)}
<1>1. ASSUME NEW T \in SUBSET S
      PROVE  /\ IsFiniteSet(T)
             /\ SumFunctionOnSet(f, T) \in Int /\ SumFunctionOnSet(g, T) \in Int
  <2>1. IsFiniteSet(T) /\ (\A x \in T : f[x] \in Int /\ g[x] \in Int)
    BY FS_Subset
  <2> QED
    BY <2>1, SumInt
<1>2. {} \in P
  BY SumEmpty, FS_EmptySet
<1>3. ASSUME NEW T \in SUBSET S, T # {}, T \ {Pick(T)} \in P PROVE T \in P
  <2> DEFINE p == Pick(T)  R == T \ {Pick(T)}
  <2>1. p \in S /\ R \in SUBSET S
    BY <1>3, PickIn
  <2>2. /\ SumFunctionOnSet(f, T) = f[p] + SumFunctionOnSet(f, R)
        /\ SumFunctionOnSet(g, T) = g[p] + SumFunctionOnSet(g, R)
    BY <1>1, <1>3, SumEquation
  <2>3. SumFunctionOnSet(f, R) <= SumFunctionOnSet(g, R)
    BY <1>3
  <2> HIDE DEF p, R
  <2>4. SumFunctionOnSet(f, T) <= SumFunctionOnSet(g, T)
    BY <1>1, <2>1, <2>2, <2>3
  <2> QED
    BY <2>4
<1> HIDE DEF P
<1>4. S \in P
  BY <1>2, <1>3, SubsetSteps
<1> QED
  BY <1>4 DEF P

\* The same summands have the same sum.
LEMMA SumSame ==
  ASSUME NEW S, IsFiniteSet(S),
         NEW f, \A x \in S : f[x] \in Int, NEW g, \A x \in S : g[x] = f[x]
  PROVE  SumFunctionOnSet(g, S) = SumFunctionOnSet(f, S)
BY SumMonotonic, SumInt

\* A sum of natural numbers is one.
LEMMA SumNat ==
  ASSUME NEW S, IsFiniteSet(S), NEW f, \A x \in S : f[x] \in Nat
  PROVE  SumFunctionOnSet(f, S) \in Nat
<1> DEFINE P == {T \in SUBSET S : SumFunctionOnSet(f, T) \in Nat}
<1>1. \A T \in SUBSET S : IsFiniteSet(T)
  BY FS_Subset
<1>2. {} \in P
  BY SumEmpty, FS_EmptySet
<1>3. ASSUME NEW T \in SUBSET S, T # {}, T \ {Pick(T)} \in P PROVE T \in P
  BY <1>1, <1>3, SumEquation, PickIn
<1> HIDE DEF P
<1>4. S \in P
  BY <1>2, <1>3, SubsetSteps
<1> QED
  BY <1>4 DEF P

\* What a change of one summand does to the sum.
LEMMA SumUpdate ==
  ASSUME NEW S, IsFiniteSet(S), NEW x \in S,
         NEW f, \A y \in S : f[y] \in Int, NEW g, g[x] \in Int,
         \A y \in S \ {x} : g[y] = f[y]
  PROVE  SumFunctionOnSet(g, S) = SumFunctionOnSet(f, S) + (g[x] - f[x])
<1> DEFINE P == {T \in SUBSET S :
                   SumFunctionOnSet(g, T) =
                     SumFunctionOnSet(f, T) + (IF x \in T THEN g[x] - f[x] ELSE 0)}
<1>1. \A y \in S : g[y] \in Int
  OBVIOUS
<1>2. ASSUME NEW T \in SUBSET S
      PROVE  /\ IsFiniteSet(T)
             /\ SumFunctionOnSet(f, T) \in Int /\ SumFunctionOnSet(g, T) \in Int
  <2>1. IsFiniteSet(T) /\ (\A y \in T : f[y] \in Int /\ g[y] \in Int)
    BY <1>1, FS_Subset
  <2> QED
    BY <2>1, SumInt
<1>3. {} \in P
  BY SumEmpty, FS_EmptySet
<1>4. ASSUME NEW T \in SUBSET S, T # {}, T \ {Pick(T)} \in P PROVE T \in P
  <2> DEFINE p == Pick(T)  R == T \ {Pick(T)}
  <2>1. p \in S /\ p \in T /\ R \in SUBSET S /\ (x \in R <=> x \in T /\ x # p)
    BY <1>4, PickIn
  <2>2. /\ SumFunctionOnSet(f, T) = f[p] + SumFunctionOnSet(f, R)
        /\ SumFunctionOnSet(g, T) = g[p] + SumFunctionOnSet(g, R)
    BY <1>2, <1>4, SumEquation
  <2>3. SumFunctionOnSet(g, R) =
          SumFunctionOnSet(f, R) + (IF x \in R THEN g[x] - f[x] ELSE 0)
    BY <1>4
  <2> HIDE DEF p, R
  <2>4. SumFunctionOnSet(f, R) \in Int /\ SumFunctionOnSet(g, R) \in Int
    BY <1>2, <2>1
  <2>5. CASE x = p
    <3>1. x \notin R /\ x \in T
      BY <2>1, <2>5
    <3>2. SumFunctionOnSet(g, T) = SumFunctionOnSet(f, T) + (g[x] - f[x])
      BY <1>1, <2>2, <2>3, <2>4, <2>5, <3>1
    <3> QED
      BY <3>1, <3>2
  <2>6. CASE x # p
    <3>1. g[p] = f[p] /\ f[p] \in Int
      BY <2>1, <2>6
    <3>2. SumFunctionOnSet(g, T) =
            SumFunctionOnSet(f, T) + (IF x \in T THEN g[x] - f[x] ELSE 0)
      BY <1>1, <2>1, <2>2, <2>3, <2>4, <2>6, <3>1
    <3> QED
      BY <3>2
  <2> QED
    BY <2>5, <2>6
<1> HIDE DEF P
<1>5. S \in P
  BY <1>3, <1>4, SubsetSteps
<1> QED
  BY <1>5 DEF P

\* Any summand can be taken out first, whichever one a fold takes.
LEMMA SumWithout ==
  ASSUME NEW S, IsFiniteSet(S), NEW f, \A y \in S : f[y] \in Int, NEW x \in S
  PROVE  SumFunctionOnSet(f, S) = f[x] + SumFunctionOnSet(f, S \ {x})
<1> DEFINE Splits(T) == \A z \in T : SumFunctionOnSet(f, T) = f[z] + SumFunctionOnSet(f, T \ {z})
           N == {n \in Nat : \A T \in SUBSET S : Cardinality(T) = n => Splits(T)}
<1>1. ASSUME NEW T \in SUBSET S
      PROVE  /\ IsFiniteSet(T) /\ Cardinality(T) \in Nat /\ SumFunctionOnSet(f, T) \in Int
             /\ \A z \in T : Cardinality(T \ {z}) = Cardinality(T) - 1
  <2>1. IsFiniteSet(T) /\ \A y \in T : f[y] \in Int
    BY FS_Subset
  <2> QED
    BY <2>1, FS_CardinalityType, FS_RemoveElement, SumInt
<1>2. 0 \in N
  <2>1. ASSUME NEW T \in SUBSET S, Cardinality(T) = 0 PROVE T = {}
    BY <1>1, <2>1, FS_EmptySet
  <2> QED
    BY <2>1
<1>3. ASSUME NEW n \in N PROVE n + 1 \in N
  <2> SUFFICES ASSUME NEW T \in SUBSET S, Cardinality(T) = n + 1, NEW z \in T
               PROVE  SumFunctionOnSet(f, T) = f[z] + SumFunctionOnSet(f, T \ {z})
    BY <1>3
  <2> DEFINE p == Pick(T)
  <2>1. p \in T /\ SumFunctionOnSet(f, T) = f[p] + SumFunctionOnSet(f, T \ {p})
    BY <1>1, PickIn, SumEquation
  <2> HIDE DEF p
  <2>2. CASE z = p
    BY <2>1, <2>2
  <2>3. CASE z # p
    <3> DEFINE P == T \ {p}  Z == T \ {z}  R == P \ {z}
    <3>1. P \in SUBSET S /\ Z \in SUBSET S /\ R \in SUBSET S /\ z \in P /\ p \in Z /\ R = Z \ {p}
      BY <2>1, <2>3
    <3>2. Cardinality(P) = n /\ Cardinality(Z) = n
      BY <1>1, <1>3, <2>1
    <3> HIDE DEF P, Z, R
    <3>3. Splits(P) /\ Splits(Z)
      BY <1>3, <3>1, <3>2
    <3> HIDE DEF N
    <3>4. SumFunctionOnSet(f, P) = f[z] + SumFunctionOnSet(f, R)
      BY <3>1, <3>3 DEF R
    <3>5. SumFunctionOnSet(f, Z) = f[p] + SumFunctionOnSet(f, R)
      BY <3>1, <3>3
    <3>6. f[p] \in Int /\ f[z] \in Int /\ SumFunctionOnSet(f, R) \in Int
      BY <1>1, <2>1, <3>1
    <3>7. SumFunctionOnSet(f, T) = f[p] + SumFunctionOnSet(f, P)
      BY <2>1 DEF P
    <3>8. SumFunctionOnSet(f, T) = f[z] + SumFunctionOnSet(f, Z)
      BY <3>4, <3>5, <3>6, <3>7
    <3> QED
      BY <3>8 DEF Z
  <2> QED
    BY <2>2, <2>3
<1>4. N = Nat
  <2>1. N \subseteq Nat
    OBVIOUS
  <2> HIDE DEF N
  <2> QED
    BY <1>2, <1>3, <2>1, NaturalSteps
<1>5. Splits(S)
  BY <1>1, <1>4
<1> QED
  BY <1>5

\* Equal summands are multiplied.
LEMMA SumOfEquals ==
  ASSUME NEW S, IsFiniteSet(S), NEW c \in Int, NEW f, \A x \in S : f[x] = c
  PROVE  SumFunctionOnSet(f, S) = Cardinality(S) * c
<1> DEFINE P == {T \in SUBSET S : SumFunctionOnSet(f, T) = Cardinality(T) * c}
<1>1. \A T \in SUBSET S : IsFiniteSet(T) /\ Cardinality(T) \in Nat
  BY FS_Subset, FS_CardinalityType
<1>2. {} \in P
  BY SumEmpty, FS_EmptySet
<1>3. ASSUME NEW T \in SUBSET S, T # {}, T \ {Pick(T)} \in P PROVE T \in P
  <2> DEFINE R == T \ {Pick(T)}  n == Cardinality(R)
  <2>1. SumFunctionOnSet(f, T) = c + SumFunctionOnSet(f, R)
    BY <1>1, <1>3, SumEquation, PickIn
  <2>2. n \in Nat /\ Cardinality(T) = n + 1
    BY <1>1, <1>3, PickIn, FS_RemoveElement
  <2>3. SumFunctionOnSet(f, R) = n * c
    BY <1>3
  <2> HIDE DEF R, n
  <2>4. c + n * c = (n + 1) * c
    BY <2>2
  <2> QED
    BY <2>1, <2>2, <2>3, <2>4
<1> HIDE DEF P
<1>4. S \in P
  BY <1>2, <1>3, SubsetSteps
<1> QED
  BY <1>4 DEF P

=============================================================================
