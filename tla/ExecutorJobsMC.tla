---------------------------- MODULE ExecutorJobsMC ----------------------------
(* Instances of ExecutorJobs for TLC. *)
EXTENDS ExecutorJobs, TLC

CONSTANTS s1, s2, j1, j2, j3, w1

OneWallet == [s \in Strategies |-> w1]

\* every job belongs to the only strategy
AllJobsS1 == [j \in Jobs |-> s1]

\* j1 and j2 may be jobs of s1 and s2, which share a wallet
JobPerStrategy == (j1 :> s1) @@ (j2 :> s2)

JobSymmetry == Permutations(Jobs)

=============================================================================
