----------------------------- MODULE TxRecoveryMC -----------------------------
(* Instances of TxRecovery for TLC. *)
EXTENDS TxRecovery, TLC

CONSTANTS j1, j2

JobSymmetry == Permutations(Jobs)

=============================================================================
