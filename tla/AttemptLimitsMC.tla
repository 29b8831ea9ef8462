---------------------------- MODULE AttemptLimitsMC --------------------------
(* Instances of AttemptLimits for TLC. *)
EXTENDS AttemptLimits

CONSTANTS w1, w2

=============================================================================
